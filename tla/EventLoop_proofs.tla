-------------------------- MODULE EventLoop_proofs --------------------------
(***************************************************************************)
(* What holds of the event loop whatever agents, humans and judge do, for  *)
(* any number of lines, turns and processes.                               *)
(*                                                                         *)
(* The argument: LoopState says of guidance, cancel events and topics what *)
(* the lines read say of them (DebtIsKnown, CancelIsKnown, SeenIsRead), as *)
(* the log only grows and is read front to back; the gates therefore speak *)
(* of those lines, and nothing is read between the gates and the judge's   *)
(* verdict (GatesPassed); and each claim is settled before the next is     *)
(* read (ClaimsCounted, TurnIsClean, ClaimIsLast).                         *)
(***************************************************************************)
EXTENDS EventLoop, TLAPS, FiniteSetTheorems, SequenceTheorems, WellFoundedInduction

\* < on the naturals, as the relation the library's theorem speaks of.
LEMMA LessThanPairs == \A x, y \in Nat : y < x => <<y, x>> \in OpToRel(<, Nat)
BY DEF OpToRel

\* The lines of a read have a last one: 0 .. n is well-founded from above.
LEMMA HasLast ==
  ASSUME NEW n \in Nat, NEW S \in SUBSET (1 .. n), S # {}
  PROVE  \E m \in S : \A i \in S : i <= m
<1> DEFINE T == {n - i : i \in S}
<1>1. \A i \in S : i \in 1 .. n /\ n - i \in Nat
  OBVIOUS
<1>2. T \subseteq Nat
  BY <1>1
<1>3. T # {}
  OBVIOUS
<1>4. PICK x \in T : \A y \in T : ~ (<<y, x>> \in OpToRel(<, Nat))
  <2> HIDE DEF T
  <2>1. QED BY ONLY <1>2, <1>3, NatLessThanWellFounded, WFMin
<1>5. \A y \in T : ~(y < x)
  <2> HIDE DEF T
  <2>1. QED BY ONLY <1>2, <1>4, LessThanPairs
<1>6. PICK m \in S : x = n - m
  OBVIOUS
<1>7. ASSUME NEW i \in S
      PROVE  i <= m
  <2>1. n - i \in T
    OBVIOUS
  <2>2. ~(n - i < n - m)
    BY <1>5, <1>6, <2>1
  <2>3. QED
    BY ONLY <2>2, <1>1, i \in S, m \in S, n \in Nat
<1>8. QED
  BY <1>7

\* A set of lines of the log is finite.
LEMMA LinesAreFinite ==
  ASSUME TypeOK, NEW B \in SUBSET DOMAIN file
  PROVE  IsFiniteSet(B) /\ Cardinality(B) \in Nat
<1>1. DOMAIN file = 1 .. Len(file) /\ Len(file) \in Nat
  BY DEF TypeOK
<1>2. IsFiniteSet(1 .. Len(file))
  BY <1>1, FS_Interval
<1>3. QED
  BY <1>1, <1>2, FS_Subset, FS_CardinalityType

\* A read takes up one claim or none.
LEMMA ClaimsAreCounted ==
  ASSUME NEW B
  PROVE  /\ ClaimsMade(B) \in Nat
         /\ Claims(B) => ClaimsMade(B) = 1
         /\ ~Claims(B) => ClaimsMade(B) = 0
BY DEF ClaimsMade

\* What process_parse_result makes of any lines is a loop state.
LEMMA ProcessTypes ==
  ASSUME TypeOK, NEW s \in LoopStates, NEW B \in SUBSET DOMAIN file
  PROVE  Process(s, B) \in LoopStates
<1>1. DOMAIN file = 1 .. Len(file) /\ Len(file) \in Nat
  BY DEF TypeOK
<1>2. \A i \in B : file[i] \in Lines
  BY <1>1 DEF TypeOK
<1>3. \A i \in B : Validated(file[i]) \in Lines \cup {"build.done", "build.blocked"}
  BY <1>2 DEF Validated, Topic
<1>4. Published(B) \subseteq B
  BY DEF Published, Events
<1>5. Malformed(s, B) \in Nat
  <2> DEFINE bad == {i \in B : file[i] = "garbage"}
  <2>1. Cardinality(bad) \in Nat
    <3> bad \in SUBSET DOMAIN file
      OBVIOUS
    <3> HIDE DEF bad
    <3>1. QED BY LinesAreFinite
  <2>2. QED
    BY <2>1 DEF Malformed, LoopStates
<1>6. Streak(s, B) \in Nat
  <2>1. Repeats(B) \in SUBSET DOMAIN file
    BY <1>4 DEF Repeats
  <2>2. Cardinality(Repeats(B)) \in Nat
    BY <2>1, LinesAreFinite
  <2>3. QED
    BY <2>2 DEF Streak, LoopStates
<1>7. Published(B) # {} => LastTopic(B) \in Lines \cup {"build.done", "build.blocked"}
  <2>1. SUFFICES ASSUME Published(B) # {}
                 PROVE  LastTopic(B) \in Lines \cup {"build.done", "build.blocked"}
    OBVIOUS
  <2>2. Published(B) \in SUBSET (1 .. Len(file))
    BY <1>1, <1>4
  <2>3. \E m \in Published(B) : \A j \in Published(B) : j <= m
    BY <1>1, <2>1, <2>2, HasLast
  <2>4. (CHOOSE m \in Published(B) : \A j \in Published(B) : j <= m) \in B
    BY <2>3, <1>4
  <2>5. QED
    BY <2>4, <1>3 DEF LastTopic
<1>8. {Validated(file[i]) : i \in Published(B)}
         \subseteq Lines \cup {"build.done", "build.blocked"}
  BY <1>3, <1>4
<1>9. Claims(B) \in BOOLEAN /\ Cancels(B) \in BOOLEAN /\ Owes(s.owed, B) \in BOOLEAN
  BY DEF Claims, Cancels, Owes
<1>10. QED
  <2> DEFINE claimed == s.claimed \/ Claims(B)
             cancelled == s.cancelled \/ Cancels(B)
             owed == Owes(s.owed, B)
             seen == s.seen \cup {Validated(file[i]) : i \in Published(B)}
             last == IF Published(B) = {} THEN s.last ELSE LastTopic(B)
             malformed == Malformed(s, B)
             streak == Streak(s, B)
  <2>1. seen \subseteq Lines \cup {"build.done", "build.blocked"}
    BY <1>8 DEF LoopStates
  <2>2. last \in Lines \cup {"build.done", "build.blocked", "none"}
    BY <1>7 DEF LoopStates
  <2>3. claimed \in BOOLEAN /\ cancelled \in BOOLEAN /\ owed \in BOOLEAN
    BY <1>9
  <2>4. malformed \in Nat /\ streak \in Nat
    BY <1>5, <1>6
  <2>5. Process(s, B) =
          [s EXCEPT !.malformed = malformed, !.claimed = claimed,
                    !.cancelled = cancelled, !.owed = owed, !.seen = seen,
                    !.last = last, !.streak = streak]
    BY DEF Process
  <2> HIDE DEF claimed, cancelled, owed, seen, last, malformed, streak
  <2>6. QED
    BY <2>1, <2>2, <2>3, <2>4, <2>5 DEF LoopStates

\* A new process begins with a loop state.
LEMMA FreshTypes ==
  ASSUME NEW n \in 0 .. MaxIterations
  PROVE  Fresh(n) \in LoopStates
BY EventLoopAssumption DEF Fresh, LoopStates

\* The first process starts with nothing read, claimed or owed.
LEMMA Initially == Init => IInv
<1> SUFFICES ASSUME Init
             PROVE  IInv
  OBVIOUS
<1>1. Fresh(0) \in LoopStates
  BY FreshTypes, EventLoopAssumption
<1>2. TypeOK
  <2>1. file \in Seq(Lines) /\ Len(file) = 1
    BY DEF Init, Lines
  <2>2. st \in LoopStates
    BY <1>1 DEF Init
  <2>3. saved \in 0 .. MaxIterations
    BY EventLoopAssumption DEF Init
  <2>4. /\ stop \in BOOLEAN /\ open \in BOOLEAN
        /\ pending \in BOOLEAN /\ promised \in BOOLEAN
    BY Zenon DEF Init
  <2>5. /\ pos \in 0 .. Len(file) /\ sessions \in Nat \ {0} /\ claims \in Nat
        /\ read \subseteq 1 .. pos
    BY <2>1 DEF Init
  <2>6. /\ pc = "top" /\ site = "turn" /\ reason = "none"
    BY DEF Init
  <2>7. QED
    BY <2>1, <2>2, <2>3, <2>4, <2>5, <2>6, Zenon DEF TypeOK
<1>3. QED
  BY <1>2, EventLoopAssumption
     DEF Init, IInv, Fresh, Completed, TurnIsAllowed, OverLimit, StartsLater,
         NoReasonYet, DebtIsKnown, CancelIsKnown, SeenIsRead, GatesPassed,
         ClaimsCounted, TurnIsClean, ClaimIsLast

----------------------------------------------------------------------------
(***************************************************************************)
(* The log only grows.                                                     *)
(***************************************************************************)
Grown == /\ file' \in Seq(Lines)
         /\ Len(file) <= Len(file')
         /\ \A i \in 1 .. Len(file) : file'[i] = file[i]

\* Each line goes behind those that are there.
LEMMA AppendGrows ==
  ASSUME NEW f \in Seq(Lines), NEW line \in Lines
  PROVE  /\ Append(f, line) \in Seq(Lines)
         /\ Len(Append(f, line)) = Len(f) + 1
         /\ \A i \in 1 .. Len(f) : Append(f, line)[i] = f[i]
OBVIOUS

\* No step takes a line of the event log away or changes it.
LEMMA LogGrows == TypeOK /\ [Next]_vars => Grown
<1> SUFFICES ASSUME TypeOK, [Next]_vars
             PROVE  Grown
  OBVIOUS
<1>1. file \in Seq(Lines) /\ AgentLines \subseteq Lines
  BY EventLoopAssumption DEF TypeOK
<1>2. {"guidance", "summary", "terminate", "start"} \subseteq Lines
  BY DEF Lines
<1>3. CASE file' = file
  BY <1>1, <1>3 DEF Grown
<1>4. CASE \E line \in Lines : file' = Append(file, line)
  BY <1>1, <1>4, AppendGrows DEF Grown
<1>5. CASE file' = Append(Append(file, "summary"), "terminate")
  <2>1. Append(file, "summary") \in Seq(Lines)
    BY <1>1, <1>2, AppendGrows
  <2>2. QED
    BY <1>1, <1>2, <1>5, <2>1, AppendGrows DEF Grown
<1>6. \/ file' = file
      \/ \E line \in Lines : file' = Append(file, line)
      \/ file' = Append(Append(file, "summary"), "terminate")
  <2>1. CASE EndAtTop        BY <2>1, <1>2 DEF EndAtTop, End
  <2>2. CASE StopAtTop       BY <2>2, <1>2 DEF StopAtTop, End
  <2>3. CASE StartTurn       BY <2>3 DEF StartTurn, disk
  <2>4. CASE NothingPending  BY <2>4 DEF NothingPending, disk
  <2>5. CASE AgentEnds       BY <2>5, <1>2 DEF AgentEnds, End
  <2>6. CASE Read            BY <2>6 DEF Read, disk
  <2>7. CASE NoClaim         BY <2>7 DEF NoClaim, disk
  <2>8. CASE Cancel          BY <2>8, <1>2 DEF Cancel, End
  <2>9. CASE Refuse          BY <2>9 DEF Refuse, disk
  <2>10. CASE AcceptUnjudged BY <2>10, <1>2 DEF AcceptUnjudged, End
  <2>11. CASE AskJudge       BY <2>11 DEF AskJudge, disk
  <2>12. CASE JudgeAccepts   BY <2>12, <1>2 DEF JudgeAccepts, End
  <2>13. CASE JudgeRejects   BY <2>13 DEF JudgeRejects, disk
  <2>14. CASE LogStart       BY <2>14, <1>2 DEF LogStart
  <2>15. CASE Emit           BY <2>15, <1>1 DEF Emit
  <2>16. CASE Guide          BY <2>16, <1>2 DEF Guide
  <2>17. CASE AskStop        BY <2>17 DEF AskStop
  <2>18. CASE Crash          BY <2>18 DEF Crash, disk
  <2>19. CASE Replay         BY <2>19 DEF Replay, disk
  <2>20. CASE UNCHANGED vars BY <2>20 DEF vars
  <2>21. QED
    BY <2>1, <2>2, <2>3, <2>4, <2>5, <2>6, <2>7, <2>8, <2>9, <2>10, <2>11,
       <2>12, <2>13, <2>14, <2>15, <2>16, <2>17, <2>18, <2>19, <2>20
       DEF Next, Step
<1>7. QED
  BY <1>3, <1>4, <1>5, <1>6

----------------------------------------------------------------------------
(***************************************************************************)
(* Type correctness.  TurnIsAllowed is needed: the iteration of a turn is  *)
(* counted when it ends.                                                   *)
(***************************************************************************)

\* Going on from a check keeps the types.
LEMMA GoOnTypes ==
  ASSUME TypeOK, NEW s \in LoopStates, NEW more \in BOOLEAN, GoOn(s, more)
  PROVE  /\ st' \in LoopStates
         /\ pc' \in {"top", "reading", "checking"}
         /\ site' \in {"turn", "emit", "late", "text"}
         /\ pending' \in BOOLEAN
         /\ promised' \in BOOLEAN
         /\ claims' \in Nat
<1> USE DEF TypeOK
<1>1. CASE FallBack(more) /\ st' = s   BY <1>1 DEF FallBack
<1>2. CASE PollAgain(more) /\ st' = s  BY <1>2 DEF PollAgain
<1>3. CASE TextClaim(more) /\ st' = [s EXCEPT !.claimed = TRUE]
  <2>1. [s EXCEPT !.claimed = TRUE] \in LoopStates
    BY ONLY s \in LoopStates DEF LoopStates
  <2>2. claims' \in Nat
    BY <1>3 DEF TextClaim
  <2>3. QED
    BY <1>3, <2>1, <2>2, Zenon DEF TextClaim
<1>4. CASE EndOfTurn(more) /\ st' = s  BY <1>4 DEF EndOfTurn
<1>5. QED
  BY <1>1, <1>2, <1>3, <1>4 DEF GoOn

\* Types are kept.  The iteration stays within max_iterations because a
\* turn is taken below it and counted once, when the agent ends.
LEMMA TypeStep == TypeOK /\ TurnIsAllowed /\ [Next]_vars => TypeOK'
<1> SUFFICES ASSUME TypeOK, TurnIsAllowed, [Next]_vars
             PROVE  TypeOK'
  OBVIOUS
<1>1. /\ file' \in Seq(Lines)
      /\ Len(file) \in Nat
      /\ Len(file') \in Nat
      /\ Len(file) <= Len(file')
      /\ DOMAIN file = 1 .. Len(file)
      /\ DOMAIN file' = 1 .. Len(file')
  BY LogGrows DEF Grown, TypeOK
<1>2. pos \in 0 .. Len(file')
  BY <1>1 DEF TypeOK
<1> USE DEF TypeOK, disk, aux
<1>3. CASE EndAtTop        BY <1>1, <1>2, <1>3 DEF EndAtTop, End
<1>4. CASE StopAtTop       BY <1>1, <1>2, <1>4 DEF StopAtTop, End
<1>5. CASE StartTurn       BY <1>1, <1>2, <1>5 DEF StartTurn
<1>6. CASE NothingPending  BY <1>1, <1>2, <1>6 DEF NothingPending
<1>7. CASE AgentEnds
  <2>1. PICK ok \in BOOLEAN : st' = AfterTurn(ok) /\ saved' = st'.iteration
    BY <1>7 DEF AgentEnds
  <2>2. st.iteration + 1 \in 0 .. MaxIterations
    BY <1>7, EventLoopAssumption DEF AgentEnds, TurnIsAllowed, OverLimit, LoopStates
  <2>3. AfterTurn(TRUE) \in LoopStates /\ AfterTurn(FALSE) \in LoopStates
    <3>1. \A n \in 0 .. MaxIterations, f \in Nat :
             [st EXCEPT !.iteration = n, !.failures = f] \in LoopStates
      BY ONLY st \in LoopStates DEF LoopStates
    <3>2. st.failures + 1 \in Nat
      BY ONLY st \in LoopStates DEF LoopStates
    <3>3. 0 \in Nat
      OBVIOUS
    <3>4. QED
      BY ONLY <2>2, <3>1, <3>2, <3>3, Zenon DEF AfterTurn
  <2>4. st' \in LoopStates /\ st'.iteration \in 0 .. MaxIterations
    BY ONLY <2>1, <2>3 DEF LoopStates
  <2>5. QED
    BY <1>1, <1>2, <1>7, <2>1, <2>4 DEF AgentEnds, End
<1>8. CASE Read
  <2>1. Unread \in SUBSET DOMAIN file
    BY <1>1 DEF Unread
  <2>2. st' \in LoopStates
    BY <1>8, <2>1, ProcessTypes DEF Read
  <2>3. claims' \in Nat
    BY <1>8, ClaimsAreCounted DEF Read
  <2>4. Publishes(Unread) \in BOOLEAN
    BY DEF Publishes
  <2>5. read' \subseteq 1 .. pos'
    <3>1. /\ read' = read \cup Unread
          /\ pos' = Len(file)
          /\ pos \in 0 .. Len(file)
          /\ read \subseteq 1 .. pos
      BY <1>8 DEF Read
    <3>2. \A i \in read : i \in 1 .. Len(file)
      BY ONLY <1>1, <3>1
    <3>3. \A i \in Unread : i \in 1 .. Len(file)
      BY ONLY <1>1, <3>1 DEF Unread
    <3>4. QED
      BY ONLY <3>1, <3>2, <3>3, Zenon
  <2>6. QED
    BY <1>1, <1>2, <1>8, <2>1, <2>2, <2>3, <2>4, <2>5 DEF Read
<1>9. CASE NoClaim
  BY <1>1, <1>2, <1>9, GoOnTypes DEF NoClaim
<1>10. CASE Cancel
  BY <1>1, <1>2, <1>10 DEF Cancel, End, LoopStates
<1>11. CASE Refuse
  <2>1. Settled \in LoopStates
    BY ONLY st \in LoopStates DEF Settled, LoopStates
  <2>2. QED
    BY <1>1, <1>2, <1>11, <2>1, GoOnTypes DEF Refuse
<1>12. CASE AcceptUnjudged
  BY <1>1, <1>2, <1>12 DEF AcceptUnjudged, End, Settled, LoopStates
<1>13. CASE AskJudge
  <2>1. Settled \in LoopStates /\ Settled.iteration = st.iteration
    BY ONLY st \in LoopStates DEF Settled, LoopStates
  <2>2. QED
    BY <1>1, <1>2, <1>13, <2>1 DEF AskJudge
<1>14. CASE JudgeAccepts   BY <1>1, <1>2, <1>14 DEF JudgeAccepts, End
<1>15. CASE JudgeRejects
  <2>1. [st EXCEPT !.rejections = @ + 1] \in LoopStates
    BY ONLY st \in LoopStates DEF LoopStates
  <2>2. QED
    BY <1>1, <1>2, <1>15, <2>1, GoOnTypes DEF JudgeRejects
<1>16. CASE LogStart       BY <1>1, <1>2, <1>16 DEF LogStart
<1>17. CASE Emit           BY <1>1, <1>2, <1>17 DEF Emit
<1>18. CASE Guide          BY <1>1, <1>2, <1>18 DEF Guide
<1>19. CASE AskStop        BY <1>1, <1>2, <1>19 DEF AskStop
<1>20. CASE Crash
  <2>1. Fresh(0) \in LoopStates
    BY FreshTypes, EventLoopAssumption
  <2>2. /\ pos' = 0 /\ read' = {} /\ claims' = 0 /\ st' = Fresh(0)
        /\ pc' = "down" /\ site' = "turn"
        /\ pending' = FALSE /\ promised' = FALSE
        /\ UNCHANGED <<file, saved, stop, open, reason, sessions>>
    BY <1>20 DEF Crash
  <2>3. pos' \in 0 .. Len(file') /\ claims' \in Nat /\ read' \subseteq 1 .. pos'
    BY ONLY <1>1, <2>2
  <2>4. QED
    BY <1>1, <1>2, <2>1, <2>2, <2>3, Zenon
<1>21. CASE Replay
  <2> DEFINE known == {Topic(file[i]) : i \in {j \in DOMAIN file : file[j] # "garbage"}}
  <2>1. known \subseteq Lines \cup {"build.done", "build.blocked"}
    BY <1>1 DEF Topic
  <2>2. Fresh(saved) \in LoopStates
    BY FreshTypes
  <2>3. [Fresh(saved) EXCEPT !.seen = known] \in LoopStates
    <3> HIDE DEF known
    <3>1. QED BY <2>1, <2>2 DEF LoopStates
  <2>4. Replayed \in SUBSET DOMAIN file
    BY Zenon DEF Replayed
  <2>5. st' \in LoopStates
    BY <1>21, <2>3, <2>4, ProcessTypes DEF Replay
  <2>6. claims' \in Nat
    BY <1>21, ClaimsAreCounted DEF Replay
  <2>7. read' \subseteq 1 .. pos'
    BY <1>1, <1>21, <2>4 DEF Replay
  <2>8. sessions' \in Nat \ {0}
    BY <1>21 DEF Replay
  <2>9. pos' \in 0 .. Len(file')
    BY <1>1, <1>21 DEF Replay
  <2>10. QED
    BY <1>1, <1>21, <2>5, <2>6, <2>7, <2>8, <2>9, Zenon DEF Replay
<1>22. CASE UNCHANGED vars
  BY <1>1, <1>2, <1>22 DEF vars
<1>23. QED
  BY <1>3, <1>4, <1>5, <1>6, <1>7, <1>8, <1>9, <1>10, <1>11, <1>12, <1>13,
     <1>14, <1>15, <1>16, <1>17, <1>18, <1>19, <1>20, <1>21, <1>22
     DEF Next, Step

----------------------------------------------------------------------------
(***************************************************************************)
(* What the steps do to the loop state.                                    *)
(***************************************************************************)

\* What reading B does to the flags of LoopState, one by one.
LEMMA ProcessFields ==
  ASSUME NEW s \in LoopStates, NEW B
  PROVE  /\ Process(s, B).owed = Owes(s.owed, B)
         /\ Process(s, B).cancelled = (s.cancelled \/ Cancels(B))
         /\ Process(s, B).claimed = (s.claimed \/ Claims(B))
         /\ Process(s, B).seen =
                s.seen \cup {Validated(file[i]) : i \in Published(B)}
         /\ Process(s, B).rejections = s.rejections
BY DEF Process, LoopStates

\* What settling a claim does to LoopState: it drops the claim only.
LEMMA SettledFields ==
  ASSUME TypeOK
  PROVE  /\ Settled \in LoopStates
         /\ Settled.claimed = FALSE
         /\ Settled.owed = st.owed
         /\ Settled.cancelled = st.cancelled
         /\ Settled.seen = st.seen
         /\ Settled.rejections = st.rejections
BY DEF Settled, TypeOK, LoopStates

\* Going on from a check takes up no claim but the one in the output text.
LEMMA GoOnKeeps ==
  ASSUME TypeOK, NEW s \in LoopStates, NEW more, GoOn(s, more)
  PROVE  /\ st'.owed = s.owed
         /\ st'.cancelled = s.cancelled
         /\ st'.seen = s.seen
         /\ st'.rejections = s.rejections
         /\ \/ /\ st' = s
               /\ claims' = claims
               /\ \/ pc' = "top"
                  \/ pc' = "reading" /\ site' \in {"late", "emit"}
            \/ /\ claims' = claims + 1
               /\ pc' = "checking"
               /\ site' = "text"
<1>1. CASE FallBack(more) /\ st' = s   BY <1>1 DEF FallBack
<1>2. CASE PollAgain(more) /\ st' = s  BY <1>2 DEF PollAgain
<1>3. CASE TextClaim(more) /\ st' = [s EXCEPT !.claimed = TRUE]
  BY <1>3 DEF TextClaim, LoopStates
<1>4. CASE EndOfTurn(more) /\ st' = s  BY <1>4 DEF EndOfTurn
<1>5. QED
  BY <1>1, <1>2, <1>3, <1>4 DEF GoOn

\* Only these three change what was read, or the loop state with it.
LEMMA WhatIsRead ==
  ASSUME TypeOK, [Next]_vars, ~Read, ~Crash, ~Replay
  PROVE  /\ read' = read
         /\ sessions' = sessions
         /\ st'.owed = st.owed
         /\ st'.seen = st.seen
         /\ \/ st'.cancelled = st.cancelled /\ Running
            \/ st'.cancelled = st.cancelled /\ reason' = reason
            \/ reason' = "cancelled"
<1> USE DEF disk, aux, Running
<1>1. CASE EndAtTop        BY <1>1 DEF EndAtTop, End
<1>2. CASE StopAtTop       BY <1>2 DEF StopAtTop, End
<1>3. CASE StartTurn       BY <1>3 DEF StartTurn
<1>4. CASE NothingPending  BY <1>4 DEF NothingPending
<1>5. CASE AgentEnds
  <2>1. PICK ok \in BOOLEAN : st' = AfterTurn(ok)
    BY <1>5 DEF AgentEnds
  <2>2. st'.owed = st.owed /\ st'.seen = st.seen /\ st'.cancelled = st.cancelled
    BY <2>1 DEF AfterTurn, TypeOK, LoopStates
  <2>3. read' = read /\ sessions' = sessions
    BY <1>5 DEF AgentEnds
  <2>4. Running
    BY <1>5 DEF AgentEnds
  <2>5. QED
    BY <2>2, <2>3, <2>4
<1>6. CASE NoClaim
  <2>1. st \in LoopStates
    BY DEF TypeOK
  <2>2. QED
    BY <1>6, <2>1, GoOnKeeps DEF NoClaim
<1>7. CASE Cancel
  BY <1>7 DEF Cancel, End, TypeOK, LoopStates
<1>8. CASE Refuse
  BY <1>8, SettledFields, GoOnKeeps DEF Refuse
<1>9. CASE AcceptUnjudged
  BY <1>9, SettledFields DEF AcceptUnjudged, End
<1>10. CASE AskJudge
  BY <1>10, SettledFields DEF AskJudge
<1>11. CASE JudgeAccepts   BY <1>11 DEF JudgeAccepts, End
<1>12. CASE JudgeRejects
  <2> DEFINE s == [st EXCEPT !.rejections = @ + 1]
  <2>1. /\ s \in LoopStates
        /\ s.owed = st.owed /\ s.seen = st.seen /\ s.cancelled = st.cancelled
    BY DEF TypeOK, LoopStates
  <2>2. GoOn(s, TRUE) /\ UNCHANGED <<read, sessions, reason>>
    BY <1>12 DEF JudgeRejects
  <2> HIDE DEF s
  <2>3. QED
    BY <2>1, <2>2, GoOnKeeps
<1>13. CASE LogStart       BY <1>13 DEF LogStart
<1>14. CASE Emit           BY <1>14 DEF Emit
<1>15. CASE Guide          BY <1>15 DEF Guide
<1>16. CASE AskStop        BY <1>16 DEF AskStop
<1>17. CASE UNCHANGED vars BY <1>17 DEF vars
<1>18. QED
  BY <1>1, <1>2, <1>3, <1>4, <1>5, <1>6, <1>7, <1>8, <1>9, <1>10, <1>11,
     <1>12, <1>13, <1>14, <1>15, <1>16, <1>17 DEF Next, Step

----------------------------------------------------------------------------
(***************************************************************************)
(* The loop state agrees with what was read.                               *)
(***************************************************************************)

\* What is read is in the log, and stays as it is.
LEMMA ReadIsInLog ==
  ASSUME TypeOK, [Next]_vars
  PROVE  /\ DOMAIN file = 1 .. Len(file)
         /\ Len(file) \in Nat
         /\ pos \in Nat
         /\ pos <= Len(file)
         /\ \A i \in read : i \in Nat /\ i <= pos
         /\ \A i \in read : i \in DOMAIN file
         /\ \A i \in Unread : i \in Nat /\ pos < i /\ i \in DOMAIN file
         /\ \A i \in DOMAIN file : i \in DOMAIN file' /\ file'[i] = file[i]
<1>1. /\ DOMAIN file = 1 .. Len(file)
      /\ Len(file) \in Nat
      /\ pos \in 0 .. Len(file)
      /\ read \subseteq 1 .. pos
  BY DEF TypeOK
<1>2. /\ \A i \in read : i \in Nat /\ i <= pos
      /\ \A i \in read : i \in DOMAIN file
  BY ONLY <1>1
<1>3. \A i \in Unread : i \in Nat /\ pos < i /\ i \in DOMAIN file
  BY ONLY <1>1 DEF Unread
<1>4. /\ DOMAIN file' = 1 .. Len(file')
      /\ Len(file) <= Len(file') /\ Len(file') \in Nat
      /\ \A i \in 1 .. Len(file) : file'[i] = file[i]
  BY LogGrows DEF Grown
<1>5. \A i \in DOMAIN file : i \in DOMAIN file' /\ file'[i] = file[i]
  BY ONLY <1>1, <1>4
<1>6. QED
  BY <1>1, <1>2, <1>3, <1>5

\* Guidance that is read makes a debt, and only a later line settles it:
\* lines of one read by their order, earlier ones because they are earlier.
LEMMA DebtStep == TypeOK /\ DebtIsKnown /\ [Next]_vars => DebtIsKnown'
<1> SUFFICES ASSUME TypeOK, DebtIsKnown, [Next]_vars, ~st'.owed,
                    NEW i \in read', file'[i] = "guidance"
             PROVE  \E j \in read' : j > i /\ file'[j] = "ack"
  BY DEF DebtIsKnown
<1>1. st \in LoopStates
  BY DEF TypeOK
<1>2. CASE Read
  <2>1. /\ read' = read \cup Unread
        /\ file' = file
        /\ ~Owes(st.owed, Unread)
    BY <1>1, <1>2, ProcessFields DEF Read, disk
  <2>2. CASE i \in Unread
    BY <2>1, <2>2 DEF Owes
  <2>3. CASE i \in read /\ st.owed
    <3>1. PICK j \in Unread : file[j] = "ack"
      BY <2>1, <2>3 DEF Owes
    <3>2. j > i
      BY <2>3, <3>1, ReadIsInLog
    <3>3. QED
      BY <2>1, <3>1, <3>2
  <2>4. CASE i \in read /\ ~st.owed
    BY <2>1, <2>4 DEF DebtIsKnown
  <2>5. QED
    BY <2>1, <2>2, <2>3, <2>4
<1>3. CASE Crash
  BY <1>3 DEF Crash
<1>4. CASE Replay
  <2> DEFINE known == {Topic(file[k]) : k \in {j \in DOMAIN file : file[j] # "garbage"}}
             s == [Fresh(saved) EXCEPT !.seen = known]
  <2>1. /\ read' = Replayed
        /\ file' = file
        /\ st' = Process(s, Replayed)
    BY <1>4 DEF Replay, disk
  <2>2. Process(s, Replayed).owed = Owes(s.owed, Replayed)
    BY DEF Process, Fresh
  <2>3. ~Owes(s.owed, Replayed)
    BY <2>1, <2>2
  <2>4. QED
    BY <2>1, <2>3 DEF Owes
<1>5. CASE ~Read /\ ~Crash /\ ~Replay
  <2>1. i \in read /\ ~st.owed /\ read' = read
    BY <1>5, WhatIsRead
  <2>2. file[i] = "guidance"
    BY <2>1, ReadIsInLog
  <2>3. PICK j \in read : j > i /\ file[j] = "ack"
    BY <2>1, <2>2 DEF DebtIsKnown
  <2>4. QED
    BY <2>1, <2>3, ReadIsInLog
<1>6. QED
  BY <1>2, <1>3, <1>4, <1>5

\* A cancel event that is read is kept until it ends the process.
LEMMA CancelStep ==
  TypeOK /\ NoReasonYet /\ CancelIsKnown /\ [Next]_vars => CancelIsKnown'
<1> SUFFICES ASSUME TypeOK, NoReasonYet, CancelIsKnown, [Next]_vars,
                    ~st'.cancelled, reason' # "cancelled",
                    NEW i \in read'
             PROVE  file'[i] # "cancel"
  BY DEF CancelIsKnown
<1>1. st \in LoopStates
  BY DEF TypeOK
<1>2. CASE Read
  <2>1. /\ read' = read \cup Unread
        /\ file' = file
        /\ reason' = reason
        /\ ~st.cancelled /\ ~Cancels(Unread)
    BY <1>1, <1>2, ProcessFields DEF Read, disk
  <2>2. CASE i \in Unread
    BY <2>1, <2>2 DEF Cancels
  <2>3. CASE i \in read
    BY <2>1, <2>3 DEF CancelIsKnown
  <2>4. QED
    BY <2>1, <2>2, <2>3
<1>3. CASE Crash
  BY <1>3 DEF Crash
<1>4. CASE Replay
  <2> DEFINE known == {Topic(file[k]) : k \in {j \in DOMAIN file : file[j] # "garbage"}}
             s == [Fresh(saved) EXCEPT !.seen = known]
  <2>1. /\ read' = Replayed
        /\ file' = file
        /\ st' = Process(s, Replayed)
    BY <1>4 DEF Replay, disk
  <2>2. Process(s, Replayed).cancelled = (s.cancelled \/ Cancels(Replayed))
    BY DEF Process, Fresh
  <2>3. ~Cancels(Replayed)
    BY <2>1, <2>2
  <2>4. QED
    BY <2>1, <2>3 DEF Cancels
<1>5. CASE ~Read /\ ~Crash /\ ~Replay
  <2>1. read' = read
    BY <1>5, WhatIsRead
  <2>2. CASE st'.cancelled = st.cancelled /\ reason' = reason
    BY <2>1, <2>2, ReadIsInLog DEF CancelIsKnown
  <2>3. CASE st'.cancelled = st.cancelled /\ Running
    BY <2>1, <2>3, ReadIsInLog DEF CancelIsKnown, NoReasonYet
  <2>4. QED
    BY <1>5, <2>2, <2>3, WhatIsRead
<1>6. QED
  BY <1>2, <1>3, <1>4, <1>5

\* A topic comes into seen_topics with an event that is read; the topics of
\* the raw log come in with --continue only.
LEMMA SeenStep == TypeOK /\ SeenIsRead /\ [Next]_vars => SeenIsRead'
<1> SUFFICES ASSUME TypeOK, SeenIsRead, [Next]_vars, NEW topic \in st'.seen
             PROVE  \/ \E i \in read' : Validated(file'[i]) = topic
                    \/ /\ sessions' > 1
                       /\ \E i \in DOMAIN file' : Topic(file'[i]) = topic
  BY DEF SeenIsRead
<1>1. st \in LoopStates
  BY DEF TypeOK
<1>2. CASE Read
  <2>1. /\ read' = read \cup Unread
        /\ file' = file
        /\ sessions' = sessions
        /\ topic \in st.seen \cup {Validated(file[i]) : i \in Published(Unread)}
    BY <1>1, <1>2, ProcessFields DEF Read, disk
  <2>2. Published(Unread) \subseteq Unread
    BY DEF Published, Events
  <2>3. CASE topic \in st.seen
    BY <2>1, <2>3 DEF SeenIsRead
  <2>4. CASE \E i \in Unread : topic = Validated(file[i])
    BY <2>1, <2>4
  <2>5. QED
    BY <2>1, <2>2, <2>3, <2>4
<1>3. CASE Crash
  BY <1>3 DEF Crash, Fresh
<1>4. CASE Replay
  <2> DEFINE known == {Topic(file[k]) : k \in {j \in DOMAIN file : file[j] # "garbage"}}
             s == [Fresh(saved) EXCEPT !.seen = known]
  <2>1. /\ read' = Replayed
        /\ file' = file
        /\ sessions' = sessions + 1
        /\ st' = Process(s, Replayed)
    BY <1>4 DEF Replay, disk
  <2>2. Process(s, Replayed).seen =
           known \cup {Validated(file[i]) : i \in Published(Replayed)}
    BY DEF Process, Fresh
  <2>3. Published(Replayed) \subseteq Replayed
    BY DEF Published, Events
  <2>4. sessions' > 1
    BY <2>1 DEF TypeOK
  <2>5. CASE topic \in known
    BY <2>1, <2>4, <2>5
  <2>6. CASE \E i \in Published(Replayed) : topic = Validated(file[i])
    BY <2>1, <2>3, <2>6
  <2>7. QED
    BY <2>1, <2>2, <2>5, <2>6
<1>5. CASE ~Read /\ ~Crash /\ ~Replay
  <2>1. topic \in st.seen /\ read' = read /\ sessions' = sessions
    BY <1>5, WhatIsRead
  <2>2. CASE \E i \in read : Validated(file[i]) = topic
    BY <2>1, <2>2, ReadIsInLog
  <2>3. CASE sessions > 1 /\ \E i \in DOMAIN file : Topic(file[i]) = topic
    BY <2>1, <2>3, ReadIsInLog
  <2>4. QED
    BY <2>1, <2>2, <2>3 DEF SeenIsRead
<1>6. QED
  BY <1>2, <1>3, <1>4, <1>5

----------------------------------------------------------------------------
(***************************************************************************)
(* Where the process is.                                                   *)
(***************************************************************************)

\* check_termination comes before each turn; only End sets the reason.
LEMMA PhaseStep ==
  TypeOK /\ TurnIsAllowed /\ StartsLater /\ NoReasonYet /\ [Next]_vars
    => TurnIsAllowed' /\ StartsLater' /\ NoReasonYet'
<1> SUFFICES ASSUME TypeOK, TurnIsAllowed, StartsLater, NoReasonYet, [Next]_vars
             PROVE  TurnIsAllowed' /\ StartsLater' /\ NoReasonYet'
  OBVIOUS
<1> USE DEF TurnIsAllowed, StartsLater, NoReasonYet, Running, disk, aux
<1>1. CASE EndAtTop        BY <1>1 DEF EndAtTop, End
<1>2. CASE StopAtTop       BY <1>2 DEF StopAtTop, End
<1>3. CASE StartTurn       BY <1>3 DEF StartTurn, OverLimit
<1>4. CASE NothingPending  BY <1>4 DEF NothingPending
<1>5. CASE AgentEnds       BY <1>5 DEF AgentEnds, End
<1>6. CASE Read            BY <1>6 DEF Read
<1>7. CASE NoClaim
  <2>1. st \in LoopStates
    BY DEF TypeOK
  <2>2. QED
    BY <1>7, <2>1, GoOnKeeps DEF NoClaim
<1>8. CASE Cancel          BY <1>8 DEF Cancel, End
<1>9. CASE Refuse          BY <1>9, SettledFields, GoOnKeeps DEF Refuse
<1>10. CASE AcceptUnjudged BY <1>10 DEF AcceptUnjudged, End
<1>11. CASE AskJudge       BY <1>11 DEF AskJudge
<1>12. CASE JudgeAccepts   BY <1>12 DEF JudgeAccepts, End
<1>13. CASE JudgeRejects
  <2>1. [st EXCEPT !.rejections = @ + 1] \in LoopStates
    BY DEF TypeOK, LoopStates
  <2>2. QED
    BY <1>13, <2>1, GoOnKeeps DEF JudgeRejects
<1>14. CASE LogStart       BY <1>14 DEF LogStart
<1>15. CASE Emit           BY <1>15 DEF Emit, OverLimit
<1>16. CASE Guide          BY <1>16 DEF Guide, OverLimit
<1>17. CASE AskStop        BY <1>17 DEF AskStop, OverLimit
<1>18. CASE Crash          BY <1>18 DEF Crash
<1>19. CASE Replay         BY <1>19 DEF Replay, TypeOK
<1>20. CASE UNCHANGED vars BY <1>20 DEF vars, OverLimit
<1>21. QED
  BY <1>1, <1>2, <1>3, <1>4, <1>5, <1>6, <1>7, <1>8, <1>9, <1>10, <1>11,
     <1>12, <1>13, <1>14, <1>15, <1>16, <1>17, <1>18, <1>19, <1>20
     DEF Next, Step

\* Only what passed every gate is judged or completes, and nothing that the
\* judge is waited for is taken back: no line is read meanwhile.
LEMMA GateStep == TypeOK /\ GatesPassed /\ [Next]_vars => GatesPassed'
<1> SUFFICES ASSUME TypeOK, GatesPassed, [Next]_vars
             PROVE  GatesPassed'
  OBVIOUS
<1> USE DEF GatesPassed, Completed, disk, aux
<1>1. CASE EndAtTop        BY <1>1 DEF EndAtTop, End
<1>2. CASE StopAtTop       BY <1>2 DEF StopAtTop, End
<1>3. CASE StartTurn       BY <1>3 DEF StartTurn
<1>4. CASE NothingPending  BY <1>4 DEF NothingPending
<1>5. CASE AgentEnds       BY <1>5 DEF AgentEnds, End
<1>6. CASE Read            BY <1>6 DEF Read
<1>7. CASE NoClaim
  <2>1. st \in LoopStates
    BY DEF TypeOK
  <2>2. QED
    BY <1>7, <2>1, GoOnKeeps DEF NoClaim
<1>8. CASE Cancel          BY <1>8 DEF Cancel, End
<1>9. CASE Refuse          BY <1>9, SettledFields, GoOnKeeps DEF Refuse
<1>10. CASE AcceptUnjudged BY <1>10, SettledFields DEF AcceptUnjudged, Refused
<1>11. CASE AskJudge       BY <1>11, SettledFields DEF AskJudge, Refused
<1>12. CASE JudgeAccepts   BY <1>12 DEF JudgeAccepts
<1>13. CASE JudgeRejects
  <2>1. [st EXCEPT !.rejections = @ + 1] \in LoopStates
    BY DEF TypeOK, LoopStates
  <2>2. QED
    BY <1>13, <2>1, GoOnKeeps DEF JudgeRejects
<1>14. CASE LogStart       BY <1>14 DEF LogStart
<1>15. CASE Emit           BY <1>15 DEF Emit
<1>16. CASE Guide          BY <1>16 DEF Guide
<1>17. CASE AskStop        BY <1>17 DEF AskStop
<1>18. CASE Crash          BY <1>18 DEF Crash
<1>19. CASE Replay         BY <1>19 DEF Replay
<1>20. CASE UNCHANGED vars BY <1>20 DEF vars
<1>21. QED
  BY <1>1, <1>2, <1>3, <1>4, <1>5, <1>6, <1>7, <1>8, <1>9, <1>10, <1>11,
     <1>12, <1>13, <1>14, <1>15, <1>16, <1>17, <1>18, <1>19, <1>20
     DEF Next, Step

\* A claim is answered by settling it, and a rejection is the answer to one.
LEMMA ClaimStep ==
  TypeOK /\ GatesPassed /\ ClaimsCounted /\ [Next]_vars => ClaimsCounted'
<1> SUFFICES ASSUME TypeOK, GatesPassed, ClaimsCounted, [Next]_vars
             PROVE  ClaimsCounted'
  OBVIOUS
<1>1. /\ st \in LoopStates /\ claims \in Nat
      /\ st.rejections \in Nat
  BY DEF TypeOK, LoopStates
<1> USE <1>1 DEF ClaimsCounted, Completed, disk, aux
<1>2. CASE EndAtTop        BY <1>2 DEF EndAtTop, End
<1>3. CASE StopAtTop       BY <1>3 DEF StopAtTop, End
<1>4. CASE StartTurn       BY <1>4 DEF StartTurn
<1>5. CASE NothingPending  BY <1>5 DEF NothingPending
<1>6. CASE AgentEnds
  <2>1. PICK ok \in BOOLEAN : st' = AfterTurn(ok)
    BY <1>6 DEF AgentEnds
  <2>2. st'.rejections = st.rejections /\ st'.claimed = st.claimed
    BY <2>1 DEF AfterTurn, LoopStates
  <2>3. QED
    BY <1>6, <2>2 DEF AgentEnds, End
<1>7. CASE Read
  <2>1. /\ st'.rejections = st.rejections
        /\ st'.claimed = (st.claimed \/ Claims(Unread))
        /\ claims' = claims + ClaimsMade(Unread)
    BY <1>7, ProcessFields DEF Read
  <2>2. pc' # "judging" /\ pc' # "done"
    BY <1>7 DEF Read
  <2>3. CASE Claims(Unread)
    BY <2>1, <2>2, <2>3 DEF ClaimsMade
  <2>4. CASE ~Claims(Unread)
    <3>1. claims' = claims /\ (st'.claimed => st.claimed)
      <4>1. claims' = claims
        BY <2>1, <2>4, ClaimsAreCounted
      <4>2. st'.claimed => st.claimed
        BY ONLY <2>1, <2>4, Zenon
      <4>3. QED
        BY <4>1, <4>2
    <3>2. QED
      BY <2>1, <2>2, <3>1
  <2>5. QED
    BY <2>3, <2>4
<1>8. CASE NoClaim         BY <1>8, GoOnKeeps DEF NoClaim
<1>9. CASE Cancel          BY <1>9 DEF Cancel, End, LoopStates
<1>10. CASE Refuse
  <2>1. st.rejections + 1 <= claims
    BY <1>10 DEF Refuse
  <2>2. /\ st'.rejections = st.rejections
        /\ pc' # "judging" /\ pc' # "done"
        /\ \/ ~st'.claimed /\ claims' = claims
           \/ claims' = claims + 1
    BY <1>10, SettledFields, GoOnKeeps DEF Refuse
  <2>3. QED
    BY <2>1, <2>2
<1>11. CASE AcceptUnjudged BY <1>11, SettledFields DEF AcceptUnjudged
<1>12. CASE AskJudge       BY <1>12, SettledFields DEF AskJudge
<1>13. CASE JudgeAccepts   BY <1>13 DEF JudgeAccepts
<1>14. CASE JudgeRejects
  <2> DEFINE s == [st EXCEPT !.rejections = @ + 1]
  <2>1. s \in LoopStates /\ s.rejections = st.rejections + 1 /\ s.claimed = st.claimed
    BY DEF LoopStates
  <2>2. ~st.claimed /\ st.rejections + 1 <= claims
    BY <1>14 DEF JudgeRejects, GatesPassed
  <2>3. GoOn(s, TRUE)
    BY <1>14 DEF JudgeRejects
  <2> HIDE DEF s
  <2>4. /\ st'.rejections = st.rejections + 1
        /\ pc' # "judging" /\ pc' # "done"
        /\ \/ ~st'.claimed /\ claims' = claims
           \/ claims' = claims + 1
    BY <2>1, <2>2, <2>3, GoOnKeeps
  <2>5. QED
    BY <2>2, <2>4
<1>15. CASE LogStart       BY <1>15 DEF LogStart
<1>16. CASE Emit           BY <1>16 DEF Emit
<1>17. CASE Guide          BY <1>17 DEF Guide
<1>18. CASE AskStop        BY <1>18 DEF AskStop
<1>19. CASE Crash          BY <1>19 DEF Crash, Fresh
<1>20. CASE Replay
  <2> DEFINE known == {Topic(file[k]) : k \in {j \in DOMAIN file : file[j] # "garbage"}}
             s == [Fresh(saved) EXCEPT !.seen = known]
  <2>1. /\ st' = Process(s, Replayed)
        /\ claims' = ClaimsMade(Replayed)
        /\ pc' = "starting"
    BY <1>20 DEF Replay
  <2>2. /\ Process(s, Replayed).rejections = 0
        /\ Process(s, Replayed).claimed = (FALSE \/ Claims(Replayed))
    BY DEF Process, Fresh
  <2> HIDE DEF s
  <2>3. CASE Claims(Replayed)
    BY <2>1, <2>2, <2>3, ClaimsAreCounted
  <2>4. CASE ~Claims(Replayed)
    <3>1. ~st'.claimed
      BY ONLY <2>1, <2>2, <2>4, Zenon
    <3>2. claims' = 0 /\ st'.rejections = 0
      BY <2>1, <2>2, <2>4, ClaimsAreCounted
    <3>3. QED
      BY <2>1, <3>1, <3>2
  <2>5. QED
    BY <2>3, <2>4
<1>21. CASE UNCHANGED vars BY <1>21 DEF vars
<1>22. QED
  BY <1>2, <1>3, <1>4, <1>5, <1>6, <1>7, <1>8, <1>9, <1>10, <1>11, <1>12,
     <1>13, <1>14, <1>15, <1>16, <1>17, <1>18, <1>19, <1>20, <1>21
     DEF Next, Step

\* No claim and no cancel event of the first process outlives the checks of
\* its turn: a check ends the loop, settles the claim, or found none.
LEMMA CleanStep ==
  TypeOK /\ StartsLater /\ GatesPassed /\ TurnIsClean /\ [Next]_vars
    => TurnIsClean'
<1> SUFFICES ASSUME TypeOK, StartsLater, GatesPassed, TurnIsClean, [Next]_vars
             PROVE  TurnIsClean'
  OBVIOUS
<1>1. st \in LoopStates
  BY DEF TypeOK
<1> USE <1>1 DEF TurnIsClean, disk, aux
<1>2. CASE EndAtTop        BY <1>2 DEF EndAtTop, End
<1>3. CASE StopAtTop       BY <1>3 DEF StopAtTop, End
<1>4. CASE StartTurn       BY <1>4 DEF StartTurn
<1>5. CASE NothingPending  BY <1>5 DEF NothingPending
<1>6. CASE AgentEnds
  <2>1. PICK ok \in BOOLEAN : st' = AfterTurn(ok)
    BY <1>6 DEF AgentEnds
  <2>2. st'.cancelled = st.cancelled /\ st'.claimed = st.claimed
    BY <2>1 DEF AfterTurn, LoopStates
  <2>3. QED
    BY <1>6, <2>2 DEF AgentEnds, End
<1>7. CASE Read            BY <1>7 DEF Read
<1>8. CASE NoClaim         BY <1>8, GoOnKeeps DEF NoClaim
<1>9. CASE Cancel          BY <1>9 DEF Cancel, End
<1>10. CASE Refuse         BY <1>10, SettledFields, GoOnKeeps DEF Refuse
<1>11. CASE AcceptUnjudged BY <1>11 DEF AcceptUnjudged, End
<1>12. CASE AskJudge       BY <1>12 DEF AskJudge
<1>13. CASE JudgeAccepts   BY <1>13 DEF JudgeAccepts, End
<1>14. CASE JudgeRejects
  <2> DEFINE s == [st EXCEPT !.rejections = @ + 1]
  <2>1. s \in LoopStates /\ s.claimed = st.claimed /\ s.cancelled = st.cancelled
    BY DEF LoopStates
  <2>2. ~st.claimed /\ ~st.cancelled /\ GoOn(s, TRUE)
    BY <1>14 DEF JudgeRejects, GatesPassed
  <2> HIDE DEF s
  <2>3. QED
    BY <2>1, <2>2, GoOnKeeps
<1>15. CASE LogStart       BY <1>15 DEF LogStart, StartsLater
<1>16. CASE Emit           BY <1>16 DEF Emit
<1>17. CASE Guide          BY <1>17 DEF Guide
<1>18. CASE AskStop        BY <1>18 DEF AskStop
<1>19. CASE Crash          BY <1>19 DEF Crash
<1>20. CASE Replay         BY <1>20 DEF Replay
<1>21. CASE UNCHANGED vars BY <1>21 DEF vars
<1>22. QED
  BY <1>2, <1>3, <1>4, <1>5, <1>6, <1>7, <1>8, <1>9, <1>10, <1>11, <1>12,
     <1>13, <1>14, <1>15, <1>16, <1>17, <1>18, <1>19, <1>20, <1>21
     DEF Next, Step

\* A claim that the first read of a turn brings is behind all that was read
\* before, and nothing is read before it is checked and judged.
LEMMA LastStep ==
  TypeOK /\ TurnIsClean /\ ClaimIsLast /\ [Next]_vars => ClaimIsLast'
<1> SUFFICES ASSUME TypeOK, TurnIsClean, ClaimIsLast, [Next]_vars,
                    sessions' = 1, site' = "turn",
                    pc' = "judging" \/ (pc' = "checking" /\ st'.claimed)
             PROVE  \E i \in read' :
                       /\ file'[i] = "complete"
                       /\ \A j \in read' :
                             file'[j] \notin {"garbage", "summary"} => j <= i
  BY DEF ClaimIsLast, Events
<1>1. st \in LoopStates
  BY DEF TypeOK
<1>2. CASE Read
  <2>1. /\ read' = read \cup Unread
        /\ file' = file
        /\ sessions = 1 /\ site = "turn" /\ pc = "reading"
        /\ st'.claimed
        /\ st'.claimed = (st.claimed \/ Claims(Unread))
    BY <1>1, <1>2, ProcessFields DEF Read, disk
  <2>2. ~st.claimed
    BY <2>1 DEF TurnIsClean
  <2>3. Claims(Unread)
    BY ONLY <2>1, <2>2, Zenon
  <2>4. PICK i \in Unread :
            /\ file[i] = "complete"
            /\ \A j \in Unread : file[j] \notin {"garbage", "summary"} => j <= i
    BY <2>3 DEF Claims, Events
  <2>5. \A j \in read : j <= i
    BY <2>4, ReadIsInLog
  <2>6. QED
    BY <2>1, <2>4, <2>5
<1>3. CASE AskJudge
  BY <1>3 DEF AskJudge, ClaimIsLast, Events, disk, aux
<1>4. CASE ~Read /\ ~AskJudge
  <2>1. /\ sessions = 1 /\ site = "turn"
        /\ pc = "judging" \/ (pc = "checking" /\ st.claimed)
        /\ read' = read
    <3> USE <1>1, <1>4 DEF disk, aux
    <3>1. CASE EndAtTop \/ StopAtTop \/ StartTurn \/ NothingPending
      BY <3>1 DEF EndAtTop, StopAtTop, StartTurn, NothingPending, End
    <3>2. CASE AgentEnds       BY <3>2 DEF AgentEnds, End
    <3>3. CASE NoClaim         BY <3>3, GoOnKeeps DEF NoClaim
    <3>4. CASE Cancel          BY <3>4 DEF Cancel, End
    <3>5. CASE Refuse          BY <3>5, SettledFields, GoOnKeeps DEF Refuse
    <3>6. CASE AcceptUnjudged  BY <3>6 DEF AcceptUnjudged, End
    <3>7. CASE JudgeAccepts    BY <3>7 DEF JudgeAccepts, End
    <3>8. CASE JudgeRejects
      <4>1. [st EXCEPT !.rejections = @ + 1] \in LoopStates
        BY DEF LoopStates
      <4>2. QED
        BY <3>8, <4>1, GoOnKeeps DEF JudgeRejects
    <3>9. CASE LogStart        BY <3>9 DEF LogStart
    <3>10. CASE Emit           BY <3>10 DEF Emit
    <3>11. CASE Guide          BY <3>11 DEF Guide
    <3>12. CASE AskStop        BY <3>12 DEF AskStop
    <3>13. CASE Crash          BY <3>13 DEF Crash
    <3>14. CASE Replay         BY <3>14 DEF Replay
    <3>15. CASE UNCHANGED vars BY <3>15 DEF vars
    <3>16. QED
      BY <1>4, <3>1, <3>2, <3>3, <3>4, <3>5, <3>6, <3>7, <3>8, <3>9, <3>10,
         <3>11, <3>12, <3>13, <3>14, <3>15 DEF Next, Step
  <2>2. PICK i \in read :
            /\ file[i] = "complete"
            /\ \A j \in read : file[j] \notin {"garbage", "summary"} => j <= i
    BY <2>1 DEF ClaimIsLast, Events
  <2>3. \A j \in read : file'[j] = file[j]
    BY ReadIsInLog
  <2>4. QED
    BY <2>1, <2>2, <2>3
<1>5. QED
  BY <1>2, <1>3, <1>4

----------------------------------------------------------------------------
LEMMA Invariance == Spec => []IInv
<1>1. IInv /\ [Next]_vars => IInv'
  BY TypeStep, PhaseStep, DebtStep, CancelStep, SeenStep, GateStep, ClaimStep,
     CleanStep, LastStep DEF IInv
<1>2. QED
  BY Initially, <1>1, PTL DEF Spec

\* The types, and with them that no process starts a turn past
\* max_iterations, the turns before `--continue` included.
THEOREM TypeCorrect == Spec => []TypeOK
<1>1. IInv => TypeOK
  BY DEF IInv
<1>2. QED
  BY Invariance, <1>1, PTL

\* Whatever is written to the log and whenever it is read, a loop completes
\* only when each guidance it has read was acknowledged later in the log.
THEOREM GuidanceIsAlwaysAnswered == Spec => []GuidanceIsAnswered
<1>1. IInv => GuidanceIsAnswered
  BY DEF IInv, GatesPassed, DebtIsKnown, GuidanceIsAnswered
<1>2. QED
  BY Invariance, <1>1, PTL

\* A loop that has read a cancel event never completes.
THEOREM CancelAlwaysWins == Spec => []CancelWins
<1>1. IInv => CancelWins
  BY DEF IInv, GatesPassed, CancelIsKnown, CancelWins, Completed
<1>2. QED
  BY Invariance, <1>1, PTL

\* The judge is asked, and the loop ended, at most once for each claim.
THEOREM EachClaimIsAnsweredOnceAlways == Spec => []EachClaimIsAnsweredOnce
<1>1. IInv => EachClaimIsAnsweredOnce
  <2>1. IInv => st.rejections \in Nat /\ claims \in Nat
    BY DEF IInv, TypeOK, LoopStates
  <2>2. QED
    BY <2>1 DEF IInv, ClaimsCounted, EachClaimIsAnsweredOnce
<1>2. QED
  BY Invariance, <1>1, PTL

\* No claim and no cancel event is left over from an earlier turn.
THEOREM NothingEverLingers == Spec => []NothingLingers
<1>1. IInv => NothingLingers
  BY DEF IInv, TurnIsClean, NothingLingers
<1>2. QED
  BY Invariance, <1>1, PTL

\* Required events were seen with their evidence, if build.blocked, which
\* the loop makes of those without, is not one of them.
THEOREM RequiredAreAlwaysSeen ==
  ASSUME "build.blocked" \notin Required
  PROVE  Spec => []RequiredAreSeen
<1>1. IInv => RequiredAreSeen
  <2> SUFFICES ASSUME IInv, Completed, NEW topic \in Required
               PROVE  \/ \E i \in read : Topic(file[i]) = topic /\ file[i] # "boast"
                      \/ sessions > 1 /\ \E i \in DOMAIN file : Topic(file[i]) = topic
    BY DEF RequiredAreSeen
  <2>1. topic \in st.seen
    BY DEF IInv, GatesPassed
  <2>2. topic # "build.blocked"
    OBVIOUS
  <2>3. \A line : Validated(line) = topic => Topic(line) = topic /\ line # "boast"
    BY <2>2 DEF Validated
  <2>4. QED
    BY <2>1, <2>3 DEF IInv, SeenIsRead
<1>2. QED
  BY Invariance, <1>1, PTL

\* The judge is asked about a claim that came last.
THEOREM ClaimIsAlwaysTheLastWord == Spec => []ClaimIsTheLastWord
<1>1. IInv => ClaimIsTheLastWord
  BY DEF IInv, ClaimIsLast, ClaimIsTheLastWord
<1>2. QED
  BY Invariance, <1>1, PTL

=============================================================================

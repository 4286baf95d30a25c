-------------------------- MODULE MergeQueue_proofs --------------------------
(***************************************************************************)
(* What holds of the merge queue for any number of clients and loops and   *)
(* files of any length, crashes included.                                  *)
(***************************************************************************)
EXTENDS MergeQueue, TLAPS

\* What clients build and what reaches the file are lines.
LEMMA LineTypes ==
  /\ \A l \in Loops, kind \in Kinds, n \in Nat : Event(l, kind, n) \in Pending
  /\ Pending \subseteq Line
  /\ \A line \in Pending : Remains(line) \subseteq Line
  /\ Idle \notin Pending
<1>1. \A l \in Loops, kind \in Kinds, n \in Nat : Event(l, kind, n) \in Pending
  BY DEF Event, Pending
<1>2. Pending \subseteq Line
  BY DEF Pending, Line
<1>3. \A line \in Pending : Remains(line) \subseteq Line
  BY DEF Pending, Line, Remains
<1>4. QED
  BY <1>1, <1>2, <1>3, MergeQueueAssumption

\* Every step keeps the types.
LEMMA TypeStep == TypeOK /\ [Next]_vars => TypeOK'
<1> SUFFICES ASSUME TypeOK, [Next]_vars
             PROVE  TypeOK'
  OBVIOUS
<1>1. Len(log) \in Nat
  BY DEF TypeOK
<1>2. ASSUME NEW c \in Clients, NEW l \in Loops, Enqueue(c, l)
      PROVE  TypeOK'
  <2>1. Event(l, "queued", Len(log)) \in Pending
    BY <1>1, LineTypes DEF Kinds
  <2>2. QED
    BY <1>2, <2>1 DEF Enqueue, TypeOK
<1>3. ASSUME NEW c \in Clients, NEW l \in Loops, NEW kind \in Kinds, Check(c, l, kind)
      PROVE  TypeOK'
  <2>1. Event(l, kind, Len(log)) \in Pending
    BY <1>1, LineTypes
  <2>2. QED
    BY <1>3, <2>1 DEF Check, TypeOK
<1>4. ASSUME NEW c \in Clients, AppendEvent(c)
      PROVE  TypeOK'
  BY <1>4, LineTypes DEF AppendEvent, TypeOK
<1>5. ASSUME NEW c \in Clients, CrashBeforeAppend(c)
      PROVE  TypeOK'
  BY <1>5 DEF CrashBeforeAppend, TypeOK
<1>6. ASSUME NEW c \in Clients, CrashInAppend(c)
      PROVE  TypeOK'
  BY <1>6, LineTypes DEF CrashInAppend, TypeOK
<1>7. CASE UNCHANGED vars
  BY <1>7 DEF vars, TypeOK
<1>8. QED
  BY <1>2, <1>3, <1>4, <1>5, <1>6, <1>7
     DEF Next, MarkMerging, MarkMerged, MarkNeedsReview, Discard, Kinds

\* The file is lines, and what a client holds is an event it built whole.
THEOREM TypeCorrect == Spec => []TypeOK
<1>1. Init => TypeOK
  BY DEF Init, TypeOK
<1>2. QED
  BY <1>1, TypeStep, PTL DEF Spec

-----------------------------------------------------------------------------
\* Lines are only added at the end: what a prefix says stays said.
LEMMA PrefixKept ==
  ASSUME NEW f \in Seq(Line), NEW e \in Line, NEW n \in 0..Len(f),
         NEW l, NEW k, InStateAt(f, n, l, k)
  PROVE  InStateAt(Append(f, e), n, l, k)
<1>1. \A i \in 1..n : i \in 1..Len(f) /\ Append(f, e)[i] = f[i]
  OBVIOUS
<1>2. PICK i \in 1..n : /\ f[i].loop = l
                        /\ f[i].kind = k
                        /\ \A j \in i+1..n : f[j].loop # l
  BY DEF InStateAt
<1>3. \A j \in i+1..n : j \in 1..n
  OBVIOUS
<1>4. QED
  BY <1>1, <1>2, <1>3 DEF InStateAt

\* An append of a justified line, or of a torn one, keeps the file justified.
LEMMA AppendJustified ==
  ASSUME TypeOK, ReadsJustify, HistoryMakesSense, NEW e \in Line,
         e.kind \in Checked =>
            /\ e.seen <= Len(log)
            /\ \E k \in From(e.kind) : InStateAt(log, e.seen, e.loop, k),
         log' = Append(log, e)
  PROVE  ReadsJustify' /\ HistoryMakesSense'
<1> DEFINE n == Len(log)
<1>1. /\ log \in Seq(Line)
      /\ n \in Nat
      /\ Len(log') = n + 1
      /\ DOMAIN log' = 1..n+1
      /\ \A i \in 1..n : log'[i] = log[i] /\ log[i] \in Line
      /\ log'[n+1] = e
  BY DEF TypeOK
<1>2. \A l, k : \A m \in 0..n : InStateAt(log, m, l, k) => InStateAt(log', m, l, k)
  BY <1>1, PrefixKept
<1>3. e.seen \in Nat
  BY DEF Line
<1>4. ReadsJustify'
  <2> SUFFICES ASSUME NEW i \in 1..n+1, log'[i].kind \in Checked
               PROVE  /\ log'[i].seen < i
                      /\ \E k \in From(log'[i].kind) :
                           InStateAt(log', log'[i].seen, log'[i].loop, k)
    BY <1>1 DEF ReadsJustify
  <2>1. CASE i \in 1..n
    <3>1. /\ log[i].seen < i
          /\ \E k \in From(log[i].kind) : InStateAt(log, log[i].seen, log[i].loop, k)
      BY <1>1, <2>1 DEF ReadsJustify
    <3>2. log[i].seen \in 0..n
      BY <1>1, <2>1, <3>1 DEF Line
    <3>3. QED
      BY <1>1, <1>2, <2>1, <3>1, <3>2
  <2>2. CASE i = n + 1
    BY <1>1, <1>2, <1>3, <2>2
  <2>3. QED
    BY <1>1, <2>1, <2>2
<1>5. HistoryMakesSense'
  <2> SUFFICES ASSUME NEW i \in 1..n+1, log'[i].kind \in Checked
               PROVE  \E j \in 1..i-1 :
                        /\ log'[j].loop = log'[i].loop
                        /\ log'[j].kind = IF log'[i].kind \in {"merged", "needs_review"}
                                          THEN "merging" ELSE "queued"
    BY <1>1 DEF HistoryMakesSense
  <2>1. CASE i \in 1..n
    <3>1. \A j \in 1..i-1 : log'[j] = log[j]
      BY <1>1, <2>1
    <3>2. QED
      BY <1>1, <2>1, <3>1 DEF HistoryMakesSense
  <2>2. CASE i = n + 1
    <3>1. PICK k \in From(e.kind) : InStateAt(log, e.seen, e.loop, k)
      BY <1>1, <2>2
    <3>2. PICK j \in 1..n : log[j].loop = e.loop /\ log[j].kind = k
      BY <1>1, <1>3, <2>2, <3>1 DEF InStateAt
    <3>3. e.kind \in {"merging", "discarded", "merged", "needs_review"}
      BY <1>1, <2>2 DEF Checked, Kinds
    <3>4. CASE e.kind \in {"merged", "needs_review"}
      <4>1. k = "merging"
        BY <3>1, <3>4 DEF From
      <4>2. QED
        BY <1>1, <2>2, <3>2, <3>4, <4>1
    <3>5. CASE e.kind \in {"merging", "discarded"}
      <4>1. k \in {"queued", "needs_review"}
        BY <3>1, <3>5 DEF From
      <4>2. CASE k = "queued"
        BY <1>1, <2>2, <3>2, <3>5, <4>2
      <4>3. CASE k = "needs_review"
        <5>1. PICK m \in 1..j-1 : log[m].loop = e.loop /\ log[m].kind = "merging"
          BY <1>1, <3>2, <4>3 DEF HistoryMakesSense, Checked, Kinds
        <5>2. m \in DOMAIN log /\ log[m].kind \in Checked
          BY <1>1, <3>2, <5>1 DEF Checked, Kinds
        <5>3. PICK q \in 1..m-1 : log[q].loop = e.loop /\ log[q].kind = "queued"
          BY <5>1, <5>2 DEF HistoryMakesSense
        <5>4. q \in 1..n
          BY <3>2, <5>1, <5>3
        <5>5. QED
          BY <1>1, <2>2, <3>5, <5>3, <5>4
      <4>4. QED
        BY <4>1, <4>2, <4>3
    <3>6. QED
      BY <3>3, <3>4, <3>5
  <2>3. QED
    BY <1>1, <2>1, <2>2
<1>6. QED
  BY <1>4, <1>5

\* Every step keeps the inductive invariant.
LEMMA Inductive == IInv /\ [Next]_vars => IInv'
<1> SUFFICES ASSUME IInv, [Next]_vars
             PROVE  PendJustified' /\ ReadsJustify' /\ HistoryMakesSense'
  BY TypeStep DEF IInv
<1>1. TypeOK /\ PendJustified /\ ReadsJustify /\ HistoryMakesSense
  BY DEF IInv
<1>2. /\ log \in Seq(Line)
      /\ Len(log) \in Nat
      /\ pend \in [Clients -> Pending \cup {Idle}]
      /\ \A c \in Clients : pend[c] # Idle => pend[c] \in Pending /\ pend[c] \in Line
      /\ \A c \in Clients : pend[c] # Idle => pend[c].seen \in Nat
  <2>1. /\ log \in Seq(Line)
        /\ Len(log) \in Nat
        /\ pend \in [Clients -> Pending \cup {Idle}]
    BY <1>1 DEF TypeOK
  <2>2. \A c \in Clients : pend[c] # Idle => pend[c] \in Pending /\ pend[c] \in Line
    BY <2>1, LineTypes
  <2>3. \A line \in Pending : line.seen \in Nat
    BY DEF Pending
  <2>4. QED
    BY <2>1, <2>2, <2>3
<1>3. ASSUME NEW c \in Clients, NEW line, line # Idle, line.kind \in Checked =>
                 /\ line.seen <= Len(log)
                 /\ \E k \in From(line.kind) : InStateAt(log, line.seen, line.loop, k),
             pend' = [pend EXCEPT ![c] = line], UNCHANGED log
      PROVE  PendJustified' /\ ReadsJustify' /\ HistoryMakesSense'
  BY <1>1, <1>2, <1>3 DEF PendJustified, ReadsJustify, HistoryMakesSense
<1>4. ASSUME NEW c \in Clients, NEW e \in Line,
             e.kind \in Checked =>
                 /\ e.seen <= Len(log)
                 /\ \E k \in From(e.kind) : InStateAt(log, e.seen, e.loop, k),
             log' = Append(log, e), pend' = [pend EXCEPT ![c] = Idle]
      PROVE  PendJustified' /\ ReadsJustify' /\ HistoryMakesSense'
  <2>1. ReadsJustify' /\ HistoryMakesSense'
    BY <1>1, <1>4, AppendJustified
  <2>2. ASSUME NEW d \in Clients, pend'[d] # Idle, pend'[d].kind \in Checked
        PROVE  /\ pend'[d].seen <= Len(log')
               /\ \E k \in From(pend'[d].kind) :
                    InStateAt(log', pend'[d].seen, pend'[d].loop, k)
    <3>1. pend'[d] = pend[d]
      BY <1>2, <1>4, <2>2
    <3>2. /\ pend[d].seen \in 0..Len(log)
          /\ \E k \in From(pend[d].kind) : InStateAt(log, pend[d].seen, pend[d].loop, k)
      BY <1>1, <1>2, <2>2, <3>1 DEF PendJustified
    <3>3. Len(log') = Len(log) + 1
      BY <1>2, <1>4
    <3>4. QED
      BY <1>2, <1>4, <3>1, <3>2, <3>3, PrefixKept
  <2>3. QED
    BY <2>1, <2>2 DEF PendJustified
<1>5. ASSUME NEW c \in Clients, NEW l \in Loops, Enqueue(c, l)
      PROVE  PendJustified' /\ ReadsJustify' /\ HistoryMakesSense'
  <2>1. Event(l, "queued", Len(log)).kind \notin Checked
    BY DEF Event, Checked, Kinds
  <2>2. Event(l, "queued", Len(log)) # Idle
    BY <1>2, LineTypes DEF Kinds
  <2>3. QED
    BY <1>3, <1>5, <2>1, <2>2 DEF Enqueue
<1>6. ASSUME NEW c \in Clients, NEW l \in Loops, NEW kind \in Kinds, Check(c, l, kind)
      PROVE  PendJustified' /\ ReadsJustify' /\ HistoryMakesSense'
  <2> DEFINE line == Event(l, kind, Len(log))
  <2>1. line.kind = kind /\ line.seen = Len(log) /\ line.loop = l
    BY DEF Event
  <2>2. line # Idle
    BY <1>2, LineTypes
  <2>3. \E k \in From(line.kind) : InStateAt(log, line.seen, line.loop, k)
    BY <1>6, <2>1 DEF Check, InStates, InState
  <2>4. line.seen <= Len(log)
    BY <1>2, <2>1
  <2>5. pend' = [pend EXCEPT ![c] = line] /\ UNCHANGED log
    BY <1>6 DEF Check
  <2> HIDE DEF line
  <2>6. QED
    BY <1>3, <2>2, <2>3, <2>4, <2>5
<1>7. ASSUME NEW c \in Clients, AppendEvent(c)
      PROVE  PendJustified' /\ ReadsJustify' /\ HistoryMakesSense'
  BY <1>1, <1>2, <1>4, <1>7 DEF AppendEvent, PendJustified
<1>8. ASSUME NEW c \in Clients, CrashBeforeAppend(c)
      PROVE  PendJustified' /\ ReadsJustify' /\ HistoryMakesSense'
  BY <1>1, <1>2, <1>8
     DEF CrashBeforeAppend, PendJustified, ReadsJustify, HistoryMakesSense
<1>9. ASSUME NEW c \in Clients, CrashInAppend(c)
      PROVE  PendJustified' /\ ReadsJustify' /\ HistoryMakesSense'
  <2>1. PICK e \in Remains(pend[c]) : log' = Append(log, e)
    BY <1>9 DEF CrashInAppend
  <2>2. pend[c] \in Pending /\ e \in Line
    BY <1>2, <1>9, LineTypes DEF CrashInAppend
  <2>3. \/ e.kind = "torn"
        \/ e.kind = pend[c].kind /\ e.seen = pend[c].seen /\ e.loop = pend[c].loop
    BY <2>2 DEF Remains, Pending
  <2>4. e.kind \in Checked =>
            /\ e.seen <= Len(log)
            /\ \E k \in From(e.kind) : InStateAt(log, e.seen, e.loop, k)
    <3>1. "torn" \notin Checked
      BY DEF Checked, Kinds
    <3>2. QED
      BY <1>1, <1>9, <2>3, <3>1 DEF CrashInAppend, PendJustified
  <2>5. QED
    BY <1>4, <1>9, <2>1, <2>2, <2>4 DEF CrashInAppend
<1>10. CASE UNCHANGED vars
  BY <1>1, <1>10 DEF vars, PendJustified, ReadsJustify, HistoryMakesSense
<1>11. QED
  BY <1>5, <1>6, <1>7, <1>8, <1>9, <1>10
     DEF Next, MarkMerging, MarkMerged, MarkNeedsReview, Discard, Kinds

\* The invariant holds in every state.
LEMMA InvariantHolds == Spec => []IInv
<1>1. Init => IInv
  BY DEF Init, IInv, TypeOK, PendJustified, ReadsJustify, HistoryMakesSense
<1>2. QED
  BY <1>1, Inductive, PTL DEF Spec

(***************************************************************************)
(* Every event in the file was legal in the prefix its writer had read,    *)
(* whatever other processes of merge_queue.rs did between its two locks.   *)
(***************************************************************************)
THEOREM ReadsAlwaysJustify == Spec => []ReadsJustify
<1>1. IInv => ReadsJustify
  BY DEF IInv
<1>2. QED
  BY <1>1, InvariantHolds, PTL

(***************************************************************************)
(* No merge ends that did not begin, and none begins, and no loop is       *)
(* discarded, that was not queued: derive_state never has to invent an     *)
(* entry from an event other than "queued".                                *)
(***************************************************************************)
THEOREM HistoryAlwaysMakesSense == Spec => []HistoryMakesSense
<1>1. IInv => HistoryMakesSense
  BY DEF IInv
<1>2. QED
  BY <1>1, InvariantHolds, PTL

-----------------------------------------------------------------------------
\* One more line in the file is one more fact about the loop it names, if any.
LEMMA AppendHappened ==
  ASSUME TypeOK, NEW e \in Line, log' = Append(log, e)
  PROVE  /\ e.kind \in Kinds /\ e.loop \in Loops =>
              Happened' = [Happened EXCEPT ![e.loop] = @ \cup {e.kind}]
         /\ e.loop \notin Loops => Happened' = Happened
<1> DEFINE n == Len(log)
<1>1. /\ n \in Nat
      /\ DOMAIN log = 1..n
      /\ DOMAIN log' = 1..n+1
      /\ \A i \in 1..n : log'[i] = log[i]
      /\ log'[n+1] = e
  BY DEF TypeOK
<1>2. ASSUME NEW l \in Loops, NEW k \in Kinds
      PROVE  (\E i \in DOMAIN log' : log'[i].loop = l /\ log'[i].kind = k)
             <=> \/ \E i \in DOMAIN log : log[i].loop = l /\ log[i].kind = k
                 \/ e.loop = l /\ e.kind = k
  <2>1. \A i \in 1..n+1 : i \in 1..n \/ i = n + 1
    BY <1>1
  <2>2. n + 1 \in 1..n+1 /\ \A i \in 1..n : i \in 1..n+1
    BY <1>1
  <2>3. QED
    BY <1>1, <2>1, <2>2
<1>3. ASSUME NEW l \in Loops
      PROVE  Happened'[l] = IF e.loop = l /\ e.kind \in Kinds
                            THEN Happened[l] \cup {e.kind} ELSE Happened[l]
  BY <1>2 DEF Happened
<1>4. /\ Happened = [l \in Loops |-> Happened[l]]
      /\ Happened' = [l \in Loops |-> Happened'[l]]
  BY DEF Happened
<1>5. ASSUME e.kind \in Kinds, e.loop \in Loops
      PROVE  Happened' = [Happened EXCEPT ![e.loop] = @ \cup {e.kind}]
  <2>1. Happened' = [l \in Loops |-> IF e.loop = l THEN Happened[l] \cup {e.kind}
                                                   ELSE Happened[l]]
    BY <1>3, <1>4, <1>5
  <2>2. QED
    BY <1>4, <1>5, <2>1
<1>6. ASSUME e.loop \notin Loops
      PROVE  Happened' = Happened
  BY <1>3, <1>4, <1>6
<1>7. QED
  BY <1>5, <1>6

\* Every step of the queue is a step of the growing history, or none.
LEMMA HistoryStep == IInv /\ [Next]_vars => [History!Next]_Happened
<1> SUFFICES ASSUME IInv, [Next]_vars
             PROVE  [History!Next]_Happened
  OBVIOUS
<1>1. TypeOK /\ PendJustified
  BY DEF IInv
<1>2. ASSUME UNCHANGED log
      PROVE  UNCHANGED Happened
  BY <1>2 DEF Happened
<1>3. ASSUME NEW c \in Clients, pend[c] # Idle, NEW e \in Line, log' = Append(log, e),
             e.loop = pend[c].loop, e.kind = pend[c].kind
      PROVE  History!Next
  <2>1. pend[c] \in Pending
    BY <1>1, <1>3 DEF TypeOK
  <2>2. e.loop \in Loops /\ e.kind \in Kinds
    BY <1>3, <2>1 DEF Pending
  <2>3. Happened' = [Happened EXCEPT ![e.loop] = @ \cup {e.kind}]
    BY <1>1, <1>3, <2>2, AppendHappened
  <2>4. CASE e.kind = "queued"
    BY <2>2, <2>3, <2>4 DEF History!Next, History!Queue
  <2>5. CASE e.kind \in Checked
    <3>1. PICK k \in From(e.kind) : InStateAt(log, pend[c].seen, e.loop, k)
      BY <1>1, <1>3, <2>5 DEF PendJustified
    <3>2. pend[c].seen <= Len(log) /\ pend[c].seen \in Nat /\ Len(log) \in Nat
      BY <1>1, <1>3, <2>1, <2>5 DEF PendJustified, Pending, TypeOK
    <3>3. k \in Happened[e.loop]
      <4>1. \E i \in 1..Len(log) : log[i].loop = e.loop /\ log[i].kind = k
        BY <3>1, <3>2 DEF InStateAt
      <4>2. k \in Kinds
        BY <2>5 DEF From, Checked, Kinds
      <4>3. DOMAIN log = 1..Len(log)
        BY <1>1 DEF TypeOK
      <4>4. QED
        BY <2>2, <4>1, <4>2, <4>3 DEF Happened
    <3>4. k \in History!RestsOn(e.kind)
      BY <2>5 DEF From, Checked, Kinds, History!RestsOn
    <3>5. History!Record(e.loop, e.kind)
      BY <2>3, <3>3, <3>4 DEF History!Record
    <3>6. e.kind \in {"merging", "merged", "needs_review", "discarded"}
      BY <2>5 DEF Checked, Kinds
    <3>7. QED
      BY <2>2, <3>5, <3>6 DEF History!Next
  <2>6. QED
    BY <2>2, <2>4, <2>5 DEF Checked
<1>4. ASSUME NEW c \in Clients, AppendEvent(c)
      PROVE  History!Next
  <2>1. pend[c] \in Line
    BY <1>1, <1>4, LineTypes DEF AppendEvent, TypeOK
  <2>2. QED
    BY <1>3, <1>4, <2>1 DEF AppendEvent
<1>5. ASSUME NEW c \in Clients, CrashInAppend(c)
      PROVE  [History!Next]_Happened
  <2>1. pend[c] \in Pending
    BY <1>1, <1>5 DEF CrashInAppend, TypeOK
  <2>2. PICK e \in Remains(pend[c]) : log' = Append(log, e)
    BY <1>5 DEF CrashInAppend
  <2>3. e \in Line
    BY <2>1, LineTypes
  <2>4. \/ e.loop = NoLoop
        \/ e.loop = pend[c].loop /\ e.kind = pend[c].kind
    BY <2>1 DEF Remains, Pending
  <2>5. CASE e.loop = NoLoop
    <3>1. e.loop \notin Loops
      BY <2>5, NoLoopAssumption
    <3>2. QED
      BY <1>1, <2>2, <2>3, <3>1, AppendHappened
  <2>6. CASE e.loop = pend[c].loop /\ e.kind = pend[c].kind
    BY <1>3, <1>5, <2>2, <2>3, <2>6 DEF CrashInAppend
  <2>7. QED
    BY <2>4, <2>5, <2>6
<1>6. QED
  BY <1>2, <1>4, <1>5
     DEF Next, vars, Enqueue, MarkMerging, MarkMerged, MarkNeedsReview, Discard, Check,
         CrashBeforeAppend

(***************************************************************************)
(* merge_queue.rs, used by any number of processes that coordinate through *)
(* its file locks only, implements the growing history: a fact about a     *)
(* loop is never lost and never comes before what it rests on.             *)
(***************************************************************************)
THEOREM ImplementsHistory == Spec => HistorySpec
<1>1. Init => History!Init
  <2> SUFFICES ASSUME Init
               PROVE  Happened = [l \in Loops |-> {}]
    BY DEF History!Init
  <2>1. \A l \in Loops : \A k \in Kinds :
           ~ \E i \in DOMAIN log : log[i].loop = l /\ log[i].kind = k
    BY DEF Init
  <2>2. QED
    BY <2>1 DEF Happened
<1>2. QED
  BY <1>1, HistoryStep, InvariantHolds, PTL DEF Spec, HistorySpec, History!Spec

=============================================================================

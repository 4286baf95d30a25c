-------------------------- MODULE Workspace_proofs --------------------------
(***************************************************************************)
(* What is proved of one workspace: of the sessions that follow one        *)
(* another in it (Hooks), and of the lock that keeps them from running     *)
(* beside one another (LoopLock).                                          *)
(*                                                                         *)
(* Hooks, for any hooks on any phase event, any number of sessions and of  *)
(* retries: the suspend-state tells the truth, a stop that was consumed is *)
(* final, and verdicts stand.                                              *)
(*                                                                         *)
(* LoopLock, for any processes and commands: a running loop is alone and   *)
(* named in the file, and whoever the file names had the lock.             *)
(***************************************************************************)
EXTENDS LoopLock, Hooks, TLAPS

\* The loop waits for a hook only in a phase.
WaitsInPhase == step # "run" => at \in Phases

\* A retry is delayed only while attempts are left.
AttemptsLeft == step = "delay" => attempt < Attempts

\* A suspension is looked at only when nothing has blocked.
GateIsClean == step = "gate" => "block" \notin outcomes

\* The file was written by this session or one before it.
WrittenBefore == suspended <= session

\* An iteration that has begun is allowed.
IterationAllowed ==
  at \in {"pre.iteration.start", "post.iteration.start", "agent"}
    => iteration < Iterations

IInv == /\ TypeOK /\ WaitsInPhase /\ AttemptsLeft /\ GateIsClean
        /\ WrittenBefore /\ IterationAllowed /\ SuspensionIsTrue /\ StopIsFinal

LEMMA PhasesDiffer ==
  /\ Phases \cap Over = {}
  /\ Phases \cap {"boundary", "refilled", "hat", "agent", "output", "wrapup"} = {}
  /\ Closing \subseteq Phases /\ Closed \subseteq Phases
  /\ Closing \cap Closed = {}
  /\ Phases \subseteq Places /\ Over \subseteq Places
  /\ {"boundary", "refilled", "hat", "agent", "output", "wrapup"} \subseteq Places
  /\ \A r : Pre(r) \in Closing /\ Post(r) \in Closed
BY DEF Phases, Over, Closing, Closed, Places, Pre, Post

\* Where a phase leads: neither back to itself nor to the agent, but for
\* post.iteration.start, and to a later phase only as listed.
LEMMA FollowsTypes ==
  \A phase \in Phases : \A place \in Follows(phase) :
    /\ place \in Places \ (Over \cup Closing \cup Closed)
    /\ place # phase
    /\ place \in {"pre.iteration.start", "post.iteration.start", "agent"}
         => phase \in {"pre.iteration.start", "post.iteration.start"}
<1> SUFFICES ASSUME NEW phase \in Phases, NEW place \in Follows(phase)
             PROVE  /\ place \in Places \ (Over \cup Closing \cup Closed)
                    /\ place # phase
                    /\ place \in {"pre.iteration.start", "post.iteration.start", "agent"}
                         => phase \in {"pre.iteration.start", "post.iteration.start"}
  OBVIOUS
<1> USE DEF Phases, Over, Closing, Closed, Places
<1>1. CASE phase = "pre.loop.start"        BY <1>1 DEF Follows
<1>2. CASE phase = "post.loop.start"       BY <1>2 DEF Follows
<1>3. CASE phase = "pre.iteration.start"   BY <1>3 DEF Follows
<1>4. CASE phase = "post.iteration.start"  BY <1>4 DEF Follows
<1>5. CASE phase = "pre.plan.created"      BY <1>5 DEF Follows
<1>6. CASE phase = "pre.human.interact"    BY <1>6 DEF Follows
<1>7. CASE phase = "post.human.interact"   BY <1>7 DEF Follows
<1>8. CASE phase \in {"post.plan.created"} \cup Closing \cup Closed
  BY <1>8 DEF Follows
<1>9. QED
  BY <1>1, <1>2, <1>3, <1>4, <1>5, <1>6, <1>7, <1>8

LEMMA LastIsBounded == \A mode \in {"wait_for_resume", "retry_backoff"} :
                         Last(mode) <= Attempts
BY HooksAssumption DEF Last

-----------------------------------------------------------------------------
LEMMA Initially == Init => IInv
<1> SUFFICES ASSUME Init
             PROVE  IInv
  OBVIOUS
<1>1. at = "pre.loop.start" /\ at \in Phases /\ at \in Places
  BY DEF Init, Phases, Places
<1>2. TypeOK
  <2>1. session \in 1..Sessions /\ suspended \in 0..Sessions
        /\ iteration \in 0..Iterations
        /\ hook \in Nat \ {0} /\ attempt \in 1..(Attempts + 1)
    BY HooksAssumption DEF Init
  <2>2. /\ step \in Steps /\ reason \in Reasons /\ logged \in Reasons
        /\ outcomes \subseteq {"pass", "warn", "block", "suspend"}
        /\ operator \in {"idle", "saw"}
    BY DEF Init, Steps, Reasons
  <2>3. /\ heard \in BOOLEAN /\ resume \in BOOLEAN
        /\ stop \in BOOLEAN /\ restart \in BOOLEAN
    BY Zenon DEF Init
  <2>4. QED
    BY <1>1, <2>1, <2>2, <2>3 DEF TypeOK
<1>3. QED
  BY <1>1, <1>2, PhasesDiffer
     DEF Init, IInv, WaitsInPhase, AttemptsLeft, GateIsClean, WrittenBefore,
         IterationAllowed, SuspensionIsTrue, StopIsFinal, Waiting

\* The end of a phase, with the reason that stands.
LEMMA ProceedWhere ==
  ASSUME TypeOK, at \in Phases, NEW r \in Reasons, Proceed(r)
  PROVE  \E place \in Places \ {"failed", "dead"} :
           /\ Enter(place) /\ place # at
           /\ reason' \in Reasons /\ logged' \in Reasons
           /\ (r # "none" \/ at \in Closing \cup Closed) =>
                place \in Closing \cup Closed \cup Over /\ reason' = r
           /\ place \in {"pre.iteration.start", "post.iteration.start", "agent"}
                => at \in {"pre.iteration.start", "post.iteration.start"}
<1>0. /\ reason \in Reasons /\ logged \in Reasons
  BY DEF TypeOK
<1>a. \A q : /\ Pre(q) \in Closing /\ Post(q) \in Closed
  BY PhasesDiffer
<1>b. \A q \in Closing \cup Closed \cup {"ended"} :
        /\ q \in Places \ {"failed", "dead"}
        /\ q \notin {"pre.iteration.start", "post.iteration.start", "agent"}
        /\ q \in Closing \cup Closed \cup Over
  BY DEF Closing, Closed, Over, Places, Phases
<1>1. CASE at \in Closing
  <2>1. Enter(Post(r)) /\ reason' = r /\ logged' = r
    BY <1>1, PhasesDiffer DEF Proceed
  <2>2. Post(r) # at
    BY <1>1, <1>a, PhasesDiffer
  <2>3. QED
    BY <2>1, <2>2, <1>a, <1>b
<1>2. CASE at \in Closed
  <2>1. Enter("ended") /\ reason' = r /\ logged' = logged
    BY <1>2, PhasesDiffer DEF Proceed
  <2>2. "ended" # at
    BY <1>2 DEF Closed
  <2>3. QED
    BY <2>1, <2>2, <1>0, <1>b
<1>3. CASE at \notin Closing \cup Closed /\ r # "none"
  <2>1. Enter(Pre(r)) /\ reason' = r /\ logged' = logged
    BY <1>3 DEF Proceed
  <2>2. Pre(r) # at
    BY <1>3, <1>a
  <2>3. QED
    BY <2>1, <2>2, <1>0, <1>a, <1>b
<1>4. CASE at \notin Closing \cup Closed /\ r = "none"
  <2>1. PICK place \in Follows(at) : Enter(place)
    BY <1>4 DEF Proceed
  <2>2. reason' = reason /\ logged' = logged
    BY <1>4 DEF Proceed
  <2>3. /\ place \in Places \ (Over \cup Closing \cup Closed)
        /\ place # at
        /\ place \in {"pre.iteration.start", "post.iteration.start", "agent"}
             => at \in {"pre.iteration.start", "post.iteration.start"}
    BY FollowsTypes
  <2>4. "failed" \in Over /\ "dead" \in Over
    BY DEF Over
  <2>5. QED
    BY <1>0, <1>4, <2>1, <2>2, <2>3, <2>4
<1>5. QED
  BY <1>1, <1>2, <1>3, <1>4

\* Wherever a step enters, the invariant holds again, when no suspend-state of
\* this session is left and a consumed stop leads to the end.
LEMMA EntersSafely ==
  ASSUME NEW place \in Places \ {"failed", "dead"}, Enter(place),
         session' \in 1..Sessions,
         iteration' \in 0..Iterations,
         reason' \in Reasons, logged' \in Reasons,
         heard' \in BOOLEAN, resume' \in BOOLEAN, stop' \in BOOLEAN,
         restart' \in BOOLEAN, operator' \in {"idle", "saw"},
         suspended' \in 0..Sessions, suspended' < session',
         place \in {"pre.iteration.start", "post.iteration.start", "agent"}
           => iteration' < Iterations,
         heard' => /\ place \in Closing \cup Closed \cup Over
                   /\ reason' \in {"stopped", "restart"}
  PROVE  IInv'
<1>1. /\ at' = place /\ step' = "run" /\ hook' = 1 /\ attempt' = 1
      /\ outcomes' = {}
  BY DEF Enter
<1>2. /\ hook' \in Nat \ {0} /\ attempt' \in 1..(Attempts + 1)
      /\ step' \in Steps
  BY <1>1, HooksAssumption DEF Steps
<1>3. outcomes' \subseteq {"pass", "warn", "block", "suspend"}
  BY <1>1
<1>4. TypeOK'
  BY <1>1, <1>2, <1>3 DEF TypeOK
<1>5. /\ WaitsInPhase' /\ AttemptsLeft' /\ GateIsClean' /\ IterationAllowed'
      /\ StopIsFinal'
  BY <1>1 DEF WaitsInPhase, AttemptsLeft, GateIsClean, IterationAllowed,
              StopIsFinal
<1>6. WrittenBefore' /\ SuspensionIsTrue'
  BY <1>1 DEF WrittenBefore, SuspensionIsTrue, Waiting
<1>7. QED
  BY <1>4, <1>5, <1>6 DEF IInv
-----------------------------------------------------------------------------
(* The loop between its boundaries.                                        *)

Between == {"boundary", "refilled", "hat", "agent", "output", "wrapup"}

LEMMA NoneLeft ==
  ASSUME IInv, step = "run", at \notin {"failed", "dead"},
         at \notin Phases \/ "suspend" \notin outcomes
  PROVE  suspended < session
<1>1. suspended # session
  BY DEF IInv, SuspensionIsTrue, Waiting
<1>2. suspended <= session /\ suspended \in Nat /\ session \in Nat
  BY DEF IInv, WrittenBefore, TypeOK
<1>3. QED
  BY <1>1, <1>2

LEMMA BetweenPhases ==
  ASSUME IInv, at \in Between
  PROVE  step = "run" /\ heard = FALSE /\ suspended < session
<1>1. at \notin Phases /\ at \notin Over
  BY DEF Between, Phases, Over, Closing, Closed
<1>2. step = "run"
  BY <1>1 DEF IInv, WaitsInPhase
<1>3. at \notin {"failed", "dead"}
  BY DEF Between
<1>4. suspended < session
  BY <1>1, <1>2, <1>3, NoneLeft
<1>5. ~heard
  BY <1>1, PhasesDiffer DEF IInv, StopIsFinal
<1>6. heard \in BOOLEAN
  BY DEF IInv, TypeOK
<1>7. QED
  BY <1>2, <1>4, <1>5, <1>6

LEMMA Terminates ==
  ASSUME IInv, at \in Between, NEW r \in Reasons, Terminate(r),
         heard' \in BOOLEAN, heard' => r \in {"stopped", "restart"},
         resume' \in BOOLEAN, stop' \in BOOLEAN, restart' \in BOOLEAN,
         suspended' = suspended, operator' = operator
  PROVE  IInv'
<1>1. Pre(r) \in Closing
  BY PhasesDiffer
<1>2. /\ Pre(r) \in Places \ {"failed", "dead"}
      /\ Pre(r) \notin {"pre.iteration.start", "post.iteration.start", "agent"}
  BY <1>1 DEF Closing, Places, Phases
<1>3. /\ Enter(Pre(r)) /\ reason' = r
      /\ session' = session /\ logged' = logged /\ iteration' = iteration
  BY DEF Terminate
<1>4. suspended < session
  BY BetweenPhases
<1>5. QED
  BY <1>1, <1>2, <1>3, <1>4, EntersSafely DEF IInv, TypeOK

LEMMA GoesSafely ==
  ASSUME IInv, at \in Between, NEW from,
         NEW to \in SUBSET (Places \ {"failed", "dead"}), Goes(from, to),
         iteration' \in 0..Iterations,
         "pre.iteration.start" \in to \/ "agent" \in to
           \/ "post.iteration.start" \in to => iteration' < Iterations
  PROVE  IInv'
<1>1. PICK place \in to : Enter(place)
  BY DEF Goes
<1>2. /\ UNCHANGED <<session, reason, logged, heard, operator>>
      /\ UNCHANGED <<suspended, resume, stop, restart>>
  BY DEF Goes, files
<1>3. suspended < session /\ ~heard
  BY BetweenPhases
<1>4. place \in Places \ {"failed", "dead"}
  BY <1>1
<1>5. place \in {"pre.iteration.start", "post.iteration.start", "agent"}
        => iteration' < Iterations
  BY <1>1
<1>6. QED
  BY <1>1, <1>2, <1>3, <1>4, <1>5, EntersSafely DEF IInv, TypeOK

LEMMA AtLoop ==
  ASSUME IInv, LoopActs
  PROVE  IInv'
<1>t. TypeOK
  BY DEF IInv
<1>r. {"completed", "cancelled", "stopped", "limit", "restart", "interrupted"}
        \subseteq Reasons
  BY DEF Reasons
<1>b. /\ resume \in BOOLEAN /\ stop \in BOOLEAN /\ restart \in BOOLEAN
      /\ heard \in BOOLEAN
  BY <1>t DEF TypeOK
<1>i. iteration \in 0..Iterations /\ Iterations \in Nat
  BY <1>t, HooksAssumption DEF TypeOK
<1>1. ASSUME LimitReached PROVE IInv'
  <2>1. at \in Between
    BY <1>1 DEF LimitReached, Checking, Between
  <2>2. Terminate("limit") /\ UNCHANGED <<heard, operator>>
        /\ UNCHANGED <<suspended, resume, stop, restart>>
    BY <1>1 DEF LimitReached, files
  <2>3. QED
    BY <2>1, <2>2, <1>r, <1>b, BetweenPhases, Terminates
<1>2. ASSUME StopNoticed PROVE IInv'
  <2>1. at \in Between
    BY <1>2 DEF StopNoticed, Checking, Between
  <2>2. Terminate("stopped") /\ heard' = TRUE /\ stop' = FALSE
        /\ UNCHANGED <<suspended, resume, restart, operator>>
    BY <1>2 DEF StopNoticed
  <2>3. QED
    BY <2>1, <2>2, <1>r, <1>b, Terminates
<1>3. ASSUME RestartNoticed PROVE IInv'
  <2>1. at \in Between
    BY <1>3 DEF RestartNoticed, Checking, Between
  <2>2. Terminate("restart") /\ UNCHANGED <<heard, operator>>
        /\ UNCHANGED <<suspended, resume, stop, restart>>
    BY <1>3 DEF RestartNoticed, files
  <2>3. QED
    BY <2>1, <2>2, <1>r, <1>b, BetweenPhases, Terminates
<1>4. ASSUME StartIteration PROVE IInv'
  <2>1. iteration' = iteration /\ iteration < Iterations
    BY <1>4 DEF StartIteration, Unasked
  <2>2. CASE Goes("boundary", {"pre.iteration.start", "hat"})
    <3>1. at \in Between
      BY <2>2 DEF Goes, Between
    <3>2. {"pre.iteration.start", "hat"} \in SUBSET (Places \ {"failed", "dead"})
      BY DEF Places, Phases
    <3>3. QED
      BY <2>1, <2>2, <3>1, <3>2, <1>i, GoesSafely
  <2>3. CASE Goes("refilled", {"pre.iteration.start"})
    <3>1. at \in Between
      BY <2>3 DEF Goes, Between
    <3>2. {"pre.iteration.start"} \in SUBSET (Places \ {"failed", "dead"})
      BY DEF Places, Phases
    <3>3. QED
      BY <2>1, <2>3, <3>1, <3>2, <1>i, GoesSafely
  <2>4. QED
    BY <1>4, <2>2, <2>3 DEF StartIteration
<1>5. ASSUME Refill PROVE IInv'
  <2>1. iteration' = iteration /\ Goes("hat", {"refilled"})
    BY <1>5 DEF Refill
  <2>2. at \in Between
    BY <2>1 DEF Goes, Between
  <2>3. {"refilled"} \in SUBSET (Places \ {"failed", "dead"})
    BY DEF Places
  <2>4. QED
    BY <2>1, <2>2, <2>3, <1>i, GoesSafely
<1>6. ASSUME NoHat PROVE IInv'
  <2>1. at \in Between
    BY <1>6 DEF NoHat, Between
  <2>2. PICK r \in {"completed", "cancelled", "stopped"} : Terminate(r)
    BY <1>6 DEF NoHat
  <2>3. UNCHANGED <<heard, operator>>
        /\ UNCHANGED <<suspended, resume, stop, restart>>
    BY <1>6 DEF NoHat, files
  <2>4. r \in Reasons
    BY <2>2, <1>r
  <2>5. QED
    BY <2>1, <2>2, <2>3, <2>4, <1>b, BetweenPhases, Terminates
<1>7. ASSUME AgentDone PROVE IInv'
  <2>1. iteration' = iteration + 1 /\ Goes("agent", {"output"})
    BY <1>7 DEF AgentDone
  <2>2. at \in Between /\ at = "agent"
    BY <2>1 DEF Goes, Between
  <2>3. {"output"} \in SUBSET (Places \ {"failed", "dead"})
    BY DEF Places
  <2>4. iteration' \in 0..Iterations
    BY <2>1, <2>2, <1>i DEF IInv, IterationAllowed
  <2>5. QED
    BY <2>1, <2>2, <2>3, <2>4, GoesSafely
<1>8. ASSUME Interrupted PROVE IInv'
  <2>1. at \in Between
    BY <1>8 DEF Interrupted, Between
  <2>2. Terminate("interrupted") /\ UNCHANGED <<heard, operator>>
        /\ UNCHANGED <<suspended, resume, stop, restart>>
    BY <1>8 DEF Interrupted, files
  <2>3. QED
    BY <2>1, <2>2, <1>r, <1>b, BetweenPhases, Terminates
<1>9. ASSUME OutputProcessed PROVE IInv'
  <2> DEFINE to == {"pre.plan.created"} \cup Follows("pre.plan.created")
  <2>1. iteration' = iteration /\ Goes("output", to)
    BY <1>9 DEF OutputProcessed
  <2>2. at \in Between
    BY <2>1 DEF Goes, Between
  <2>3. to = {"pre.plan.created", "pre.human.interact",
              "post.human.interact", "post.plan.created", "wrapup"}
    BY DEF Follows
  <2>4. to \in SUBSET (Places \ {"failed", "dead"})
    BY <2>3 DEF Places, Phases
  <2>5. "pre.iteration.start" \notin to /\ "agent" \notin to
        /\ "post.iteration.start" \notin to
    BY <2>3
  <2> HIDE DEF to
  <2>6. QED
    BY <2>1, <2>2, <2>4, <2>5, <1>i, GoesSafely
<1>10. ASSUME Cancelled PROVE IInv'
  <2>1. at \in Between
    BY <1>10 DEF Cancelled, Between
  <2>2. /\ Enter("ended") /\ reason' = "cancelled" /\ logged' = "cancelled"
        /\ UNCHANGED <<session, iteration, heard, operator>>
        /\ UNCHANGED <<suspended, resume, stop, restart>>
    BY <1>10 DEF Cancelled, files
  <2>3. suspended < session /\ ~heard
    BY <2>1, BetweenPhases
  <2>4. "ended" \in Places \ {"failed", "dead"}
    BY DEF Places, Over
  <2>5. QED
    BY <2>2, <2>3, <2>4, <1>t, <1>r, EntersSafely DEF TypeOK
<1>11. ASSUME Completes PROVE IInv'
  <2>1. at \in Between
    BY <1>11 DEF Completes, Between
  <2>2. PICK r \in {"completed", "cancelled"} : Terminate(r)
    BY <1>11 DEF Completes
  <2>3. UNCHANGED <<heard, operator>>
        /\ UNCHANGED <<suspended, resume, stop, restart>>
    BY <1>11 DEF Completes, files
  <2>4. r \in Reasons
    BY <2>2, <1>r
  <2>5. QED
    BY <2>1, <2>2, <2>3, <2>4, <1>b, BetweenPhases, Terminates
<1>12. ASSUME NextIteration PROVE IInv'
  <2>1. iteration' = iteration /\ Goes("wrapup", {"boundary"})
    BY <1>12 DEF NextIteration
  <2>2. at \in Between
    BY <2>1 DEF Goes, Between
  <2>3. {"boundary"} \in SUBSET (Places \ {"failed", "dead"})
    BY DEF Places
  <2>4. QED
    BY <2>1, <2>2, <2>3, <1>i, GoesSafely
<1>13. QED
  BY <1>1, <1>2, <1>3, <1>4, <1>5, <1>6, <1>7, <1>8, <1>9, <1>10, <1>11, <1>12
     DEF LoopActs
-----------------------------------------------------------------------------
(* The way out of a phase.                                                 *)

LEMMA LeavesPhase ==
  ASSUME IInv, at \in Phases, NEW r \in Reasons, Proceed(r),
         session' = session, iteration' = iteration, operator' = operator,
         suspended' \in 0..Sessions, suspended' < session,
         resume' \in BOOLEAN, stop' \in BOOLEAN, restart' \in BOOLEAN,
         heard' \in BOOLEAN,
         heard' => /\ r \in {"stopped", "restart"}
                   /\ r # "none" \/ at \in Closing \cup Closed
  PROVE  IInv'
<1>1. TypeOK
  BY DEF IInv
<1>2. PICK place \in Places \ {"failed", "dead"} :
        /\ Enter(place)
        /\ reason' \in Reasons /\ logged' \in Reasons
        /\ (r # "none" \/ at \in Closing \cup Closed) =>
             place \in Closing \cup Closed \cup Over /\ reason' = r
        /\ place \in {"pre.iteration.start", "post.iteration.start", "agent"}
             => at \in {"pre.iteration.start", "post.iteration.start"}
  BY <1>1, ProceedWhere
<1>3. place \in {"pre.iteration.start", "post.iteration.start", "agent"}
        => iteration' < Iterations
  BY <1>2 DEF IInv, IterationAllowed
<1>4. heard' => /\ place \in Closing \cup Closed \cup Over
                /\ reason' \in {"stopped", "restart"}
  BY <1>2
<1>5. QED
  BY <1>1, <1>2, <1>3, <1>4, EntersSafely DEF TypeOK

LEMMA AtPhaseEnd ==
  ASSUME IInv, PhasePasses \/ GateActs
  PROVE  IInv'
<1>t. TypeOK
  BY DEF IInv
<1>r. {"stopped", "restart"} \subseteq Reasons /\ reason \in Reasons
  BY <1>t DEF Reasons, TypeOK
<1>b. /\ resume \in BOOLEAN /\ stop \in BOOLEAN /\ restart \in BOOLEAN
      /\ heard \in BOOLEAN
  BY <1>t DEF TypeOK
<1>s. session \in Nat \ {0} /\ Sessions \in Nat /\ suspended \in 0..Sessions
  BY <1>t, HooksAssumption DEF TypeOK
<1>h. at \in Phases /\ heard =>
        at \in Closing \cup Closed /\ reason \in {"stopped", "restart"}
  BY PhasesDiffer DEF IInv, StopIsFinal
<1>1. ASSUME PhasePasses PROVE IInv'
  <2>1. /\ at \in Phases /\ step = "run" /\ "suspend" \notin outcomes
        /\ Proceed(reason)
        /\ UNCHANGED <<session, iteration, heard, suspended, resume, stop,
                       operator>>
    BY <1>1 DEF PhasePasses, PhaseDone
  <2>2. at \notin {"failed", "dead"}
    BY <2>1, PhasesDiffer DEF Over
  <2>3. suspended < session
    BY <2>1, <2>2, NoneLeft
  <2>4. restart' \in BOOLEAN
    BY <1>1 DEF PhasePasses, Removes
  <2>5. QED
    BY <2>1, <2>3, <2>4, <1>r, <1>b, <1>s, <1>h, LeavesPhase
<1>2. ASSUME GateStopped PROVE IInv'
  <2>1. /\ step = "gate" /\ Proceed("stopped")
        /\ stop' = FALSE /\ suspended' = 0 /\ resume' = FALSE /\ heard' = TRUE
        /\ UNCHANGED <<session, iteration, restart, operator>>
    BY <1>2 DEF GateStopped
  <2>2. at \in Phases
    BY <2>1 DEF IInv, WaitsInPhase
  <2>3. suspended' \in 0..Sessions /\ suspended' < session
    BY <2>1, <1>s
  <2>4. QED
    BY <2>1, <2>2, <2>3, <1>r, <1>b, LeavesPhase
<1>3. ASSUME GateRestarts PROVE IInv'
  <2>1. /\ step = "gate" /\ Proceed("restart")
        /\ suspended' = 0 /\ resume' = FALSE
        /\ UNCHANGED <<session, iteration, heard, stop, operator>>
    BY <1>3 DEF GateRestarts
  <2>2. at \in Phases
    BY <2>1 DEF IInv, WaitsInPhase
  <2>3. suspended' \in 0..Sessions /\ suspended' < session
    BY <2>1, <1>s
  <2>4. restart' \in BOOLEAN
    BY <1>3 DEF GateRestarts, Removes
  <2>5. QED
    BY <2>1, <2>2, <2>3, <2>4, <1>r, <1>b, LeavesPhase
<1>4. ASSUME GateReleased PROVE IInv'
  <2>1. /\ step = "gate" /\ Proceed(reason)
        /\ suspended' = 0 /\ resume' = FALSE
        /\ UNCHANGED <<session, iteration, heard, stop, operator>>
    BY <1>4 DEF GateReleased
  <2>2. at \in Phases
    BY <2>1 DEF IInv, WaitsInPhase
  <2>3. suspended' \in 0..Sessions /\ suspended' < session
    BY <2>1, <1>s
  <2>4. restart' \in BOOLEAN
    BY <1>4 DEF GateReleased, Removes
  <2>5. QED
    BY <2>1, <2>2, <2>3, <2>4, <1>r, <1>b, <1>h, LeavesPhase
<1>5. QED
  BY <1>1, <1>2, <1>3, <1>4 DEF GateActs
-----------------------------------------------------------------------------
(* Inside a phase: the place, the iteration and what was heard stay.       *)

LEMMA StaysSafely ==
  ASSUME IInv, at \in Phases,
         UNCHANGED <<session, at, iteration, reason, logged, heard, operator>>,
         step' \in Steps, hook' \in Nat \ {0}, attempt' \in 1..(Attempts + 1),
         outcomes' \subseteq {"pass", "warn", "block", "suspend"},
         suspended' \in {suspended, 0, session},
         resume' \in BOOLEAN, stop' \in BOOLEAN, restart' \in BOOLEAN,
         AttemptsLeft', GateIsClean', SuspensionIsTrue'
  PROVE  IInv'
<1>1. TypeOK'
  <2>1. suspended' \in 0..Sessions
    BY HooksAssumption DEF IInv, TypeOK
  <2>2. QED
    BY <2>1 DEF IInv, TypeOK
<1>2. WaitsInPhase' /\ IterationAllowed' /\ StopIsFinal'
  BY DEF IInv, WaitsInPhase, IterationAllowed, StopIsFinal
<1>3. WrittenBefore'
  BY HooksAssumption DEF IInv, TypeOK, WrittenBefore
<1>4. QED
  BY <1>1, <1>2, <1>3 DEF IInv

LEMMA AtHook ==
  ASSUME IInv, HookActs
  PROVE  IInv'
<1>t. /\ TypeOK /\ WaitsInPhase /\ AttemptsLeft /\ SuspensionIsTrue
  BY DEF IInv
<1>b. /\ resume \in BOOLEAN /\ stop \in BOOLEAN /\ restart \in BOOLEAN
  BY <1>t DEF TypeOK
<1>n. /\ hook \in Nat \ {0} /\ attempt \in 1..(Attempts + 1)
      /\ Attempts \in Nat \ {0} /\ session \in Nat \ {0} /\ suspended \in Nat
      /\ 1 \in 1..(Attempts + 1) /\ 2 \in 1..(Attempts + 1)
      /\ hook + 1 \in Nat \ {0}
  BY <1>t, HooksAssumption DEF TypeOK
<1>o. /\ outcomes \subseteq {"pass", "warn", "block", "suspend"}
      /\ {"run", "delay", "hold", "gate"} = Steps
  BY <1>t DEF TypeOK, Steps
<1>p. at \in Phases => at \notin {"failed", "dead"}
  BY PhasesDiffer DEF Over
<1>1. ASSUME RunHook PROVE IInv'
  <2>1. /\ at \in Phases /\ step = "run" /\ hook <= Len(Configured[at])
        /\ UNCHANGED <<session, at, iteration, reason, logged, heard, operator>>
        /\ UNCHANGED <<resume, stop, restart>>
    BY <1>1 DEF RunHook, Dispatching
  <2>2. suspended = session => "suspend" \in outcomes
    BY <2>1, <1>p, <1>t DEF SuspensionIsTrue, Waiting
  <2>3. Current \in Hook
    <3>1. Configured[at] \in Seq(Hook)
      BY <2>1, HooksAssumption
    <3>2. hook \in 1..Len(Configured[at])
      BY <2>1, <3>1, <1>n
    <3>3. QED
      BY <3>1, <3>2 DEF Current
  <2>4. Results \subseteq {"pass", "warn", "block", "suspend"}
    BY <2>3 DEF Results, Hook
  <2>5. CASE \E result \in Results : Conclude(result) /\ UNCHANGED suspended
    <3>1. PICK result \in Results : Conclude(result) /\ UNCHANGED suspended
      BY <2>5
    <3>2. /\ outcomes' \subseteq {"pass", "warn", "block", "suspend"}
          /\ outcomes \subseteq outcomes'
          /\ hook' \in Nat \ {0} /\ attempt' = 1 /\ step' = "run"
      BY <3>1, <2>4, <1>o, <1>n DEF Conclude
    <3>3. AttemptsLeft' /\ GateIsClean'
      BY <3>2 DEF AttemptsLeft, GateIsClean
    <3>4. SuspensionIsTrue'
      BY <3>1, <3>2, <2>1, <2>2 DEF SuspensionIsTrue, Waiting
    <3>5. QED
      BY <2>1, <3>1, <3>2, <3>3, <3>4, <1>b, <1>n, <1>o, StaysSafely
  <2>6. CASE Retries
    <3>1. /\ step' = "delay" /\ UNCHANGED <<hook, attempt, outcomes, suspended>>
          /\ Current.mode = "retry_backoff" /\ attempt < Last(Current.mode)
      BY <2>6 DEF Retries, MayRetry
    <3>2. Last("retry_backoff") = Attempts
      BY DEF Last
    <3>3. AttemptsLeft' /\ GateIsClean'
      BY <3>1, <3>2 DEF AttemptsLeft, GateIsClean
    <3>4. SuspensionIsTrue'
      BY <3>1, <2>1, <2>2 DEF SuspensionIsTrue, Waiting
    <3>5. QED
      BY <2>1, <3>1, <3>3, <3>4, <1>b, <1>n, <1>o, StaysSafely
  <2>7. CASE Holds
    <3>1. /\ step' = "hold" /\ suspended' = session
          /\ UNCHANGED <<hook, attempt, outcomes>>
      BY <2>7 DEF Holds
    <3>2. AttemptsLeft' /\ GateIsClean' /\ SuspensionIsTrue'
      BY <2>1, <3>1 DEF AttemptsLeft, GateIsClean, SuspensionIsTrue, Waiting
    <3>3. QED
      BY <2>1, <3>1, <3>2, <1>b, <1>n, <1>o, StaysSafely
  <2>8. QED
    BY <1>1, <2>5, <2>6, <2>7 DEF RunHook
<1>2. ASSUME DelayElapses PROVE IInv'
  <2>1. /\ step = "delay" /\ step' = "run" /\ attempt' = attempt + 1
        /\ UNCHANGED <<session, at, iteration, reason, logged, heard, operator>>
        /\ UNCHANGED <<suspended, resume, stop, restart, hook, outcomes>>
    BY <1>2 DEF DelayElapses, files
  <2>2. at \in Phases /\ attempt < Attempts
    BY <2>1, <1>t DEF WaitsInPhase, AttemptsLeft
  <2>3. attempt' \in 1..(Attempts + 1)
    BY <2>1, <2>2, <1>n
  <2>4. AttemptsLeft' /\ GateIsClean' /\ SuspensionIsTrue'
    BY <2>1, <2>2, <1>t, <1>p
       DEF AttemptsLeft, GateIsClean, SuspensionIsTrue, Waiting
  <2>5. QED
    BY <2>1, <2>2, <2>3, <2>4, <1>b, <1>n, <1>o, StaysSafely
<1>3. ASSUME WaitAbandoned PROVE IInv'
  <2>1. /\ step \in {"delay", "hold"} /\ Conclude("suspend")
        /\ UNCHANGED <<session, at, iteration, reason, logged, heard, operator>>
        /\ UNCHANGED <<suspended, resume, stop, restart>>
    BY <1>3 DEF WaitAbandoned, files
  <2>2. at \in Phases
    BY <2>1, <1>t DEF WaitsInPhase
  <2>3. /\ outcomes' = outcomes \cup {"suspend"} /\ hook' = hook + 1
        /\ attempt' = 1 /\ step' = "run"
    BY <2>1 DEF Conclude
  <2>4. AttemptsLeft' /\ GateIsClean' /\ SuspensionIsTrue'
    BY <2>1, <2>2, <2>3 DEF AttemptsLeft, GateIsClean, SuspensionIsTrue, Waiting
  <2>5. outcomes' \subseteq {"pass", "warn", "block", "suspend"}
    BY <2>3, <1>o
  <2>6. QED
    BY <2>1, <2>2, <2>3, <2>4, <2>5, <1>b, <1>n, <1>o, StaysSafely
<1>4. ASSUME HoldReleased PROVE IInv'
  <2>1. /\ step = "hold" /\ resume' = FALSE /\ suspended' = 0
        /\ step' = "run" /\ attempt' = 2
        /\ UNCHANGED <<session, at, iteration, reason, logged, heard, operator>>
        /\ UNCHANGED <<stop, restart, hook, outcomes>>
    BY <1>4 DEF HoldReleased
  <2>2. at \in Phases
    BY <2>1, <1>t DEF WaitsInPhase
  <2>3. AttemptsLeft' /\ GateIsClean' /\ SuspensionIsTrue'
    BY <2>1, <1>n DEF AttemptsLeft, GateIsClean, SuspensionIsTrue, Waiting
  <2>4. QED
    BY <2>1, <2>2, <2>3, <1>b, <1>n, <1>o, StaysSafely
<1>5. QED
  BY <1>1, <1>2, <1>3, <1>4 DEF HookActs

LEMMA AtVerdict ==
  ASSUME IInv, Blocked \/ Suspends \/ Crash
  PROVE  IInv'
<1>t. /\ TypeOK /\ WaitsInPhase /\ WrittenBefore /\ StopIsFinal
  BY DEF IInv
<1>1. ASSUME Suspends PROVE IInv'
  <2>1. /\ at \in Phases /\ step' = "gate" /\ suspended' = session
        /\ "block" \notin outcomes
        /\ UNCHANGED <<session, at, iteration, reason, logged, heard, operator>>
        /\ UNCHANGED <<hook, attempt, outcomes, resume, stop, restart>>
    BY <1>1 DEF Suspends, PhaseDone
  <2>2. AttemptsLeft' /\ GateIsClean' /\ SuspensionIsTrue'
    BY <2>1 DEF AttemptsLeft, GateIsClean, SuspensionIsTrue, Waiting
  <2>3. "gate" \in Steps
    BY DEF Steps
  <2>4. QED
    BY <2>1, <2>2, <2>3, <1>t, StaysSafely DEF TypeOK
<1>2. ASSUME Blocked \/ Crash PROVE IInv'
  <2>1. /\ at' \in {"failed", "dead"} /\ step' = "run"
        /\ UNCHANGED <<session, hook, attempt, outcomes, iteration, reason,
                       logged, heard, operator>>
        /\ UNCHANGED <<suspended, resume, stop, restart>>
    BY <1>2 DEF Blocked, Crash, PhaseDone, files
  <2>2. /\ at' \in Over /\ at' \in Places /\ step' \in Steps
        /\ at' \notin {"pre.iteration.start", "post.iteration.start", "agent"}
    BY <2>1 DEF Over, Places, Steps
  <2>3. TypeOK'
    BY <2>1, <2>2, <1>t DEF TypeOK
  <2>4. /\ WaitsInPhase' /\ AttemptsLeft' /\ GateIsClean' /\ IterationAllowed'
        /\ SuspensionIsTrue'
    BY <2>1, <2>2 DEF WaitsInPhase, AttemptsLeft, GateIsClean,
                      IterationAllowed, SuspensionIsTrue, Waiting
  <2>5. WrittenBefore' /\ StopIsFinal'
    BY <2>1, <2>2, <1>t DEF WrittenBefore, StopIsFinal
  <2>6. QED
    BY <2>3, <2>4, <2>5 DEF IInv
<1>3. QED
  BY <1>1, <1>2
-----------------------------------------------------------------------------
(* New runs, and what is done from outside.                                *)

LEMMA AtNewSession ==
  ASSUME IInv, NewSession
  PROVE  IInv'
<1>1. /\ session < Sessions /\ session' = session + 1
      /\ Enter("pre.loop.start")
      /\ iteration' = 0 /\ reason' = "none" /\ logged' = "none"
      /\ heard' = FALSE
      /\ UNCHANGED <<suspended, resume, stop, restart, operator>>
  BY DEF NewSession, files
<1>2. "pre.loop.start" \in Places \ {"failed", "dead"}
  BY DEF Places, Phases
<1>3. /\ session' \in 1..Sessions /\ iteration' \in 0..Iterations
      /\ suspended' \in 0..Sessions /\ suspended' < session'
  BY <1>1, HooksAssumption DEF IInv, TypeOK, WrittenBefore
<1>4. "none" \in Reasons
  BY DEF Reasons
<1>5. /\ resume \in BOOLEAN /\ stop \in BOOLEAN /\ restart \in BOOLEAN
      /\ operator \in {"idle", "saw"}
  BY DEF IInv, TypeOK
<1>6. heard' \in BOOLEAN /\ ~heard'
  BY <1>1
<1>7. QED
  BY <1>1, <1>2, <1>3, <1>4, <1>5, <1>6, EntersSafely

LEMMA FromOutside ==
  ASSUME IInv, ResumeLooks \/ ResumeWrites \/ RequestStop \/ RequestRestart
                 \/ UNCHANGED vars
  PROVE  IInv'
<1>1. /\ UNCHANGED <<session, at, step, hook, attempt, outcomes, iteration,
                     reason, logged, heard>>
      /\ UNCHANGED suspended
      /\ resume' \in {resume, TRUE} /\ stop' \in {stop, TRUE}
      /\ restart' \in {restart, TRUE} /\ operator' \in {operator, "saw", "idle"}
  BY DEF ResumeLooks, ResumeWrites, RequestStop, RequestRestart, vars,
         process, files
<1>2. TypeOK'
  <2>1. /\ resume' \in BOOLEAN /\ stop' \in BOOLEAN /\ restart' \in BOOLEAN
    BY <1>1, Zenon DEF IInv, TypeOK
  <2>2. operator' \in {"idle", "saw"}
    BY <1>1 DEF IInv, TypeOK
  <2>3. QED
    BY <1>1, <2>1, <2>2 DEF IInv, TypeOK
<1>3. QED
  BY <1>1, <1>2 DEF IInv, WaitsInPhase, AttemptsLeft, GateIsClean,
     WrittenBefore, IterationAllowed, SuspensionIsTrue, StopIsFinal, Waiting

LEMMA Inductive == IInv /\ [Next]_vars => IInv'
BY AtHook, AtVerdict, AtPhaseEnd, AtLoop, AtNewSession, FromOutside
   DEF Next, Runs, VerdictActs

THEOREM Invariant == Spec => []IInv
<1>1. Init => IInv
  BY Initially
<1>2. QED
  BY <1>1, Inductive, PTL DEF Spec
-----------------------------------------------------------------------------
(* Type correctness.                                                       *)
THEOREM TypeCorrect == Spec => []TypeOK
<1>1. IInv => TypeOK
  BY DEF IInv
<1>2. QED
  BY <1>1, Invariant, PTL

(* suspend-state.json tells the truth about this session: a loop that waits *)
(* shows one, and where one stands the loop waits, is about to clear it, or *)
(* has failed or died (run_loop_impl, wait_for_resume_if_suspended).        *)
THEOREM SuspensionIsAlwaysTrue == Spec => []SuspensionIsTrue
<1>1. IInv => SuspensionIsTrue
  BY DEF IInv
<1>2. QED
  BY <1>1, Invariant, PTL

(* After a run has consumed a stop no agent works in it again and it does  *)
(* not end as completed, whatever the hooks of its ending do.              *)
THEOREM StopIsAlwaysFinal == Spec => []StopIsFinal
<1>1. IInv => StopIsFinal
  BY DEF IInv
<1>2. QED
  BY <1>1, Invariant, PTL

\* One step: who leaves a phase, and what it leaves by.
LEMMA LeavesRightly ==
  ASSUME IInv, Next, at \in Phases, at' # at
  PROVE  /\ "block" \in outcomes => at' \in {"failed", "dead"}
         /\ "suspend" \in outcomes =>
              \/ at' \in {"failed", "dead"}
              \/ (resume /\ ~resume') \/ (stop /\ ~stop') \/ restart
<1>1. at \notin Between /\ at \notin Over
  BY DEF Between, Phases, Over, Closing, Closed
<1>2. ~LoopActs
  BY <1>1 DEF LoopActs, LimitReached, StopNoticed, RestartNoticed,
     StartIteration, Refill, NoHat, AgentDone, Interrupted, OutputProcessed,
     Cancelled, Completes, NextIteration, Goes, Checking, Between
<1>3. ~NewSession
  BY <1>1 DEF NewSession
<1>4. ~HookActs /\ ~Suspends
  BY DEF HookActs, RunHook, DelayElapses, WaitAbandoned, HoldReleased, Suspends
<1>5. ~(ResumeLooks \/ ResumeWrites \/ RequestStop \/ RequestRestart)
  BY DEF ResumeLooks, ResumeWrites, RequestStop, RequestRestart, process
<1>6. CASE Blocked \/ Crash
  BY <1>6 DEF Blocked, Crash
<1>7. CASE PhasePasses
  BY <1>7 DEF PhasePasses
<1>8. CASE GateActs
  <2>1. "block" \notin outcomes
    BY <1>8 DEF GateActs, GateStopped, GateRestarts, GateReleased, IInv,
       GateIsClean
  <2>2. (resume /\ ~resume') \/ (stop /\ ~stop') \/ restart
    BY <1>8 DEF GateActs, GateStopped, GateRestarts, GateReleased
  <2>3. QED
    BY <2>1, <2>2
<1>9. QED
  BY <1>2, <1>3, <1>4, <1>5, <1>6, <1>7, <1>8 DEF Next, Runs, VerdictActs

(* A phase is left as its hooks said: by failing once one has blocked, and *)
(* by a resume, a stop or a restart once one stayed suspended              *)
(* (fail_if_blocking_loop_start_outcomes, then the gate, at every phase).  *)
THEOREM VerdictsAlwaysStand == Spec => VerdictStands
<1>1. IInv /\ [Next]_vars =>
        [(at \in Phases /\ at' # at) =>
           (/\ "block" \in outcomes => at' \in {"failed", "dead"}
            /\ "suspend" \in outcomes =>
                 \/ at' \in {"failed", "dead"}
                 \/ (resume /\ ~resume') \/ (stop /\ ~stop') \/ restart)]_vars
  BY LeavesRightly
<1>2. QED
  BY <1>1, Invariant, PTL DEF Spec, VerdictStands

-----------------------------------------------------------------------------
(***************************************************************************)
(* The lock                                                                *)
(***************************************************************************)
USE DEF Goto, Inside, Gone

\* The invariant holds at first: nobody has started.
LEMMA LockInitially == LockInit => LockInv
BY LoopLockAssumption
   DEF LockInit, LockInv, LockTypeOK, HolderInside, RunningLoopIsNamed,
       NamedProcessHadTheLock, LockPhases

\* Every step keeps the types.
LEMMA LockTypeStep == LockTypeOK /\ [LockNext]_lockVars => LockTypeOK'
<1> SUFFICES ASSUME LockTypeOK, [LockNext]_lockVars
             PROVE  LockTypeOK'
  OBVIOUS
<1> USE DEF LockTypeOK, LockPhases
<1>1. ASSUME NEW p \in Procs, Start(p) \/ Acts(p) \/ Die(p)
      PROVE  LockTypeOK'
  <2>1. CASE Start(p)        BY <2>1 DEF Start
  <2>2. CASE TryTakes(p)     BY <2>2 DEF TryTakes
  <2>3. CASE TryRefused(p)   BY <2>3 DEF TryRefused
  <2>4. CASE ReadHolder(p)   BY <2>4 DEF ReadHolder
  <2>5. CASE ReadNothing(p)  BY <2>5 DEF ReadNothing
  <2>6. CASE WaitTakes(p)    BY <2>6 DEF WaitTakes
  <2>7. CASE Truncate(p)     BY <2>7 DEF Truncate
  <2>8. CASE Sign(p)         BY <2>8 DEF Sign
  <2>9. CASE Release(p)      BY <2>9 DEF Release
  <2>10. CASE ProbeEnds(p)   BY <2>10 DEF ProbeEnds
  <2>11. CASE Die(p)         BY <2>11 DEF Die
  <2>12. QED
    BY <1>1, <2>1, <2>2, <2>3, <2>4, <2>5, <2>6, <2>7, <2>8, <2>9, <2>10,
       <2>11 DEF Acts
<1>2. CASE UNCHANGED lockVars
  BY <1>2 DEF lockVars
<1>3. QED
  BY <1>1, <1>2 DEF LockNext

\* Every step keeps the flock and the phases in agreement: a process goes
\* inside by taking a free flock, and leaves by giving it up.
LEMMA LockHolderStep == LockTypeOK /\ HolderInside /\ [LockNext]_lockVars => HolderInside'
<1> SUFFICES ASSUME LockTypeOK, HolderInside, [LockNext]_lockVars
             PROVE  HolderInside'
  OBVIOUS
<1> USE LoopLockAssumption DEF LockTypeOK, HolderInside
<1>1. ASSUME NEW p \in Procs, Start(p) \/ Acts(p) \/ Die(p)
      PROVE  HolderInside'
  <2>1. CASE Start(p)        BY <2>1 DEF Start
  <2>2. CASE TryTakes(p)     BY <2>2 DEF TryTakes
  <2>3. CASE TryRefused(p)   BY <2>3 DEF TryRefused
  <2>4. CASE ReadHolder(p)   BY <2>4 DEF ReadHolder
  <2>5. CASE ReadNothing(p)  BY <2>5 DEF ReadNothing
  <2>6. CASE WaitTakes(p)    BY <2>6 DEF WaitTakes
  <2>7. CASE Truncate(p)     BY <2>7 DEF Truncate
  <2>8. CASE Sign(p)         BY <2>8 DEF Sign
  <2>9. CASE Release(p)      BY <2>9 DEF Release
  <2>10. CASE ProbeEnds(p)   BY <2>10 DEF ProbeEnds
  <2>11. CASE Die(p)         BY <2>11 DEF Die
  <2>12. QED
    BY <1>1, <2>1, <2>2, <2>3, <2>4, <2>5, <2>6, <2>7, <2>8, <2>9, <2>10,
       <2>11 DEF Acts
<1>2. CASE UNCHANGED lockVars
  BY <1>2 DEF lockVars
<1>3. QED
  BY <1>1, <1>2 DEF LockNext

\* What the file says stays true of the process it names: the file changes
\* only in the hands of the process inside.
LEMMA LockNameStep ==
  LockInv /\ [LockNext]_lockVars => RunningLoopIsNamed' /\ NamedProcessHadTheLock'
<1> SUFFICES ASSUME LockInv, [LockNext]_lockVars
             PROVE  RunningLoopIsNamed' /\ NamedProcessHadTheLock'
  OBVIOUS
<1> USE LoopLockAssumption
        DEF LockInv, LockTypeOK, HolderInside, RunningLoopIsNamed, NamedProcessHadTheLock
<1>1. ASSUME NEW p \in Procs, Start(p) \/ Acts(p) \/ Die(p)
      PROVE  RunningLoopIsNamed' /\ NamedProcessHadTheLock'
  <2>1. CASE Start(p)        BY <2>1 DEF Start
  <2>2. CASE TryTakes(p)     BY <2>2 DEF TryTakes
  <2>3. CASE TryRefused(p)   BY <2>3 DEF TryRefused
  <2>4. CASE ReadHolder(p)   BY <2>4 DEF ReadHolder
  <2>5. CASE ReadNothing(p)  BY <2>5 DEF ReadNothing
  <2>6. CASE WaitTakes(p)    BY <2>6 DEF WaitTakes
  <2>7. CASE Truncate(p)     BY <2>7 DEF Truncate
  <2>8. CASE Sign(p)         BY <2>8 DEF Sign
  <2>9. CASE Release(p)      BY <2>9 DEF Release
  <2>10. CASE ProbeEnds(p)   BY <2>10 DEF ProbeEnds
  <2>11. CASE Die(p)         BY <2>11 DEF Die
  <2>12. QED
    BY <1>1, <2>1, <2>2, <2>3, <2>4, <2>5, <2>6, <2>7, <2>8, <2>9, <2>10,
       <2>11 DEF Acts
<1>2. CASE UNCHANGED lockVars
  BY <1>2 DEF lockVars
<1>3. QED
  BY <1>1, <1>2 DEF LockNext

\* The invariant holds for ever.
LEMMA LockInvariantHolds == LockSpec => []LockInv
<1>1. LockInv /\ [LockNext]_lockVars => LockInv'
  BY LockTypeStep, LockHolderStep, LockNameStep DEF LockInv
<1>2. QED
  BY LockInitially, <1>1, PTL DEF LockSpec

\* Whatever starts, waits, probes and dies, the variables have their types.
THEOREM LockTypeCorrect == LockSpec => []LockTypeOK
BY LockInvariantHolds, PTL DEF LockInv

\* The lock file names the loop that runs, and nobody else is inside: what
\* `ralph loops stop` reads is the pid of the primary loop.
THEOREM RunningLoopIsAlwaysNamed == LockSpec => []RunningLoopIsNamed
BY LockInvariantHolds, PTL DEF LockInv

\* Any process the file names, or named to a process that was refused, once
\* had the lock and wrote its own name.
THEOREM NamedProcessAlwaysHadTheLock == LockSpec => []NamedProcessHadTheLock
BY LockInvariantHolds, PTL DEF LockInv

=============================================================================

----------------------------- MODULE EventLoop -----------------------------
(***************************************************************************)
(* One orchestration loop (run_loop_impl in loop_runner.rs, EventLoop in   *)
(* event_loop/mod.rs) around its event log, .ralph/events-*.jsonl: turns   *)
(* of the agent, the reading of the lines it left, the gates a claim of    *)
(* completion must pass, the judge, and what `--continue` makes of the     *)
(* log after a stop or a crash.                                            *)
(*                                                                         *)
(* The loop has no custom hats (solo mode): one hat, ralph, receives every *)
(* event, there is no default_publishes and no scope to enforce.  Waves,   *)
(* human.interact and hooks are left out.                                  *)
(***************************************************************************)
EXTENDS Naturals, Sequences, FiniteSets

CONSTANTS
    AgentLines,     \* lines the agent may append in its turn
    Required,       \* required_events
    MaxIterations,  \* max_iterations
    MaxFailures,    \* max_consecutive_failures
    MaxRejections,  \* completion_judge.max_rejections, 0 is unlimited
    Judge,          \* a completion_judge is configured
    Persistent,     \* event_loop.persistent
    MaxLines,       \* bound: nobody but the loop appends to a longer log
    MaxSessions     \* bound: processes, the first and the `--continue`s

(***************************************************************************)
(* Lines of the log, by topic.  proof and boast are build.done with and    *)
(* without evidence that the checks passed; garbage is not an event at     *)
(* all; the loop itself writes start, summary and terminate.  Lines of one *)
(* kind have the same payload.                                             *)
(***************************************************************************)
Lines == {"work", "note", "proof", "boast", "ack", "complete", "cancel",
          "garbage", "guidance", "start", "summary", "terminate"}

ASSUME EventLoopAssumption ==
    /\ AgentLines \subseteq Lines
    /\ MaxIterations \in Nat \ {0}
    /\ MaxFailures \in Nat \ {0}
    /\ MaxRejections \in Nat
    /\ Judge \in BOOLEAN
    /\ Persistent \in BOOLEAN
    /\ MaxLines \in Nat
    /\ MaxSessions \in Nat \ {0}

VARIABLES
    \* files
    file,       \* the event log
    saved,      \* the iteration in loop-state.json
    stop,       \* .ralph/stop-requested exists
    open,       \* the loop has open tasks in the task store
    \* the process
    pc,         \* where run_loop_impl is
    site,       \* which of its reads and claim checks that is
    pos,        \* lines of the log behind the event reader
    st,         \* LoopState
    pending,    \* an event is pending on the bus
    promised,   \* the last output contains the completion promise
    reason,     \* why the last process ended
    \* auxiliary
    sessions,   \* processes started
    read,       \* the lines this process has read
    claims      \* claims of completion this process has taken up

disk == <<file, saved, stop, open>>
aux == <<sessions, read, claims>>
vars == <<file, saved, stop, open, pc, site, pos, st, pending, promised,
          reason, sessions, read, claims>>

----------------------------------------------------------------------------
(***************************************************************************)
(* Reading lines.  B is the set of their numbers in the log.               *)
(***************************************************************************)

Topic(line) == IF line \in {"proof", "boast"} THEN "build.done" ELSE line

\* What backpressure makes of a line before it is recorded and published.
Validated(line) == IF line = "boast" THEN "build.blocked" ELSE Topic(line)

Unread == pos + 1 .. Len(file)

\* Lines that are events, without the loop's own telemetry.
Events(B) == {i \in B : file[i] \notin {"garbage", "summary"}}

\* Events that are recorded and published; the others only set a flag.
Published(B) == {i \in Events(B) : file[i] \notin {"complete", "cancel"}}

\* Mutant: a completion event counts wherever it is.
ClaimsAnywhere(B) == \E i \in B : file[i] = "complete"

\* A completion event counts if it is the last event of those read.
Claims(B) == \E i \in Events(B) :
                /\ file[i] = "complete"
                /\ \A j \in Events(B) : j <= i

\* Mutant: a cancel event counts like a completion event.
CancelsLast(B) == \E i \in B : /\ file[i] = "cancel"
                              /\ \A j \in Events(B) : j <= i

Cancels(B) == \E i \in B : file[i] = "cancel"

\* Mutant: any acknowledgment read together with guidance answers it.
OwesLax(was, B) ==
    /\ was \/ \E i \in B : file[i] = "guidance"
    /\ \A i \in B : file[i] # "ack"

\* Guidance is owed an answer after B, if it was (or not) before.
Owes(was, B) ==
    \/ was /\ \A i \in B : file[i] # "ack"
    \/ \E i \in B : /\ file[i] = "guidance"
                    /\ \A j \in B : j > i => file[j] # "ack"

\* The published events of B that repeat the last one, up to it.
Repeats(B) == {i \in Published(B) :
                 \A j, k \in Published(B) :
                    j >= i /\ k >= i => Validated(file[j]) = Validated(file[k])}

LastTopic(B) == Validated(file[CHOOSE i \in Published(B) :
                                  \A j \in Published(B) : j <= i])

\* record_event: consecutive events with the same signature.
Streak(s, B) ==
    IF Published(B) = {} THEN s.streak
    ELSE IF Repeats(B) = Published(B) /\ LastTopic(B) = s.last
         THEN s.streak + Cardinality(Repeats(B))
         ELSE Cardinality(Repeats(B))

Malformed(s, B) ==
    LET bad == {i \in B : file[i] = "garbage"}
    IN  IF bad = B THEN s.malformed + Cardinality(bad) ELSE 0

\* process_parse_result, on the loop state s.
Process(s, B) ==
    [s EXCEPT !.malformed = Malformed(s, B),
              !.claimed   = s.claimed \/ Claims(B),
              !.cancelled = s.cancelled \/ Cancels(B),
              !.owed      = Owes(s.owed, B),
              !.seen      = s.seen \cup {Validated(file[i]) : i \in Published(B)},
              !.last      = IF Published(B) = {} THEN s.last ELSE LastTopic(B),
              !.streak    = Streak(s, B)]

\* process_parse_result publishes something.
Publishes(B) == Published(B) # {} \/ \E i \in B : file[i] = "garbage"

ClaimsMade(B) == IF Claims(B) THEN 1 ELSE 0

(***************************************************************************)
(* LoopState of a new process.                                             *)
(***************************************************************************)
Fresh(iteration) ==
    [iteration |-> iteration, failures |-> 0, malformed |-> 0,
     claimed |-> FALSE, cancelled |-> FALSE, owed |-> FALSE,
     rejections |-> 0, seen |-> {}, last |-> "none", streak |-> 0]

\* Mutant: one iteration too many.
OverLimitLate(s) ==
    \/ s.iteration > MaxIterations
    \/ s.failures >= MaxFailures
    \/ s.malformed >= 3
    \/ s.streak >= 3

\* check_termination, the limits that are counts.
OverLimit(s) ==
    \/ s.iteration >= MaxIterations
    \/ s.failures >= MaxFailures
    \/ s.malformed >= 3
    \/ s.streak >= 3

----------------------------------------------------------------------------
Running == pc \notin {"done", "down"}

Init ==
    /\ file = <<"start">>
    /\ saved = 0
    /\ stop = FALSE
    /\ open \in BOOLEAN
    /\ pc = "top"
    /\ site = "turn"
    /\ pos = 1
    /\ st = Fresh(0)
    /\ pending = TRUE
    /\ promised = FALSE
    /\ reason = "none"
    /\ sessions = 1
    /\ read = {}
    /\ claims = 0

(***************************************************************************)
(* The loop ends; loop.terminate goes to the log behind what is written.   *)
(***************************************************************************)
End(why, written) ==
    /\ pc' = "done"
    /\ reason' = why
    /\ file' = Append(written, "terminate")
    /\ site' = "turn"
    /\ pending' = FALSE
    /\ promised' = FALSE

(***************************************************************************)
(* The outside.                                                            *)
(***************************************************************************)

\* Guidance from the terminal, RPC or Telegram becomes a line of the log.
Guide ==
    /\ Len(file) < MaxLines
    /\ file' = Append(file, "guidance")
    /\ UNCHANGED <<saved, stop, open, pc, site, pos, st, pending, promised,
                   reason, aux>>

\* Bound: it is asked for while the agent or the judge runs.
AskStop ==
    /\ pc \in {"agent", "judging"}
    /\ ~stop
    /\ stop' = TRUE
    /\ UNCHANGED <<file, saved, open, pc, site, pos, st, pending, promised,
                   reason, aux>>

\* The process dies; what it had in memory is gone.
Crash ==
    /\ Running
    /\ pc' = "down"
    /\ st' = Fresh(0)
    /\ pos' = 0
    /\ read' = {}
    /\ claims' = 0
    /\ site' = "turn"
    /\ pending' = FALSE
    /\ promised' = FALSE
    /\ UNCHANGED <<disk, reason, sessions>>

(***************************************************************************)
(* The top of the loop: check_termination, then the next hat.              *)
(***************************************************************************)

\* A limit is reached.  Cost and time are not modelled: they may be over.
EndAtTop ==
    /\ pc = "top"
    /\ End("limits", file)
    /\ UNCHANGED <<saved, stop, open, pos, st, aux>>

StopAtTop ==
    /\ pc = "top"
    /\ ~OverLimit(st)
    /\ stop
    /\ stop' = FALSE
    /\ End("stopped", file)
    /\ UNCHANGED <<saved, open, pos, st, aux>>

\* build_prompt takes every pending event; the agent starts.
StartTurn ==
    /\ pc = "top"
    /\ ~OverLimit(st)
    /\ ~stop
    /\ pending
    /\ pending' = FALSE
    /\ pc' = "agent"
    /\ UNCHANGED <<disk, site, pos, st, promised, reason, aux>>

\* recover_late_events_before_fallback
NothingPending ==
    /\ pc = "top"
    /\ ~OverLimit(st)
    /\ ~stop
    /\ ~pending
    /\ pc' = "reading"
    /\ site' = "late"
    /\ UNCHANGED <<disk, pos, st, pending, promised, reason, aux>>

(***************************************************************************)
(* The agent's turn.                                                       *)
(***************************************************************************)
\* What the agent started may write on when its turn is over: the polls read it.
Emit ==
    /\ pc \in {"agent", "reading", "checking"}
    /\ Len(file) < MaxLines
    /\ \E line \in AgentLines : file' = Append(file, line)
    /\ UNCHANGED <<saved, stop, open, pc, site, pos, st, pending, promised,
                   reason, aux>>

\* LoopState after process_output.
AfterTurn(ok) == [st EXCEPT !.iteration = @ + 1,
                            !.failures = IF ok THEN 0 ELSE @ + 1]

\* The end of a turn: the summary line, process_output, the saved state.
AgentEnds ==
    /\ pc = "agent"
    /\ \E ok \in BOOLEAN :
        /\ st' = AfterTurn(ok)
        /\ saved' = st'.iteration
    /\ open' \in BOOLEAN
    /\ LET written == Append(file, "summary")
       IN  \/ End("limits", written) /\ UNCHANGED stop
           \/ /\ ~OverLimit(st')
              /\ stop
              /\ stop' = FALSE
              /\ End("stopped", written)
           \/ /\ ~OverLimit(st')
              /\ ~stop
              /\ file' = written
              /\ pc' = "reading"
              /\ site' = "turn"
              /\ promised' \in BOOLEAN
              /\ UNCHANGED <<stop, pending, reason>>
    /\ UNCHANGED <<pos, aux>>

(***************************************************************************)
(* Reading: after a turn ("turn"), once more if the output speaks of       *)
(* `ralph emit` and no event was there ("emit"), and when nothing is       *)
(* pending ("late").                                                       *)
(***************************************************************************)
Read ==
    /\ pc = "reading"
    /\ st' = Process(st, Unread)
    /\ pending' = (pending \/ Publishes(Unread))
    /\ pos' = Len(file)
    /\ read' = read \cup Unread
    /\ claims' = claims + ClaimsMade(Unread)
    /\ \/ pc' = "checking" /\ UNCHANGED site
       \/ /\ site = "turn"
          /\ Published(Unread) = {}
          /\ site' = "emit"
          /\ UNCHANGED pc
    /\ UNCHANGED <<disk, promised, reason, sessions>>

(***************************************************************************)
(* Where run_loop_impl goes when a check at `site` did not end the loop;   *)
(* more is whether an event is pending now.  A read that found no work is  *)
(* repeated, a bounded number of times, until there is something to read.  *)
(* A late one that stays without work falls back to an injected            *)
(* task.resume (consecutive_fallbacks is not modelled: next_hat finds that *)
(* event and resets the counter, which never passes 1).  After a turn, the *)
(* promise in the output text is a claim too.                              *)
(***************************************************************************)

\* Mutant: the fallback event is not published.
FallBackSilent(more) ==
    /\ site = "late"
    /\ pc' = "top"
    /\ site' = "turn"
    /\ pending' = more
    /\ UNCHANGED <<promised, claims>>

FallBack(more) ==
    /\ site = "late"
    /\ pc' = "top"
    /\ site' = "turn"
    /\ pending' = TRUE
    /\ UNCHANGED <<promised, claims>>

PollAgain(more) ==
    /\ site \in {"late", "emit"}
    /\ ~more
    /\ pos < Len(file)
    /\ pc' = "reading"
    /\ pending' = more
    /\ UNCHANGED <<site, promised, claims>>

TextClaim(more) ==
    /\ promised
    /\ promised' = FALSE
    /\ pc' = "checking"
    /\ site' = "text"
    /\ claims' = claims + 1
    /\ pending' = more

EndOfTurn(more) ==
    /\ site # "late"
    /\ ~promised
    /\ pc' = "top"
    /\ site' = "turn"
    /\ pending' = more
    /\ UNCHANGED <<promised, claims>>

\* s is the loop state the check leaves behind.
GoOn(s, more) ==
    \/ FallBack(more) /\ st' = s
    \/ PollAgain(more) /\ st' = s
    \/ TextClaim(more) /\ st' = [s EXCEPT !.claimed = TRUE]
    \/ EndOfTurn(more) /\ st' = s

(***************************************************************************)
(* check_cancellation_event and check_completion_event.                    *)
(***************************************************************************)
NoClaim ==
    /\ pc = "checking"
    /\ ~st.cancelled
    /\ ~st.claimed
    /\ GoOn(st, pending)
    /\ UNCHANGED <<disk, pos, reason, sessions, read>>

Cancel ==
    /\ pc = "checking"
    /\ st.cancelled
    /\ st' = [st EXCEPT !.cancelled = FALSE]
    /\ End("cancelled", file)
    /\ UNCHANGED <<saved, stop, open, pos, aux>>

\* The gates before the judge.
Refused == ~(Required \subseteq st.seen) \/ st.owed \/ Persistent \/ open

\* Mutant: a refused claim is left standing.
SettledNot == st

Settled == [st EXCEPT !.claimed = FALSE]

\* task.resume is published, the claim is dropped.
Refuse ==
    /\ pc = "checking"
    /\ ~st.cancelled
    /\ st.claimed
    /\ Refused
    /\ GoOn(Settled, TRUE)
    /\ UNCHANGED <<disk, pos, reason, sessions, read>>

\* No judge is asked: there is none, or the budget of rejections is spent.
Unjudged == ~Judge \/ (MaxRejections > 0 /\ st.rejections >= MaxRejections)

AcceptUnjudged ==
    /\ pc = "checking"
    /\ ~st.cancelled
    /\ st.claimed
    /\ ~Refused
    /\ Unjudged
    /\ st' = Settled
    /\ End("completed", file)
    /\ UNCHANGED <<saved, stop, open, pos, aux>>

AskJudge ==
    /\ pc = "checking"
    /\ ~st.cancelled
    /\ st.claimed
    /\ ~Refused
    /\ ~Unjudged
    /\ st' = Settled
    /\ pc' = "judging"
    /\ UNCHANGED <<disk, site, pos, pending, promised, reason, aux>>

\* A pass, or no verdict (an error, a timeout) and not fail_closed.
JudgeAccepts ==
    /\ pc = "judging"
    /\ End("completed", file)
    /\ UNCHANGED <<saved, stop, open, pos, st, aux>>

\* A fail, or no verdict and fail_closed.
JudgeRejects ==
    /\ pc = "judging"
    /\ GoOn([st EXCEPT !.rejections = @ + 1], TRUE)
    /\ UNCHANGED <<disk, pos, reason, sessions, read>>

(***************************************************************************)
(* `--continue`: restore_loop_state, the task.resume event, and            *)
(* replay_resume_events_from_jsonl, which takes all topics of the log for  *)
(* seen and processes the lines after the last loop.terminate again.  Then *)
(* the start line is logged and the reader skips to the end of the log.    *)
(***************************************************************************)
Replayed == {i \in DOMAIN file :
               \E t \in 1 .. i - 1 :
                  /\ file[t] = "terminate"
                  /\ \A j \in i .. Len(file) : file[j] # "terminate"}

Replay ==
    /\ ~Running
    /\ sessions < MaxSessions
    /\ LET known == {Topic(file[i]) : i \in {j \in DOMAIN file : file[j] # "garbage"}}
       IN  st' = Process([Fresh(saved) EXCEPT !.seen = known], Replayed)
    /\ pending' = TRUE
    /\ pos' = Len(file)
    /\ read' = Replayed
    /\ claims' = ClaimsMade(Replayed)
    /\ pc' = "starting"
    /\ sessions' = sessions + 1
    /\ site' = "turn"
    /\ promised' = FALSE
    /\ reason' = "none"
    /\ UNCHANGED disk

LogStart ==
    /\ pc = "starting"
    /\ file' = Append(file, "start")
    /\ pos' = Len(file')
    /\ pc' = "top"
    /\ UNCHANGED <<saved, stop, open, site, st, pending, promised, reason, aux>>

----------------------------------------------------------------------------
\* The steps the process takes by itself, the ends of agent and judge too.
Step ==
    \/ EndAtTop \/ StopAtTop \/ StartTurn \/ NothingPending
    \/ AgentEnds \/ Read
    \/ NoClaim \/ Cancel \/ Refuse \/ AcceptUnjudged \/ AskJudge
    \/ JudgeAccepts \/ JudgeRejects
    \/ LogStart

Next == Step \/ Emit \/ Guide \/ AskStop \/ Crash \/ Replay

Spec == Init /\ [][Next]_vars

\* The process takes its steps, and the agent and the judge come to an end.
FairSpec == Spec /\ WF_vars(Step)

----------------------------------------------------------------------------
LoopStates ==
    [iteration : 0 .. MaxIterations, failures : Nat, malformed : Nat,
     claimed : BOOLEAN, cancelled : BOOLEAN, owed : BOOLEAN,
     rejections : Nat,
     seen : SUBSET (Lines \cup {"build.done", "build.blocked"}),
     last : Lines \cup {"build.done", "build.blocked", "none"},
     streak : Nat]

(***************************************************************************)
(* Every variable has its type, and no process starts a turn past          *)
(* max_iterations, its predecessors' turns included (check_termination).   *)
(***************************************************************************)
TypeOK ==
    /\ file \in Seq(Lines)
    /\ saved \in 0 .. MaxIterations
    /\ stop \in BOOLEAN
    /\ open \in BOOLEAN
    /\ pc \in {"starting", "top", "agent", "reading", "checking", "judging",
               "done", "down"}
    /\ site \in {"turn", "emit", "late", "text"}
    /\ pos \in 0 .. Len(file)
    /\ st \in LoopStates
    /\ pending \in BOOLEAN
    /\ promised \in BOOLEAN
    /\ reason \in {"none", "limits", "stopped", "cancelled", "completed"}
    /\ sessions \in Nat \ {0}
    /\ read \subseteq 1 .. pos
    /\ claims \in Nat

Completed == pc = "done" /\ reason = "completed"

\* Every guidance this process has read was acknowledged later in the log
\* when it completes: the list in LoopState, which reads of several lines,
\* late reads and polls update, never forgets one.
GuidanceIsAnswered ==
    Completed =>
        \A i \in read : file[i] = "guidance" =>
            \E j \in read : j > i /\ file[j] = "ack"

\* A loop that completes has not read a cancel event, whatever was claimed
\* before, together with it or after it.
CancelWins == Completed => \A i \in read : file[i] # "cancel"

\* A claim is taken up once: a gate or the judge answers it, and then it is
\* gone.  The judge is never asked again, nor the loop ended, for a claim
\* that was rejected before.
EachClaimIsAnsweredOnce ==
    st.rejections + (IF pc = "judging" \/ Completed THEN 1 ELSE 0) <= claims

\* The first process never starts a turn with a claim or a cancel event of
\* an earlier turn in its state.
NothingLingers ==
    sessions = 1 /\ pc \in {"top", "agent"} => ~st.claimed /\ ~st.cancelled

\* Required events were seen with their evidence when the loop completes.
\* A later process takes a topic for seen that is anywhere in the log.
RequiredAreSeen ==
    Completed =>
        \A topic \in Required :
            \/ \E i \in read : Topic(file[i]) = topic /\ file[i] # "boast"
            \/ sessions > 1 /\ \E i \in DOMAIN file : Topic(file[i]) = topic

\* What the judge is asked about after a turn's only read is a claim that
\* came last: no event the process has read follows it.
ClaimIsTheLastWord ==
    sessions = 1 /\ pc = "judging" /\ site = "turn" =>
        \E i \in Events(read) :
            /\ file[i] = "complete"
            /\ \A j \in Events(read) : j <= i

\* The process ends, whatever agent, judge and humans do.
AlwaysEnds == []<>(~Running)

----------------------------------------------------------------------------
(***************************************************************************)
(* What the safety properties rest on, step by step.                       *)
(***************************************************************************)

\* A turn is taken below every limit, so its end passes none by more than one.
TurnIsAllowed == pc = "agent" => ~OverLimit(st)

\* A later process starts with lines of the log in its state, the first not.
StartsLater == pc = "starting" => sessions > 1

\* The reason is set when the process ends.
NoReasonYet == Running => reason = "none"

\* The debt in LoopState is the debt in the log.
DebtIsKnown ==
    ~st.owed => \A i \in read : file[i] = "guidance" =>
                    \E j \in read : j > i /\ file[j] = "ack"

\* A cancel event that was read is in LoopState until it ends the process.
CancelIsKnown ==
    st.cancelled \/ reason = "cancelled" \/ \A i \in read : file[i] # "cancel"

\* A topic is seen because its event was read, or was there before.
SeenIsRead ==
    \A topic \in st.seen :
        \/ \E i \in read : Validated(file[i]) = topic
        \/ sessions > 1 /\ \E i \in DOMAIN file : Topic(file[i]) = topic

\* What is being judged, and what ended the loop, passed the gates.
GatesPassed ==
    pc = "judging" \/ Completed =>
        ~st.owed /\ ~st.cancelled /\ ~st.claimed /\ Required \subseteq st.seen

\* Each rejection, and each claim on its way, was a claim.
ClaimsCounted ==
    st.rejections + (IF st.claimed \/ pc = "judging" \/ Completed THEN 1 ELSE 0)
        <= claims

\* Between a turn's checks and its read the first process has no claim.
TurnIsClean ==
    /\ sessions = 1
    /\ pc \in {"top", "agent"} \/ (pc = "reading" /\ site = "turn")
    =>
        ~st.claimed /\ ~st.cancelled

\* A claim that comes from a turn's only read is the last event of it.
ClaimIsLast ==
    /\ sessions = 1
    /\ site = "turn"
    /\ pc = "judging" \/ (pc = "checking" /\ st.claimed)
    =>
        \E i \in Events(read) :
            /\ file[i] = "complete"
            /\ \A j \in Events(read) : j <= i

IInv == /\ TypeOK
        /\ TurnIsAllowed
        /\ StartsLater
        /\ NoReasonYet
        /\ DebtIsKnown
        /\ CancelIsKnown
        /\ SeenIsRead
        /\ GatesPassed
        /\ ClaimsCounted
        /\ TurnIsClean
        /\ ClaimIsLast

=============================================================================

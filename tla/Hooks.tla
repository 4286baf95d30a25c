------------------------------- MODULE Hooks -------------------------------
(***************************************************************************)
(* The lifecycle hooks of a loop and the files an operator answers them    *)
(* with: run_loop_impl dispatches the hooks of a phase event at each       *)
(* boundary of the loop, a hook that fails warns, blocks or suspends, and  *)
(* a suspended loop waits for .ralph/resume-requested, stop-requested or   *)
(* restart-requested.  `ralph loops resume` looks at suspend-state first   *)
(* and writes its signal afterwards; the loop may have moved on meanwhile. *)
(* Sessions are runs of the loop in one workspace, one after the other;    *)
(* the files outlive them.                                                 *)
(***************************************************************************)
EXTENDS Naturals, Sequences, FiniteSets

CONSTANTS
  Configured,   \* the hooks of each phase event, in declaration order
  Iterations,   \* event_loop.max_iterations
  Sessions,     \* bound: runs in the workspace, one after the other
  Attempts      \* 1 + Len(RETRY_BACKOFF_DELAYS_MS): 4 in the code

Pre(outcome) == IF outcome = "completed" THEN "pre.loop.complete"
                                         ELSE "pre.loop.error"
Post(outcome) == IF outcome = "completed" THEN "post.loop.complete"
                                          ELSE "post.loop.error"

Closing == {"pre.loop.complete", "pre.loop.error"}
Closed  == {"post.loop.complete", "post.loop.error"}
Phases == {"pre.loop.start", "post.loop.start", "pre.iteration.start",
           "post.iteration.start", "pre.plan.created", "pre.human.interact",
           "post.human.interact", "post.plan.created"} \cup Closing \cup Closed

Hook == [onError : {"warn", "block", "suspend"},
         mode : {"wait_for_resume", "retry_backoff", "wait_then_retry"}]

ASSUME HooksAssumption ==
  /\ Configured \in [Phases -> Seq(Hook)]
  /\ Iterations \in Nat /\ Sessions \in Nat \ {0} /\ Attempts \in Nat \ {0}

Over == {"ended", "failed", "dead"}
Places == Phases \cup Over
          \cup {"boundary", "refilled", "hat", "agent", "output", "wrapup"}
Checking == {"boundary", "refilled", "output"}
Steps == {"run", "delay", "hold", "gate"}
Reasons == {"none", "completed", "cancelled", "interrupted", "limit",
            "stopped", "restart"}

VARIABLES
  session,    \* the number of this run of the loop
  at,         \* the boundary the loop is at, or how it ended
  step,       \* inside a phase: run a hook, or one of the three waits
  hook,       \* the hook of the phase that is dispatched
  attempt,    \* retry_attempt of that hook
  outcomes,   \* what the hooks of this phase came to so far
  iteration,
  reason,     \* the TerminationReason that stands
  logged,     \* the reason in the loop.terminate event
  heard,      \* this session has consumed a stop-requested
  suspended,  \* suspend-state.json: the session that wrote it, or 0
  resume, stop, restart,  \* the signal files
  operator    \* `ralph loops resume`: "idle", or "saw" a suspend-state

process == <<session, at, step, hook, attempt, outcomes, iteration, reason,
             logged, heard>>
files == <<suspended, resume, stop, restart>>
vars == <<process, files, operator>>

TypeOK ==
  /\ session \in 1..Sessions
  /\ at \in Places
  /\ step \in Steps
  /\ hook \in Nat \ {0}
  /\ attempt \in 1..(Attempts + 1)
  /\ outcomes \subseteq {"pass", "warn", "block", "suspend"}
  /\ iteration \in 0..Iterations
  /\ reason \in Reasons /\ logged \in Reasons
  /\ suspended \in 0..Sessions
  /\ heard \in BOOLEAN /\ resume \in BOOLEAN
  /\ stop \in BOOLEAN /\ restart \in BOOLEAN
  /\ operator \in {"idle", "saw"}
-----------------------------------------------------------------------------
(* Going from place to place.                                              *)

Enter(place) ==
  /\ at' = place
  /\ step' = "run" /\ hook' = 1 /\ attempt' = 1 /\ outcomes' = {}

\* Where the loop goes when nothing ends it at this phase.
Follows(phase) ==
  CASE phase = "pre.loop.start"       -> {"post.loop.start"}
    [] phase = "post.loop.start"      -> {"boundary"}
    [] phase = "pre.iteration.start"  -> {"post.iteration.start"}
    [] phase = "post.iteration.start" -> {"agent"}
    [] phase = "pre.plan.created"     -> {"pre.human.interact",
           "post.human.interact", "post.plan.created", "wrapup"}
    [] phase = "pre.human.interact"   -> {"post.human.interact",
           "post.plan.created", "wrapup"}
    [] phase = "post.human.interact"  -> {"post.plan.created", "wrapup"}
    [] OTHER                          -> {"wrapup"}

\* The end of a phase; r is the reason to terminate that stands after it.
Proceed(r) ==
  \/ /\ at \in Closing
     /\ reason' = r /\ logged' = r
     /\ Enter(Post(r))
  \/ /\ at \in Closed
     /\ reason' = r
     /\ Enter("ended")
     /\ UNCHANGED logged
  \/ /\ at \notin Closing \cup Closed
     /\ r # "none"
     /\ reason' = r
     /\ Enter(Pre(r))
     /\ UNCHANGED logged
  \/ /\ at \notin Closing \cup Closed
     /\ r = "none"
     /\ \E place \in Follows(at) : Enter(place)
     /\ UNCHANGED <<reason, logged>>

Terminate(r) ==
  /\ reason' = r
  /\ Enter(Pre(r))
  /\ UNCHANGED <<session, logged, iteration>>
-----------------------------------------------------------------------------
(* The dispatch of one hook.                                               *)

Current == Configured[at][hook]
Dispatching == at \in Phases /\ hook <= Len(Configured[at])

\* The hook is done with: the outcome is kept and the next hook is run,
\* whatever the outcome was.
Conclude(outcome) ==
  /\ outcomes' = outcomes \cup {outcome}
  /\ hook' = hook + 1 /\ attempt' = 1 /\ step' = "run"

\* retry_max_attempts of a suspend mode.
Last(mode) == CASE mode = "wait_for_resume" -> 1
                [] mode = "retry_backoff"   -> Attempts
                [] OTHER                    -> 2

\* A spawn error, a timeout, a non-zero exit and unusable mutation output all
\* count as the failure the hook's on_error names.
Results == {"pass", Current.onError}

MayRetry == Current.onError = "suspend" /\ attempt < Last(Current.mode)

Retries ==
  /\ MayRetry /\ Current.mode = "retry_backoff"
  /\ step' = "delay"
  /\ UNCHANGED <<hook, attempt, outcomes, suspended>>

Holds ==
  /\ MayRetry /\ Current.mode = "wait_then_retry"
  /\ suspended' = session
  /\ step' = "hold"
  /\ UNCHANGED <<hook, attempt, outcomes>>

RunHook ==
  /\ Dispatching /\ step = "run"
  /\ \/ /\ \E result \in Results :
             (result = "suspend" => ~MayRetry) /\ Conclude(result)
        /\ UNCHANGED suspended
     \/ Retries
     \/ Holds
  /\ UNCHANGED <<session, at, iteration, reason, logged, heard, resume, stop,
                 restart, operator>>

\* A retry_backoff delay: stop and restart are looked at before the clock.
DelayElapses ==
  /\ step = "delay" /\ ~stop /\ ~restart
  /\ step' = "run" /\ attempt' = attempt + 1
  /\ UNCHANGED <<session, at, hook, outcomes, iteration, reason, logged, heard,
                 files, operator>>

\* Mutant: the wait for a resume does not look at stop and restart.
WaitAbandonedDeaf ==
  /\ step = "delay" /\ (stop \/ restart)
  /\ Conclude("suspend")
  /\ UNCHANGED <<session, at, iteration, reason, logged, heard, files, operator>>

\* Mutant: a wait that a stop ends counts as a pass of its hook.
WaitAbandonedPasses ==
  /\ step \in {"delay", "hold"} /\ (stop \/ restart)
  /\ Conclude("pass")
  /\ UNCHANGED <<session, at, iteration, reason, logged, heard, files, operator>>

\* A stop or restart ends the retries; the signal itself is left for the gate.
WaitAbandoned ==
  /\ step \in {"delay", "hold"} /\ (stop \/ restart)
  /\ Conclude("suspend")
  /\ UNCHANGED <<session, at, iteration, reason, logged, heard, files, operator>>

\* Mutant: the attempts start again when the loop is released.
HoldReleasedAgain ==
  /\ step = "hold" /\ ~stop /\ ~restart /\ resume
  /\ resume' = FALSE /\ suspended' = 0
  /\ step' = "run" /\ attempt' = 1
  /\ UNCHANGED <<session, at, hook, outcomes, iteration, reason, logged, heard,
                 stop, restart, operator>>

HoldReleased ==
  /\ step = "hold" /\ ~stop /\ ~restart /\ resume
  /\ resume' = FALSE /\ suspended' = 0
  /\ step' = "run" /\ attempt' = 2
  /\ UNCHANGED <<session, at, hook, outcomes, iteration, reason, logged, heard,
                 stop, restart, operator>>
-----------------------------------------------------------------------------
(* The verdict of a phase: a block first, then the gate of a suspension.   *)

PhaseDone == at \in Phases /\ step = "run" /\ hook > Len(Configured[at])

Blocked ==
  /\ PhaseDone /\ "block" \in outcomes
  /\ at' = "failed"
  /\ UNCHANGED <<session, step, hook, attempt, outcomes, iteration, reason,
                 logged, heard, files, operator>>

\* Mutant: a suspension is looked at before a block.
SuspendsFirst ==
  /\ PhaseDone /\ "suspend" \in outcomes
  /\ suspended' = session
  /\ step' = "gate"
  /\ UNCHANGED <<session, at, hook, attempt, outcomes, iteration, reason,
                 logged, heard, resume, stop, restart, operator>>

Suspends ==
  /\ PhaseDone /\ "block" \notin outcomes /\ "suspend" \in outcomes
  /\ suspended' = session
  /\ step' = "gate"
  /\ UNCHANGED <<session, at, hook, attempt, outcomes, iteration, reason,
                 logged, heard, resume, stop, restart, operator>>

\* main removes restart-requested when the run ends with RestartRequested.
Removes(r) ==
  restart' = (restart /\ ~(at \in Closed /\ r = "restart"))

PhasePasses ==
  /\ PhaseDone /\ outcomes \cap {"block", "suspend"} = {}
  /\ Proceed(reason) /\ Removes(reason)
  /\ UNCHANGED <<session, iteration, heard, suspended, resume, stop, operator>>

\* Mutant: the stop ends the wait and the loop goes on.
GateStoppedGoesOn ==
  /\ step = "gate" /\ stop
  /\ stop' = FALSE /\ suspended' = 0 /\ resume' = FALSE
  /\ heard' = TRUE
  /\ Proceed(reason)
  /\ UNCHANGED <<session, iteration, restart, operator>>

GateStopped ==
  /\ step = "gate" /\ stop
  /\ stop' = FALSE /\ suspended' = 0 /\ resume' = FALSE
  /\ heard' = TRUE
  /\ Proceed("stopped")
  /\ UNCHANGED <<session, iteration, restart, operator>>

GateRestarts ==
  /\ step = "gate" /\ ~stop /\ restart
  /\ suspended' = 0 /\ resume' = FALSE
  /\ Proceed("restart") /\ Removes("restart")
  /\ UNCHANGED <<session, iteration, heard, stop, operator>>

GateReleased ==
  /\ step = "gate" /\ ~stop /\ ~restart /\ resume
  /\ suspended' = 0 /\ resume' = FALSE
  /\ Proceed(reason) /\ Removes(reason)
  /\ UNCHANGED <<session, iteration, heard, stop, operator>>
-----------------------------------------------------------------------------
(* The loop between its boundaries.                                        *)

\* EventLoop::check_termination: the limits, then stop, then restart.
LimitReached ==
  /\ at \in Checking
  /\ Terminate("limit")
  /\ UNCHANGED <<heard, files, operator>>

StopNoticed ==
  /\ at \in Checking /\ iteration < Iterations /\ stop
  /\ stop' = FALSE /\ heard' = TRUE
  /\ Terminate("stopped")
  /\ UNCHANGED <<suspended, resume, restart, operator>>

RestartNoticed ==
  /\ at \in Checking /\ iteration < Iterations
  /\ ~stop /\ restart
  /\ Terminate("restart")
  /\ UNCHANGED <<heard, files, operator>>

Goes(from, to) ==
  /\ at = from
  /\ \E place \in to : Enter(place)
  /\ UNCHANGED <<session, reason, logged, heard, files, operator>>

Unasked == iteration < Iterations /\ ~stop /\ ~restart

\* pre.iteration.start is dispatched only when events are pending, and then a
\* hat is found.
StartIteration ==
  /\ Unasked
  /\ \/ Goes("boundary", {"pre.iteration.start", "hat"})
     \/ Goes("refilled", {"pre.iteration.start"})
  /\ UNCHANGED iteration

\* Nothing is pending: late events, or the fallback event, refill the bus.
Refill ==
  /\ Goes("hat", {"refilled"})
  /\ UNCHANGED iteration

\* The late events say completed or cancelled, or nothing takes the fallback.
NoHat ==
  /\ at = "hat"
  /\ \E r \in {"completed", "cancelled", "stopped"} : Terminate(r)
  /\ UNCHANGED <<heard, files, operator>>

\* Mutant: process_output counts an iteration of its own.
AgentDoneTwice ==
  /\ Goes("agent", {"output"})
  /\ iteration' = iteration + 2

AgentDone ==
  /\ Goes("agent", {"output"})
  /\ iteration' = iteration + 1

\* Ctrl+C is looked at here and before the agent, nowhere else; an executor
\* that gives up ends the loop from here too.
Interrupted ==
  /\ at \in {"boundary", "refilled", "agent"}
  /\ Terminate("interrupted")
  /\ UNCHANGED <<heard, files, operator>>

\* The unread events decide which phases follow.
OutputProcessed ==
  /\ Unasked
  /\ Goes("output", {"pre.plan.created"} \cup Follows("pre.plan.created"))
  /\ UNCHANGED iteration

\* loop.cancel ends the loop without a termination hook.
Cancelled ==
  /\ at = "wrapup"
  /\ reason' = "cancelled" /\ logged' = "cancelled"
  /\ Enter("ended")
  /\ UNCHANGED <<session, iteration, heard, files, operator>>

\* The completion event or promise, or what the late events came to.
Completes ==
  /\ at = "wrapup"
  /\ \E r \in {"completed", "cancelled"} : Terminate(r)
  /\ UNCHANGED <<heard, files, operator>>

NextIteration ==
  /\ Goes("wrapup", {"boundary"})
  /\ UNCHANGED iteration
-----------------------------------------------------------------------------
(* Processes that die, new runs, and the operator.                         *)

Crash ==
  /\ at \notin Over
  /\ at' = "dead" /\ step' = "run"
  /\ UNCHANGED <<session, hook, attempt, outcomes, iteration, reason,
                 logged, heard, files, operator>>

NewSession ==
  /\ at \in Over /\ session < Sessions
  /\ session' = session + 1
  /\ Enter("pre.loop.start")
  /\ iteration' = 0 /\ reason' = "none" /\ logged' = "none" /\ heard' = FALSE
  /\ UNCHANGED <<files, operator>>

ResumeLooks ==
  /\ operator = "idle" /\ suspended # 0
  /\ operator' = "saw"
  /\ UNCHANGED <<process, files>>

\* Nothing is written when a signal is already there: no step differs.
ResumeWrites ==
  /\ operator = "saw"
  /\ operator' = "idle" /\ resume' = TRUE
  /\ UNCHANGED <<process, suspended, stop, restart>>

RequestStop ==
  /\ at \notin Over /\ ~stop /\ stop' = TRUE
  /\ UNCHANGED <<process, suspended, resume, restart, operator>>

RequestRestart ==
  /\ at \notin Over /\ ~restart /\ restart' = TRUE
  /\ UNCHANGED <<process, suspended, resume, stop, operator>>

Init ==
  /\ session = 1
  /\ at = "pre.loop.start"
  /\ step = "run" /\ hook = 1 /\ attempt = 1 /\ outcomes = {}
  /\ iteration = 0 /\ reason = "none" /\ logged = "none" /\ heard = FALSE
  /\ suspended = 0 /\ resume = FALSE /\ stop = FALSE /\ restart = FALSE
  /\ operator = "idle"

HookActs == RunHook \/ DelayElapses \/ WaitAbandoned \/ HoldReleased
VerdictActs == Blocked \/ Suspends \/ PhasePasses
GateActs == GateStopped \/ GateRestarts \/ GateReleased
LoopActs == LimitReached \/ StopNoticed \/ RestartNoticed \/ StartIteration
            \/ Refill \/ NoHat \/ AgentDone \/ Interrupted
            \/ OutputProcessed \/ Cancelled \/ Completes \/ NextIteration

Runs == HookActs \/ VerdictActs \/ GateActs \/ LoopActs
Next == Runs \/ Crash \/ NewSession
        \/ ResumeLooks \/ ResumeWrites \/ RequestStop \/ RequestRestart

Spec == Init /\ [][Next]_vars

\* Hooks have a timeout and agents an idle timeout: the process goes on.
FairSpec == Spec /\ WF_vars(Runs)
-----------------------------------------------------------------------------
(* What the hooks promise.                                                 *)

Waiting == step \in {"hold", "gate"}

\* A suspend-state of this session and a loop that waits go together.  A loop
\* that waits shows one, or `ralph loops resume` would not write the signal
\* that releases it.  And while one stands the agent does not work, no later
\* boundary is passed and the run does not end in order: either the loop
\* waits, or a stop has cut its wait short and the gate will clear it, or the
\* run has failed or died.
SuspensionIsTrue ==
  /\ Waiting => suspended = session
  /\ suspended = session =>
       \/ Waiting
       \/ at \in Phases /\ "suspend" \in outcomes
       \/ at \in {"failed", "dead"}

\* Once a run has consumed a stop no agent works in it again, and it does not
\* end as completed, whatever its termination hooks do: a completed run would
\* be queued for merge.
StopIsFinal ==
  heard => /\ at \in Closing \cup Closed \cup Over
           /\ reason \in {"stopped", "restart"}

\* The verdict of a hook stands whatever the hooks after it return: when one
\* has blocked, the run leaves the phase by failing, and no resume or stop
\* lets it on; when one stayed suspended, the run leaves the phase on a resume
\* or a stop that it consumes, on a restart, or by failing.
VerdictStands ==
  [][(at \in Phases /\ at' # at) =>
       (/\ "block" \in outcomes => at' \in {"failed", "dead"}
        /\ "suspend" \in outcomes =>
             \/ at' \in {"failed", "dead"}
             \/ (resume /\ ~resume') \/ (stop /\ ~stop') \/ restart)]_vars

\* A stop is consumed or the run ends: at a boundary, after the agent, in a
\* retry delay and at either kind of wait.
StopIsAnswered == (stop /\ at \notin Over) ~> (~stop \/ at \in Over)

\* With an operator who asks again, every run ends, though every hook may
\* suspend it, the hooks of the ending included.
Asking == WF_vars(ResumeLooks) /\ WF_vars(ResumeWrites)
EveryRunEnds == Asking => ([]<>(at \in Over))
=============================================================================

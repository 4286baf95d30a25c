-------------------------------- MODULE Hats --------------------------------
(***************************************************************************)
(* The event bus and the hats of one loop in multi-hat mode (EventBus,     *)
(* HatRegistry, and the parts of EventLoop that route between them).       *)
(*                                                                         *)
(* Published events wait on the bus with the hats they are routed to.      *)
(* Ralph runs every turn: his prompt takes what waits for any hat, except  *)
(* for hats that have had all their activations, and the events in it      *)
(* decide which hats are active.  In the turn the agent leaves lines in    *)
(* the event log; the loop checks them against what the active hats may    *)
(* publish and publishes them.  If there were none, an active hat's        *)
(* default_publishes stands in, and if nothing waits at all, task.resume.  *)
(*                                                                         *)
(* Waves, human.interact, the gates of a completion (EventLoop) and the    *)
(* limits other than max_iterations are left out.                          *)
(***************************************************************************)
EXTENDS Naturals, Sequences, FiniteSets

CONSTANTS
  Hats,           \* the custom hats, in the order of their ids
  Names,          \* topics of the agent's events
  Topologies,     \* configurations of the hats
  MaxIterations,  \* max_iterations
  MaxLines        \* bound: lines the agent and the human append

Ralph == 0
T(name) == <<name, Ralph>>
NoTopic == T("none")
Exhausted(h) == <<"exhausted", h>>          \* <hat>.exhausted
Violation(h) == <<"scope_violation", h>>    \* <hat>.scope_violation

\* The starting event, which ends in ".start", and task.resume.
Entrypoints == {T("start"), T("resume")}
Written == {T(n) : n \in Names \cup {"complete", "cancel", "guidance"}}
Topic == Written \cup Entrypoints
         \cup {Exhausted(h) : h \in Hats} \cup {Violation(h) : h \in Hats}

\* Subscriptions are given by the topics their patterns match; a hat in wild has
\* the pattern "*" too.  max is larger than MaxIterations if there is no limit.
Topology ==
  [subs : [Hats -> SUBSET Topic], wild : SUBSET Hats,
   publishes : [Hats -> SUBSET Topic],
   default : [Hats -> Topic \cup {NoTopic}],
   max : [Hats -> Nat], scope : BOOLEAN]

ASSUME HatsAssumption ==
  /\ Hats \subseteq Nat \ {Ralph} /\ IsFiniteSet(Hats)
  /\ Topologies \subseteq Topology
  /\ MaxIterations \in Nat \ {0} /\ MaxLines \in Nat

VARIABLES
  topo,       \* the configuration, one of Topologies
  events,     \* every event published, in order
  pending,    \* EventBus::pending, indices into events
  human,      \* EventBus::human_pending
  counts,     \* hat_activation_counts
  exhausted,  \* exhausted_hats
  active,     \* last_active_hat_ids
  preview,    \* the hat shown for the turn before its prompt was built
  lines,      \* the lines of the event log that are not read yet
  written,    \* number of lines written
  iteration,  \* LoopState::iteration
  pc,         \* where run_loop_impl is
  prompt,     \* the events the last prompt was built from
  shown       \* the events some prompt showed

bus == <<events, pending, human>>
activations == <<counts, exhausted, active, preview, prompt, shown>>
log == <<lines, written>>
vars == <<topo, bus, activations, log, iteration, pc>>

TypeOK ==
  /\ topo \in Topologies
  /\ events \in Seq([topic : Topic, target : Hats \cup {Ralph}])
  /\ pending \in [Hats \cup {Ralph} -> SUBSET (1..Len(events))]
  /\ human \subseteq 1..Len(events)
  /\ counts \in [Hats -> Nat]
  /\ exhausted \subseteq Hats /\ active \subseteq Hats
  /\ preview \in Hats \cup {Ralph}
  /\ lines \in Seq(Written) /\ written \in Nat
  /\ iteration \in 0..MaxIterations
  /\ pc \in {"top", "agent", "reading", "late", "done"}
  /\ prompt \subseteq 1..Len(events) /\ shown \subseteq 1..Len(events)
-----------------------------------------------------------------------------
(* The bus.                                                                *)

Event(topic) == [topic |-> topic, target |-> Ralph]
EventFor(h, topic) == [topic |-> topic, target |-> h]
Published == 1..Len(events)
Human(event) == event.topic = T("guidance")

\* Hats that subscribe to the topic come before those that have "*", and Ralph
\* has "*" himself.
Specific(topic) == {h \in Hats : topic \in topo.subs[h]}
Recipients(event) ==
  IF Human(event) THEN {}
  ELSE IF event.target # Ralph THEN {event.target}
  ELSE IF Specific(event.topic) # {} THEN Specific(event.topic)
  ELSE topo.wild \cup {Ralph}

\* The bus after the events of a sequence are published on what waits there.
Publish(waiting, voices, new) ==
  LET After == Len(events) + 1 .. Len(events) + Len(new)
      Nth(i) == new[i - Len(events)]
  IN /\ events' = events \o new
     /\ pending' = [h \in Hats \cup {Ralph} |->
                      waiting[h] \cup {i \in After : h \in Recipients(Nth(i))}]
     /\ human' = voices \cup {i \in After : Human(Nth(i))}

HasPending == human # {} \/ \E h \in Hats \cup {Ralph} : pending[h] # {}
-----------------------------------------------------------------------------
(* The prompt.                                                             *)

\* HatRegistry::get_for_topic: of all that match, "*" included, the first.
Subscribed(topic) == Specific(topic) \cup topo.wild
HatFor(event) ==
  IF event.target # Ralph THEN event.target
  ELSE IF Subscribed(event.topic) = {} THEN Ralph
  ELSE CHOOSE h \in Subscribed(event.topic) :
         \A g \in Subscribed(event.topic) : h <= g

\* Mutant: Ralph is active where no hat subscribes.
ActiveHatsAndRalph(list) ==
  LET progress == {e \in list : e.topic \notin Entrypoints}
  IN {HatFor(e) : e \in IF progress # {} THEN progress ELSE list}

\* determine_active_hat_ids: entry points count if nothing else does.
ActiveHats(list) ==
  LET progress == {e \in list : e.topic \notin Entrypoints}
      progressed == {HatFor(e) : e \in progress} \ {Ralph}
  IN IF progressed # {} THEN progressed ELSE {HatFor(e) : e \in list} \ {Ralph}

\* The events of a prompt, without kickoff and recovery if there are others.
Effective(topics) ==
  IF topics \subseteq Entrypoints THEN topics ELSE topics \ Entrypoints

\* Mutant: one activation too many.
AtLimitLate(h) == h # Ralph /\ counts[h] > topo.max[h]

\* check_hat_exhaustion
AtLimit(h) == h # Ralph /\ counts[h] >= topo.max[h]

\* get_active_hat_id, before the prompt takes the events.
Previewed ==
  LET hats == ActiveHats({events[i] : i \in UNION {pending[h] : h \in DOMAIN pending}})
  IN IF hats = {} THEN {Ralph} ELSE hats

\* The hats at their limit that something waits for.
Barred == {h \in Hats : pending[h] # {} /\ AtLimit(h)}

\* Mutant: what waits for the human's voice is taken and left out.
TakenFromHats == UNION {pending[h] : h \in DOMAIN pending \ Barred}

\* What the prompt is built from, reports of exhaustion left out.
Taken == (UNION {pending[h] : h \in DOMAIN pending \ Barred}) \cup human

InOrder(set) ==
  CHOOSE s \in [1..Cardinality(set) -> set] : \A e \in set : \E i \in DOMAIN s : s[i] = e

\* build_prompt: what waits for a barred hat is dropped, and the first time its
\* <hat>.exhausted is both in the prompt and published for the next one.
BuildPrompt ==
  /\ pc = "top" /\ HasPending
  /\ LET reports == InOrder({Event(Exhausted(h)) : h \in Barred \ exhausted})
         taken == Taken \cup {Len(events) + i : i \in DOMAIN reports}
         regular == {events'[i] : i \in {j \in taken : ~Human(events'[j])}}
         topics == Effective({e.topic : e \in regular})
     IN /\ Publish([h \in DOMAIN pending |-> {}], {}, reports)
        /\ active' = ActiveHats(regular)
        /\ prompt' = taken
        /\ shown' = shown \cup {i \in taken : \/ Human(events'[i])
                                              \/ events'[i].topic \in topics}
  /\ exhausted' = exhausted \cup Barred
  /\ counts' = [h \in Hats |-> IF h \in active' THEN counts[h] + 1 ELSE counts[h]]
  /\ preview' \in Previewed
  /\ pc' = "agent"
  /\ UNCHANGED <<topo, log, iteration>>
-----------------------------------------------------------------------------
(* The turn.                                                               *)

\* The agent, what it left running, or the human.
Write ==
  /\ pc # "done" /\ written < MaxLines
  /\ \E topic \in Written : lines' = Append(lines, topic)
  /\ written' = written + 1
  /\ UNCHANGED <<topo, bus, activations, iteration, pc>>

\* process_output.  It is called for Ralph, who has no tool restrictions: the
\* audit of the files an active hat modified never takes place.
AgentEnds ==
  /\ pc = "agent"
  /\ iteration' = iteration + 1
  /\ pc' = IF iteration' = MaxIterations THEN "done" ELSE "reading"
  /\ UNCHANGED <<topo, bus, activations, log>>

\* The elements of list that are in good, in their order.
Kept(list, good) ==
  LET kept[i \in 0..Len(list)] ==
        IF i = 0 THEN <<>>
        ELSE IF list[i] \in good THEN Append(kept[i - 1], list[i]) ELSE kept[i - 1]
  IN kept[Len(list)]

\* The scope of the hats of the last prompt, whoever wrote the line.
InScope ==
  {topic \in Written :
     ~topo.scope \/ active = {} \/ \E h \in active : topic \in topo.publishes[h]}

Accepted == Kept(lines, InScope)
Validated == Kept(Accepted, Written \ {T("complete"), T("cancel")})
OutOfScope == Kept(lines, Written \ InScope)
Cancels == \E i \in DOMAIN Accepted : Accepted[i] = T("cancel")
Claims == Accepted # <<>> /\ Accepted[Len(Accepted)] = T("complete")

Events(topics) == [i \in DOMAIN topics |-> Event(topics[i])]

\* process_parse_result: a violation for each line that is out of scope, in the
\* name of the first active hat, and the lines that are in scope.
Processed ==
  LET Drops(h) == [i \in DOMAIN OutOfScope |-> Event(Violation(h))]
  IN {Drops(h) \o Events(Validated) : h \in IF active = {} THEN {Ralph} ELSE active}

\* check_default_publishes: a default that claims completion becomes a
\* task.resume for the hat.
Default(h) ==
  IF h = Ralph \/ topo.default[h] = NoTopic THEN <<>>
  ELSE IF topo.default[h] = T("complete") THEN <<EventFor(h, T("resume"))>>
  ELSE <<Event(topo.default[h])>>

\* After a turn that published none of its lines the hats of the turn are gone
\* through until something waits.  Which is first is left open.
Defaults(waits) ==
  LET hats == IF active = {} THEN {preview} ELSE active
      speaking == {h \in hats : Default(h) # <<>>}
  IN IF pc = "late" \/ Validated # <<>> THEN {<<>>}
     ELSE {Default(h) : h \in IF waits \/ speaking = {} THEN hats ELSE speaking}

\* Mutant: task.resume is not published.
ResumeUnpublished == <<>>

Resume == <<Event(T("resume"))>>

\* A read that ends the loop.
LastRead ==
  /\ pc \in {"reading", "late"} /\ (Cancels \/ Claims)
  /\ \E new \in Processed : Publish(pending, human, new)
  /\ lines' = <<>> /\ pc' = "done"
  /\ UNCHANGED <<topo, activations, written, iteration>>

\* A read after which the loop goes on; a claim of completion is refused with a
\* task.resume.  After a late read something waits.
Read ==
  /\ pc \in {"reading", "late"} /\ ~Cancels
  /\ \E new \in Processed :
       LET waits == HasPending \/ new # <<>>
       IN \E default \in Defaults(waits) :
            LET refusal == IF Claims THEN Resume ELSE <<>>
                fallback == IF pc = "late" /\ ~waits /\ ~Claims THEN Resume ELSE <<>>
            IN Publish(pending, human, new \o default \o refusal \o fallback)
  /\ lines' = <<>> /\ pc' = "top"
  /\ UNCHANGED <<topo, activations, written, iteration>>

\* recover_late_events_before_fallback
NothingPending ==
  /\ pc = "top" /\ ~HasPending
  /\ pc' = "late"
  /\ UNCHANGED <<topo, bus, activations, log, iteration>>
-----------------------------------------------------------------------------
Init ==
  /\ topo \in Topologies
  /\ events = <<Event(T("start"))>>
  /\ pending = [h \in Hats \cup {Ralph} |->
                  IF h \in Recipients(Event(T("start"))) THEN {1} ELSE {}]
  /\ human = {}
  /\ counts = [h \in Hats |-> 0]
  /\ exhausted = {} /\ active = {} /\ preview = Ralph
  /\ lines = <<>> /\ written = 0
  /\ iteration = 0 /\ pc = "top"
  /\ prompt = {} /\ shown = {}

Loop == BuildPrompt \/ NothingPending \/ AgentEnds \/ Read \/ LastRead

Next == Loop \/ Write

Spec == Init /\ [][Next]_vars

\* The loop is scheduled, and every turn of the agent ends.
FairSpec == Spec /\ WF_vars(Loop)
-----------------------------------------------------------------------------
(* What the hats may rely on.                                              *)

\* An event that was published waits or has been shown to the agent, whatever
\* became active instead of the hats it was for, unless each of those hats has
\* had all its activations.  Only kickoff and recovery events give way to others.
NothingIsLost ==
  \A i \in Published :
    \/ i \in human \/ i \in shown
    \/ \E h \in Hats \cup {Ralph} : i \in pending[h]
    \/ events[i].topic \in Entrypoints
    \/ ~Human(events[i]) /\ \A h \in Recipients(events[i]) : AtLimit(h)

\* Routing is clear: no topic is for two hats, and no hat waits for the end of
\* another.
Clear ==
  /\ topo.wild = {}
  /\ \A h, g \in Hats :
       /\ Exhausted(g) \notin topo.subs[h]
       /\ h # g => topo.subs[h] \cap topo.subs[g] = {}

\* No hat is activated more often than its max_activations.
MaxActivationsHold == \A h \in Hats : counts[h] <= topo.max[h]

\* So it is if routing is clear; and each active hat is one that an event of the
\* prompt was routed to, by its topic or as a target.
ClearRoutingHolds ==
  Clear =>
    /\ MaxActivationsHold
    /\ \A h \in active : \E i \in prompt : h \in Recipients(events[i])

\* A loop with nothing to do finds something: a turn begins or the loop ends.
StallIsBroken == pc = "top" ~> pc \in {"agent", "done"}
=============================================================================

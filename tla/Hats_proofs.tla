---------------------------- MODULE Hats_proofs ----------------------------
(***************************************************************************)
(* What holds of the bus and the hats for any configuration of any hats,   *)
(* and any lines of the agent: events keep their types, none is lost, and  *)
(* where routing is clear the limits of the hats hold.                     *)
(***************************************************************************)
EXTENDS Hats, FiniteSetTheorems, WellFoundedInduction, SequenceTheorems, TLAPS

Boxes == Hats \cup {Ralph}
EventType == [topic : Topic, target : Boxes]

(***************************************************************************)
(* The strengthening: what waits for a hat was routed to it, and waits for *)
(* all the hats it was routed to, so that a prompt takes it from all of    *)
(* them or, if they are barred, from none.                                 *)
(***************************************************************************)
Delivered ==
  /\ \A h \in Boxes : \A i \in pending[h] :
       /\ ~Human(events[i])
       /\ h \in Recipients(events[i])
       /\ \A g \in Recipients(events[i]) : i \in pending[g]
  /\ \A i \in human : Human(events[i])

\* The loop is over after the last iteration.
Running == pc # "done" => iteration < MaxIterations

IInv == TypeOK /\ Running /\ Delivered /\ NothingIsLost /\ ClearRoutingHolds
-----------------------------------------------------------------------------
(* Lemmas about the operators of Hats.                                     *)

\* A set of numbers that is not empty has a least one.
LEMMA LeastNumber ==
  ASSUME NEW S \in SUBSET Nat, S # {}
  PROVE  \E n \in S : \A m \in S : n <= m
<1>1. PICK n \in S : \A m \in S : ~ (<<m, n>> \in OpToRel(<, Nat))
  BY NatLessThanWellFounded, WFMin
<1>2. \A m \in S : ~ (m < n)
  BY <1>1 DEF OpToRel
<1>3. QED
  BY <1>2

\* Kept is what its recursion says, and keeps only what is good.
LEMMA KeptIsGood ==
  ASSUME NEW S, NEW list \in Seq(S), NEW good
  PROVE  Kept(list, good) \in Seq(S \cap good)
<1> DEFINE next(h, i) ==
             IF i = 0 THEN <<>>
             ELSE IF list[i] \in good THEN Append(h[i - 1], list[i]) ELSE h[i - 1]
           Keeps(f, n) == /\ f = [i \in 0..n |-> next(f, i)]
                          /\ \A i \in 0..n : f[i] \in Seq(S \cap good)
           Bad == {n \in 0..Len(list) : ~ \E f : Keeps(f, n)}
<1>1. Bad = {}
  <2> SUFFICES ASSUME Bad # {} PROVE FALSE
    OBVIOUS
  <2>1. PICK n \in Bad : \A m \in Bad : n <= m
    <3>1. Bad \in SUBSET Nat
      OBVIOUS
    <3> HIDE DEF Bad
    <3>2. QED
      BY <3>1, LeastNumber
  <2>2. n \in 0..Len(list)
    OBVIOUS
  <2>3. CASE n = 0
    <3>1. Keeps([i \in 0..0 |-> <<>>], 0)
      OBVIOUS
    <3>2. QED
      BY <2>3, <3>1
  <2>4. CASE n # 0
    <3>1. n - 1 \in 0..Len(list) /\ ~ (n <= n - 1)
      BY <2>2, <2>4
    <3>2. PICK f : Keeps(f, n - 1)
      BY <2>1, <3>1
    <3>3. /\ DOMAIN f = 0..n-1
          /\ \A i \in 0..n-1 : f[i] = next(f, i) /\ f[i] \in Seq(S \cap good)
      BY <3>2
    <3> DEFINE g == [i \in 0..n |-> IF i = n THEN next(f, n) ELSE f[i]]
    <3>4. next(f, n) \in Seq(S \cap good)
      <4>1. list[n] \in S
        BY <2>2, <2>4
      <4>2. f[n - 1] \in Seq(S \cap good)
        BY <2>2, <2>4, <3>3
      <4>3. QED
        BY <2>4, <4>1, <4>2
    <3>5. \A i \in 0..n : g[i] = next(g, i)
      <4> SUFFICES ASSUME NEW i \in 0..n PROVE g[i] = next(g, i)
        OBVIOUS
      <4>1. CASE i = 0
        BY <2>4, <3>3, <4>1
      <4>2. CASE i # 0
        <5>1. i - 1 \in 0..n-1 /\ g[i - 1] = f[i - 1]
          BY <2>2, <4>2
        <5>2. CASE i = n
          BY <4>2, <5>1, <5>2
        <5>3. CASE i # n
          <6>1. i \in 0..n-1
            BY <2>2, <5>3
          <6>2. g[i] = f[i] /\ f[i] = next(f, i)
            BY <3>3, <5>3, <6>1
          <6>3. QED
            BY <4>2, <5>1, <6>2
        <5>4. QED
          BY <5>2, <5>3
      <4>3. QED
        BY <4>1, <4>2
    <3>6. g = [i \in 0..n |-> next(g, i)]
      <4>1. g = [i \in 0..n |-> g[i]]
        OBVIOUS
      <4> HIDE DEF g, next
      <4>2. QED
        BY <3>5, <4>1
    <3>7. \A i \in 0..n : g[i] \in Seq(S \cap good)
      BY <2>2, <3>3, <3>4
    <3> HIDE DEF g, next
    <3>8. QED
      BY <3>6, <3>7
  <2>5. QED
    BY <2>3, <2>4
<1>2. PICK f : Keeps(f, Len(list))
  <2>1. Len(list) \in 0..Len(list)
    OBVIOUS
  <2>2. QED
    BY <1>1, <2>1
<1> DEFINE kept == CHOOSE g : g = [i \in 0..Len(list) |-> next(g, i)]
<1>3. kept = [i \in 0..Len(list) |-> next(kept, i)]
  BY <1>2
<1>4. Kept(list, good) = kept[Len(list)]
  BY DEF Kept
<1>5. \A i \in 0..Len(list) : kept[i] \in Seq(S \cap good)
  <2> DEFINE Worse == {i \in 0..Len(list) : kept[i] \notin Seq(S \cap good)}
  <2> SUFFICES ASSUME Worse # {} PROVE FALSE
    OBVIOUS
  <2> HIDE DEF kept
  <2>1. PICK n \in Worse : \A m \in Worse : n <= m
    <3>1. Worse \in SUBSET Nat
      OBVIOUS
    <3> HIDE DEF Worse
    <3>2. QED
      BY <3>1, LeastNumber
  <2>2. n \in 0..Len(list) /\ kept[n] = next(kept, n)
    BY <1>3
  <2>3. CASE n = 0
    <3>1. kept[n] = <<>>
      BY <2>2, <2>3
    <3>2. kept[n] \notin Seq(S \cap good)
      BY <2>1
    <3>3. QED
      BY <3>1, <3>2
  <2>4. CASE n # 0
    <3>1. n - 1 \in 0..Len(list) /\ ~ (n <= n - 1)
      BY <2>2, <2>4
    <3>2. kept[n - 1] \in Seq(S \cap good)
      BY <2>1, <3>1
    <3>3. list[n] \in S
      BY <2>2, <2>4
    <3>4. \/ list[n] \in good /\ kept[n] = Append(kept[n - 1], list[n])
          \/ kept[n] = kept[n - 1]
      BY <2>2, <2>4
    <3>5. kept[n] \notin Seq(S \cap good)
      BY <2>1
    <3>6. ASSUME NEW k \in Seq(S \cap good), NEW e \in S, e \in good
          PROVE  Append(k, e) \in Seq(S \cap good)
      <4>1. e \in S \cap good
        BY <3>6
      <4>2. QED
        BY <4>1, AppendProperties
    <3>7. QED
      BY <3>2, <3>3, <3>4, <3>5, <3>6
  <2>5. QED
    BY <2>3, <2>4
<1>6. Len(list) \in 0..Len(list)
  OBVIOUS
<1> HIDE DEF kept
<1>7. QED
  BY <1>4, <1>5, <1>6

\* InOrder lists a finite set.
LEMMA InOrderLists ==
  ASSUME NEW set, IsFiniteSet(set)
  PROVE  /\ InOrder(set) \in Seq(set)
         /\ \A e \in set : \E i \in DOMAIN InOrder(set) : InOrder(set)[i] = e
<1> DEFINE n == Cardinality(set)
           Lists(s) == \A e \in set : \E i \in DOMAIN s : s[i] = e
<1>1. n \in Nat /\ ExistsBijection(1..n, set)
  BY FS_CardinalityType
<1>2. PICK s \in [1..n -> set] : \A e \in set : \E i \in 1..n : s[i] = e
  BY <1>1 DEF ExistsBijection, Bijection, Surjection
<1>3. InOrder(set) \in [1..n -> set] /\ Lists(InOrder(set))
  <2>1. s \in [1..n -> set] /\ Lists(s)
    BY <1>2
  <2>2. InOrder(set) = CHOOSE f \in [1..n -> set] : Lists(f)
    BY DEF InOrder
  <2> HIDE DEF Lists, n
  <2>3. QED
    BY <2>1, <2>2
<1>4. QED
  BY <1>1, <1>3

\* An event goes to a hat or to Ralph, unless it is a word of the human.
LEMMA RecipientsAre ==
  ASSUME TypeOK, NEW event \in EventType
  PROVE  /\ Recipients(event) \subseteq Boxes
         /\ ~Human(event) => Recipients(event) # {}
         /\ Human(event) => Recipients(event) = {}
BY HatsAssumption DEF Recipients, Specific, Boxes, EventType, TypeOK, Topology

\* An event is for the hat its topic is looked up with, or for Ralph.
LEMMA HatForIs ==
  ASSUME TypeOK, NEW event \in EventType
  PROVE  /\ HatFor(event) \in Boxes
         /\ Clear /\ ~Human(event) /\ HatFor(event) # Ralph =>
              Recipients(event) = {HatFor(event)}
<1>1. CASE event.target # Ralph
  BY <1>1 DEF HatFor, Recipients, EventType, Boxes
<1>2. CASE event.target = Ralph /\ Subscribed(event.topic) = {}
  BY <1>2 DEF HatFor, Boxes
<1>3. CASE event.target = Ralph /\ Subscribed(event.topic) # {}
  <2> DEFINE hats == Subscribed(event.topic)
  <2>1. hats \subseteq Hats /\ hats \in SUBSET Nat
    BY HatsAssumption DEF Subscribed, Specific, TypeOK, Topology
  <2>2. \E h \in hats : \A g \in hats : h <= g
    BY <1>3, <2>1, LeastNumber
  <2>3. HatFor(event) = CHOOSE h \in hats : \A g \in hats : h <= g
    BY <1>3 DEF HatFor
  <2>4. HatFor(event) \in hats
    <3> HIDE DEF hats
    <3>1. QED
      BY <2>2, <2>3
  <2>5. ASSUME Clear, ~Human(event)
        PROVE  Recipients(event) = {HatFor(event)}
    <3>1. hats = Specific(event.topic)
      BY <2>5 DEF Clear, Subscribed
    <3>2. \A h, g \in hats : h = g
      BY <2>5, <3>1, HatsAssumption DEF Clear, Specific
    <3>3. Recipients(event) = hats
      BY <1>3, <2>5, <3>1 DEF Recipients
    <3> HIDE DEF hats
    <3>4. QED
      BY <2>4, <3>2, <3>3
  <2>6. QED
    BY <2>1, <2>4, <2>5 DEF Boxes
<1>4. QED
  BY <1>1, <1>2, <1>3
-----------------------------------------------------------------------------
(* Publishing.                                                             *)

(***************************************************************************)
(* What is published on top of what waits keeps its place, and goes to all *)
(* the hats it is routed to, or to the human's box.                        *)
(***************************************************************************)
LEMMA PublishDelivers ==
  ASSUME TypeOK, topo' = topo,
         NEW waiting \in [Boxes -> SUBSET Published], NEW voices \in SUBSET Published,
         NEW new \in Seq(EventType), Publish(waiting, voices, new),
         \A h \in Boxes : \A i \in waiting[h] :
            /\ ~Human(events[i])
            /\ h \in Recipients(events[i])
            /\ \A g \in Recipients(events[i]) : i \in waiting[g],
         \A i \in voices : Human(events[i])
  PROVE  /\ events' \in Seq(EventType) /\ Len(events') = Len(events) + Len(new)
         /\ \A i \in Published : events'[i] = events[i]
         /\ \A i \in 1..Len(new) : events'[Len(events) + i] = new[i]
         /\ pending' \in [Boxes -> SUBSET Published'] /\ human' \subseteq Published'
         /\ Delivered'
         /\ voices \subseteq human' /\ \A h \in Boxes : waiting[h] \subseteq pending'[h]
         /\ \A i \in Published' \ Published :
              i \in human' \/ \E h \in Boxes : i \in pending'[h]
<1> DEFINE n == Len(events)
           After == n + 1 .. n + Len(new)
           Nth(i) == new[i - n]
<1>1. /\ events \in Seq(EventType) /\ n \in Nat /\ Len(new) \in Nat
      /\ Published = 1..n
  BY DEF TypeOK, EventType, Boxes, Published
<1>2. /\ events' = events \o new
      /\ pending' = [h \in Boxes |-> waiting[h] \cup {i \in After : h \in Recipients(Nth(i))}]
      /\ human' = voices \cup {i \in After : Human(Nth(i))}
  BY DEF Publish, Boxes
<1>3. /\ events' \in Seq(EventType) /\ Len(events') = n + Len(new)
      /\ \A i \in 1..n : events'[i] = events[i]
      /\ \A i \in 1..Len(new) : events'[n + i] = new[i]
  BY <1>1, <1>2
<1>4. \A i \in After : i - n \in 1..Len(new) /\ events'[i] = Nth(i) /\ Nth(i) \in EventType
  <2>1. ASSUME NEW i \in After
        PROVE  i - n \in 1..Len(new) /\ events'[i] = Nth(i) /\ Nth(i) \in EventType
    <3>1. i - n \in 1..Len(new) /\ n + (i - n) = i
      BY <1>1
    <3>2. events'[n + (i - n)] = new[i - n]
      BY <1>3, <3>1
    <3>3. new[i - n] \in EventType
      BY <3>1
    <3>4. QED
      BY <3>1, <3>2, <3>3
  <2>2. QED
    BY <2>1
<1>5. Published' = 1..(n + Len(new))
  BY <1>3 DEF Published
<1>6. \A i \in Published' : i \in 1..n \/ i \in After
  BY <1>1, <1>5
<1>7. pending' \in [Boxes -> SUBSET Published'] /\ human' \subseteq Published'
  <2>1. Published \subseteq Published' /\ After \subseteq Published'
    BY <1>1, <1>5
  <2>2. \A h \in Boxes : waiting[h] \subseteq Published'
    BY <2>1
  <2> HIDE DEF After
  <2>3. QED
    BY <1>2, <2>1, <2>2
<1>8. \A e : Recipients(e)' = Recipients(e)
  BY DEF Recipients, Specific
<1>9. Delivered'
  <2>1. ASSUME NEW h \in Boxes, NEW i \in pending'[h]
        PROVE  /\ ~Human(events'[i])
               /\ h \in Recipients(events'[i])
               /\ \A g \in Recipients(events'[i]) : i \in pending'[g]
    <3>1. CASE i \in waiting[h]
      <4>1. i \in 1..n /\ events'[i] = events[i]
        BY <1>1, <1>3, <3>1
      <4>2. /\ ~Human(events[i])
            /\ h \in Recipients(events[i])
            /\ \A g \in Recipients(events[i]) : i \in waiting[g]
        BY <3>1
      <4>3. Recipients(events[i]) \subseteq Boxes
        BY <1>1, <4>1, RecipientsAre
      <4>4. \A g \in Boxes : i \in waiting[g] => i \in pending'[g]
        BY <1>2
      <4>5. QED
        BY <4>1, <4>2, <4>3, <4>4
    <3>2. CASE i \in After /\ h \in Recipients(Nth(i))
      <4>1. Nth(i) \in EventType /\ events'[i] = Nth(i)
        BY <1>4, <3>2
      <4>2. Recipients(Nth(i)) \subseteq Boxes /\ ~Human(Nth(i))
        BY <3>2, <4>1, RecipientsAre
      <4>3. \A g \in Boxes : g \in Recipients(Nth(i)) => i \in pending'[g]
        BY <1>2, <3>2
      <4>4. QED
        BY <3>2, <4>1, <4>2, <4>3
    <3>3. QED
      BY <1>2, <2>1, <3>1, <3>2
  <2>2. ASSUME NEW i \in human'
        PROVE  Human(events'[i])
    BY <1>1, <1>2, <1>3, <1>4, <2>2
  <2>3. QED
    BY <1>8, <2>1, <2>2 DEF Delivered, Human
<1>10. voices \subseteq human' /\ \A h \in Boxes : waiting[h] \subseteq pending'[h]
  BY <1>2
<1>11. ASSUME NEW i \in Published' \ Published
       PROVE  i \in human' \/ \E h \in Boxes : i \in pending'[h]
  <2>1. i \in After /\ Nth(i) \in EventType
    BY <1>1, <1>4, <1>6
  <2>2. CASE Human(Nth(i))
    BY <1>2, <2>1, <2>2
  <2>3. CASE ~Human(Nth(i))
    <3>1. PICK h \in Boxes : h \in Recipients(Nth(i))
      BY <2>1, <2>3, RecipientsAre
    <3>2. QED
      BY <1>2, <2>1, <3>1
  <2>4. QED
    BY <2>2, <2>3
<1>12. QED
  BY <1>1, <1>3, <1>7, <1>9, <1>10, <1>11
-----------------------------------------------------------------------------
(* The invariant.                                                          *)

\* The invariant holds at first: the starting event waits.
LEMMA Initially == Init => IInv
<1> SUFFICES ASSUME Init
             PROVE  IInv
  OBVIOUS
<1> DEFINE start == Event(T("start"))
<1>1. /\ events = <<start>> /\ start \in EventType
      /\ start.topic = <<"start", Ralph>> /\ ~Human(start)
  BY DEF Init, Event, EventType, Boxes, Topic, Entrypoints, T, Human
<1>2. Published = {1} /\ events[1] = start
  BY <1>1 DEF Published
<1>3. topo \in Topology
  BY HatsAssumption DEF Init
<1>4. Recipients(start) \subseteq Boxes /\ Recipients(start) # {}
  BY <1>1, <1>3, HatsAssumption
     DEF Recipients, Specific, Boxes, Topology, EventType
<1>5. pending = [h \in Boxes |-> IF h \in Recipients(start) THEN {1} ELSE {}]
  BY DEF Init, Boxes
<1>6. TypeOK
  <2>1. events \in Seq(EventType)
    BY <1>1
  <2>2. pending \in [Boxes -> SUBSET Published]
    BY <1>2, <1>5
  <2>3. /\ counts \in [Hats -> Nat] /\ lines \in Seq(Written)
        /\ iteration \in 0..MaxIterations
    BY HatsAssumption DEF Init
  <2>4. QED
    BY <2>1, <2>2, <2>3 DEF Init, TypeOK, EventType, Boxes, Published
<1>7. Delivered
  BY <1>1, <1>2, <1>4, <1>5 DEF Delivered, Init
<1>8. NothingIsLost
  BY <1>2, <1>4, <1>5 DEF NothingIsLost, Boxes
<1>9. ClearRoutingHolds
  BY <1>3 DEF ClearRoutingHolds, MaxActivationsHold, Init, Topology
<1>10. Running
  BY HatsAssumption DEF Running, Init
<1>11. QED
  BY <1>6, <1>7, <1>8, <1>9, <1>10 DEF IInv

\* What a read publishes for the lines it finds are events.
LEMMA ProcessedAreEvents == TypeOK => Processed \subseteq Seq(EventType)
<1> SUFFICES ASSUME TypeOK, NEW new \in Processed
             PROVE  new \in Seq(EventType)
  OBVIOUS
<1>1. lines \in Seq(Written) /\ active \subseteq Hats
  BY DEF TypeOK
<1> DEFINE hats == IF active = {} THEN {Ralph} ELSE active
<1>2. PICK h \in hats :
        new = [i \in DOMAIN OutOfScope |-> Event(Violation(h))] \o Events(Validated)
  BY DEF Processed
<1>3. Validated \in Seq(Written)
  <2>1. Accepted \in Seq(Written)
    <3>1. Accepted \in Seq(Written \cap InScope)
      BY <1>1, KeptIsGood DEF Accepted
    <3>2. Written \cap InScope \subseteq Written
      OBVIOUS
    <3>3. QED
      BY <3>1, <3>2, SeqMonotonic
  <2> DEFINE ordinary == Written \ {T("complete"), T("cancel")}
  <2>2. Validated \in Seq(Written \cap ordinary)
    BY <2>1, KeptIsGood DEF Validated
  <2>3. Written \cap ordinary \subseteq Written
    OBVIOUS
  <2>4. QED
    BY <2>2, <2>3, SeqMonotonic
<1>4. Events(Validated) \in Seq(EventType)
  <2>1. \A topic \in Written : Event(topic) \in EventType
    BY DEF Event, EventType, Boxes, Topic
  <2>2. Events(Validated) = [i \in 1..Len(Validated) |-> Event(Validated[i])]
    BY <1>3 DEF Events
  <2>3. QED
    BY <1>3, <2>1, <2>2
<1>5. [i \in DOMAIN OutOfScope |-> Event(Violation(h))] \in Seq(EventType)
  <2> DEFINE beyond == Written \ InScope
  <2>1. OutOfScope \in Seq(Written \cap beyond)
    BY <1>1, KeptIsGood DEF OutOfScope
  <2>2. CASE active = {}
    <3>1. Written \cap beyond = {}
      BY <2>2 DEF InScope
    <3>2. OutOfScope = <<>>
      BY <2>1, <3>1
    <3>3. QED
      BY <3>2
  <2>3. CASE active # {}
    <3>1. Event(Violation(h)) \in EventType
      BY <1>1, <2>3 DEF Event, EventType, Boxes, Topic
    <3>2. DOMAIN OutOfScope = 1..Len(OutOfScope) /\ Len(OutOfScope) \in Nat
      BY <2>1
    <3>3. QED
      BY <3>1, <3>2
  <2>4. QED
    BY <2>2, <2>3
<1>6. QED
  BY <1>2, <1>4, <1>5

\* So are the defaults that stand in for them.
LEMMA DefaultsAreEvents ==
  ASSUME TypeOK, NEW waits, NEW default \in Defaults(waits)
  PROVE  default \in Seq(EventType)
<1> DEFINE hats == IF active = {} THEN {preview} ELSE active
<1>1. hats \subseteq Boxes
  BY DEF TypeOK, Boxes
<1>2. default = <<>> \/ \E h \in hats : default = Default(h)
  BY DEF Defaults
<1>3. ASSUME NEW h \in Boxes
      PROVE  Default(h) \in Seq(EventType)
  <2>1. h # Ralph => topo.default[h] \in Topic \cup {NoTopic}
    BY HatsAssumption DEF TypeOK, Topology, Boxes
  <2>2. CASE h = Ralph \/ topo.default[h] = NoTopic
    BY <2>2 DEF Default
  <2>3. CASE h # Ralph /\ topo.default[h] = T("complete")
    <3> DEFINE resume == EventFor(h, T("resume"))
    <3>1. resume \in EventType
      BY DEF EventFor, EventType, Topic, Entrypoints
    <3>2. <<resume>> \in Seq(EventType) /\ <<>> \in Seq(EventType)
      <4> HIDE DEF resume
      <4>1. QED
        BY <3>1
    <3>3. Default(h) = <<>> \/ Default(h) = <<resume>>
      BY <2>3 DEF Default
    <3>4. QED
      BY <3>2, <3>3
  <2>4. CASE h # Ralph /\ topo.default[h] \notin {NoTopic, T("complete")}
    <3>1. Event(topo.default[h]) \in EventType
      BY <2>1, <2>4 DEF Event, EventType, Boxes
    <3>2. Default(h) = <<Event(topo.default[h])>>
      BY <2>4 DEF Default
    <3>3. QED
      BY <3>1, <3>2
  <2>5. QED
    BY <2>2, <2>3, <2>4
<1>4. <<>> \in Seq(EventType)
  OBVIOUS
<1> HIDE DEF hats
<1>5. CASE default = <<>>
  BY <1>4, <1>5
<1>6. CASE \E h \in hats : default = Default(h)
  BY <1>1, <1>3, <1>6
<1>7. QED
  BY <1>2, <1>5, <1>6

\* And task.resume is one.
LEMMA ResumeIsEvents == <<>> \in Seq(EventType) /\ Resume \in Seq(EventType)
<1> DEFINE resume == Event(T("resume"))
<1>1. resume \in EventType
  BY DEF Event, EventType, Boxes, Topic, Entrypoints
<1>2. Resume = <<resume>>
  BY DEF Resume
<1> HIDE DEF resume
<1>3. QED
  BY <1>1, <1>2

\* Active hats are hats that the events of a list are for.
LEMMA ActiveHatsAre ==
  ASSUME TypeOK, NEW list \in SUBSET EventType
  PROVE  /\ ActiveHats(list) \subseteq {HatFor(e) : e \in list} \ {Ralph}
         /\ ActiveHats(list) \subseteq Hats
<1>1. \A e \in list : HatFor(e) \in Boxes
  BY HatForIs
<1>2. ActiveHats(list) \subseteq {HatFor(e) : e \in list} \ {Ralph}
  BY DEF ActiveHats
<1>3. QED
  BY <1>1, <1>2 DEF Boxes

\* What a read publishes changes nothing but the bus, and loses nothing on it.
LEMMA ReadKeeps ==
  ASSUME IInv, NEW new \in Seq(EventType), Publish(pending, human, new),
         UNCHANGED <<topo, activations>>
  PROVE  /\ events' \in Seq(EventType)
         /\ pending' \in [Boxes -> SUBSET Published'] /\ human' \subseteq Published'
         /\ prompt' \subseteq Published' /\ shown' \subseteq Published'
         /\ Delivered' /\ NothingIsLost' /\ ClearRoutingHolds'
<1>1. /\ TypeOK /\ Delivered /\ NothingIsLost /\ ClearRoutingHolds
      /\ pending \in [Boxes -> SUBSET Published] /\ human \subseteq Published
      /\ prompt \subseteq Published /\ shown \subseteq Published
      /\ events \in Seq(EventType)
  BY DEF IInv, TypeOK, Boxes, Published, EventType
<1> /\ topo' = topo
    /\ \A h \in Boxes : \A i \in pending[h] :
         /\ ~Human(events[i])
         /\ h \in Recipients(events[i])
         /\ \A g \in Recipients(events[i]) : i \in pending[g]
    /\ \A i \in human : Human(events[i])
  BY <1>1 DEF Delivered
<1>2. /\ events' \in Seq(EventType) /\ Len(events') = Len(events) + Len(new)
      /\ \A i \in Published : events'[i] = events[i]
      /\ pending' \in [Boxes -> SUBSET Published'] /\ human' \subseteq Published'
      /\ Delivered'
      /\ human \subseteq human' /\ \A h \in Boxes : pending[h] \subseteq pending'[h]
      /\ \A i \in Published' \ Published :
              i \in human' \/ \E h \in Boxes : i \in pending'[h]
  BY <1>1, PublishDelivers
<1>3. Published \subseteq Published'
  BY <1>1, <1>2 DEF Published
<1>4. /\ topo' = topo /\ counts' = counts /\ shown' = shown /\ prompt' = prompt
      /\ active' = active
  BY DEF activations
<1>5. /\ \A e : Recipients(e)' = Recipients(e)
      /\ \A h : AtLimit(h)' <=> AtLimit(h)
      /\ Clear' <=> Clear
  BY <1>4 DEF Recipients, Specific, AtLimit, Clear
<1>6. NothingIsLost'
  <2> SUFFICES ASSUME NEW i \in Published'
               PROVE  \/ i \in human' \/ i \in shown'
                      \/ \E h \in Boxes : i \in pending'[h]
                      \/ events'[i].topic \in Entrypoints
                      \/ /\ ~Human(events'[i])
                         /\ \A h \in Recipients(events'[i]) : AtLimit(h)
    BY <1>5 DEF NothingIsLost, Boxes, Human
  <2>1. CASE i \notin Published
    BY <1>2, <2>1
  <2>2. CASE i \in Published
    BY <1>1, <1>2, <1>4, <2>2 DEF NothingIsLost, Boxes
  <2>3. QED
    BY <2>1, <2>2
<1>7. ClearRoutingHolds'
  <2>1. Clear => /\ \A h \in Hats : counts'[h] <= topo'.max[h]
                 /\ \A h \in active' : \E i \in prompt' : h \in Recipients(events'[i])
    BY <1>1, <1>2, <1>4 DEF ClearRoutingHolds, MaxActivationsHold
  <2>2. QED
    BY <1>5, <2>1 DEF ClearRoutingHolds, MaxActivationsHold
<1>8. QED
  BY <1>1, <1>2, <1>3, <1>4, <1>6, <1>7

(***************************************************************************)
(* A prompt takes what waits for hats that are not barred, and shows it;   *)
(* what waits for barred hats alone is dropped.  The hats it activates are *)
(* those of its events, so where routing is clear none of them is at its   *)
(* limit.                                                                  *)
(***************************************************************************)
LEMMA BuildPromptKeeps == IInv /\ BuildPrompt => IInv'
<1> SUFFICES ASSUME IInv, BuildPrompt
             PROVE  IInv'
  OBVIOUS
<1> DEFINE late == {Event(Exhausted(h)) : h \in Barred \ exhausted}
           reports == InOrder(late)
           taken == Taken \cup {Len(events) + i : i \in DOMAIN reports}
           regular == {events'[i] : i \in {j \in taken : ~Human(events'[j])}}
           topics == Effective({e.topic : e \in regular})
           nothing == [h \in DOMAIN pending |-> {}]
<1>1. /\ Publish(nothing, {}, reports)
      /\ active' = ActiveHats(regular)
      /\ prompt' = taken
      /\ shown' = shown \cup {i \in taken : Human(events'[i]) \/ events'[i].topic \in topics}
      /\ exhausted' = exhausted \cup Barred
      /\ counts' = [h \in Hats |-> IF h \in active' THEN counts[h] + 1 ELSE counts[h]]
      /\ preview' \in Previewed
      /\ pc' = "agent"
      /\ topo' = topo /\ lines' = lines /\ written' = written /\ iteration' = iteration
  BY DEF BuildPrompt, log
<1>2. /\ TypeOK /\ Delivered /\ NothingIsLost /\ ClearRoutingHolds
      /\ pending \in [Boxes -> SUBSET Published] /\ human \subseteq Published
      /\ prompt \subseteq Published /\ shown \subseteq Published
      /\ events \in Seq(EventType) /\ topo \in Topology
      /\ counts \in [Hats -> Nat] /\ Barred \subseteq Hats
      /\ Published = 1..Len(events) /\ Len(events) \in Nat
  BY HatsAssumption DEF IInv, TypeOK, Boxes, Published, EventType, Barred
<1>3. \A e \in late : /\ e \in EventType /\ e.target = Ralph /\ ~Human(e)
                     /\ \E g \in Hats : e.topic = Exhausted(g)
  BY <1>2 DEF Event, EventType, Topic, Boxes, Human, T, Exhausted
<1>4. IsFiniteSet(late)
  <2>1. IsFiniteSet(Barred \ exhausted)
    BY <1>2, HatsAssumption, FS_Subset
  <2> DEFINE report == [h \in Barred \ exhausted |-> Event(Exhausted(h))]
  <2>2. report \in Surjection(Barred \ exhausted, late)
    BY DEF Surjection
  <2> HIDE DEF report, late
  <2>3. QED
    BY <2>1, <2>2, FS_Surjection
<1>5. /\ reports \in Seq(late) /\ reports \in Seq(EventType)
      /\ DOMAIN reports = 1..Len(reports) /\ Len(reports) \in Nat
  <2> HIDE DEF late
  <2>1. reports \in Seq(late)
    BY <1>4, InOrderLists
  <2>2. late \subseteq EventType
    BY <1>3
  <2> HIDE DEF reports
  <2>3. QED
    BY <2>1, <2>2, SeqMonotonic
<1>6. /\ nothing \in [Boxes -> SUBSET Published]
      /\ \A h \in Boxes : nothing[h] = {}
  BY <1>2
<1> HIDE DEF late, reports, nothing
<1>7. /\ events' \in Seq(EventType) /\ Len(events') = Len(events) + Len(reports)
      /\ \A i \in Published : events'[i] = events[i]
      /\ \A i \in 1..Len(reports) : events'[Len(events) + i] = reports[i]
      /\ pending' \in [Boxes -> SUBSET Published'] /\ human' \subseteq Published'
      /\ Delivered'
      /\ \A i \in Published' \ Published :
           i \in human' \/ \E h \in Boxes : i \in pending'[h]
  <2>1. PICK waiting \in [Boxes -> SUBSET Published], voices \in SUBSET Published,
             new \in Seq(EventType) :
               waiting = nothing /\ voices = {} /\ new = reports
    BY <1>5, <1>6
  <2>2. TypeOK /\ topo' = topo /\ Publish(waiting, voices, new)
    BY <1>1, <1>2, <2>1
  <2>3. /\ \A h \in Boxes : \A i \in waiting[h] :
             /\ ~Human(events[i])
             /\ h \in Recipients(events[i])
             /\ \A g \in Recipients(events[i]) : i \in waiting[g]
        /\ \A i \in voices : Human(events[i])
    BY <1>6, <2>1
  <2>4. /\ events' \in Seq(EventType) /\ Len(events') = Len(events) + Len(new)
        /\ \A i \in Published : events'[i] = events[i]
        /\ \A i \in 1..Len(new) : events'[Len(events) + i] = new[i]
        /\ pending' \in [Boxes -> SUBSET Published'] /\ human' \subseteq Published'
        /\ Delivered'
        /\ voices \subseteq human' /\ \A h \in Boxes : waiting[h] \subseteq pending'[h]
        /\ \A i \in Published' \ Published :
             i \in human' \/ \E h \in Boxes : i \in pending'[h]
    BY <2>2, <2>3, PublishDelivers
  <2>5. QED
    BY <2>1, <2>4
<1>8. /\ Published' = 1..Len(events') /\ Published \subseteq Published'
      /\ Taken \subseteq Published /\ taken \subseteq Published'
  <2>1. Published' = 1..Len(events') /\ Published \subseteq Published'
    BY <1>2, <1>5, <1>7 DEF Published
  <2>2. Taken \subseteq Published
    BY <1>2 DEF Taken
  <2>3. {Len(events) + i : i \in DOMAIN reports} \subseteq Published'
    BY <1>2, <1>5, <1>7, <2>1
  <2>4. QED
    BY <2>1, <2>2, <2>3
<1>9. \A i \in taken : events'[i] \in EventType
  BY <1>7, <1>8
<1>10. /\ \A e : Recipients(e)' = Recipients(e)
       /\ \A h \in Hats : counts[h] <= counts'[h]
       /\ \A h \in Boxes : AtLimit(h) => AtLimit(h)'
       /\ Clear' <=> Clear
  <2>1. \A h \in Hats : /\ counts[h] \in Nat /\ topo.max[h] \in Nat
                        /\ counts[h] <= counts'[h] /\ counts'[h] \in Nat
    BY <1>1, <1>2 DEF Topology
  <2>2. QED
    BY <1>1, <2>1 DEF Recipients, Specific, AtLimit, Clear, Boxes
\* What waited for a hat that is not barred is shown, or gives way.
<1>11. ASSUME NEW i \in taken
       PROVE  i \in shown' \/ events'[i].topic \in Entrypoints
  <2>1. CASE Human(events'[i])
    BY <1>1, <2>1
  <2>2. CASE ~Human(events'[i])
    <3>1. events'[i] \in regular
      BY <2>2
    <3>2. events'[i].topic \in {e.topic : e \in regular}
      BY <3>1
    <3>3. events'[i].topic \in topics \cup Entrypoints
      BY <3>2 DEF Effective
    <3>4. QED
      BY <1>1, <3>3
  <2>3. QED
    BY <2>1, <2>2
<1>12. NothingIsLost'
  <2> SUFFICES ASSUME NEW i \in Published'
               PROVE  \/ i \in human' \/ i \in shown'
                      \/ \E h \in Boxes : i \in pending'[h]
                      \/ events'[i].topic \in Entrypoints
                      \/ /\ ~Human(events'[i])
                         /\ \A h \in Recipients(events'[i]) : AtLimit(h)'
    BY <1>10 DEF NothingIsLost, Boxes, Human
  <2>1. CASE i \notin Published
    BY <1>7, <2>1
  <2>2. CASE i \in Published
    <3>1. events'[i] = events[i] /\ events[i] \in EventType
      BY <1>2, <1>7, <2>2
    <3>2. CASE i \in human
      BY <1>11, <3>2 DEF Taken
    <3>3. CASE i \in shown
      BY <1>1, <3>3
    <3>4. CASE \E h \in Boxes : i \in pending[h]
      <4>1. CASE \E h \in Boxes \ Barred : i \in pending[h]
        <5>1. i \in Taken
          BY <1>2, <4>1 DEF Taken
        <5>2. QED
          BY <1>11, <5>1
      <4>2. CASE \A h \in Boxes : i \in pending[h] => h \in Barred
        <5>1. ~Human(events[i]) /\ \A g \in Recipients(events[i]) : i \in pending[g]
          BY <1>2, <3>4 DEF Delivered
        <5>2. Recipients(events[i]) \subseteq Boxes
          BY <1>2, <3>1, RecipientsAre
        <5>3. \A g \in Recipients(events[i]) : AtLimit(g)
          BY <4>2, <5>1, <5>2 DEF Barred
        <5>4. QED
          BY <1>10, <3>1, <5>1, <5>2, <5>3
      <4>3. QED
        BY <4>1, <4>2
    <3>5. CASE events[i].topic \in Entrypoints
      BY <3>1, <3>5
    <3>6. CASE ~Human(events[i]) /\ \A h \in Recipients(events[i]) : AtLimit(h)
      <4>1. Recipients(events[i]) \subseteq Boxes
        BY <1>2, <3>1, RecipientsAre
      <4>2. QED
        BY <1>10, <3>1, <3>6, <4>1
    <3>7. QED
      BY <1>2, <2>2, <3>2, <3>3, <3>4, <3>5, <3>6 DEF NothingIsLost, Boxes
  <2>3. QED
    BY <2>1, <2>2
<1>13. /\ active' \subseteq {HatFor(e) : e \in regular} \ {Ralph}
       /\ active' \subseteq Hats
  <2>1. regular \in SUBSET EventType
    BY <1>9
  <2> HIDE DEF regular
  <2>2. QED
    BY <1>1, <1>2, <2>1, ActiveHatsAre
\* Where routing is clear, an active hat has an event of its own in the prompt.
<1>14. ASSUME Clear, NEW h \in active'
       PROVE  /\ \E i \in taken : h \in Recipients(events'[i])
              /\ counts[h] < topo.max[h]
  <2>1. PICK i \in taken : h = HatFor(events'[i]) /\ ~Human(events'[i])
    BY <1>13
  <2>2. h \in Hats /\ h # Ralph
    BY <1>13
  <2>3. events'[i] \in EventType /\ Recipients(events'[i]) = {h}
    BY <1>2, <1>9, <1>14, <2>1, <2>2, HatForIs
  <2>4. CASE i \in Taken
    <3>1. i \in Published /\ events'[i] = events[i]
      BY <1>7, <1>8, <2>4
    <3>2. PICK g \in Boxes \ Barred : i \in pending[g]
      BY <1>2, <2>1, <2>4, <3>1 DEF Taken, Delivered
    <3>3. g = h
      BY <1>2, <2>3, <3>1, <3>2 DEF Delivered
    <3>4. ~AtLimit(h)
      BY <2>2, <3>2, <3>3 DEF Barred
    <3>5. counts[h] \in Nat /\ topo.max[h] \in Nat
      BY <1>2, <2>2 DEF Topology
    <3>6. QED
      BY <2>1, <2>2, <2>3, <3>4, <3>5 DEF AtLimit
  <2>5. CASE i \notin Taken
    <3>1. PICK k \in 1..Len(reports) : i = Len(events) + k
      BY <1>5, <2>5
    <3>2. events'[i] \in late
      BY <1>5, <1>7, <3>1
    <3>3. Recipients(events'[i]) = {Ralph}
      BY <1>3, <1>14, <3>2 DEF Recipients, Specific, Clear
    <3>4. QED
      BY <2>2, <2>3, <3>3
  <2>6. QED
    BY <2>4, <2>5
<1>15. ClearRoutingHolds'
  <2> SUFFICES ASSUME Clear
               PROVE  /\ \A h \in Hats : counts'[h] <= topo'.max[h]
                      /\ \A h \in active' : \E i \in prompt' : h \in Recipients(events'[i])
    BY <1>10 DEF ClearRoutingHolds, MaxActivationsHold
  <2>1. ASSUME NEW h \in Hats
        PROVE  counts'[h] <= topo.max[h]
    <3>1. counts[h] \in Nat /\ topo.max[h] \in Nat
      BY <1>2 DEF Topology
    <3>2. CASE h \in active'
      BY <1>1, <1>14, <3>1, <3>2
    <3>3. CASE h \notin active'
      BY <1>1, <1>2, <3>3 DEF ClearRoutingHolds, MaxActivationsHold
    <3>4. QED
      BY <3>2, <3>3
  <2>2. QED
    BY <1>1, <1>14, <2>1
<1>16. TypeOK'
  <2>1. preview' \in Boxes
    <3> DEFINE waiting == {events[i] : i \in UNION {pending[h] : h \in DOMAIN pending}}
    <3>1. waiting \in SUBSET EventType
      BY <1>2
    <3>2. preview' \in ActiveHats(waiting) \cup {Ralph}
      BY <1>1 DEF Previewed
    <3> HIDE DEF waiting
    <3>3. QED
      BY <1>2, <3>1, <3>2, ActiveHatsAre DEF Boxes
  <2>2. counts' \in [Hats -> Nat]
    BY <1>1, <1>2
  <2>3. shown' \subseteq Published' /\ prompt' \subseteq Published'
    BY <1>1, <1>2, <1>8
  <2>4. exhausted' \subseteq Hats
    BY <1>1, <1>2 DEF TypeOK
  <2>5. QED
    BY <1>1, <1>2, <1>7, <1>8, <1>13, <2>1, <2>2, <2>3, <2>4 DEF TypeOK, EventType, Boxes
<1>17. Running'
  BY <1>1 DEF IInv, Running, BuildPrompt
<1>18. QED
  BY <1>7, <1>12, <1>15, <1>16, <1>17 DEF IInv

\* A step that leaves the bus and the activations alone keeps what relates them.
LEMMA IdleKeeps ==
  ASSUME IInv, UNCHANGED <<topo, bus, activations>>
  PROVE  Delivered' /\ NothingIsLost' /\ ClearRoutingHolds'
<1>1. /\ topo' = topo /\ events' = events /\ pending' = pending /\ human' = human
      /\ counts' = counts /\ shown' = shown /\ prompt' = prompt /\ active' = active
  BY DEF bus, activations
<1>2. /\ Published' = Published /\ (Clear' <=> Clear)
      /\ \A e : Recipients(e)' = Recipients(e)
      /\ \A h : AtLimit(h)' <=> AtLimit(h)
  BY <1>1 DEF Published, Recipients, Specific, AtLimit, Clear
<1>3. Delivered'
  BY <1>1, <1>2 DEF IInv, Delivered
<1>4. NothingIsLost'
  BY <1>1, <1>2 DEF IInv, NothingIsLost
<1>5. ClearRoutingHolds'
  BY <1>1, <1>2 DEF IInv, ClearRoutingHolds, MaxActivationsHold
<1>6. QED
  BY <1>3, <1>4, <1>5

\* The invariant is kept by every step.
LEMMA Inductive == IInv /\ [Next]_vars => IInv'
<1> SUFFICES ASSUME IInv, [Next]_vars
             PROVE  IInv'
  OBVIOUS
<1> USE DEF Boxes
<1>1. TypeOK /\ Running
  BY DEF IInv
<1>2. CASE BuildPrompt
  BY <1>2, BuildPromptKeeps
<1>3. CASE NothingPending
  <2>1. Delivered' /\ NothingIsLost' /\ ClearRoutingHolds'
    BY <1>3, IdleKeeps DEF NothingPending
  <2>2. TypeOK'
    BY <1>1, <1>3 DEF NothingPending, TypeOK, bus, activations, log
  <2>3. Running'
    BY <1>1, <1>3 DEF NothingPending, Running
  <2>4. QED
    BY <2>1, <2>2, <2>3 DEF IInv
<1>4. CASE AgentEnds
  <2>1. Delivered' /\ NothingIsLost' /\ ClearRoutingHolds'
    BY <1>4, IdleKeeps DEF AgentEnds
  <2>2. iteration' \in 0..MaxIterations
    BY <1>1, <1>4, HatsAssumption DEF AgentEnds, TypeOK, Running
  <2>3. TypeOK'
    BY <1>1, <1>4, <2>2 DEF AgentEnds, TypeOK, bus, activations, log
  <2>4. Running'
    BY <1>1, <1>4, HatsAssumption DEF AgentEnds, TypeOK, Running
  <2>5. QED
    BY <2>1, <2>3, <2>4 DEF IInv
<1>5. CASE Write
  <2>1. Delivered' /\ NothingIsLost' /\ ClearRoutingHolds'
    BY <1>5, IdleKeeps DEF Write
  <2>2. lines' \in Seq(Written) /\ written' \in Nat
    BY <1>1, <1>5 DEF Write, TypeOK
  <2>3. TypeOK'
    BY <1>1, <1>5, <2>2 DEF Write, TypeOK, bus, activations
  <2>4. Running'
    BY <1>1, <1>5 DEF Write, Running
  <2>5. QED
    BY <2>1, <2>3, <2>4 DEF IInv
\* A read publishes the lines it accepts, and what stands in for them.
<1>6. CASE Read
  <2>1. PICK new \in Processed : \E default \in Defaults(HasPending \/ new # <<>>) :
          LET refusal == IF Claims THEN Resume ELSE <<>>
              fallback == IF pc = "late" /\ ~(HasPending \/ new # <<>>) /\ ~Claims
                            THEN Resume ELSE <<>>
          IN Publish(pending, human, new \o default \o refusal \o fallback)
    BY <1>6 DEF Read
  <2> DEFINE refusal == IF Claims THEN Resume ELSE <<>>
             fallback == IF pc = "late" /\ ~(HasPending \/ new # <<>>) /\ ~Claims
                           THEN Resume ELSE <<>>
  <2>2. PICK default \in Defaults(HasPending \/ new # <<>>) :
          Publish(pending, human, new \o default \o refusal \o fallback)
    BY <2>1
  <2>3. new \in Seq(EventType) /\ default \in Seq(EventType)
    BY <1>1, ProcessedAreEvents, DefaultsAreEvents
  <2>4. refusal \in Seq(EventType) /\ fallback \in Seq(EventType)
    <3>1. <<>> \in Seq(EventType) /\ Resume \in Seq(EventType)
      BY ResumeIsEvents
    <3>2. QED
      BY <3>1
  <2> HIDE DEF refusal, fallback
  <2>5. new \o default \o refusal \o fallback \in Seq(EventType)
    BY <2>3, <2>4
  <2>6. UNCHANGED <<topo, activations>>
    BY <1>6 DEF Read
  <2>7. /\ events' \in Seq(EventType)
        /\ pending' \in [Boxes -> SUBSET Published'] /\ human' \subseteq Published'
        /\ prompt' \subseteq Published' /\ shown' \subseteq Published'
        /\ Delivered' /\ NothingIsLost' /\ ClearRoutingHolds'
    BY <2>2, <2>5, <2>6, ReadKeeps
  <2>8. lines' \in Seq(Written) /\ pc' = "top" /\ written' = written /\ iteration' = iteration
    BY <1>6 DEF Read
  <2>9. TypeOK'
    BY <1>1, <2>6, <2>7, <2>8 DEF TypeOK, activations, EventType, Published
  <2>10. Running'
    BY <1>1, <1>6 DEF Read, Running
  <2>11. QED
    BY <2>7, <2>9, <2>10 DEF IInv
<1>7. CASE LastRead
  <2>1. PICK new \in Processed : Publish(pending, human, new)
    BY <1>7 DEF LastRead
  <2>2. new \in Seq(EventType)
    BY <1>1, ProcessedAreEvents
  <2>3. UNCHANGED <<topo, activations>>
    BY <1>7 DEF LastRead
  <2>4. /\ events' \in Seq(EventType)
        /\ pending' \in [Boxes -> SUBSET Published'] /\ human' \subseteq Published'
        /\ prompt' \subseteq Published' /\ shown' \subseteq Published'
        /\ Delivered' /\ NothingIsLost' /\ ClearRoutingHolds'
    BY <2>1, <2>2, <2>3, ReadKeeps
  <2>5. lines' \in Seq(Written) /\ pc' = "done" /\ written' = written /\ iteration' = iteration
    BY <1>7 DEF LastRead
  <2>6. TypeOK'
    BY <1>1, <2>3, <2>4, <2>5 DEF TypeOK, activations, EventType, Published
  <2>7. Running'
    BY <1>1, <1>7 DEF LastRead, Running
  <2>8. QED
    BY <2>4, <2>6, <2>7 DEF IInv
<1>8. CASE UNCHANGED vars
  <2>1. Delivered' /\ NothingIsLost' /\ ClearRoutingHolds'
    BY <1>8, IdleKeeps DEF vars
  <2>2. TypeOK'
    BY <1>1, <1>8 DEF vars, TypeOK, bus, activations, log
  <2>3. Running'
    BY <1>1, <1>8 DEF vars, Running
  <2>4. QED
    BY <2>1, <2>2, <2>3 DEF IInv
<1>9. QED
  BY <1>2, <1>3, <1>4, <1>5, <1>6, <1>7, <1>8 DEF Next, Loop

\* Every reachable state satisfies it.
LEMMA InvariantHolds == Spec => []IInv
BY Initially, Inductive, PTL DEF Spec
-----------------------------------------------------------------------------
(* Theorems.                                                               *)

(***************************************************************************)
(* The variables keep their types: above all, what is pending are events   *)
(* of the bus, and a hat is activated only as a hat of the configuration.  *)
(***************************************************************************)
THEOREM TypeCorrect == Spec => []TypeOK
<1>1. IInv => TypeOK
  BY DEF IInv
<1>2. QED
  BY <1>1, InvariantHolds, PTL

(***************************************************************************)
(* No event that was published is lost: it waits, or a prompt showed it,   *)
(* or all the hats it is for have had their activations, or it is a        *)
(* starting event that gave way.                                           *)
(***************************************************************************)
THEOREM NothingIsEverLost == Spec => []NothingIsLost
<1>1. IInv => NothingIsLost
  BY DEF IInv
<1>2. QED
  BY <1>1, InvariantHolds, PTL

(***************************************************************************)
(* Where routing is clear no hat is activated more often than its          *)
(* max_activations, and each active hat has an event in the prompt.        *)
(***************************************************************************)
THEOREM ClearRoutingAlwaysHolds == Spec => []ClearRoutingHolds
<1>1. IInv => ClearRoutingHolds
  BY DEF IInv
<1>2. QED
  BY <1>1, InvariantHolds, PTL
=============================================================================

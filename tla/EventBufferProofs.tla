-------------------------- MODULE EventBufferProofs --------------------------
(***************************************************************************)
(* The event store, for any types, classes, capacities and any number of   *)
(* events: its lists, counters and order agree after every sequence of     *)
(* calls, events leave it knowingly, and it implements EventReport.  The   *)
(* four invariants are proved together: counters stay exact only because   *)
(* the lists agree, and an operation finds the events it moves by their    *)
(* order.                                                                  *)
(***************************************************************************)
EXTENDS EventBuffer, EventListsProofs

IInv == made \in Nat /\ Good(store, made)

LEMMA InitGood == Init => IInv
BY EmptyGood DEF Init, IInv

\* The steps that keep the number of events that have happened, in one place.
LEMMA StepGood ==
    ASSUME IInv, [Next]_vars
    PROVE  IInv'
<1> USE DEF IInv
<1>1. ASSUME NEW t \in Types, NEW c \in Classes, UpdateAny(t, c) PROVE IInv'
  <2>1. made' = made + 1 /\ store' = Update(store, made + 1, t, c) BY <1>1 DEF UpdateAny
  <2>2. Good(Update(store, made + 1, t, c), made + 1) BY UpdateGood
  <2> QED BY <2>1, <2>2
<1>2. ASSUME NEW max \in Counts, SelectMaxCount(max) PROVE IInv'
  <2>1. max \in Nat BY BoundsAssumption
  <2>2. CASE \E c \in Classes : store' = SelectByClass(store, {c}, max)
    BY <2>1, <2>2, <1>2, SelectByClassGood DEF SelectMaxCount
  <2>3. CASE \E t \in Types, v \in Variations : store' = SelectByType(store, t, v, max)
    BY <2>1, <2>3, <1>2, SelectByTypeGood DEF SelectMaxCount
  <2> QED BY <2>2, <2>3, <1>2 DEF SelectMaxCount
<1>3. ASSUME NEW cs \in SUBSET Classes, SelectAllByClass(cs) PROVE IInv'
  <2>1. store \in Stores(made) BY DEF Good
  <2>2. IsFiniteSet(Events(store)) BY <2>1, StoreParts
  <2>3. Cardinality(Events(store)) \in Nat BY <2>2, FS_CardinalityType
  <2> QED BY <2>3, <1>3, SelectByClassGood DEF SelectAllByClass
<1>4. ASSUME NEW n \in 0 .. MaxRoom, LoadFragment(n) PROVE IInv'
  <2>1. n \in Nat BY BoundsAssumption
  <2> QED BY <2>1, <1>4, LoadGood DEF LoadFragment
<1>5. CASE Confirm BY <1>5, ClearWrittenGood DEF Confirm
<1>6. CASE GiveUp BY <1>6, UnselectGood DEF GiveUp
<1>7. CASE ReadOverflow BY <1>7, IsOverflownGood DEF ReadOverflow
<1>8. CASE UNCHANGED vars BY <1>8 DEF vars
<1> QED BY <1>1, <1>2, <1>3, <1>4, <1>5, <1>6, <1>7, <1>8 DEF Next

\* Every reachable store is good.
LEMMA AlwaysGood == Spec => []IInv
BY InitGood, StepGood, PTL DEF Spec

\* The store has the shape that EventLists.h declares.
THEOREM StoreTypeCorrect == Spec => []TypeOK
<1>1. IInv => TypeOK BY DEF IInv, Good, TypeOK
<1> QED BY <1>1, AlwaysGood, PTL

\* The common list and the lists by type agree, and no list outgrows its nodes.
THEOREM ListsAlwaysAgree == Spec => []ListsAgree
<1>1. IInv => ListsAgree BY DEF IInv, Good, ListsAgree
<1> QED BY <1>1, AlwaysGood, PTL

\* The counters never drift from the events they count.
THEOREM CountersAlwaysExact == Spec => []CountersExact
<1>1. IInv => CountersExact BY DEF IInv, Good, CountersExact
<1> QED BY <1>1, AlwaysGood, PTL

\* Older events of a type and class are selected and reported first.
THEOREM AlwaysOldestFirst == Spec => []OldestFirst
<1>1. IInv => OldestFirst BY DEF IInv, Good, OldestFirst
<1> QED BY <1>1, AlwaysGood, PTL

(***************************************************************************)
(* What a step does to the events, as EventReport sees it.                 *)
(***************************************************************************)
\* The steps of a good store: a new event, a report, a confirmation, or nothing
\* that shows.
LEMMA StepKinds ==
    ASSUME IInv, [Next]_vars
    PROVE  \/ \E t \in Types, c \in Classes :
                /\ made < MaxEvents /\ made' = made + 1
                /\ Capacity[t] # 0 /\ store' = Update(store, made + 1, t, c)
           \/ \E S \in SUBSET (Events(store) \ InState(store, "written")) :
                /\ Events(store') = Events(store)
                /\ InState(store', "written") = InState(store, "written") \cup S
                /\ \A i \in Events(store) : store'.events[i].class = store.events[i].class
           \/ store' = ClearWritten(store)
           \/ store' = Unselect(store)
<1> USE DEF IInv
<1> DEFINE W == InState(store, "written")
           Quiet == /\ Events(store') = Events(store)
                    /\ InState(store', "written") = W
                    /\ \A i \in Events(store) : store'.events[i].class = store.events[i].class
           Reported == \E S \in SUBSET (Events(store) \ W) :
                    /\ Events(store') = Events(store)
                    /\ InState(store', "written") = W \cup S
                    /\ \A i \in Events(store) : store'.events[i].class = store.events[i].class
<1>1. Quiet => Reported
  <2> SUFFICES ASSUME Quiet PROVE Reported OBVIOUS
  <2>1. W = W \cup {} /\ {} \in SUBSET (Events(store) \ W) OBVIOUS
  <2> QED BY <2>1
<1>2. ASSUME NEW t \in Types, NEW c \in Classes, UpdateAny(t, c), Capacity[t] = 0 PROVE Quiet
  BY <1>2, UpdateGood DEF UpdateAny
<1>3. ASSUME NEW max \in Counts, SelectMaxCount(max) PROVE Quiet
  <2>1. max \in Nat BY BoundsAssumption
  <2>2. CASE \E c \in Classes : store' = SelectByClass(store, {c}, max)
    BY <2>1, <2>2, SelectByClassGood
  <2>3. CASE \E t \in Types, v \in Variations : store' = SelectByType(store, t, v, max)
    BY <2>1, <2>3, SelectByTypeGood
  <2> QED BY <2>2, <2>3, <1>3 DEF SelectMaxCount
<1>4. ASSUME NEW cs \in SUBSET Classes, SelectAllByClass(cs) PROVE Quiet
  <2>1. store \in Stores(made) BY DEF Good
  <2>2. IsFiniteSet(Events(store)) BY <2>1, StoreParts
  <2>3. Cardinality(Events(store)) \in Nat BY <2>2, FS_CardinalityType
  <2> QED BY <2>3, <1>4, SelectByClassGood DEF SelectAllByClass
<1>5. ASSUME NEW n \in 0 .. MaxRoom, LoadFragment(n) PROVE Reported
  <2>1. n \in Nat BY BoundsAssumption
  <2>2. store' = Load(store, n) BY <1>5 DEF LoadFragment
  <2>3. /\ Events(store') = Events(store)
        /\ Loaded(store, n) \in SUBSET InState(store, "selected")
        /\ InState(store', "written") = W \cup Loaded(store, n)
        /\ \A i \in Events(store) : store'.events[i].class = store.events[i].class
    BY <2>1, <2>2, LoadGood
  <2>4. InState(store, "selected") \subseteq Events(store) \ W BY DEF InState
  <2>5. Loaded(store, n) \in SUBSET (Events(store) \ W) BY <2>3, <2>4
  <2> QED BY <2>3, <2>5
<1>6. ASSUME ReadOverflow PROVE Reported
  <2>1. Quiet BY <1>6, IsOverflownGood DEF ReadOverflow
  <2> QED BY <2>1, <1>1
<1>7. ASSUME UNCHANGED vars PROVE Reported
  <2>1. Quiet BY <1>7 DEF vars
  <2> QED BY <2>1, <1>1
<1> HIDE DEF Quiet, Reported
<1>8. ASSUME NEW t \in Types, NEW c \in Classes, UpdateAny(t, c)
      PROVE  \/ /\ made < MaxEvents /\ made' = made + 1
                /\ Capacity[t] # 0 /\ store' = Update(store, made + 1, t, c)
             \/ Reported
  BY <1>1, <1>2, <1>8 DEF UpdateAny
<1>9. \/ \E t \in Types, c \in Classes :
                /\ made < MaxEvents /\ made' = made + 1
                /\ Capacity[t] # 0 /\ store' = Update(store, made + 1, t, c)
      \/ Reported
      \/ store' = ClearWritten(store)
      \/ store' = Unselect(store)
  BY <1>1, <1>3, <1>4, <1>5, <1>6, <1>7, <1>8 DEF Next, Confirm, GiveUp
<1> QED BY <1>9 DEF Reported

\* An event leaves the store after its fragment was confirmed, or marked as an
\* overflow, as the oldest of a full list.
THEOREM EventsLeaveKnowingly == Spec => LeavesKnowingly
<1> DEFINE Fate(i) ==
        \/ store.events[i].state = "written"
        \/ LET t == store.events[i].type
           IN  /\ store'.overflow
               /\ Cardinality(DOMAIN store.typed[t]) = Capacity[t]
               /\ \A j \in DOMAIN store.typed[t] : i <= j
<1>1. ASSUME IInv, [Next]_vars, NEW i \in Events(store), i \notin Events(store')
      PROVE  Fate(i)
  <2> USE DEF IInv
  <2>1. ASSUME NEW t \in Types, NEW c \in Classes, made' = made + 1,
               Capacity[t] # 0, store' = Update(store, made + 1, t, c)
        PROVE  Fate(i)
    <3>1. /\ Events(store') = (Events(store) \ Dropped(store, t)) \cup {made + 1}
          /\ Dropped(store, t) # {} => store'.overflow
          /\ Dropped(store, t) # {} =>
                /\ Dropped(store, t) = {Oldest(store, t)}
                /\ store.events[Oldest(store, t)].type = t
                /\ \A j \in DOMAIN store.typed[t] : Oldest(store, t) <= j
                /\ Cardinality(DOMAIN store.typed[t]) = Capacity[t]
      BY <1>1, <2>1, UpdateGood
    <3>2. i \in Dropped(store, t) BY <3>1, <1>1
    <3>3. i = Oldest(store, t) /\ store'.overflow BY <3>1, <3>2
    <3> QED BY <3>1, <3>2, <3>3
  <2>2. ASSUME store' = ClearWritten(store) PROVE Fate(i)
    <3>1. i \in InState(store, "written") BY <1>1, <2>2, ClearWrittenGood
    <3> QED BY <3>1 DEF InState
  <2>3. ASSUME store' = Unselect(store) PROVE Fate(i)
    BY <1>1, <2>3, UnselectGood
  <2> HIDE DEF Fate
  <2> QED BY <1>1, <2>1, <2>2, <2>3, StepKinds
<1>2. ASSUME IInv, [Next]_vars
      PROVE  [\A i \in Events(store) \ Events(store)' : Fate(i)]_vars
  <2>1. Events(store)' = Events(store') BY DEF Events
  <2> QED BY <1>1, <1>2, <2>1
<1> QED BY <1>2, AlwaysGood, PTL DEF Spec, LeavesKnowingly

(***************************************************************************)
(* The store implements EventReport.                                       *)
(***************************************************************************)
\* What the counters announce are the classes of the events not yet reported.
LEMMA AnnouncedExactly ==
    ASSUME NEW n \in Nat, NEW s, Good(s, n)
    PROVE  UnwrittenClassField(s)
             = {s.events[i].class : i \in Events(s) \ InState(s, "written")}
<1>1. s \in Stores(n) /\ CountsMatch(s) BY DEF Good
<1>2. s.events \in [Events(s) -> Records] BY <1>1, StoreParts
<1>3. ASSUME NEW c \in Classes
      PROVE  NumUnwritten(s, c) > 0
               <=> \E i \in Events(s) \ InState(s, "written") : s.events[i].class = c
  <2> DEFINE A == OfClass(s, Events(s), c)
             B == OfClass(s, InState(s, "written"), c)
  <2>1. InState(s, "written") \in SUBSET Events(s) BY <1>1, SetsFinite
  <2>2. IsFiniteSet(A) /\ B \in SUBSET A BY <2>1, <1>1, SetsFinite DEF OfClass
  <2>3. NumUnwritten(s, c) = Cardinality(A) - Cardinality(B)
    BY <1>1 DEF CountsMatch, NumUnwritten
  <2>4. A \ B = {i \in Events(s) \ InState(s, "written") : s.events[i].class = c}
    BY DEF OfClass
  <2>5. A \ B # {} <=> \E i \in Events(s) \ InState(s, "written") : s.events[i].class = c
    BY <2>4
  <2> HIDE DEF A, B
  <2>6. Cardinality(A \ B) = Cardinality(A) - Cardinality(B) BY <2>2, CountWithout
  <2>7. IsFiniteSet(A \ B) BY <2>2, FS_Difference
  <2>8. Cardinality(A \ B) \in Nat /\ (Cardinality(A \ B) = 0 <=> A \ B = {})
    BY <2>7, FS_CardinalityType, FS_EmptySet
  <2> QED BY <2>3, <2>5, <2>6, <2>8
<1>4. \A i \in Events(s) : s.events[i].class \in Classes BY <1>2 DEF Records
<1> QED BY <1>3, <1>4 DEF UnwrittenClassField

\* The store implements EventReport: what it announces is what waits to be
\* reported, and an event stops waiting only when it is confirmed or given up.
THEOREM StoreReportsEvents == Spec => ReportsEvents
<1> DEFINE pending == [i \in Events(store) |-> store.events[i].class]
           reported == InState(store, "written")
           announced == UnwrittenClassField(store)
<1>1. Init => Promise!Init
  <2> SUFFICES ASSUME Init PROVE Promise!Init OBVIOUS
  <2>1. IInv BY InitGood
  <2>2. store.events = <<>> BY DEF Init, EmptyStore
  <2>3. Events(store) = {} BY <2>2 DEF Events
  <2>4. pending = <<>> BY <2>3
  <2>5. reported = {} BY <2>3 DEF InState
  <2>6. announced = {} BY <2>1, <2>3, AnnouncedExactly DEF IInv
  <2> QED BY <2>4, <2>5, <2>6 DEF Promise!Init
<1>2. ASSUME IInv, [Next]_vars PROVE [Promise!Next]_(Promise!vars)
  <2>1. IInv' BY <1>2, StepGood
  <2>2. /\ announced = {pending[i] : i \in DOMAIN pending \ reported}
        /\ Promise!Announce
    <3>1. announced = {store.events[i].class : i \in Events(store) \ reported}
      BY <1>2, AnnouncedExactly DEF IInv
    <3>2. announced' = {store'.events[i].class : i \in Events(store') \ reported'}
      BY <2>1, AnnouncedExactly DEF IInv
    <3>3. DOMAIN pending = Events(store) /\ DOMAIN pending' = Events(store') OBVIOUS
    <3> QED BY <3>1, <3>2, <3>3 DEF Promise!Announce
  <2>3. DOMAIN pending = Events(store) /\ \A i \in Events(store) : pending[i] = store.events[i].class
    OBVIOUS
  <2>4. ASSUME NEW t \in Types, NEW c \in Classes, made < MaxEvents, made' = made + 1,
               Capacity[t] # 0, store' = Update(store, made + 1, t, c)
        PROVE  Promise!Next
    <3> DEFINE D == Dropped(store, t)
    <3>0. made \in Nat /\ Good(store, made) BY <1>2 DEF IInv
    <3>1. /\ Events(store') = (Events(store) \ D) \cup {made + 1}
          /\ store'.events[made + 1].class = c
          /\ \A i \in Events(store) \ D : store'.events[i] = store.events[i]
          /\ InState(store', "written") = InState(store, "written") \ D
          /\ D # {} => D = {Oldest(store, t)} /\ Oldest(store, t) \in Events(store)
      <4> HIDE DEF pending, reported, announced
      <4>1. Events(Update(store, made + 1, t, c)) = (Events(store) \ Dropped(store, t)) \cup {made + 1}
        BY <2>4, <3>0, UpdateGood
      <4>2. Update(store, made + 1, t, c).events[made + 1].class = c BY <2>4, <3>0, UpdateGood
      <4>3. \A i \in Events(store) \ Dropped(store, t) :
                  Update(store, made + 1, t, c).events[i] = store.events[i]
        BY <2>4, <3>0, UpdateGood
      <4>4. InState(Update(store, made + 1, t, c), "written")
                 = InState(store, "written") \ Dropped(store, t)
        BY <2>4, <3>0, UpdateGood
      <4>5. Dropped(store, t) # {} =>
                 Dropped(store, t) = {Oldest(store, t)} /\ Oldest(store, t) \in Events(store)
        BY <2>4, <3>0, UpdateGood
      <4> QED BY <2>4, <4>1, <4>2, <4>3, <4>4, <4>5
    <3> HIDE DEF D
    <3>2. Events(store) \in SUBSET (1 .. made) /\ made \in Nat
      BY <1>2, StoreParts DEF IInv, Good
    <3>3. \A j \in DOMAIN pending : j < made + 1 BY <3>2
    <3>4. D \in SUBSET DOMAIN pending /\ \A j, k \in D : j = k BY <3>1
    <3>5. made + 1 \in 1 .. MaxEvents BY <2>4, <3>2, BoundsAssumption
    <3>6. pending' = [j \in (DOMAIN pending \ D) \cup {made + 1} |->
                        IF j = made + 1 THEN c ELSE pending[j]]
      BY <3>1
    <3>7. reported' = reported \ D BY <3>1
    <3>8. \E E \in SUBSET DOMAIN pending : Promise!Happen(made + 1, c, E)
      <4> SUFFICES \E E \in SUBSET DOMAIN pending :
            /\ \A j \in DOMAIN pending : j < made + 1
            /\ E \subseteq DOMAIN pending
            /\ \A j, k \in E : j = k
            /\ pending' = [j \in (DOMAIN pending \ E) \cup {made + 1} |->
                              IF j = made + 1 THEN c ELSE pending[j]]
            /\ reported' = reported \ E
            /\ Promise!Announce
        BY DEF Promise!Happen
      <4> USE <3>4
      <4> WITNESS D \in SUBSET DOMAIN pending
      <4> QED BY <2>2, <3>3, <3>4, <3>6, <3>7
    <3> QED BY <3>5, <3>8 DEF Promise!Next
  <2>5. ASSUME NEW S \in SUBSET (Events(store) \ InState(store, "written")),
               Events(store') = Events(store),
               InState(store', "written") = InState(store, "written") \cup S,
               \A i \in Events(store) : store'.events[i].class = store.events[i].class
        PROVE  Promise!Next
    <3>1. pending' = pending BY <2>5
    <3>2. reported' = reported \cup S BY <2>5
    <3>3. S \in SUBSET DOMAIN pending /\ S \subseteq DOMAIN pending \ reported OBVIOUS
    <3>4. Promise!Report(S) BY <2>2, <3>1, <3>2, <3>3 DEF Promise!Report
    <3> QED BY <3>3, <3>4 DEF Promise!Next
  <2>6. ASSUME store' = ClearWritten(store) PROVE Promise!Next
    <3>1. /\ Events(store') = Events(store) \ reported /\ reported' = {}
          /\ \A i \in Events(store') : store'.events[i] = store.events[i]
      BY <1>2, <2>6, ClearWrittenGood DEF IInv
    <3>2. pending' = [i \in DOMAIN pending \ reported |-> pending[i]] BY <3>1
    <3>3. Promise!Confirm BY <2>2, <3>1, <3>2 DEF Promise!Confirm
    <3> QED BY <3>3 DEF Promise!Next
  <2>7. ASSUME store' = Unselect(store) PROVE Promise!Next
    <3>1. /\ Events(store') = Events(store) /\ reported' = {}
          /\ \A i \in Events(store) : store'.events[i].class = store.events[i].class
      BY <1>2, <2>7, UnselectGood DEF IInv
    <3>2. pending' = pending BY <3>1
    <3>3. Promise!GiveUp BY <2>2, <3>1, <3>2 DEF Promise!GiveUp
    <3> QED BY <3>3 DEF Promise!Next
  <2> QED BY <1>2, <2>4, <2>5, <2>6, <2>7, StepKinds
<1> QED BY <1>1, <1>2, AlwaysGood, PTL DEF Spec, ReportsEvents, Promise!Spec
=============================================================================

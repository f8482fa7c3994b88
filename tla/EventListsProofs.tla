-------------------------- MODULE EventListsProofs --------------------------
(***************************************************************************)
(* Every operation on a store of events keeps its lists, its counters and  *)
(* its order in agreement, for any types, classes and capacities.  The     *)
(* argument is about the sets of events in each state: an operation moves  *)
(* a set of events from one state to another, and counts that set.         *)
(***************************************************************************)
EXTENDS EventLists, FiniteSetTheorems, WellFoundedInduction, TLAPS

\* A nonempty finite set of integers has a smallest member: the sets of what is
\* below each member are ordered by inclusion.
LEMMA SmallestExists ==
    ASSUME NEW S \in SUBSET Int, IsFiniteSet(S), S # {}
    PROVE  \E i \in S : \A j \in S : i <= j
<1> DEFINE Below(i) == {j \in S : j < i}
           R == StrictSubsetOrdering(S)
           T == {Below(i) : i \in S}
<1>1. IsWellFoundedOn(R, FiniteSubsetsOf(S)) BY FS_StrictSubsetOrderingWellFounded
<1>2. T \subseteq FiniteSubsetsOf(S)
  <2> SUFFICES ASSUME NEW i \in S PROVE Below(i) \in FiniteSubsetsOf(S) OBVIOUS
  <2> QED BY FS_Subset DEF FiniteSubsetsOf
<1>3. T # {} OBVIOUS
<1> HIDE DEF R, T
<1>4. PICK x \in T : \A y \in T : ~(<<y, x>> \in R) BY <1>1, <1>2, <1>3, WFMin
<1>5. PICK i \in S : x = Below(i) BY <1>4 DEF T
<1>6. ASSUME NEW j \in S, j < i PROVE FALSE
  <2>1. \A k \in S : k < j => k < i BY <1>6
  <2>2. j \in Below(i) /\ j \notin Below(j) BY <1>6
  <2>3. Below(j) \subseteq Below(i) /\ Below(j) # Below(i) BY <2>1, <2>2
  <2>4. <<Below(j), Below(i)>> \in R BY <2>3 DEF R, StrictSubsetOrdering
  <2>5. Below(j) \in T BY DEF T
  <2> QED BY <1>4, <1>5, <2>4, <2>5
<1> QED BY <1>6

\* Counting a set together with another that has nothing in common with it, and
\* without one of its parts.
LEMMA CountApart ==
    ASSUME NEW S, NEW T, IsFiniteSet(S), IsFiniteSet(T), S \cap T = {}
    PROVE  Cardinality(S \cup T) = Cardinality(S) + Cardinality(T)
<1>1. Cardinality(S \cup T) = Cardinality(S) + Cardinality(T) - Cardinality(S \cap T)
  BY FS_Union
<1>2. Cardinality(S \cap T) = 0 BY FS_EmptySet
<1>3. Cardinality(S) \in Nat /\ Cardinality(T) \in Nat BY FS_CardinalityType
<1> QED BY <1>1, <1>2, <1>3

LEMMA CountWithout ==
    ASSUME NEW S, NEW T \in SUBSET S, IsFiniteSet(S)
    PROVE  Cardinality(S \ T) = Cardinality(S) - Cardinality(T)
<1>1. S \cap T = T OBVIOUS
<1> QED BY <1>1, FS_Difference

\* FirstOf takes members, and with one of them all that come before it.
LEMMA FirstOfPrefix ==
    ASSUME NEW S \in SUBSET Int, IsFiniteSet(S), NEW n \in Nat
    PROVE  /\ FirstOf(S, n) \subseteq S
           /\ IsFiniteSet(FirstOf(S, n))
           /\ \A i \in S, j \in FirstOf(S, n) : i < j => i \in FirstOf(S, n)
<1>1. FirstOf(S, n) \subseteq S BY DEF FirstOf
<1>2. IsFiniteSet(FirstOf(S, n)) BY <1>1, FS_Subset
<1>3. ASSUME NEW i \in S, NEW j \in FirstOf(S, n), i < j PROVE i \in FirstOf(S, n)
  <2> DEFINE A == {k \in S : k <= i}
             B == {k \in S : k <= j}
  <2>1. Cardinality(B) <= n BY DEF FirstOf
  <2>2. \A k \in S : k <= i => k <= j
    <3>1. i \in Int /\ j \in Int BY <1>1
    <3> QED BY <3>1, <1>3
  <2>3. A \subseteq B BY <2>2
  <2>4. IsFiniteSet(B) BY FS_Subset
  <2>5. Cardinality(A) <= Cardinality(B) /\ Cardinality(A) \in Nat /\ Cardinality(B) \in Nat
    BY <2>3, <2>4, FS_Subset, FS_CardinalityType
  <2>6. Cardinality(A) <= n BY <2>1, <2>5
  <2> QED BY <2>6 DEF FirstOf
<1> QED BY <1>1, <1>2, <1>3

(***************************************************************************)
(* A store in order.                                                       *)
(***************************************************************************)
Good(s, n) == s \in Stores(n) /\ ListsMatch(s) /\ CountsMatch(s) /\ InOrder(s)

\* The fields of a store.
Fields == {"events", "typed", "total", "written", "selected", "overflow"}

\* The parts of a store, as the other proofs use them.
LEMMA StoreParts ==
    ASSUME NEW n \in Nat, NEW s \in Stores(n)
    PROVE  /\ Events(s) \in SUBSET (1 .. n)
           /\ IsFiniteSet(Events(s))
           /\ s.events \in [Events(s) -> Records]
           /\ \A t \in Types : /\ DOMAIN s.typed[t] \in SUBSET (1 .. n)
                               /\ s.typed[t] \in [DOMAIN s.typed[t] -> Variations]
           /\ DOMAIN s.typed = Types
           /\ s.total \in [Classes -> Nat] /\ s.written \in [Classes -> Nat]
           /\ s.selected \in Nat /\ s.overflow \in BOOLEAN
<1> DEFINE Lists(V) == UNION {[D -> V] : D \in SUBSET (1 .. n)}
<1>1. s.events \in Lists(Records) BY DEF Stores
<1>2. PICK D \in SUBSET (1 .. n) : s.events \in [D -> Records] BY <1>1
<1>3. Events(s) = D BY <1>2 DEF Events
<1>4. IsFiniteSet(D)
  <2>1. IsFiniteSet(1 .. n) BY FS_Interval
  <2> QED BY <2>1, FS_Subset
<1>5. ASSUME NEW t \in Types
      PROVE  /\ DOMAIN s.typed[t] \in SUBSET (1 .. n)
             /\ s.typed[t] \in [DOMAIN s.typed[t] -> Variations]
  <2>1. s.typed[t] \in Lists(Variations) BY DEF Stores
  <2>2. PICK E \in SUBSET (1 .. n) : s.typed[t] \in [E -> Variations] BY <2>1
  <2> QED BY <2>2
<1>6. /\ DOMAIN s.typed = Types
      /\ s.total \in [Classes -> Nat] /\ s.written \in [Classes -> Nat]
      /\ s.selected \in Nat /\ s.overflow \in BOOLEAN
  BY DEF Stores
<1> QED BY <1>2, <1>3, <1>4, <1>5, <1>6

LEMMA StoreTyped ==
    ASSUME NEW n \in Nat, NEW s \in Stores(n)
    PROVE  \A t \in Types : \E E \in SUBSET (1 .. n) : s.typed[t] \in [E -> Variations]
BY StoreParts

LEMMA StoreIsRecord ==
    ASSUME NEW n \in Nat, NEW s \in Stores(n)
    PROVE  s = [x \in Fields |-> s[x]] /\ s.typed = [t \in Types |-> s.typed[t]]
BY DEF Stores, Fields

\* And the other way round: a record with such parts is a store.
LEMMA StoreMade ==
    ASSUME NEW n \in Nat, NEW r, r = [x \in Fields |-> r[x]],
           NEW D \in SUBSET (1 .. n), r.events \in [D -> Records],
           r.typed = [t \in Types |-> r.typed[t]],
           \A t \in Types : \E E \in SUBSET (1 .. n) : r.typed[t] \in [E -> Variations],
           r.total \in [Classes -> Nat], r.written \in [Classes -> Nat],
           r.selected \in Nat, r.overflow \in BOOLEAN
    PROVE  r \in Stores(n)
<1> DEFINE Lists(V) == UNION {[E -> V] : E \in SUBSET (1 .. n)}
<1>1. r.events \in Lists(Records) OBVIOUS
<1>2. r.typed \in [Types -> Lists(Variations)]
  <2>1. \A t \in Types : r.typed[t] \in Lists(Variations) OBVIOUS
  <2> QED BY <2>1
<1> HIDE DEF Lists
<1>3. r \in [events : Lists(Records), typed : [Types -> Lists(Variations)],
             total : [Classes -> Nat], written : [Classes -> Nat],
             selected : Nat, overflow : BOOLEAN]
  BY <1>1, <1>2 DEF Fields
<1> QED BY <1>3 DEF Stores, Lists

\* Moving events to another state changes nothing else of them.
LEMMA WithStateParts ==
    ASSUME NEW n \in Nat, NEW s \in Stores(n), NEW S \in SUBSET Events(s), NEW st \in States
    PROVE  /\ WithState(s, S, st) \in [Events(s) -> Records]
           /\ \A i \in Events(s) :
                /\ WithState(s, S, st)[i].type = s.events[i].type
                /\ WithState(s, S, st)[i].class = s.events[i].class
                /\ WithState(s, S, st)[i].state = IF i \in S THEN st ELSE s.events[i].state
<1>1. s.events \in [Events(s) -> Records] BY StoreParts
<1>2. ASSUME NEW i \in Events(s)
      PROVE  /\ [s.events[i] EXCEPT !.state = st] \in Records
             /\ [s.events[i] EXCEPT !.state = st].type = s.events[i].type
             /\ [s.events[i] EXCEPT !.state = st].class = s.events[i].class
             /\ [s.events[i] EXCEPT !.state = st].state = st
  <2>1. s.events[i] \in Records BY <1>1
  <2> QED BY <2>1 DEF Records
<1> QED BY <1>1, <1>2 DEF WithState

\* r is s but for the events S, which are in state st now, for the encodings, and
\* perhaps for the counters.
Moved(r, s, S, st) ==
    /\ S \in SUBSET Events(s)
    /\ r.events = WithState(s, S, st)
    /\ DOMAIN r.typed = Types
    /\ \A t \in Types : DOMAIN r.typed[t] = DOMAIN s.typed[t]

\* A store with the same lists, whose events differ from those of a good one in
\* their states only, is good if its counters and its order are.
LEMMA SameLists ==
    ASSUME NEW n \in Nat, NEW s, Good(s, n), NEW r,
           NEW S, NEW st \in States, Moved(r, s, S, st)
    PROVE  /\ Events(r) = Events(s)
           /\ ListsMatch(r)
           /\ \A X \in SUBSET Events(s) : \A c \in Classes : OfClass(r, X, c) = OfClass(s, X, c)
           /\ InState(r, st) = InState(s, st) \cup S
           /\ \A x \in States \ {st} : InState(r, x) = InState(s, x) \ S
<1>1. s \in Stores(n) /\ ListsMatch(s) BY DEF Good
<1>2. /\ WithState(s, S, st) \in [Events(s) -> Records]
      /\ \A i \in Events(s) :
            /\ r.events[i].type = s.events[i].type
            /\ r.events[i].class = s.events[i].class
            /\ r.events[i].state = IF i \in S THEN st ELSE s.events[i].state
  BY <1>1, WithStateParts DEF Moved
<1>3. Events(r) = Events(s) BY <1>2 DEF Events, Moved
<1>4. ListsMatch(r) BY <1>1, <1>2, <1>3 DEF ListsMatch, Moved
<1>5. \A X \in SUBSET Events(s) : \A c \in Classes : OfClass(r, X, c) = OfClass(s, X, c)
  BY <1>2 DEF OfClass
<1>6. /\ InState(r, st) = InState(s, st) \cup S
      /\ \A x \in States \ {st} : InState(r, x) = InState(s, x) \ S
  BY <1>2, <1>3 DEF InState, Moved
<1> QED BY <1>3, <1>4, <1>5, <1>6

\* Moving events from one state to the next keeps the order when no earlier event
\* of the same type and class is left behind.
LEMMA StillInOrder ==
    ASSUME NEW n \in Nat, NEW s, Good(s, n), NEW r,
           NEW from \in States, NEW to \in States, Rank(to) = Rank(from) + 1,
           NEW S \in SUBSET InState(s, from),
           r.events = WithState(s, S, to),
           \A i \in InState(s, from), j \in S :
                /\ i < j
                /\ s.events[i].type = s.events[j].type
                /\ s.events[i].class = s.events[j].class
                => i \in S
    PROVE  InOrder(r)
<1>1. s \in Stores(n) /\ InOrder(s) BY DEF Good
<1>2. S \in SUBSET Events(s) BY DEF InState
<1>3. /\ WithState(s, S, to) \in [Events(s) -> Records]
      /\ \A i \in Events(s) :
            /\ r.events[i].type = s.events[i].type
            /\ r.events[i].class = s.events[i].class
            /\ r.events[i].state = IF i \in S THEN to ELSE s.events[i].state
  BY <1>1, <1>2, WithStateParts
<1>4. Events(r) = Events(s) BY <1>3 DEF Events
<1>5. \A x \in States : Rank(x) \in 0 .. 2 BY DEF States, Rank
<1>6. \A i \in Events(s) : s.events[i].state \in States
  BY <1>1, StoreParts DEF Records
<1>7. \A x, y \in States : Rank(x) = Rank(y) => x = y BY DEF States, Rank
<1> SUFFICES ASSUME NEW i \in Events(s), NEW j \in Events(s), i < j,
                    s.events[i].type = s.events[j].type,
                    s.events[i].class = s.events[j].class
             PROVE  Rank(r.events[i].state) >= Rank(r.events[j].state)
  BY <1>3, <1>4 DEF InOrder
<1>8. Rank(s.events[i].state) >= Rank(s.events[j].state) BY <1>1 DEF InOrder
<1>9. CASE j \notin S
  <2>1. r.events[j].state = s.events[j].state BY <1>3, <1>9
  <2>2. CASE i \in S
    <3>1. s.events[i].state = from /\ r.events[i].state = to BY <2>2, <1>3 DEF InState
    <3> QED BY <3>1, <2>1, <1>5, <1>6, <1>8
  <2>3. CASE i \notin S
    <3>1. r.events[i].state = s.events[i].state BY <2>3, <1>3
    <3> QED BY <3>1, <2>1, <1>8
  <2> QED BY <2>2, <2>3
<1>10. CASE j \in S
  <2>1. s.events[j].state = from /\ r.events[j].state = to BY <1>10, <1>3 DEF InState
  <2>2. CASE i \in S
    <3>1. r.events[i].state = to BY <2>2, <1>3
    <3> QED BY <3>1, <2>1, <1>5
  <2>3. CASE i \notin S
    <3>1. r.events[i].state = s.events[i].state BY <2>3, <1>3
    <3>2. i \notin InState(s, from) BY <2>3, <1>10
    <3>3. s.events[i].state # from BY <3>2 DEF InState
    <3>4. Rank(s.events[i].state) # Rank(from) BY <3>3, <1>6, <1>7
    <3> QED BY <3>1, <3>4, <2>1, <1>5, <1>6, <1>8
  <2> QED BY <2>2, <2>3
<1> QED BY <1>9, <1>10

\* The sets that are counted are finite.
LEMMA SetsFinite ==
    ASSUME NEW n \in Nat, NEW s \in Stores(n)
    PROVE  /\ \A x : IsFiniteSet(InState(s, x)) /\ InState(s, x) \in SUBSET Events(s)
           /\ \A X \in SUBSET Events(s) : \A c : IsFiniteSet(OfClass(s, X, c))
           /\ \A X \in SUBSET Events(s) : IsFiniteSet(X) /\ X \in SUBSET Int
<1>1. IsFiniteSet(Events(s)) /\ Events(s) \in SUBSET (1 .. n) BY StoreParts
<1>2. \A X \in SUBSET Events(s) : IsFiniteSet(X) BY <1>1, FS_Subset
<1>3. \A x : InState(s, x) \in SUBSET Events(s) BY DEF InState
<1>4. \A X \in SUBSET Events(s) : \A c : OfClass(s, X, c) \in SUBSET Events(s) BY DEF OfClass
<1> QED BY <1>1, <1>2, <1>3, <1>4

(***************************************************************************)
(* Selecting.                                                              *)
(***************************************************************************)
LEMMA SelectGood ==
    ASSUME NEW n \in Nat, NEW s, Good(s, n),
           NEW S \in SUBSET InState(s, "unselected"),
           \A i \in InState(s, "unselected"), j \in S :
                /\ i < j
                /\ s.events[i].type = s.events[j].type
                /\ s.events[i].class = s.events[j].class
                => i \in S
    PROVE  /\ Good(Select(s, S), n)
           /\ Events(Select(s, S)) = Events(s)
           /\ Select(s, S).typed = s.typed /\ Select(s, S).overflow = s.overflow
           /\ Select(s, S).total = s.total /\ Select(s, S).written = s.written
           /\ \A i \in Events(s) : /\ Select(s, S).events[i].type = s.events[i].type
                                    /\ Select(s, S).events[i].class = s.events[i].class
           /\ InState(Select(s, S), "written") = InState(s, "written")
<1> DEFINE r == Select(s, S)
<1>1. s \in Stores(n) /\ ListsMatch(s) /\ CountsMatch(s) BY DEF Good
<1>2. /\ S \in SUBSET Events(s) /\ {"unselected", "selected", "written"} = States
  BY DEF InState, States
<1>3. /\ r.events = WithState(s, S, "selected") /\ r.typed = s.typed /\ r.total = s.total
      /\ r.written = s.written /\ r.selected = s.selected + Cardinality(S)
      /\ r.overflow = s.overflow
  <2>1. s = [x \in Fields |-> s[x]] BY <1>1, StoreIsRecord
  <2> QED BY <2>1 DEF Select, Fields
<1>12. r = [x \in Fields |-> r[x]]
  <2>1. s = [x \in Fields |-> s[x]] BY <1>1, StoreIsRecord
  <2> QED BY <2>1 DEF Select, Fields
<1> HIDE DEF r
<1>4. IsFiniteSet(S) /\ Cardinality(S) \in Nat
  <2>1. IsFiniteSet(S) BY <1>1, <1>2, SetsFinite
  <2> QED BY <2>1, FS_CardinalityType
<1>5. r.events \in [Events(s) -> Records] BY <1>1, <1>2, <1>3, WithStateParts
<1>6. r \in Stores(n)
  <2>1. r.selected \in Nat BY <1>1, <1>3, <1>4, StoreParts
  <2>3. r.typed = [t \in Types |-> r.typed[t]] BY <1>1, <1>3, StoreIsRecord
  <2>2. /\ \A t \in Types : \E E \in SUBSET (1 .. n) : r.typed[t] \in [E -> Variations]
        /\ r.total \in [Classes -> Nat] /\ r.written \in [Classes -> Nat]
        /\ r.overflow \in BOOLEAN /\ Events(s) \in SUBSET (1 .. n)
    BY <1>1, <1>3, StoreParts
  <2> QED BY <1>5, <1>12, <2>1, <2>2, <2>3, StoreMade
<1>7. /\ Events(r) = Events(s) /\ ListsMatch(r)
      /\ \A X \in SUBSET Events(s) : \A c \in Classes : OfClass(r, X, c) = OfClass(s, X, c)
      /\ InState(r, "selected") = InState(s, "selected") \cup S
      /\ \A x \in States \ {"selected"} : InState(r, x) = InState(s, x) \ S
  <2>1. DOMAIN r.typed = Types BY <1>1, <1>3, StoreParts
  <2>2. Moved(r, s, S, "selected") BY <2>1, <1>2, <1>3 DEF Moved
  <2>3. "selected" \in States BY <1>2
  <2> QED BY <2>2, <2>3, SameLists
<1>8. InState(r, "written") = InState(s, "written")
  <2>1. InState(s, "written") \cap S = {} BY DEF InState
  <2> QED BY <1>2, <1>7, <2>1
<1>9. CountsMatch(r)
  <2>1. InState(r, "selected") = InState(s, "selected") \cup S BY <1>2, <1>7
  <2>2. InState(s, "selected") \cap S = {} BY DEF InState
  <2>3. Cardinality(InState(r, "selected")) = Cardinality(InState(s, "selected")) + Cardinality(S)
    BY <2>1, <2>2, <1>1, <1>4, SetsFinite, CountApart
  <2>4. r.selected = Cardinality(InState(r, "selected")) BY <2>3, <1>1, <1>3 DEF CountsMatch
  <2>5. InState(s, "written") \in SUBSET Events(s) BY <1>1, SetsFinite
  <2> QED BY <2>4, <2>5, <1>1, <1>3, <1>7, <1>8 DEF CountsMatch
<1>10. InOrder(r)
  <2>1. Rank("selected") = Rank("unselected") + 1 BY DEF Rank
  <2> QED BY <2>1, <1>2, <1>3, StillInOrder
<1>11. \A i \in Events(s) : r.events[i].type = s.events[i].type /\ r.events[i].class = s.events[i].class
  BY <1>1, <1>2, <1>3, WithStateParts
<1> QED BY <1>3, <1>6, <1>7, <1>8, <1>9, <1>10, <1>11 DEF Good, r

LEMMA SelectByClassGood ==
    ASSUME NEW n \in Nat, NEW s, Good(s, n), NEW cs, NEW max \in Nat
    PROVE  /\ Good(SelectByClass(s, cs, max), n)
           /\ Events(SelectByClass(s, cs, max)) = Events(s)
           /\ SelectByClass(s, cs, max).total = s.total
           /\ SelectByClass(s, cs, max).written = s.written
           /\ SelectByClass(s, cs, max).overflow = s.overflow
           /\ InState(SelectByClass(s, cs, max), "written") = InState(s, "written")
           /\ \A i \in Events(s) :
                 SelectByClass(s, cs, max).events[i].class = s.events[i].class
<1> DEFINE T == {i \in InState(s, "unselected") : s.events[i].class \in cs}
           S == FirstOf(T, max)
<1>1. s \in Stores(n) BY DEF Good
<1>2. T \in SUBSET Events(s) BY DEF InState
<1>3. T \in SUBSET Int /\ IsFiniteSet(T) BY <1>1, <1>2, SetsFinite
<1>4. S \subseteq T /\ \A i \in T, j \in S : i < j => i \in S BY <1>3, FirstOfPrefix
<1>5. S \in SUBSET InState(s, "unselected") BY <1>4
<1>6. \A i \in InState(s, "unselected"), j \in S :
        /\ i < j
        /\ s.events[i].type = s.events[j].type
        /\ s.events[i].class = s.events[j].class
        => i \in S
  BY <1>4
<1>7. SelectByClass(s, cs, max) = Select(s, S) BY DEF SelectByClass
<1> HIDE DEF S, T
<1> QED BY <1>5, <1>6, <1>7, SelectGood

LEMMA SelectByTypeGood ==
    ASSUME NEW n \in Nat, NEW s, Good(s, n),
           NEW t \in Types, NEW v \in Variations, NEW max \in Nat
    PROVE  /\ Good(SelectByType(s, t, v, max), n)
           /\ Events(SelectByType(s, t, v, max)) = Events(s)
           /\ SelectByType(s, t, v, max).total = s.total
           /\ SelectByType(s, t, v, max).written = s.written
           /\ SelectByType(s, t, v, max).overflow = s.overflow
           /\ InState(SelectByType(s, t, v, max), "written") = InState(s, "written")
           /\ \A i \in Events(s) :
                 SelectByType(s, t, v, max).events[i].class = s.events[i].class
<1> DEFINE T == {i \in DOMAIN s.typed[t] : s.events[i].state = "unselected"}
           S == FirstOf(T, max)
           q == Select(s, S)
           r == SelectByType(s, t, v, max)
<1>1. s \in Stores(n) /\ ListsMatch(s) BY DEF Good
<1>2. T = {i \in InState(s, "unselected") : s.events[i].type = t}
  BY <1>1 DEF ListsMatch, InState
<1>3. T \in SUBSET Events(s) BY <1>2 DEF InState
<1>4. T \in SUBSET Int /\ IsFiniteSet(T) BY <1>1, <1>3, SetsFinite
<1>5. S \subseteq T /\ \A i \in T, j \in S : i < j => i \in S BY <1>4, FirstOfPrefix
<1>6. /\ S \in SUBSET InState(s, "unselected")
      /\ \A i \in InState(s, "unselected"), j \in S :
            /\ i < j
            /\ s.events[i].type = s.events[j].type
            /\ s.events[i].class = s.events[j].class
            => i \in S
  BY <1>2, <1>5
<1>7. r = [q EXCEPT !.typed[t] = [i \in DOMAIN @ |-> IF i \in S THEN v ELSE @[i]]]
  BY DEF SelectByType
<1> HIDE DEF S, T, q
<1>8. /\ Good(q, n) /\ Events(q) = Events(s) /\ q.typed = s.typed /\ q.overflow = s.overflow
      /\ q.total = s.total /\ q.written = s.written
      /\ \A i \in Events(s) : q.events[i].class = s.events[i].class
      /\ InState(q, "written") = InState(s, "written")
  BY <1>6, SelectGood DEF q
<1>9. q \in Stores(n) /\ ListsMatch(q) /\ CountsMatch(q) /\ InOrder(q) BY <1>8 DEF Good
<1>10. q = [x \in Fields |-> q[x]] /\ q.typed = [u \in Types |-> q.typed[u]]
  BY <1>9, StoreIsRecord
<1> DEFINE list == [i \in DOMAIN q.typed[t] |-> IF i \in S THEN v ELSE q.typed[t][i]]
<1>11. r = [q EXCEPT !.typed = [q.typed EXCEPT ![t] = list]] BY <1>7, <1>10 DEF Fields
<1>12. DOMAIN list = DOMAIN q.typed[t] /\ list \in [DOMAIN q.typed[t] -> Variations]
  BY <1>9, StoreParts
<1> HIDE DEF list, r
<1>13. /\ r.events = q.events /\ r.total = q.total /\ r.written = q.written
       /\ r.selected = q.selected /\ r.overflow = q.overflow
       /\ r.typed = [q.typed EXCEPT ![t] = list]
  BY <1>10, <1>11 DEF Fields
<1>20. r = [x \in Fields |-> r[x]] BY <1>10, <1>11 DEF Fields
<1>14. /\ DOMAIN r.typed = Types /\ r.typed = [u \in Types |-> r.typed[u]]
       /\ \A u \in Types : DOMAIN r.typed[u] = DOMAIN q.typed[u]
       /\ \A u \in Types : r.typed[u] \in [DOMAIN q.typed[u] -> Variations]
  BY <1>9, <1>10, <1>12, <1>13, StoreParts
<1>15. r \in Stores(n)
  <2>1. /\ \A u \in Types : \E E \in SUBSET (1 .. n) : r.typed[u] \in [E -> Variations]
        /\ r.total \in [Classes -> Nat] /\ r.written \in [Classes -> Nat]
        /\ r.overflow \in BOOLEAN /\ r.selected \in Nat
        /\ Events(q) \in SUBSET (1 .. n) /\ r.events \in [Events(q) -> Records]
    <3>1. \A u \in Types : DOMAIN q.typed[u] \in SUBSET (1 .. n) BY <1>9, StoreParts
    <3>2. \A u \in Types : \E E \in SUBSET (1 .. n) : r.typed[u] \in [E -> Variations]
      BY <3>1, <1>14
    <3> QED BY <3>2, <1>9, <1>13, StoreParts
  <2> QED BY <1>20, <1>14, <2>1, StoreMade
<1>16. Events(r) = Events(q) /\ \A x : InState(r, x) = InState(q, x)
  BY <1>13 DEF Events, InState
<1>17. ListsMatch(r) BY <1>9, <1>13, <1>14, <1>16 DEF ListsMatch
<1>18. CountsMatch(r)
  <2>1. \A X, c : OfClass(r, X, c) = OfClass(q, X, c) BY <1>13 DEF OfClass
  <2> QED BY <2>1, <1>9, <1>13, <1>16 DEF CountsMatch
<1>19. InOrder(r) BY <1>9, <1>13, <1>16 DEF InOrder
<1> QED BY <1>8, <1>13, <1>15, <1>16, <1>17, <1>18, <1>19 DEF Good, r

(***************************************************************************)
(* Writing selected events into a fragment.                                *)
(***************************************************************************)
LEMMA LoadGood ==
    ASSUME NEW n \in Nat, NEW s, Good(s, n), NEW room \in Nat
    PROVE  /\ Good(Load(s, room), n)
           /\ Events(Load(s, room)) = Events(s)
           /\ Loaded(s, room) \in SUBSET InState(s, "selected")
           /\ InState(Load(s, room), "written") = InState(s, "written") \cup Loaded(s, room)
           /\ \A i \in Events(s) : Load(s, room).events[i].class = s.events[i].class
<1> DEFINE S == Loaded(s, room)
           r == Load(s, room)
           more == [c \in Classes |-> s.written[c] + Cardinality(OfClass(s, S, c))]
<1>1. s \in Stores(n) /\ ListsMatch(s) /\ CountsMatch(s) BY DEF Good
<1>2. {"unselected", "selected", "written"} = States BY DEF States
<1>3. /\ InState(s, "selected") \in SUBSET Events(s)
      /\ InState(s, "selected") \in SUBSET Int /\ IsFiniteSet(InState(s, "selected"))
  BY <1>1, SetsFinite
<1>4. /\ S \in SUBSET InState(s, "selected") /\ IsFiniteSet(S)
      /\ \A i \in InState(s, "selected"), j \in S : i < j => i \in S
  BY <1>3, FirstOfPrefix DEF Loaded
<1>5. S \in SUBSET Events(s) BY <1>3, <1>4
<1>6. s = [x \in Fields |-> s[x]] BY <1>1, StoreIsRecord
<1>7. /\ r.events = WithState(s, S, "written") /\ r.typed = s.typed /\ r.total = s.total
      /\ r.written = more /\ r.selected = s.selected - Cardinality(S)
      /\ r.overflow = s.overflow
  BY <1>6 DEF Load, Fields
<1>8. r = [x \in Fields |-> r[x]] BY <1>6 DEF Load, Fields
<1> HIDE DEF r, S
<1>9. /\ Events(r) = Events(s) /\ ListsMatch(r)
      /\ \A X \in SUBSET Events(s) : \A c \in Classes : OfClass(r, X, c) = OfClass(s, X, c)
      /\ InState(r, "written") = InState(s, "written") \cup S
      /\ \A x \in States \ {"written"} : InState(r, x) = InState(s, x) \ S
  <2>1. DOMAIN r.typed = Types BY <1>1, <1>7, StoreParts
  <2>2. Moved(r, s, S, "written") BY <2>1, <1>5, <1>7 DEF Moved
  <2>3. "written" \in States BY <1>2
  <2> QED BY <2>2, <2>3, SameLists
<1>10. r.selected = Cardinality(InState(r, "selected")) /\ r.selected \in Nat
  <2>1. InState(r, "selected") = InState(s, "selected") \ S BY <1>2, <1>9
  <2>2. Cardinality(InState(s, "selected") \ S) = Cardinality(InState(s, "selected")) - Cardinality(S)
    BY <1>3, <1>4, CountWithout
  <2>3. IsFiniteSet(InState(s, "selected") \ S) BY <1>3, FS_Difference
  <2>4. Cardinality(InState(s, "selected") \ S) \in Nat BY <2>3, FS_CardinalityType
  <2>5. s.selected = Cardinality(InState(s, "selected")) BY <1>1 DEF CountsMatch
  <2> QED BY <2>1, <2>2, <2>4, <2>5, <1>7
<1>11. ASSUME NEW c \in Classes
       PROVE  /\ r.written[c] = Cardinality(OfClass(r, InState(r, "written"), c))
              /\ r.written[c] \in Nat
  <2> DEFINE A == OfClass(s, InState(s, "written"), c)
             B == OfClass(s, S, c)
  <2>1. InState(s, "written") \in SUBSET Events(s) BY <1>1, SetsFinite
  <2>2. IsFiniteSet(A) /\ IsFiniteSet(B) BY <2>1, <1>1, <1>5, SetsFinite
  <2>3. A \cap B = {} BY <1>4 DEF OfClass, InState
  <2>4. OfClass(s, InState(s, "written") \cup S, c) = A \cup B BY DEF OfClass
  <2>5. Cardinality(A \cup B) = Cardinality(A) + Cardinality(B) BY <2>2, <2>3, CountApart
  <2>6. InState(s, "written") \cup S \in SUBSET Events(s) BY <2>1, <1>5
  <2>7. OfClass(r, InState(r, "written"), c) = A \cup B BY <2>4, <2>6, <1>9
  <2>8. s.written[c] = Cardinality(A) BY <1>1 DEF CountsMatch
  <2>9. r.written[c] = Cardinality(A) + Cardinality(B) BY <2>8, <1>7
  <2>10. Cardinality(A) \in Nat /\ Cardinality(B) \in Nat BY <2>2, FS_CardinalityType
  <2> HIDE DEF A, B, more
  <2>11. r.written[c] = Cardinality(A \cup B) BY <2>5, <2>9
  <2>12. r.written[c] \in Nat BY <2>9, <2>10
  <2> QED BY <2>7, <2>11, <2>12
<1>12. CountsMatch(r)
  <2>1. \A c \in Classes : r.total[c] = Cardinality(OfClass(r, Events(r), c))
    BY <1>1, <1>7, <1>9 DEF CountsMatch
  <2> QED BY <2>1, <1>10, <1>11 DEF CountsMatch
<1>13. r \in Stores(n)
  <2>1. r.written \in [Classes -> Nat] BY <1>7, <1>11
  <2>2. r.typed = [t \in Types |-> r.typed[t]] BY <1>1, <1>7, StoreIsRecord
  <2>3. /\ \A t \in Types : \E E \in SUBSET (1 .. n) : r.typed[t] \in [E -> Variations]
        /\ r.total \in [Classes -> Nat]
        /\ r.overflow \in BOOLEAN /\ Events(s) \in SUBSET (1 .. n)
    BY <1>1, <1>7, StoreParts
  <2>4. "written" \in States BY <1>2
  <2>5. r.events \in [Events(s) -> Records] BY <2>4, <1>1, <1>5, <1>7, WithStateParts
  <2> QED BY <1>8, <1>10, <2>1, <2>2, <2>3, <2>5, StoreMade
<1>14. InOrder(r)
  <2>1. Rank("written") = Rank("selected") + 1 BY DEF Rank
  <2> QED BY <2>1, <1>2, <1>4, <1>7, StillInOrder
<1>15. \A i \in Events(s) : r.events[i].class = s.events[i].class
  <2>1. "written" \in States BY <1>2
  <2> QED BY <2>1, <1>1, <1>5, <1>7, WithStateParts
<1> QED BY <1>4, <1>9, <1>12, <1>13, <1>14, <1>15 DEF Good, r, S

(***************************************************************************)
(* Giving up what was selected or written.                                 *)
(***************************************************************************)
LEMMA UnselectGood ==
    ASSUME NEW n \in Nat, NEW s, Good(s, n)
    PROVE  /\ Good(Unselect(s), n)
           /\ Events(Unselect(s)) = Events(s)
           /\ InState(Unselect(s), "written") = {}
           /\ \A i \in Events(s) : Unselect(s).events[i].class = s.events[i].class
<1> DEFINE r == Unselect(s)
<1>1. s \in Stores(n) /\ ListsMatch(s) /\ CountsMatch(s) BY DEF Good
<1>2. {"unselected", "selected", "written"} = States BY DEF States
<1>3. s = [x \in Fields |-> s[x]] BY <1>1, StoreIsRecord
<1>4. /\ r.events = WithState(s, Events(s), "unselected") /\ r.typed = s.typed
      /\ r.total = s.total /\ r.written = [c \in Classes |-> 0] /\ r.selected = 0
      /\ r.overflow = s.overflow
  BY <1>3 DEF Unselect, Fields
<1>5. r = [x \in Fields |-> r[x]] BY <1>3 DEF Unselect, Fields
<1> HIDE DEF r
<1>6. /\ Events(r) = Events(s) /\ ListsMatch(r)
      /\ \A X \in SUBSET Events(s) : \A c \in Classes : OfClass(r, X, c) = OfClass(s, X, c)
      /\ \A x \in States \ {"unselected"} : InState(r, x) = InState(s, x) \ Events(s)
  <2>1. DOMAIN r.typed = Types BY <1>1, <1>4, StoreParts
  <2>2. Moved(r, s, Events(s), "unselected") BY <2>1, <1>4 DEF Moved
  <2>3. "unselected" \in States BY <1>2
  <2> QED BY <2>2, <2>3, SameLists
<1>7. InState(r, "selected") = {} /\ InState(r, "written") = {}
  <2>1. \A x : InState(s, x) \subseteq Events(s) BY DEF InState
  <2> QED BY <2>1, <1>2, <1>6
<1>8. CountsMatch(r)
  <2>1. Cardinality({}) = 0 BY FS_EmptySet
  <2>2. \A c \in Classes : OfClass(r, {}, c) = {} BY DEF OfClass
  <2>3. \A c \in Classes : r.total[c] = Cardinality(OfClass(r, Events(r), c))
    BY <1>1, <1>4, <1>6 DEF CountsMatch
  <2> QED BY <2>1, <2>2, <2>3, <1>4, <1>7 DEF CountsMatch
<1>9. "unselected" \in States BY <1>2
<1>10. r \in Stores(n)
  <2>1. r.typed = [t \in Types |-> r.typed[t]] BY <1>1, <1>4, StoreIsRecord
  <2>5. \A t \in Types : \E E \in SUBSET (1 .. n) : r.typed[t] \in [E -> Variations]
    BY <1>1, <1>4, StoreTyped
  <2>2. /\ r.total \in [Classes -> Nat]
        /\ r.overflow \in BOOLEAN /\ Events(s) \in SUBSET (1 .. n)
    BY <1>1, <1>4, StoreParts
  <2>4. r.written \in [Classes -> Nat] /\ r.selected \in Nat BY <1>4
  <2>3. r.events \in [Events(s) -> Records] BY <1>1, <1>4, <1>9, WithStateParts
  <2> QED BY <1>5, <2>1, <2>2, <2>3, <2>4, <2>5, StoreMade
<1>11. \A i \in Events(s) : r.events[i].class = s.events[i].class /\ r.events[i].state = "unselected"
  BY <1>1, <1>4, <1>9, WithStateParts
<1>12. InOrder(r)
  <2>1. Rank("unselected") = 0 BY DEF Rank
  <2> QED BY <2>1, <1>6, <1>11 DEF InOrder
<1> QED BY <1>6, <1>7, <1>8, <1>10, <1>11, <1>12 DEF Good, r

(***************************************************************************)
(* Confirming what was written.                                            *)
(***************************************************************************)
\* r has the events K of s, unchanged.
Kept(r, s, K) ==
    /\ K \in SUBSET Events(s)
    /\ r.events = Restrict(s.events, K)
    /\ \A t \in Types : DOMAIN r.typed[t] = DOMAIN s.typed[t] \cap K

\* Then r has its lists and its order right.
LEMMA FewerEvents ==
    ASSUME NEW n \in Nat, NEW s, Good(s, n), NEW r, NEW K, Kept(r, s, K)
    PROVE  /\ Events(r) = K /\ ListsMatch(r) /\ InOrder(r)
           /\ r.events \in [K -> Records]
           /\ \A X \in SUBSET K : \A c : OfClass(r, X, c) = OfClass(s, X, c)
           /\ \A x : InState(r, x) = InState(s, x) \cap K
<1> USE DEF Kept
<1>1. s \in Stores(n) /\ ListsMatch(s) /\ InOrder(s) BY DEF Good
<1>2. s.events \in [Events(s) -> Records] BY <1>1, StoreParts
<1>3. r.events \in [K -> Records] /\ \A i \in K : r.events[i] = s.events[i]
  BY <1>2 DEF Restrict
<1>4. Events(r) = K BY <1>3 DEF Events
<1>5. ListsMatch(r)
  <2> SUFFICES ASSUME NEW t \in Types
               PROVE  /\ DOMAIN r.typed[t] = {i \in K : r.events[i].type = t}
                      /\ Cardinality(DOMAIN r.typed[t]) <= Capacity[t]
    BY <1>4 DEF ListsMatch
  <2>1. /\ DOMAIN s.typed[t] = {i \in Events(s) : s.events[i].type = t}
        /\ Cardinality(DOMAIN s.typed[t]) <= Capacity[t]
    BY <1>1 DEF ListsMatch
  <2>2. DOMAIN r.typed[t] = {i \in K : r.events[i].type = t} BY <2>1, <1>3
  <2>3. DOMAIN s.typed[t] \in SUBSET Events(s) BY <2>1
  <2>4. IsFiniteSet(DOMAIN s.typed[t]) BY <2>3, <1>1, SetsFinite
  <2>5. DOMAIN r.typed[t] \in SUBSET DOMAIN s.typed[t] OBVIOUS
  <2>6. /\ IsFiniteSet(DOMAIN r.typed[t])
        /\ Cardinality(DOMAIN r.typed[t]) <= Cardinality(DOMAIN s.typed[t])
    BY <2>4, <2>5, FS_Subset
  <2>7. Cardinality(DOMAIN r.typed[t]) \in Nat /\ Cardinality(DOMAIN s.typed[t]) \in Nat
    BY <2>4, <2>6, FS_CardinalityType
  <2>8. Capacity[t] \in Nat BY CapacityAssumption
  <2>9. Cardinality(DOMAIN r.typed[t]) <= Capacity[t] BY <2>1, <2>6, <2>7, <2>8
  <2> QED BY <2>2, <2>9
<1>6. InOrder(r) BY <1>1, <1>3, <1>4 DEF InOrder
<1>7. \A X \in SUBSET K : \A c : OfClass(r, X, c) = OfClass(s, X, c) BY <1>3 DEF OfClass
<1>8. \A x : InState(r, x) = InState(s, x) \cap K BY <1>3, <1>4 DEF InState
<1> QED BY <1>3, <1>4, <1>5, <1>6, <1>7, <1>8

LEMMA ClearWrittenGood ==
    ASSUME NEW n \in Nat, NEW s, Good(s, n)
    PROVE  /\ Good(ClearWritten(s), n)
           /\ Events(ClearWritten(s)) = Events(s) \ InState(s, "written")
           /\ InState(ClearWritten(s), "written") = {}
           /\ \A i \in Events(ClearWritten(s)) : ClearWritten(s).events[i] = s.events[i]
<1> DEFINE S == InState(s, "written")
           K == Events(s) \ S
           left(counts) == [c \in Classes |-> counts[c] - Cardinality(OfClass(s, S, c))]
           r == ClearWritten(s)
<1>1. s \in Stores(n) /\ ListsMatch(s) /\ CountsMatch(s) BY DEF Good
<1>2. s = [x \in Fields |-> s[x]] BY <1>1, StoreIsRecord
<1>3. /\ r.events = Restrict(s.events, K)
      /\ r.typed = [t \in Types |-> Restrict(s.typed[t], DOMAIN s.typed[t] \ S)]
      /\ r.total = left(s.total) /\ r.written = left(s.written)
      /\ r.selected = s.selected /\ r.overflow = s.overflow
  BY <1>2 DEF ClearWritten, Fields
<1>4. r = [x \in Fields |-> r[x]] BY <1>2 DEF ClearWritten, Fields
<1> HIDE DEF r
<1>5. S \in SUBSET Events(s) /\ K \in SUBSET Events(s) BY <1>1, SetsFinite
<1>6. \A t \in Types : DOMAIN s.typed[t] \in SUBSET Events(s) BY <1>1 DEF ListsMatch
<1>7. \A t \in Types : DOMAIN r.typed[t] = DOMAIN s.typed[t] \cap K
  BY <1>3, <1>6 DEF Restrict
<1> HIDE DEF K, left
<1>8. /\ Events(r) = K /\ ListsMatch(r) /\ InOrder(r) /\ r.events \in [K -> Records]
      /\ \A X \in SUBSET K : \A c : OfClass(r, X, c) = OfClass(s, X, c)
      /\ \A x : InState(r, x) = InState(s, x) \cap K
  <2>1. Kept(r, s, K) BY <1>3, <1>5, <1>7 DEF Kept
  <2> QED BY <2>1, FewerEvents
<1>9. InState(r, "written") = {} /\ InState(r, "selected") = InState(s, "selected")
  <2>1. InState(s, "selected") \in SUBSET K BY DEF InState, K
  <2>2. InState(s, "written") \cap K = {} BY DEF K
  <2> QED BY <1>8, <2>1, <2>2
<1>10. ASSUME NEW c \in Classes
       PROVE  /\ r.written[c] = 0
              /\ r.total[c] = Cardinality(OfClass(r, K, c)) /\ r.total[c] \in Nat
  <2> DEFINE A == OfClass(s, Events(s), c)
             B == OfClass(s, S, c)
  <2>1. IsFiniteSet(A) /\ IsFiniteSet(B) BY <1>1, <1>5, SetsFinite
  <2>2. B \in SUBSET A BY <1>5 DEF OfClass
  <2>3. OfClass(s, K, c) = A \ B BY DEF OfClass, K
  <2>4. OfClass(r, K, c) = A \ B BY <2>3, <1>8
  <2>5. r.total[c] = Cardinality(A) - Cardinality(B) BY <1>1, <1>3 DEF left, CountsMatch
  <2>6. r.written[c] = Cardinality(B) - Cardinality(B) BY <1>1, <1>3 DEF left, CountsMatch
  <2> HIDE DEF A, B
  <2>7. Cardinality(A) \in Nat /\ Cardinality(B) \in Nat BY <2>1, FS_CardinalityType
  <2>8. Cardinality(A \ B) = Cardinality(A) - Cardinality(B) BY <2>1, <2>2, CountWithout
  <2>9. IsFiniteSet(A \ B) BY <2>1, FS_Difference
  <2>10. Cardinality(A \ B) \in Nat BY <2>9, FS_CardinalityType
  <2> QED BY <2>4, <2>5, <2>6, <2>7, <2>8, <2>10
<1>11. CountsMatch(r)
  <2>1. Cardinality({}) = 0 BY FS_EmptySet
  <2>2. \A c \in Classes : OfClass(r, {}, c) = {} BY DEF OfClass
  <2> QED BY <2>1, <2>2, <1>1, <1>3, <1>8, <1>9, <1>10 DEF CountsMatch
<1>12. r \in Stores(n)
  <2>1. r.total \in [Classes -> Nat] /\ r.written \in [Classes -> Nat]
    BY <1>3, <1>10 DEF left
  <2>2. r.typed = [t \in Types |-> r.typed[t]] BY <1>3
  <2>3. ASSUME NEW t \in Types
        PROVE  \E E \in SUBSET (1 .. n) : r.typed[t] \in [E -> Variations]
    <3>1. /\ DOMAIN s.typed[t] \in SUBSET (1 .. n)
          /\ s.typed[t] \in [DOMAIN s.typed[t] -> Variations]
      BY <1>1, StoreParts
    <3>2. r.typed[t] \in [DOMAIN s.typed[t] \ S -> Variations] BY <3>1, <1>3 DEF Restrict
    <3>3. DOMAIN s.typed[t] \ S \in SUBSET (1 .. n) BY <3>1
    <3> QED BY <3>2, <3>3
  <2>4. r.selected \in Nat /\ r.overflow \in BOOLEAN BY <1>1, <1>3, StoreParts
  <2>5. Events(s) \in SUBSET (1 .. n) BY <1>1, StoreParts
  <2>6. K \in SUBSET (1 .. n) BY <2>5, <1>5
  <2> QED BY <1>4, <1>8, <2>1, <2>2, <2>3, <2>4, <2>6, StoreMade
<1>13. \A i \in K : r.events[i] = s.events[i] BY <1>3 DEF Restrict
<1> QED BY <1>8, <1>9, <1>11, <1>12, <1>13 DEF Good, r, K

LEMMA IsOverflownGood ==
    ASSUME NEW n \in Nat, NEW s, Good(s, n)
    PROVE  /\ Good(IsOverflown(s), n)
           /\ IsOverflown(s).events = s.events /\ IsOverflown(s).typed = s.typed
           /\ IsOverflown(s).total = s.total /\ IsOverflown(s).written = s.written
           /\ Events(IsOverflown(s)) = Events(s)
           /\ \A x : InState(IsOverflown(s), x) = InState(s, x)
<1> DEFINE r == IsOverflown(s)
<1>1. s \in Stores(n) /\ ListsMatch(s) /\ CountsMatch(s) /\ InOrder(s) BY DEF Good
<1>2. s = [x \in Fields |-> s[x]] BY <1>1, StoreIsRecord
<1>3. /\ r.events = s.events /\ r.typed = s.typed /\ r.total = s.total
      /\ r.written = s.written /\ r.selected = s.selected
      /\ r.overflow = (s.overflow /\ IsAnyTypeFull(s))
  BY <1>2 DEF IsOverflown, Fields
<1>4. r = [x \in Fields |-> r[x]] BY <1>2 DEF IsOverflown, Fields
<1> HIDE DEF r
<1>5. Events(r) = Events(s) /\ (\A x : InState(r, x) = InState(s, x))
      /\ (\A X, c : OfClass(r, X, c) = OfClass(s, X, c))
  BY <1>3 DEF Events, InState, OfClass
<1>6. r \in Stores(n)
  <2>1. r.overflow \in BOOLEAN BY <1>3
  <2>2. r.typed = [t \in Types |-> r.typed[t]] BY <1>1, <1>3, StoreIsRecord
  <2>3. /\ \A t \in Types : \E E \in SUBSET (1 .. n) : r.typed[t] \in [E -> Variations]
        /\ r.total \in [Classes -> Nat] /\ r.written \in [Classes -> Nat] /\ r.selected \in Nat
        /\ Events(s) \in SUBSET (1 .. n) /\ r.events \in [Events(s) -> Records]
    BY <1>1, <1>3, StoreParts
  <2> QED BY <1>4, <2>1, <2>2, <2>3, StoreMade
<1>7. ListsMatch(r) /\ CountsMatch(r) /\ InOrder(r)
  BY <1>1, <1>3, <1>5 DEF ListsMatch, CountsMatch, InOrder
<1> QED BY <1>3, <1>5, <1>6, <1>7 DEF Good, r

(***************************************************************************)
(* Recording an event.                                                     *)
(***************************************************************************)
LEMMA OldestIsFirst ==
    ASSUME NEW n \in Nat, NEW s, Good(s, n), NEW t \in Types, DOMAIN s.typed[t] # {}
    PROVE  /\ Oldest(s, t) \in DOMAIN s.typed[t]
           /\ \A j \in DOMAIN s.typed[t] : Oldest(s, t) <= j
           /\ Oldest(s, t) \in Events(s) /\ s.events[Oldest(s, t)].type = t
<1>1. s \in Stores(n) /\ ListsMatch(s) BY DEF Good
<1>2. DOMAIN s.typed[t] = {i \in Events(s) : s.events[i].type = t} BY <1>1 DEF ListsMatch
<1>3. DOMAIN s.typed[t] \in SUBSET Events(s) BY <1>2
<1>4. DOMAIN s.typed[t] \in SUBSET Int /\ IsFiniteSet(DOMAIN s.typed[t])
  BY <1>1, <1>3, SetsFinite
<1>5. \E i \in DOMAIN s.typed[t] : \A j \in DOMAIN s.typed[t] : i <= j
  BY <1>4, SmallestExists
<1>6. /\ Oldest(s, t) \in DOMAIN s.typed[t]
      /\ \A j \in DOMAIN s.typed[t] : Oldest(s, t) <= j
  BY <1>5 DEF Oldest
<1> QED BY <1>2, <1>6

LEMMA MakeRoomGood ==
    ASSUME NEW n \in Nat, NEW s, Good(s, n), NEW t \in Types, DOMAIN s.typed[t] # {}
    PROVE  /\ Good(MakeRoom(s, t), n)
           /\ Events(MakeRoom(s, t)) = Events(s) \ {Oldest(s, t)}
           /\ DOMAIN MakeRoom(s, t).typed[t] = DOMAIN s.typed[t] \ {Oldest(s, t)}
           /\ MakeRoom(s, t).overflow
           /\ \A i \in Events(MakeRoom(s, t)) : MakeRoom(s, t).events[i] = s.events[i]
<1> DEFINE o == Oldest(s, t)
           e == s.events[o]
           K == Events(s) \ {o}
           r == MakeRoom(s, t)
           sel == IF e.state = "selected" THEN s.selected - 1 ELSE s.selected
           wri == [s.written EXCEPT ![e.class] = IF e.state = "written" THEN @ - 1 ELSE @]
           tot == [s.total EXCEPT ![e.class] = @ - 1]
           list == Restrict(s.typed[t], DOMAIN s.typed[t] \ {o})
<1>1. s \in Stores(n) /\ ListsMatch(s) /\ CountsMatch(s) BY DEF Good
<1>2. /\ o \in DOMAIN s.typed[t] /\ o \in Events(s) /\ e.type = t BY OldestIsFirst
<1>3. e \in Records BY <1>1, <1>2, StoreParts
<1>4. s = [x \in Fields |-> s[x]] /\ s.typed = [u \in Types |-> s.typed[u]]
  BY <1>1, StoreIsRecord
<1> HIDE DEF o
<1>5. /\ r.events = Restrict(s.events, K) /\ r.typed = [s.typed EXCEPT ![t] = list]
      /\ r.total = tot /\ r.written = wri /\ r.selected = sel /\ r.overflow = TRUE
  BY <1>4 DEF MakeRoom, OnRemove, Fields, o
<1>6. r = [x \in Fields |-> r[x]] BY <1>4 DEF MakeRoom, OnRemove, Fields
<1> HIDE DEF r, e, list
<1>7. K \in SUBSET Events(s) OBVIOUS
<1>8. ASSUME NEW u \in Types
      PROVE  DOMAIN r.typed[u] = DOMAIN s.typed[u] \cap K
  <2>1. DOMAIN s.typed[u] = {i \in Events(s) : s.events[i].type = u} BY <1>1 DEF ListsMatch
  <2>2. CASE u = t
    <3>1. r.typed[u] = list BY <2>2, <1>4, <1>5
    <3>2. DOMAIN list = DOMAIN s.typed[t] \ {o} BY DEF list, Restrict
    <3> QED BY <3>1, <3>2, <2>1, <2>2
  <2>3. CASE u # t
    <3>1. r.typed[u] = s.typed[u] BY <2>3, <1>4, <1>5
    <3>2. o \notin DOMAIN s.typed[u] BY <2>1, <2>3, <1>2 DEF e
    <3> QED BY <3>1, <3>2, <2>1
  <2> QED BY <2>2, <2>3
<1> HIDE DEF K
<1>9. /\ Events(r) = K /\ ListsMatch(r) /\ InOrder(r) /\ r.events \in [K -> Records]
      /\ \A X \in SUBSET K : \A c : OfClass(r, X, c) = OfClass(s, X, c)
      /\ \A x : InState(r, x) = InState(s, x) \cap K
  <2>1. Kept(r, s, K) BY <1>5, <1>7, <1>8 DEF Kept
  <2> QED BY <2>1, FewerEvents
<1>10. \A x : InState(r, x) = InState(s, x) \ {o}
  <2>1. \A x : InState(s, x) \subseteq Events(s) BY DEF InState
  <2> QED BY <2>1, <1>9 DEF K
<1>11. r.selected = Cardinality(InState(r, "selected")) /\ r.selected \in Nat
  <2> DEFINE A == InState(s, "selected")
  <2>1. IsFiniteSet(A) BY <1>1, SetsFinite
  <2>2. o \in A <=> e.state = "selected" BY <1>2 DEF InState, e
  <2>3. s.selected = Cardinality(A) BY <1>1 DEF CountsMatch
  <2>4. InState(r, "selected") = A \ {o} BY <1>10
  <2> HIDE DEF A
  <2>5. /\ IsFiniteSet(A \ {o})
        /\ Cardinality(A \ {o}) = IF o \in A THEN Cardinality(A) - 1 ELSE Cardinality(A)
    BY <2>1, FS_RemoveElement
  <2>6. Cardinality(A \ {o}) \in Nat BY <2>5, FS_CardinalityType
  <2> QED BY <2>2, <2>3, <2>4, <2>5, <2>6, <1>5
<1>12. ASSUME NEW c \in Classes
       PROVE  r.total[c] = Cardinality(OfClass(r, K, c)) /\ r.total[c] \in Nat
  <2> DEFINE A == OfClass(s, Events(s), c)
  <2>1. IsFiniteSet(A) BY <1>1, SetsFinite
  <2>2. o \in A <=> e.class = c BY <1>2 DEF OfClass, e
  <2>3. s.total[c] = Cardinality(A) BY <1>1 DEF CountsMatch
  <2>4. OfClass(r, K, c) = A \ {o}
    <3>1. OfClass(r, K, c) = OfClass(s, K, c) BY <1>9
    <3> QED BY <3>1 DEF OfClass, K
  <2>5. r.total[c] = IF e.class = c THEN s.total[c] - 1 ELSE s.total[c]
    <3>1. s.total \in [Classes -> Nat] BY <1>1, StoreParts
    <3> QED BY <3>1, <1>5
  <2> HIDE DEF A
  <2>6. /\ IsFiniteSet(A \ {o})
        /\ Cardinality(A \ {o}) = IF o \in A THEN Cardinality(A) - 1 ELSE Cardinality(A)
    BY <2>1, FS_RemoveElement
  <2>7. Cardinality(A \ {o}) \in Nat BY <2>6, FS_CardinalityType
  <2> QED BY <2>2, <2>3, <2>4, <2>5, <2>6, <2>7
<1>13. ASSUME NEW c \in Classes
       PROVE  /\ r.written[c] = Cardinality(OfClass(r, InState(r, "written"), c))
              /\ r.written[c] \in Nat
  <2> DEFINE A == OfClass(s, InState(s, "written"), c)
  <2>1. InState(s, "written") \in SUBSET Events(s) BY <1>1, SetsFinite
  <2>2. IsFiniteSet(A) BY <2>1, <1>1, SetsFinite
  <2>3. o \in A <=> e.class = c /\ e.state = "written" BY <1>2 DEF OfClass, InState, e
  <2>4. s.written[c] = Cardinality(A) BY <1>1 DEF CountsMatch
  <2>5. OfClass(r, InState(r, "written"), c) = A \ {o}
    <3>1. InState(r, "written") \in SUBSET K BY <2>1, <1>10 DEF K
    <3>2. OfClass(r, InState(r, "written"), c) = OfClass(s, InState(r, "written"), c)
      BY <3>1, <1>9
    <3> QED BY <3>2, <1>10 DEF OfClass
  <2>6. r.written[c] = IF e.class = c /\ e.state = "written" THEN s.written[c] - 1
                       ELSE s.written[c]
    <3>1. s.written \in [Classes -> Nat] BY <1>1, StoreParts
    <3> QED BY <3>1, <1>5
  <2> HIDE DEF A
  <2>7. /\ IsFiniteSet(A \ {o})
        /\ Cardinality(A \ {o}) = IF o \in A THEN Cardinality(A) - 1 ELSE Cardinality(A)
    BY <2>2, FS_RemoveElement
  <2>8. Cardinality(A \ {o}) \in Nat BY <2>7, FS_CardinalityType
  <2> QED BY <2>3, <2>4, <2>5, <2>6, <2>7, <2>8
<1>14. CountsMatch(r) BY <1>9, <1>11, <1>12, <1>13 DEF CountsMatch
<1>15. r \in Stores(n)
  <2>1. r.total \in [Classes -> Nat] /\ r.written \in [Classes -> Nat]
    <3>1. s.total \in [Classes -> Nat] /\ s.written \in [Classes -> Nat] BY <1>1, StoreParts
    <3> QED BY <3>1, <1>5, <1>12, <1>13
  <2>2. r.typed = [u \in Types |-> r.typed[u]] BY <1>4, <1>5
  <2>3. ASSUME NEW u \in Types
        PROVE  \E E \in SUBSET (1 .. n) : r.typed[u] \in [E -> Variations]
    <3>1. /\ DOMAIN s.typed[u] \in SUBSET (1 .. n)
          /\ s.typed[u] \in [DOMAIN s.typed[u] -> Variations]
      BY <1>1, StoreParts
    <3>2. CASE u = t
      <4>1. r.typed[u] = list BY <3>2, <1>4, <1>5
      <4>2. list \in [DOMAIN s.typed[t] \ {o} -> Variations] BY <3>1, <3>2 DEF list, Restrict
      <4>3. DOMAIN s.typed[t] \ {o} \in SUBSET (1 .. n) BY <3>1, <3>2
      <4> QED BY <4>1, <4>2, <4>3
    <3>3. CASE u # t
      <4>1. r.typed[u] = s.typed[u] BY <3>3, <1>4, <1>5
      <4> QED BY <4>1, <3>1
    <3> QED BY <3>2, <3>3
  <2>4. r.overflow \in BOOLEAN BY <1>5
  <2>5. Events(s) \in SUBSET (1 .. n) BY <1>1, StoreParts
  <2>6. K \in SUBSET (1 .. n) BY <2>5 DEF K
  <2> QED BY <1>6, <1>9, <1>11, <2>1, <2>2, <2>3, <2>4, <2>6, StoreMade
<1>16. DOMAIN r.typed[t] = DOMAIN s.typed[t] \ {o}
  <2>1. r.typed[t] = list BY <1>4, <1>5
  <2> QED BY <2>1 DEF list, Restrict
<1>17. \A i \in K : r.events[i] = s.events[i] BY <1>5 DEF Restrict
<1> QED BY <1>5, <1>9, <1>14, <1>15, <1>16, <1>17 DEF Good, r, K, o

LEMMA AddRecordGood ==
    ASSUME NEW n \in Nat, NEW s, Good(s, n), NEW t \in Types, NEW c \in Classes,
           Cardinality(DOMAIN s.typed[t]) < Capacity[t]
    PROVE  /\ Good(AddRecord(s, n + 1, t, c), n + 1)
           /\ Events(AddRecord(s, n + 1, t, c)) = Events(s) \cup {n + 1}
           /\ AddRecord(s, n + 1, t, c).events[n + 1].class = c
           /\ \A i \in Events(s) : AddRecord(s, n + 1, t, c).events[i] = s.events[i]
           /\ InState(AddRecord(s, n + 1, t, c), "written") = InState(s, "written")
           /\ AddRecord(s, n + 1, t, c).overflow = s.overflow
<1> DEFINE k == n + 1
           new == [type |-> t, class |-> c, state |-> "unselected"]
           events == [j \in Events(s) \cup {k} |-> IF j = k THEN new ELSE s.events[j]]
           list == [j \in DOMAIN s.typed[t] \cup {k} |->
                        IF j = k THEN DefaultVariation ELSE s.typed[t][j]]
           r == AddRecord(s, k, t, c)
<1>1. s \in Stores(n) /\ ListsMatch(s) /\ CountsMatch(s) /\ InOrder(s) BY DEF Good
<1>2. s = [x \in Fields |-> s[x]] /\ s.typed = [u \in Types |-> s.typed[u]]
  BY <1>1, StoreIsRecord
<1>3. /\ r.events = events /\ r.typed = [s.typed EXCEPT ![t] = list]
      /\ r.total = [s.total EXCEPT ![c] = @ + 1] /\ r.written = s.written
      /\ r.selected = s.selected /\ r.overflow = s.overflow
  BY <1>2 DEF AddRecord, Fields
<1>4. r = [x \in Fields |-> r[x]] BY <1>2 DEF AddRecord, Fields
<1> HIDE DEF r
<1>5. /\ Events(s) \in SUBSET (1 .. n) /\ s.events \in [Events(s) -> Records]
      /\ IsFiniteSet(Events(s))
  BY <1>1, StoreParts
<1>6. k \in Nat /\ k \notin Events(s) /\ \A i \in Events(s) : i < k BY <1>5
<1>7. new \in Records BY DEF Records, States
<1>8. /\ r.events \in [Events(s) \cup {k} -> Records]
      /\ r.events[k] = new /\ \A i \in Events(s) : r.events[i] = s.events[i]
  BY <1>3, <1>5, <1>6, <1>7
<1>9. Events(r) = Events(s) \cup {k} BY <1>8 DEF Events
<1>10. ASSUME NEW x \in {"selected", "written"} PROVE InState(r, x) = InState(s, x)
  BY <1>6, <1>8, <1>9 DEF InState
<1> HIDE DEF list, events
<1>11. ASSUME NEW u \in Types
       PROVE  /\ DOMAIN r.typed[u] = {i \in Events(r) : r.events[i].type = u}
              /\ Cardinality(DOMAIN r.typed[u]) <= Capacity[u]
  <2>1. /\ DOMAIN s.typed[u] = {i \in Events(s) : s.events[i].type = u}
        /\ Cardinality(DOMAIN s.typed[u]) <= Capacity[u]
    BY <1>1 DEF ListsMatch
  <2>2. CASE u = t
    <3>1. r.typed[u] = list BY <2>2, <1>2, <1>3
    <3>2. DOMAIN list = DOMAIN s.typed[t] \cup {k} BY DEF list
    <3>3. DOMAIN r.typed[u] = {i \in Events(r) : r.events[i].type = u}
      BY <3>1, <3>2, <2>1, <2>2, <1>8, <1>9
    <3>4. DOMAIN s.typed[t] \in SUBSET Events(s) BY <2>1, <2>2
    <3>5. IsFiniteSet(DOMAIN s.typed[t]) /\ k \notin DOMAIN s.typed[t]
      BY <3>4, <1>1, <1>6, SetsFinite
    <3>6. Cardinality(DOMAIN s.typed[t] \cup {k}) = Cardinality(DOMAIN s.typed[t]) + 1
      BY <3>5, FS_AddElement
    <3>7. Cardinality(DOMAIN s.typed[t]) \in Nat /\ Capacity[t] \in Nat
      BY <3>5, FS_CardinalityType, CapacityAssumption
    <3>8. Cardinality(DOMAIN r.typed[u]) <= Capacity[u]
      BY <3>1, <3>2, <3>6, <3>7, <2>2
    <3> QED BY <3>3, <3>8
  <2>3. CASE u # t
    <3>1. r.typed[u] = s.typed[u] BY <2>3, <1>2, <1>3
    <3> QED BY <3>1, <2>1, <2>3, <1>8, <1>9
  <2> QED BY <2>2, <2>3
<1>12. ListsMatch(r) BY <1>11 DEF ListsMatch
<1>13. ASSUME NEW d \in Classes
       PROVE  r.total[d] = Cardinality(OfClass(r, Events(r), d)) /\ r.total[d] \in Nat
  <2> DEFINE A == OfClass(s, Events(s), d)
  <2>1. IsFiniteSet(A) /\ k \notin A BY <1>1, <1>6, SetsFinite DEF OfClass
  <2>2. s.total[d] = Cardinality(A) BY <1>1 DEF CountsMatch
  <2>3. s.total \in [Classes -> Nat] BY <1>1, StoreParts
  <2>4. CASE d = c
    <3>1. OfClass(r, Events(r), d) = A \cup {k} BY <2>4, <1>8, <1>9 DEF OfClass
    <3>2. Cardinality(A \cup {k}) = Cardinality(A) + 1 BY <2>1, FS_AddElement
    <3>3. r.total[d] = s.total[d] + 1 BY <2>3, <2>4, <1>3
    <3> HIDE DEF A
    <3> QED BY <3>1, <3>2, <3>3, <2>2, <2>3
  <2>5. CASE d # c
    <3>1. OfClass(r, Events(r), d) = A BY <2>5, <1>8, <1>9 DEF OfClass
    <3>2. r.total[d] = s.total[d] BY <2>3, <2>5, <1>3
    <3> HIDE DEF A
    <3> QED BY <3>1, <3>2, <2>2, <2>3
  <2> QED BY <2>4, <2>5
<1>14. CountsMatch(r)
  <2>1. InState(s, "written") \in SUBSET Events(s) BY <1>1, SetsFinite
  <2>2. \A d \in Classes : OfClass(r, InState(s, "written"), d) = OfClass(s, InState(s, "written"), d)
    BY <2>1, <1>8 DEF OfClass
  <2> QED BY <2>2, <1>1, <1>3, <1>10, <1>13 DEF CountsMatch
<1>15. InOrder(r)
  <2> SUFFICES ASSUME NEW i \in Events(s) \cup {k}, NEW j \in Events(s) \cup {k}, i < j,
                      r.events[i].type = r.events[j].type,
                      r.events[i].class = r.events[j].class
               PROVE  Rank(r.events[i].state) >= Rank(r.events[j].state)
    BY <1>9 DEF InOrder
  <2>1. i \in Events(s) BY <1>5, <1>6
  <2>2. CASE j = k
    <3>1. Rank(r.events[j].state) = 0 BY <2>2, <1>8 DEF Rank
    <3>2. \A x \in States : Rank(x) \in 0 .. 2 BY DEF States, Rank
    <3>3. r.events[i].state \in States BY <1>8, <2>1 DEF Records
    <3> QED BY <3>1, <3>2, <3>3
  <2>3. CASE j # k
    <3>1. j \in Events(s) BY <2>3
    <3> QED BY <3>1, <2>1, <1>1, <1>8 DEF InOrder
  <2> QED BY <2>2, <2>3
<1>16. r \in Stores(n + 1)
  <2>1. r.total \in [Classes -> Nat] /\ r.written \in [Classes -> Nat]
    <3>1. s.total \in [Classes -> Nat] /\ s.written \in [Classes -> Nat] BY <1>1, StoreParts
    <3> QED BY <3>1, <1>3
  <2>2. r.typed = [u \in Types |-> r.typed[u]] BY <1>2, <1>3
  <2>3. ASSUME NEW u \in Types
        PROVE  \E E \in SUBSET (1 .. n + 1) : r.typed[u] \in [E -> Variations]
    <3>1. /\ DOMAIN s.typed[u] \in SUBSET (1 .. n)
          /\ s.typed[u] \in [DOMAIN s.typed[u] -> Variations]
      BY <1>1, StoreParts
    <3>2. CASE u = t
      <4>1. r.typed[u] = list BY <3>2, <1>2, <1>3
      <4>2. list \in [DOMAIN s.typed[t] \cup {k} -> Variations]
        BY <3>1, <3>2, CapacityAssumption DEF list
      <4>3. DOMAIN s.typed[t] \cup {k} \in SUBSET (1 .. n + 1) BY <3>1, <3>2
      <4> QED BY <4>1, <4>2, <4>3
    <3>3. CASE u # t
      <4>1. r.typed[u] = s.typed[u] BY <3>3, <1>2, <1>3
      <4>2. DOMAIN s.typed[u] \in SUBSET (1 .. n + 1) BY <3>1
      <4> QED BY <4>1, <4>2, <3>1
    <3> QED BY <3>2, <3>3
  <2>4. r.overflow \in BOOLEAN /\ r.selected \in Nat BY <1>1, <1>3, StoreParts
  <2>5. Events(s) \cup {k} \in SUBSET (1 .. n + 1) BY <1>5
  <2>6. n + 1 \in Nat OBVIOUS
  <2> QED BY <1>4, <1>8, <2>1, <2>2, <2>3, <2>4, <2>5, <2>6, StoreMade
<1> QED BY <1>3, <1>8, <1>9, <1>10, <1>12, <1>14, <1>15, <1>16 DEF Good, r

\* More events may have happened than a store knows of.
LEMMA StoresGrow ==
    ASSUME NEW n \in Nat, NEW s, Good(s, n)
    PROVE  Good(s, n + 1)
<1>1. s \in Stores(n) BY DEF Good
<1>2. s = [x \in Fields |-> s[x]] /\ s.typed = [t \in Types |-> s.typed[t]]
  BY <1>1, StoreIsRecord
<1>3. /\ Events(s) \in SUBSET (1 .. n) /\ s.events \in [Events(s) -> Records]
      /\ s.total \in [Classes -> Nat] /\ s.written \in [Classes -> Nat]
      /\ s.selected \in Nat /\ s.overflow \in BOOLEAN
  BY <1>1, StoreParts
<1>4. ASSUME NEW t \in Types
      PROVE  \E E \in SUBSET (1 .. n + 1) : s.typed[t] \in [E -> Variations]
  <2>1. /\ DOMAIN s.typed[t] \in SUBSET (1 .. n)
        /\ s.typed[t] \in [DOMAIN s.typed[t] -> Variations]
    BY <1>1, StoreParts
  <2>2. DOMAIN s.typed[t] \in SUBSET (1 .. n + 1) BY <2>1
  <2> QED BY <2>1, <2>2
<1>5. Events(s) \in SUBSET (1 .. n + 1) /\ n + 1 \in Nat BY <1>3
<1>6. s \in Stores(n + 1) BY <1>2, <1>3, <1>4, <1>5, StoreMade
<1> QED BY <1>6 DEF Good

\* The event that Update gives up, if any.
Dropped(s, t) == IF Capacity[t] > 0 /\ IsFullAndCapacityNotZero(s, t) THEN {Oldest(s, t)} ELSE {}

LEMMA UpdateGood ==
    ASSUME NEW n \in Nat, NEW s, Good(s, n), NEW t \in Types, NEW c \in Classes
    PROVE  /\ Good(Update(s, n + 1, t, c), n + 1)
           /\ Capacity[t] = 0 => Update(s, n + 1, t, c) = s
           /\ Capacity[t] # 0 =>
                /\ Events(Update(s, n + 1, t, c)) = (Events(s) \ Dropped(s, t)) \cup {n + 1}
                /\ Update(s, n + 1, t, c).events[n + 1].class = c
                /\ \A i \in Events(s) \ Dropped(s, t) :
                      Update(s, n + 1, t, c).events[i] = s.events[i]
                /\ InState(Update(s, n + 1, t, c), "written") = InState(s, "written") \ Dropped(s, t)
                /\ Dropped(s, t) # {} => Update(s, n + 1, t, c).overflow
           /\ Dropped(s, t) # {} =>
                /\ Dropped(s, t) = {Oldest(s, t)} /\ Oldest(s, t) \in Events(s)
                /\ s.events[Oldest(s, t)].type = t
                /\ \A j \in DOMAIN s.typed[t] : Oldest(s, t) <= j
                /\ Cardinality(DOMAIN s.typed[t]) = Capacity[t]
<1> DEFINE u == Update(s, n + 1, t, c)
<1>1. /\ s \in Stores(n)
      /\ DOMAIN s.typed[t] = {i \in Events(s) : s.events[i].type = t}
      /\ Cardinality(DOMAIN s.typed[t]) <= Capacity[t]
  BY DEF Good, ListsMatch
<1>2. DOMAIN s.typed[t] \in SUBSET Events(s) BY <1>1
<1>3. IsFiniteSet(DOMAIN s.typed[t]) BY <1>1, <1>2, SetsFinite
<1>4. Cardinality(DOMAIN s.typed[t]) \in Nat /\ Capacity[t] \in Nat
  BY <1>3, FS_CardinalityType, CapacityAssumption
<1>5. CASE Capacity[t] = 0
  <2>1. u = s BY <1>5 DEF Update
  <2>2. Dropped(s, t) = {} BY <1>5 DEF Dropped
  <2> QED BY <2>1, <2>2, <1>5, StoresGrow
<1>6. CASE Capacity[t] # 0 /\ ~IsFullAndCapacityNotZero(s, t)
  <2>1. u = AddRecord(s, n + 1, t, c) BY <1>6 DEF Update
  <2>2. Dropped(s, t) = {} BY <1>6 DEF Dropped
  <2>3. Cardinality(DOMAIN s.typed[t]) < Capacity[t]
    BY <1>4, <1>6 DEF IsFullAndCapacityNotZero
  <2> QED BY <2>1, <2>2, <2>3, <1>6, AddRecordGood
<1>7. CASE Capacity[t] # 0 /\ IsFullAndCapacityNotZero(s, t)
  <2> DEFINE m == MakeRoom(s, t)
  <2>1. u = AddRecord(m, n + 1, t, c) BY <1>7 DEF Update
  <2>2. Dropped(s, t) = {Oldest(s, t)} BY <1>4, <1>7 DEF Dropped
  <2>3. Cardinality(DOMAIN s.typed[t]) = Capacity[t] /\ Capacity[t] > 0
    BY <1>1, <1>4, <1>7 DEF IsFullAndCapacityNotZero
  <2>4. DOMAIN s.typed[t] # {}
    <3>1. Cardinality({}) = 0 BY FS_EmptySet
    <3> QED BY <3>1, <2>3
  <2>5. /\ Oldest(s, t) \in DOMAIN s.typed[t] /\ Oldest(s, t) \in Events(s)
        /\ s.events[Oldest(s, t)].type = t
        /\ \A j \in DOMAIN s.typed[t] : Oldest(s, t) <= j
    BY <2>4, OldestIsFirst
  <2> HIDE DEF u
  <2>6. /\ Good(m, n) /\ Events(m) = Events(s) \ {Oldest(s, t)}
        /\ DOMAIN m.typed[t] = DOMAIN s.typed[t] \ {Oldest(s, t)} /\ m.overflow
        /\ \A i \in Events(m) : m.events[i] = s.events[i]
    BY <2>4, MakeRoomGood
  <2> HIDE DEF m
  <2>7. Cardinality(DOMAIN m.typed[t]) = Cardinality(DOMAIN s.typed[t]) - 1
    <3> DEFINE A == DOMAIN s.typed[t]
               o == Oldest(s, t)
    <3>1. IsFiniteSet(A) /\ o \in A /\ DOMAIN m.typed[t] = A \ {o} BY <2>5, <2>6, <1>3
    <3> HIDE DEF A, o
    <3>2. Cardinality(A \ {o}) = Cardinality(A) - 1 BY <3>1, FS_RemoveElement
    <3> QED BY <3>1, <3>2 DEF A
  <2>8. Cardinality(DOMAIN m.typed[t]) < Capacity[t] BY <2>3, <2>7, <1>4
  <2>9. /\ Good(u, n + 1) /\ Events(u) = Events(m) \cup {n + 1} /\ u.events[n + 1].class = c
        /\ \A i \in Events(m) : u.events[i] = m.events[i]
        /\ InState(u, "written") = InState(m, "written") /\ u.overflow = m.overflow
    <3>1. Good(m, n) BY <2>6
    <3> QED BY <2>1, <2>8, <3>1, AddRecordGood
  <2>10. InState(m, "written") = InState(s, "written") \ {Oldest(s, t)}
    BY <2>6 DEF InState
  <2> QED BY <2>2, <2>3, <2>5, <2>6, <2>9, <2>10, <1>7 DEF u
<1> QED BY <1>5, <1>6, <1>7

LEMMA EmptyGood == Good(EmptyStore, 0)
<1> DEFINE r == EmptyStore
<1>1. /\ r.events = <<>> /\ r.typed = [t \in Types |-> <<>>] /\ r.total = [c \in Classes |-> 0]
      /\ r.written = [c \in Classes |-> 0] /\ r.selected = 0 /\ r.overflow = FALSE
  BY DEF EmptyStore
<1>2. r = [x \in Fields |-> r[x]] BY DEF EmptyStore, Fields
<1>3. Events(r) = {} /\ r.events \in [{} -> Records] BY <1>1 DEF Events
<1>4. \A x : InState(r, x) = {} BY <1>3 DEF InState
<1>5. \A c : OfClass(r, {}, c) = {} BY DEF OfClass
<1>6. Cardinality({}) = 0 BY FS_EmptySet
<1> HIDE DEF r
<1>7. r \in Stores(0)
  <2>1. \A t \in Types : r.typed[t] \in [{} -> Variations] BY <1>1
  <2>2. \A t \in Types : \E E \in SUBSET (1 .. 0) : r.typed[t] \in [E -> Variations] BY <2>1
  <2>3. /\ r.total \in [Classes -> Nat] /\ r.written \in [Classes -> Nat]
        /\ r.selected \in Nat
    BY <1>1
  <2>6. r.overflow \in BOOLEAN BY <1>1
  <2>5. r.typed = [t \in Types |-> r.typed[t]]
    <3>1. \A t \in Types : r.typed[t] = <<>> BY <1>1
    <3> QED BY <3>1, <1>1
  <2>4. {} \in SUBSET (1 .. 0) /\ 0 \in Nat OBVIOUS
  <2> QED BY <1>2, <1>3, <2>2, <2>3, <2>4, <2>5, <2>6, StoreMade
<1>8. ListsMatch(r)
  <2>1. \A t \in Types : DOMAIN r.typed[t] = {} /\ Capacity[t] \in Nat
    BY <1>1, CapacityAssumption
  <2>2. \A t \in Types : Cardinality(DOMAIN r.typed[t]) = 0 BY <2>1, <1>6
  <2>3. \A t \in Types : Cardinality(DOMAIN r.typed[t]) <= Capacity[t] BY <2>1, <2>2
  <2>4. \A t \in Types : DOMAIN r.typed[t] = {i \in Events(r) : r.events[i].type = t}
    BY <2>1, <1>3
  <2> QED BY <2>3, <2>4 DEF ListsMatch
<1>9. CountsMatch(r) BY <1>1, <1>3, <1>4, <1>5, <1>6 DEF CountsMatch
<1>10. InOrder(r) BY <1>3 DEF InOrder
<1> QED BY <1>7, <1>8, <1>9, <1>10 DEF Good, r
=============================================================================

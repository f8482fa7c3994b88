----------------------------- MODULE EventBuffer -----------------------------
(***************************************************************************)
(* The event store under every order of calls that its users could make,   *)
(* and what it must keep to.                                               *)
(***************************************************************************)
EXTENDS EventLists

CONSTANTS
    Counts,      \* the limits a request can put on a selection
    MaxRoom,     \* the events that fit into a fragment
    MaxEvents    \* bound: events that happen

ASSUME BoundsAssumption ==
    /\ Counts \subseteq Nat
    /\ MaxRoom \in Nat
    /\ MaxEvents \in Nat

VARIABLES
    store,   \* EventBuffer
    made     \* how many events have happened

vars == <<store, made>>

Init == store = EmptyStore /\ made = 0

UpdateAny(t, c) ==
    /\ made < MaxEvents
    /\ made' = made + 1
    /\ store' = Update(store, made + 1, t, c)

SelectMaxCount(max) ==
    /\ \/ \E c \in Classes : store' = SelectByClass(store, {c}, max)
       \/ \E t \in Types, v \in Variations : store' = SelectByType(store, t, v, max)
    /\ UNCHANGED made

SelectAllByClass(cs) ==
    /\ store' = SelectByClass(store, cs, Cardinality(Events(store)))
    /\ UNCHANGED made

LoadFragment(n) == store' = Load(store, n) /\ UNCHANGED made

Confirm == store' = ClearWritten(store) /\ UNCHANGED made

GiveUp == store' = Unselect(store) /\ UNCHANGED made

ReadOverflow == store' = IsOverflown(store) /\ UNCHANGED made

Next ==
    \/ \E t \in Types, c \in Classes : UpdateAny(t, c)
    \/ \E max \in Counts : SelectMaxCount(max)
    \/ \E cs \in SUBSET Classes : SelectAllByClass(cs)
    \/ \E n \in 0 .. MaxRoom : LoadFragment(n)
    \/ Confirm
    \/ GiveUp
    \/ ReadOverflow

Spec == Init /\ [][Next]_vars

(***************************************************************************)
(* Properties.                                                             *)
(***************************************************************************)
\* Every part of the store is what its declaration in EventLists.h says.
TypeOK == made \in Nat /\ store \in Stores(made)

\* The common list and the lists by type hold the same events, each in the list
\* of its own type, and no list holds more than it has nodes for: EventUpdate.h
\* dereferences what Add returns, which is null when the array is used up.
ListsAgree == ListsMatch(store)

\* The counters of ClazzCount.h, which decide what the master is told and when a
\* search may be skipped, are the numbers they stand for, through removals of
\* events that were selected or written when a list was full.
CountersExact == CountsMatch(store)

\* Of two events of one type and class the older is never behind: whatever limits
\* the requests had, it has been selected and reported when the newer one has.
OldestFirst == InOrder(store)

\* An event leaves the store in two ways only: it was written into a fragment that
\* is now confirmed, or the list of its type was full and it was the oldest, which
\* is marked as an overflow.
LeavesKnowingly ==
    [][\A i \in Events(store) \ Events(store)' :
        \/ store.events[i].state = "written"
        \/ LET t == store.events[i].type
           IN  /\ store'.overflow
               /\ Cardinality(DOMAIN store.typed[t]) = Capacity[t]
               /\ \A j \in DOMAIN store.typed[t] : i <= j]_vars

\* The store implements EventReport: what it announces, from its counters, are the
\* classes of the events that wait to be reported, and nothing else ends the wait
\* of an event than its confirmation or a newer event.
Promise == INSTANCE EventReport WITH
    Numbers   <- 1 .. MaxEvents,
    pending   <- [i \in Events(store) |-> store.events[i].class],
    reported  <- InState(store, "written"),
    announced <- UnwrittenClassField(store)

ReportsEvents == Promise!Spec
=============================================================================

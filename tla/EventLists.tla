----------------------------- MODULE EventLists -----------------------------
(***************************************************************************)
(* The store of DNP3 events behind an outstation (opendnp3, directory      *)
(* outstation/event): one list of all events in the order in which they    *)
(* happened, a list per type of point with its capacity, and counters that *)
(* stand in for searching the lists.                                       *)
(*                                                                         *)
(* A store is a record, and the operations are functions of it, so that    *)
(* EventBuffer can study them alone and Outstation can use them.  An event *)
(* is a number; List::Add appends, so the order of a list is the order of  *)
(* the numbers in it.                                                      *)
(***************************************************************************)
EXTENDS Integers, FiniteSets, Functions

CONSTANTS
    Types,             \* the types of points that have events (EventType)
    Classes,           \* the event classes (EventClass)
    Capacity,          \* the events kept of each type (EventBufferConfig)
    Variations,        \* the encodings an event can be reported in
    DefaultVariation   \* the one configured for the points

ASSUME CapacityAssumption ==
    /\ IsFiniteSet(Types)
    /\ Capacity \in [Types -> Nat]
    /\ DefaultVariation \in Variations

States == {"unselected", "selected", "written"}

Records == [type : Types, class : Classes, state : States]

\* EventLists and EventBuffer::overflow.  events maps the number of each event
\* in the common list to its EventRecord; typed[t] maps the number of each in the
\* list of its type to its selectedVariation.
EmptyStore == [events   |-> <<>>,
               typed    |-> [t \in Types |-> <<>>],
               total    |-> [c \in Classes |-> 0],
               written  |-> [c \in Classes |-> 0],
               selected |-> 0,
               overflow |-> FALSE]

Events(s) == DOMAIN s.events

InState(s, st) == {i \in Events(s) : s.events[i].state = st}

OfClass(s, S, c) == {i \in S : s.events[i].class = c}

\* The first n members of a list.
FirstOf(S, n) == {i \in S : Cardinality({j \in S : j <= i}) <= n}

WithState(s, S, st) ==
    [i \in Events(s) |-> IF i \in S THEN [s.events[i] EXCEPT !.state = st]
                                    ELSE s.events[i]]

IsFullAndCapacityNotZero(s, t) ==
    Capacity[t] > 0 /\ Cardinality(DOMAIN s.typed[t]) >= Capacity[t]

IsAnyTypeFull(s) == \E t \in Types : IsFullAndCapacityNotZero(s, t)

NumUnwritten(s, c) == s.total[c] - s.written[c]

\* The classes announced to the master, in the IIN bits and for unsolicited
\* responses.
UnwrittenClassField(s) == {c \in Classes : NumUnwritten(s, c) > 0}

HasAnySelection(s) == s.selected > 0

(***************************************************************************)
(* Recording an event.  A full list gives up its oldest event, whatever    *)
(* state that is in.                                                       *)
(***************************************************************************)
Oldest(s, t) == CHOOSE i \in DOMAIN s.typed[t] : \A j \in DOMAIN s.typed[t] : i <= j

\* Variant: the counters do not look at the state of the event given up.
OnRemoveBlind(s, i) ==
    [s EXCEPT !.total[s.events[i].class] = @ - 1]

\* Variant: one selected event fewer, whatever was given up.
OnRemoveSelected(s, i) ==
    LET e == s.events[i]
    IN  [s EXCEPT !.selected = @ - 1,
                  !.written[e.class] = IF e.state = "written" THEN @ - 1 ELSE @,
                  !.total[e.class] = @ - 1]

\* EventClassCounters::OnRemove
OnRemove(s, i) ==
    LET e == s.events[i]
    IN  [s EXCEPT !.selected = IF e.state = "selected" THEN @ - 1 ELSE @,
                  !.written[e.class] = IF e.state = "written" THEN @ - 1 ELSE @,
                  !.total[e.class] = @ - 1]

MakeRoom(s, t) ==
    LET first == Oldest(s, t)
    IN  [OnRemove(s, first) EXCEPT
            !.events = Restrict(s.events, Events(s) \ {first}),
            !.typed[t] = Restrict(s.typed[t], DOMAIN s.typed[t] \ {first}),
            !.overflow = TRUE]

AddRecord(s, i, t, c) ==
    [s EXCEPT
        !.events = [j \in Events(s) \cup {i} |->
                        IF j = i THEN [type |-> t, class |-> c, state |-> "unselected"]
                                 ELSE s.events[j]],
        !.typed[t] = [j \in DOMAIN s.typed[t] \cup {i} |->
                        IF j = i THEN DefaultVariation ELSE s.typed[t][j]],
        !.total[c] = @ + 1]

\* Variant: the list gives up an event when it is one short of full.
UpdateEarly(s, i, t, c) ==
    IF Capacity[t] = 0 THEN s
    ELSE AddRecord(IF Cardinality(DOMAIN s.typed[t]) >= Capacity[t] - 1 /\ DOMAIN s.typed[t] # {}
                   THEN MakeRoom(s, t) ELSE s, i, t, c)

Update(s, i, t, c) ==
    IF Capacity[t] = 0 THEN s
    ELSE AddRecord(IF IsFullAndCapacityNotZero(s, t) THEN MakeRoom(s, t) ELSE s, i, t, c)

(***************************************************************************)
(* Selecting, writing, confirming, giving up.                              *)
(***************************************************************************)
Select(s, S) == [s EXCEPT !.events = WithState(s, S, "selected"),
                          !.selected = @ + Cardinality(S)]

SelectByClass(s, cs, max) ==
    Select(s, FirstOf({i \in InState(s, "unselected") : s.events[i].class \in cs}, max))

SelectByType(s, t, v, max) ==
    LET chosen == FirstOf({i \in DOMAIN s.typed[t] : s.events[i].state = "unselected"}, max)
    IN  [Select(s, chosen) EXCEPT
            !.typed[t] = [i \in DOMAIN @ |-> IF i \in chosen THEN v ELSE @[i]]]

\* The events that Load adds to a fragment with room for n.
Loaded(s, n) == FirstOf(InState(s, "selected"), n)

\* Variant: the newest of the selected events are written first.
LoadNewest(s, n) ==
    LET S == {i \in InState(s, "selected") :
                 Cardinality({j \in InState(s, "selected") : j >= i}) <= n}
    IN  [s EXCEPT !.events = WithState(s, S, "written"),
                  !.selected = @ - Cardinality(S),
                  !.written = [c \in Classes |-> @[c] + Cardinality(OfClass(s, S, c))]]

Load(s, n) ==
    LET S == Loaded(s, n)
    IN  [s EXCEPT !.events = WithState(s, S, "written"),
                  !.selected = @ - Cardinality(S),
                  !.written = [c \in Classes |-> @[c] + Cardinality(OfClass(s, S, c))]]

\* Variant: the records leave the common list only.
ClearWrittenRecords(s) ==
    LET S == InState(s, "written")
        left(counts) == [c \in Classes |-> counts[c] - Cardinality(OfClass(s, S, c))]
    IN  [s EXCEPT !.events = Restrict(s.events, Events(s) \ S),
                  !.total = left(@),
                  !.written = left(@)]

ClearWritten(s) ==
    LET S == InState(s, "written")
        left(counts) == [c \in Classes |-> counts[c] - Cardinality(OfClass(s, S, c))]
    IN  [s EXCEPT !.events = Restrict(s.events, Events(s) \ S),
                  !.typed = [t \in Types |-> Restrict(@[t], DOMAIN @[t] \ S)],
                  !.total = left(@),
                  !.written = left(@)]

Unselect(s) == [s EXCEPT !.events = WithState(s, Events(s), "unselected"),
                         !.selected = 0,
                         !.written = [c \in Classes |-> 0]]

\* EventBuffer::IsOverflown, which forgets a loss once no list is full.
IsOverflown(s) == [s EXCEPT !.overflow = @ /\ IsAnyTypeFull(s)]

(***************************************************************************)
(* What a store keeps to, whoever uses it; n events have happened.         *)
(***************************************************************************)
Stores(n) ==
    LET Lists(V) == UNION {[D -> V] : D \in SUBSET (1 .. n)}
    IN  [events   : Lists(Records),
         typed    : [Types -> Lists(Variations)],
         total    : [Classes -> Nat],
         written  : [Classes -> Nat],
         selected : Nat,
         overflow : BOOLEAN]

\* Each event is in the list of its type, and no list has too many.
ListsMatch(s) ==
    \A t \in Types :
        /\ DOMAIN s.typed[t] = {i \in Events(s) : s.events[i].type = t}
        /\ Cardinality(DOMAIN s.typed[t]) <= Capacity[t]

\* The counters are the numbers they stand for.
CountsMatch(s) ==
    /\ s.selected = Cardinality(InState(s, "selected"))
    /\ \A c \in Classes :
        /\ s.total[c] = Cardinality(OfClass(s, Events(s), c))
        /\ s.written[c] = Cardinality(OfClass(s, InState(s, "written"), c))

Rank(st) == CASE st = "unselected" -> 0 [] st = "selected" -> 1 [] OTHER -> 2

\* Of two events of one type and class the older is never behind.
InOrder(s) ==
    \A i, j \in Events(s) :
        /\ i < j
        /\ s.events[i].type = s.events[j].type
        /\ s.events[i].class = s.events[j].class
        => Rank(s.events[i].state) >= Rank(s.events[j].state)
=============================================================================

---------------------------- MODULE EventReport ----------------------------
(***************************************************************************)
(* What a store of events promises to the session that reports them.       *)
(* Pending events have a class; some of them have been reported.  The      *)
(* classes announced to the master are those of the events that have not   *)
(* been reported.  An event stops pending when it was reported and is      *)
(* confirmed, or when it is given up for a new one.                        *)
(***************************************************************************)
EXTENDS Integers

CONSTANTS
    Classes,   \* the event classes
    Numbers    \* the numbers events can have, in the order in which they happen

VARIABLES
    pending,    \* maps the number of each pending event to its class
    reported,   \* those of them that have been reported
    announced   \* the classes the master is told of

vars == <<pending, reported, announced>>

Announce == announced' = {pending'[i] : i \in DOMAIN pending' \ reported'}

Init == pending = <<>> /\ reported = {} /\ announced = {}

\* A new event, later than all others, for which one of them may be given up.
Happen(i, c, dropped) ==
    /\ \A j \in DOMAIN pending : j < i
    /\ dropped \subseteq DOMAIN pending
    /\ \A j, k \in dropped : j = k
    /\ pending' = [j \in (DOMAIN pending \ dropped) \cup {i} |-> IF j = i THEN c ELSE pending[j]]
    /\ reported' = reported \ dropped
    /\ Announce

Report(S) ==
    /\ S \subseteq DOMAIN pending \ reported
    /\ reported' = reported \cup S
    /\ UNCHANGED pending
    /\ Announce

Confirm ==
    /\ pending' = [i \in DOMAIN pending \ reported |-> pending[i]]
    /\ reported' = {}
    /\ Announce

GiveUp ==
    /\ reported' = {}
    /\ UNCHANGED pending
    /\ Announce

Next ==
    \/ \E i \in Numbers, c \in Classes, dropped \in SUBSET DOMAIN pending : Happen(i, c, dropped)
    \/ \E S \in SUBSET DOMAIN pending : Report(S)
    \/ Confirm
    \/ GiveUp

Spec == Init /\ [][Next]_vars
=============================================================================

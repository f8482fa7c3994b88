-------------------------- MODULE MCOutstationLive --------------------------
(***************************************************************************)
(* Small instances of OutstationLive for TLC.                              *)
(***************************************************************************)
EXTENDS OutstationLive

OneType == {"analog"}

OneClass == {1}

KeepTwo == [t \in OneType |-> 2]

OneVariation == {"plain"}

ReadOf(classes, static) ==
    [fn |-> "READ", classes |-> classes, static |-> static, broken |-> FALSE,
     control |-> "none"]

Write == [ReadOf({}, 0) EXCEPT !.fn = "WRITE"]

\* A READ of the events and a static point, and a request that is no READ.
Interrupting == {ReadOf({1}, 1), Write}

Unconfirmed == {"dont"}

====

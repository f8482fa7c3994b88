-------------------------------- MODULE Mirror -------------------------------
(***************************************************************************)
(* What the gateway promises the DNP3 master about a point: the value it   *)
(* is shown is one the Modbus register really had, or zero when there is   *)
(* none to show, and it never returns to an older value of the register    *)
(* after a newer one.                                                      *)
(***************************************************************************)
EXTENDS Integers, Sequences

CONSTANTS Points, Values

VARIABLES
    hist,    \* every value the register of a point has had
    shown    \* the value shown for a point and its position in hist

Init ==
    /\ hist \in [Points -> Seq(Values)]
    /\ \A p \in Points : Len(hist[p]) = 1
    /\ shown = [p \in Points |-> [value |-> 0, ver |-> 0]]

RegisterTakes(p, v) ==
    /\ hist' = [hist EXCEPT ![p] = Append(@, v)]
    /\ UNCHANGED shown

\* Position k may be the one already shown, which is then zeroed or restored.
Show(p, k) ==
    /\ k >= shown[p].ver
    /\ \E v \in {0} \cup {hist[p][i] : i \in {k} \ {0}} :
           shown' = [shown EXCEPT ![p] = [value |-> v, ver |-> k]]
    /\ UNCHANGED hist

Next ==
    \E p \in Points :
        \/ \E v \in Values : RegisterTakes(p, v)
        \/ \E k \in 0 .. Len(hist[p]) : Show(p, k)

Spec == Init /\ [][Next]_<<hist, shown>>

====

---------------------------- MODULE MCEventBuffer ----------------------------
(***************************************************************************)
(* Small instances of EventBuffer for TLC.                                 *)
(***************************************************************************)
EXTENDS EventBuffer

TwoTypes == {"binary", "analog"}

\* One list keeps two events, the other one.
TwoAndOne == [t \in TwoTypes |-> IF t = "binary" THEN 2 ELSE 1]

TwoClasses == {1, 2}

BothVariations == {"plain", "timed"}

OneOrMore == {1, 3}

====

---------------------------- MODULE MCLowerLayers ----------------------------
(***************************************************************************)
(* Small instances of LowerLayers for TLC.                                 *)
(***************************************************************************)
EXTENDS LowerLayers

\* A fragment of one segment and one of more segments than there are numbers.
OneOrThree == {1, 3}

====

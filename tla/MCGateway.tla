------------------------------ MODULE MCGateway ------------------------------
(***************************************************************************)
(* Small instances of Gateway for TLC.                                     *)
(***************************************************************************)
EXTENDS Gateway, TLC

CONSTANTS p1, p2

OnePoint == {p1}

TwoPoints == {p1, p2}

NoPoints == {}

Swap == Permutations(TwoPoints)

OnlyZero == {0}

Bits == {0, 1}

====

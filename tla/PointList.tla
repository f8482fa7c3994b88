------------------------------ MODULE PointList ------------------------------
(***************************************************************************)
(* What the configuration file promises its user: a list of points that    *)
(* grows at its end, loses the row it is told to lose, can be emptied, and *)
(* takes no second point for a DNP3 slot in use.  Starting the program     *)
(* changes nothing, except that a list of old examples is emptied.  A      *)
(* crash keeps at least a leading part of the list; the index of the last  *)
(* row kept may have lost digits, which makes it another index.            *)
(*                                                                         *)
(* What it does not promise: after a crash, or in a file edited by hand,   *)
(* the list may lack its end.  The next point submitted is then not added  *)
(* but blurs the end of the list: the last row may go, become another, or  *)
(* be followed by one that nobody submitted.                               *)
(***************************************************************************)
EXTENDS Integers, Sequences

CONSTANTS
    Points,       \* records with the fields name, kind and idx
    LegacyNames   \* the names of the old examples

VARIABLES
    pts,    \* the list
    up,     \* whether the program is running
    ended   \* whether the list has its end, so that a point can be added

\* The DNP3 database has one index space for binaries and one for analogs.
SameSlot(a, b) == a.kind = b.kind /\ a.idx = b.idx

\* All rows but the last are as they were, and at most one more follows.
Blurred(new) ==
    \E n \in {Len(pts), Len(pts) - 1} \cap Nat :
        \/ new = SubSeq(pts, 1, n)
        \/ \E p \in Points : new = Append(SubSeq(pts, 1, n), p)

Init == pts \in Seq(Points) /\ up = FALSE /\ ended \in BOOLEAN

Start ==
    /\ ~up /\ up' = TRUE
    /\ \/ UNCHANGED <<pts, ended>>
       \/ /\ \A i \in DOMAIN pts : pts[i].name \in LegacyNames
          /\ pts' = <<>> /\ ended' = TRUE

Add(p) ==
    /\ up /\ ended /\ UNCHANGED <<up, ended>>
    /\ \A i \in DOMAIN pts : ~SameSlot(pts[i], p)
    /\ pts' = Append(pts, p)

\* A point is submitted while the list lacks its end.
Blur ==
    /\ up /\ ~ended /\ UNCHANGED up
    /\ Blurred(pts')
    /\ ended' \in BOOLEAN

Remove(i) ==
    /\ up /\ UNCHANGED up /\ ended' = TRUE
    /\ pts' = SubSeq(pts, 1, i - 1) \o SubSeq(pts, i + 1, Len(pts))

Clear ==
    /\ up /\ UNCHANGED up /\ ended' = TRUE
    /\ pts' = <<>>

\* The first n rows are left, the last of them perhaps with another index.
Crash(n) ==
    /\ up /\ up' = FALSE /\ ended' \in BOOLEAN
    /\ \/ pts' = SubSeq(pts, 1, n)
       \/ ~ended /\ Blurred(pts')
       \/ n > 0 /\ \E p \in Points :
              /\ p.name = pts[n].name /\ p.kind = pts[n].kind
              /\ pts' = Append(SubSeq(pts, 1, n - 1), p)

Next ==
    \/ Start
    \/ \E p \in Points : Add(p)
    \/ Blur
    \/ \E i \in DOMAIN pts : Remove(i)
    \/ Clear
    \/ \E n \in 0 .. Len(pts) : Crash(n)

Spec == Init /\ [][Next]_<<pts, up, ended>>

====

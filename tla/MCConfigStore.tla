---------------------------- MODULE MCConfigStore ----------------------------
(***************************************************************************)
(* Small instances of ConfigStore for TLC.                                 *)
(***************************************************************************)
EXTENDS ConfigStore

CONSTANT b1

OneBrowser == {b1}

NoBrowser == {}

Point(n, k, i) == [form |-> "point", name |-> n, kind |-> k, idx |-> i]

File(lines) == [exists |-> TRUE, lines |-> lines, whole |-> TRUE]

NoFile == [exists |-> FALSE, lines |-> <<>>, whole |-> TRUE]

Legacy == {"example"}

SomeNames == {"", "a", "example"}

\* Two points for one slot, by way of the narrowing (4 = 1 mod 3); the second has
\* three digits (100 in base 2), which cut short are the indexes 2 and 1.
SomeForms == {Point("a", "analog", 1), Point("example", "analog", 4)}

FewForms == {Point("a", "analog", 1), Point("a", "analog", 2)}

\* The last index a uint16_t can hold.
LastIndex == {Point("a", "analog", 3)}

\* No file; the examples of an old release; a file kept by hand, with a line that
\* is no point and a binary, the last line with and without its newline.
SomeDisks ==
    {NoFile, File(<<Comment, Point("example", "analog", 0)>>)}
    \cup {[File(<<Bad, Point("a", "binary", 1)>>) EXCEPT !.whole = w] : w \in BOOLEAN}

CleanDisk == {File(<<Comment>>)}

UnendedDisk == {[File(<<Point("a", "binary", 1)>>) EXCEPT !.whole = FALSE]}

====

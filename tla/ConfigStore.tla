----------------------------- MODULE ConfigStore -----------------------------
(***************************************************************************)
(* The configuration file points_config.csv, from the first boot on: how a *)
(* boot reads it and builds the DNP3 database, how the web panel appends,  *)
(* removes and clears points, and what is left of it when the process dies *)
(* while writing.  The panel has one thread, so its requests never         *)
(* overlap; the pages that browsers keep open do go stale.                 *)
(*                                                                         *)
(* A line is abstracted to what the parser makes of it.  A point keeps the *)
(* name, the kind of its DNP3 object and the index as written, which the   *)
(* parser narrows to uint16_t.                                             *)
(*                                                                         *)
(* Definitions marked "Variant" are wrong on purpose and part of no        *)
(* behaviour: each is a slip the code could have had, kept to show which   *)
(* property would notice it.                                               *)
(***************************************************************************)
EXTENDS Integers, Sequences, SequencesExt

CONSTANTS
    Names,         \* descriptions of points, "" for lines without one
    Forms,         \* the point lines a user may submit
    StartDisks,    \* the files the first boot may find
    LegacyNames,   \* the names of the example points of an old release
    Browsers,      \* pages kept open
    IndexMod,      \* 2^16: indexes are uint16_t
    Radix,         \* 10: the base in which indexes are written
    MaxLines       \* bound: the panel adds no point to a longer file

ASSUME SizesAssumption ==
    IndexMod \in Nat \ {0} /\ Radix \in Nat \ {0, 1} /\ MaxLines \in Nat

VARIABLES
    disk,      \* the file: whether it exists, its lines, whether the last one ends
    phase,     \* what the program is doing
    profile,   \* g_profile.read_points
    index,     \* the uint16_t loop variable of ConfigureDatabase
    slots,     \* what ConfigureDatabase has created so far
    page,      \* the rows on each open page
    saving,    \* the write in progress: the lines it leads to, what follows
    torn       \* history: the file began with a clash, a write was cut short, or one
               \* continued a line that had no newline

vars == <<disk, phase, profile, index, slots, page, saving, torn>>

(***************************************************************************)
(* Lines and what the parser makes of them.                                *)
(***************************************************************************)
Kinds == {"analog", "binary"}

Comment == [form |-> "comment", name |-> "", kind |-> "analog", idx |-> 0]

Bad == [form |-> "bad", name |-> "", kind |-> "analog", idx |-> 0]

\* The line l with too few fields, or a field that does not convert.
NoPoint(l) == [l EXCEPT !.form = "bad", !.idx = 0]

\* TryBuildReadPointFromCsvLine accepts the line.
IsPoint(l) == l.form = "point"

\* Variant: the index is not narrowed.
ReadPointWide(l) == [name |-> l.name, kind |-> l.kind, idx |-> l.idx]

ReadPoint(l) == [name |-> l.name, kind |-> l.kind, idx |-> l.idx % IndexMod]

\* LoadConfiguredPointsFromCsvForUi, and the reading loop of a boot: the points read
\* after k lines.
Configured(lines) ==
    LET points[k \in 0 .. Len(lines)] ==
            IF k = 0 THEN <<>>
            ELSE IF IsPoint(lines[k]) THEN Append(points[k - 1], ReadPoint(lines[k]))
            ELSE points[k - 1]
    IN  points[Len(lines)]

OnlyLegacyExamples(lines) ==
    LET rows == {i \in DOMAIN lines : lines[i].form # "comment"}
    IN  rows # {} /\ \A i \in rows : lines[i].name \in LegacyNames

SameSlot(a, b) == a.kind = b.kind /\ a.idx = b.idx

SlotsDistinct(pts) ==
    \A i, j \in DOMAIN pts : SameSlot(pts[i], pts[j]) => i = j

\* What SaveProfileReadPointsToCsv writes: the heading, then one line per point.
Saved(pts) ==
    <<Comment>> \o [i \in DOMAIN pts |-> [form |-> "point", name |-> pts[i].name,
                                          kind |-> pts[i].kind, idx |-> pts[i].idx]]

\* What is appended begins a line of its own.
Ended(d) == d.whole \/ d.lines = <<>>

\* What a last line m without its newline may be read as once l has been written
\* behind it.  A comment stays one.  The eighth field of a point goes on with the
\* name of l: digits there make it another index, after the narrowing any other, or
\* a number too large for stoi.  A line that ends in its name takes the other fields
\* from l; one that ends later becomes a point if its register has been read and its
\* type and index can be read from the name or the address of l.
Joined(m, l) ==
    LET Indexed == {[m EXCEPT !.form = "point", !.idx = i] : i \in 0 .. IndexMod - 1}
    IN  CASE m.form = "comment" -> {m}
          [] m.form = "point" -> {m, NoPoint(m)} \cup Indexed
          [] m.form = "bad" -> {m} \cup Indexed
                               \cup {[l EXCEPT !.name = n] : n \in IF m.name = "" THEN Names ELSE {}}

\* The lines the file may have once l has been appended.
Appended(d, l) ==
    IF Ended(d) THEN {Append(d.lines, l)}
    ELSE {Append(Front(d.lines), j) : j \in Joined(Last(d.lines), l)}

\* What can be on disk when the process dies in the middle of a write: some
\* whole lines, the last one perhaps without its newline, or a piece of the next
\* one, in which a point has lost fields or only digits of its index, at most four.
Pieces(l) ==
    LET Powers == {Radix, Radix * Radix, Radix * Radix * Radix,
                   Radix * Radix * Radix * Radix}
    IN  IF IsPoint(l)
        THEN {Bad, NoPoint(l)}
             \cup {[l EXCEPT !.idx = @ \div d] : d \in {p \in Powers : l.idx >= p}}
        ELSE {l}

CutLines(d, s) ==
    LET Whole(k, w) == [exists |-> TRUE, lines |-> SubSeq(s.lines, 1, k), whole |-> w]
        Piece(k, l) == [exists |-> TRUE, lines |-> Append(SubSeq(s.lines, 1, k), l),
                        whole |-> FALSE]
    IN  {Whole(k, w) : k \in Len(d.lines) .. Len(s.lines), w \in BOOLEAN}
        \cup UNION {{Piece(k, l) : l \in Pieces(s.lines[k + 1])} :
                       k \in Len(d.lines) .. Len(s.lines) - 1}

\* The write s continues the last line of d: no line is added.  Some of the new text
\* may be behind that line when the write is cut short.
Continues(d, s) == d.lines # <<>> /\ Len(s.lines) = Len(d.lines)

Begun(d, s) == IF Continues(d, s) THEN {Last(s.lines)} \cup Pieces(Last(s.lines)) ELSE {}

CutJoins(d, s) ==
    LET Ending(j) == [exists |-> TRUE, lines |-> Append(Front(s.lines), j), whole |-> FALSE]
    IN  UNION {{Ending(j) : j \in Joined(Last(d.lines), l)} : l \in Begun(d, s)}

CutShort(d, s) == CutLines(d, s) \cup CutJoins(d, s)

(***************************************************************************)
(* Types and the initial states.                                           *)
(***************************************************************************)
NoWrite == [lines |-> <<>>, next |-> "serving"]

NoRows == [b \in Browsers |-> <<>>]

Lines == [form : {"comment", "bad", "point"}, name : Names, kind : Kinds, idx : Nat]

Disks == [exists : BOOLEAN, lines : Seq(Lines), whole : BOOLEAN]

\* A line that is submitted has passed the parser, and a file that does not exist
\* has no lines.
ASSUME LinesAssumption ==
    /\ "" \in Names
    /\ \A l \in Forms : l \in Lines /\ IsPoint(l)
    /\ \A d \in StartDisks : d \in Disks /\ (d.exists \/ d.lines = <<>>)

ReadPoints == [name : Names, kind : Kinds, idx : 0 .. IndexMod - 1]

TypeOK ==
    /\ disk \in Disks
    /\ phase \in {"down", "analog", "binary", "serving", "saving"}
    /\ profile \in Seq(ReadPoints)
    /\ index \in 0 .. IndexMod - 1
    /\ slots \subseteq {"input", "output"} \X Kinds \X (0 .. IndexMod - 1)
    /\ page \in [Browsers -> Seq(ReadPoints)]
    /\ saving \in [lines : Seq(Lines), next : {"analog", "serving"}]
    /\ torn \in BOOLEAN

Init ==
    /\ disk \in StartDisks
    /\ phase = "down"
    /\ profile = <<>>
    /\ index = 0
    /\ slots = {}
    /\ page = NoRows
    /\ saving = NoWrite
    /\ torn = ~SlotsDistinct(Configured(disk.lines))

(***************************************************************************)
(* Writing.  Opening the file may fail, and the callers go on without the  *)
(* write; opening it to truncate empties it before anything is written.    *)
(***************************************************************************)
OpenFails(next) ==
    /\ phase' = next
    /\ UNCHANGED <<disk, saving>>

Truncate(pts, next) ==
    /\ disk' = [exists |-> TRUE, lines |-> <<>>, whole |-> TRUE]
    /\ saving' = [lines |-> Saved(pts), next |-> next]
    /\ phase' = "saving"

FinishSave ==
    /\ phase = "saving"
    /\ disk' = [exists |-> TRUE, lines |-> saving.lines, whole |-> TRUE]
    /\ phase' = saving.next
    /\ saving' = NoWrite
    /\ UNCHANGED <<profile, index, slots, page, torn>>

(***************************************************************************)
(* Booting: BuildConfigFileProfile, then ConfigureDatabase.                *)
(***************************************************************************)
\* No file, or only the examples of an old release: start with an empty file.
BootEmpty ==
    /\ phase = "down"
    /\ ~disk.exists \/ OnlyLegacyExamples(disk.lines)
    /\ profile' = <<>>
    /\ Truncate(<<>>, "analog") \/ OpenFails("analog")
    /\ UNCHANGED <<index, slots, page, torn>>

BootFromFile ==
    /\ phase = "down"
    /\ disk.exists /\ ~OnlyLegacyExamples(disk.lines)
    /\ profile' = Configured(disk.lines)
    /\ phase' = "analog"
    /\ UNCHANGED <<disk, index, slots, page, saving, torn>>

IndexesOf(kind) == {profile[i].idx : i \in {j \in DOMAIN profile : profile[j].kind = kind}}

\* Variant: the loop stops one short.
InLoopShort(kind) == \E n \in IndexesOf(kind) : index < n

InLoop(kind) == \E n \in IndexesOf(kind) : index <= n

\* Variant: a narrower loop variable.
CreateSlotNarrow(kind) ==
    /\ phase = kind
    /\ InLoop(kind)
    /\ slots' = slots \cup {<<"input", kind, index>>, <<"output", kind, index>>}
    /\ index' = (index + 1) % (IndexMod \div 2)
    /\ UNCHANGED <<disk, phase, profile, page, saving, torn>>

\* One turn of "for (uint16_t index = 0; index <= max; ++index)".
CreateSlot(kind) ==
    /\ phase = kind
    /\ InLoop(kind)
    /\ slots' = slots \cup {<<"input", kind, index>>, <<"output", kind, index>>}
    /\ index' = (index + 1) % IndexMod
    /\ UNCHANGED <<disk, phase, profile, page, saving, torn>>

AnalogsCreated ==
    /\ phase = "analog" /\ ~InLoop("analog")
    /\ phase' = "binary"
    /\ index' = 0
    /\ UNCHANGED <<disk, profile, slots, page, saving, torn>>

\* The last loop configures, and would create, the input of every point.
BinariesCreated ==
    /\ phase = "binary" /\ ~InLoop("binary")
    /\ slots' = slots \cup {<<"input", profile[i].kind, profile[i].idx>> : i \in DOMAIN profile}
    /\ phase' = "serving"
    /\ index' = 0
    /\ UNCHANGED <<disk, profile, page, saving, torn>>

ConfigureDatabase == CreateSlot("analog") \/ AnalogsCreated
                     \/ CreateSlot("binary") \/ BinariesCreated

(***************************************************************************)
(* Requests to the panel.                                                  *)
(***************************************************************************)
ViewPage(b) ==
    /\ phase = "serving"
    /\ page' = [page EXCEPT ![b] = Configured(disk.lines)]
    /\ UNCHANGED <<disk, phase, profile, index, slots, saving, torn>>

\* Variant: only a repetition of the same point is refused.
ClashesIfSame(p) == \E i \in DOMAIN Configured(disk.lines) : Configured(disk.lines)[i] = p

Clashes(p) == \E i \in DOMAIN Configured(disk.lines) : SameSlot(Configured(disk.lines)[i], p)

\* AppendPointToConfigFileFromLine.  A point that is in the file already has its
\* slot taken as well, so both refusals are the same test.
AddPoint(l) ==
    /\ phase = "serving"
    /\ Len(disk.lines) < MaxLines
    /\ ~Clashes(ReadPoint(l))
    /\ \/ OpenFails("serving") /\ UNCHANGED torn
       \/ /\ \E lines \in Appended(disk, l) : saving' = [lines |-> lines, next |-> "serving"]
          /\ phase' = "saving"
          /\ torn' = (torn \/ ~Ended(disk))
          /\ UNCHANGED disk
    /\ UNCHANGED <<profile, index, slots, page>>

\* Variants: the copy stops at the row instead of skipping it, and rows counted
\* from 0 by one side and from 1 by the other.
DeletePointAndRest(i) ==
    /\ phase = "serving"
    /\ i \in DOMAIN Configured(disk.lines)
    /\ Truncate(SubSeq(Configured(disk.lines), 1, i - 1), "serving") \/ OpenFails("serving")
    /\ UNCHANGED <<profile, index, slots, page, torn>>

DeletePointNext(i) ==
    /\ phase = "serving"
    /\ i + 1 \in DOMAIN Configured(disk.lines)
    /\ Truncate(RemoveAt(Configured(disk.lines), i + 1), "serving") \/ OpenFails("serving")
    /\ UNCHANGED <<profile, index, slots, page, torn>>

\* /deletepoint?idx=...: the link in row i of any page ever shown.  A number past
\* the list is refused.
DeletePoint(i) ==
    /\ phase = "serving"
    /\ i \in DOMAIN Configured(disk.lines)
    /\ Truncate(RemoveAt(Configured(disk.lines), i), "serving") \/ OpenFails("serving")
    /\ UNCHANGED <<profile, index, slots, page, torn>>

ClearPoints ==
    /\ phase = "serving"
    /\ Truncate(<<>>, "serving") \/ OpenFails("serving")
    /\ UNCHANGED <<profile, index, slots, page, torn>>

(***************************************************************************)
(* The process ends, in an orderly way or not; open pages stay open.       *)
(***************************************************************************)
Stop ==
    /\ phase # "down"
    /\ IF phase = "saving"
       THEN /\ disk' \in CutShort(disk, saving)
            /\ torn' = TRUE
       ELSE UNCHANGED <<disk, torn>>
    /\ phase' = "down"
    /\ profile' = <<>>
    /\ index' = 0
    /\ slots' = {}
    /\ saving' = NoWrite
    /\ UNCHANGED page

Next ==
    \/ BootEmpty \/ BootFromFile \/ ConfigureDatabase
    \/ \E b \in Browsers : ViewPage(b)
    \/ \E l \in Forms : AddPoint(l)
    \/ \E i \in 1 .. MaxLines : DeletePoint(i)
    \/ ClearPoints \/ FinishSave \/ Stop

Spec == Init /\ [][Next]_vars

\* A boot that is not interrupted goes on: nothing in it waits for anybody.
FairSpec == Spec /\ WF_vars(ConfigureDatabase) /\ WF_vars(FinishSave)

(***************************************************************************)
(* Properties.                                                             *)
(***************************************************************************)
\* The points of the file, counting a write that is under way as done.
CurrentList == Configured(IF phase = "saving" THEN saving.lines ELSE disk.lines)

\* Whether the next point gets a line of its own: not while a write continues a line.
CurrentEnded == IF phase = "saving" THEN ~Continues(disk, saving) ELSE Ended(disk)

\* AppendPointToConfigFileFromLine compares indexes as the parser narrows them,
\* and every rewrite writes them narrowed: as long as no write is cut short and
\* none continues a line left without its newline (which changes the index of that
\* line's point after the comparison), no two points of the file ever share a DNP3
\* slot, also after reboots.
SlotsStayDistinct == ~torn => SlotsDistinct(CurrentList)

\* When the threads start, every point they publish has its input in the DNP3
\* database and, beside it, the output status that announces its commands.
ProfileHasSlots ==
    phase = "serving" =>
        \A i \in DOMAIN profile :
            {<<"input", profile[i].kind, profile[i].idx>>,
             <<"output", profile[i].kind, profile[i].idx>>} \subseteq slots

\* Whatever boots, requests, failures to open and crashes do, the file behaves
\* as the list of PointList.
List == INSTANCE PointList
            WITH Points <- ReadPoints, pts <- CurrentList, up <- phase # "down",
                 ended <- CurrentEnded

FileIsAList == List!Spec

\* A boot reaches the point where points are polled, unless it is stopped.
BootCompletes == phase = "analog" ~> phase \in {"serving", "down"}

\* A boot that reads no point with the last index reaches it: the uint16_t loop
\* variable of ConfigureDatabase passes every other largest index.
BootCompletesBelowLast ==
    phase = "analog" /\ (\A i \in DOMAIN profile : profile[i].idx < IndexMod - 1)
        ~> phase \in {"serving", "down"}

\* "Ponto salvo ... Ele já aparece na lista": a point reported as saved is on
\* the list the next page shows.
SavedPointIsListed ==
    [][\A l \in Forms : AddPoint(l) /\ phase' = "saving" =>
           \E i \in DOMAIN CurrentList' : CurrentList'[i] = ReadPoint(l)]_vars

\* The link in row i of page b takes out of the file the point the page shows in
\* that row, and no other.
RemovesShownRow(b, i) ==
    DeletePoint(i) /\ phase' = "saving" /\ i \in DOMAIN page[b] =>
        ToSet(CurrentList) \ ToSet(CurrentList') = {page[b][i]}

\* RemovePointFromConfigFileByIndex counts the points of the file as the page
\* does, skipping comments and lines that are no points: the links of a page
\* that shows the file as it is remove what they show.
FreshLinkRemovesItsRow ==
    [][\A b \in Browsers, i \in 1 .. MaxLines :
           page[b] = CurrentList /\ ~torn => RemovesShownRow(b, i)]_vars

\* "Remover este ponto": the link of a row removes the point shown in it,
\* whenever it is followed.
LinkRemovesItsRow ==
    [][\A b \in Browsers, i \in 1 .. MaxLines : RemovesShownRow(b, i)]_vars

====

---------------------------- MODULE MCOutstation ----------------------------
(***************************************************************************)
(* Small instances of Outstation for TLC.                                  *)
(***************************************************************************)
EXTENDS Outstation

Plain(fn) == [fn |-> fn, classes |-> {}, static |-> 0, broken |-> FALSE, control |-> "none"]

ReadOf(classes, static) == [Plain("READ") EXCEPT !.classes = classes, !.static = static]

Command(fn, control) == [Plain(fn) EXCEPT !.control = control]

OneType == {"analog"}

OneClass == {1}

KeepTwo == [t \in OneType |-> 2]

OneVariation == {"plain"}

\* Every way in which a request is handled other than a command that is answered; the
\* READ asks for the events and for one static point, and two fragments answer it.
Everything ==
    {ReadOf({1}, 1), [ReadOf({1}, 1) EXCEPT !.broken = TRUE],
     [Plain("DISABLE") EXCEPT !.classes = {1}], [Plain("ENABLE") EXCEPT !.classes = {1}],
     Plain("DIRECT_OPERATE_NR"), Plain("MALFORMED")}

\* Commands, and between them a READ that two fragments answer.
Commanding == {Command("SELECT", "a"), Command("OPERATE", "a"), Command("OPERATE", "b"),
               Command("DIRECT_OPERATE", "a"), ReadOf({}, 2)}

Unconfirmed == {"dont"}

Confirmed == {"shall"}

====

-------------------------- MODULE OutstationProofs --------------------------
(***************************************************************************)
(* Proofs about the session of an outstation, for any requests, classes,   *)
(* capacities, fragment size, sequence numbers and parameters.  A handler  *)
(* is a function from a session to the next, so the lemmas say of each     *)
(* handler what it makes of a sound session; the actions compose them.     *)
(***************************************************************************)
EXTENDS Outstation, EventListsProofs

Controls == {"none"} \cup {r.control : r \in Requests}

Remembered == Messages \cup {NoMessage}

SessionStates == {"Idle", "SolWait", "UnsolWait", "NullWait"}

Addresses == Broadcasts \cup {"none"}

EventSets(n) == SUBSET (1 .. n)

Masks == SUBSET Classes

\* The sessions after n events.
Sessions(n) ==
    [online : BOOLEAN, transmitting : BOOLEAN,
     state : SessionStates, timer : BOOLEAN,
     seq : SeqNums, confirmNum : SeqNums, sent : EventSets(n),
     unum : SeqNums, uconfirmNum : SeqNums, usent : EventSets(n),
     completedNull : BOOLEAN, retries : Nat,
     history : Remembered, deferred : Remembered,
     store : Stores(n), static : Nat,
     selected : BOOLEAN, expectedSeq : SeqNums, selectedFor : Controls, inTime : BOOLEAN,
     broadcast : Addresses, mask : Masks, shouldCheck : BOOLEAN,
     clash : BOOLEAN, done : Remembered, forgotten : BOOLEAN, twice : BOOLEAN]

Sound(c, n) == c \in Sessions(n) /\ Good(c.store, n)

Written(c) == InState(c.store, "written")

(***************************************************************************)
(* What a handler leaves alone.                                            *)
(***************************************************************************)
SameWire(c, d) ==
    d.online = c.online /\ d.transmitting = c.transmitting /\ d.clash = c.clash

SameWait(c, d) ==
    /\ d.state = c.state /\ d.timer = c.timer /\ d.completedNull = c.completedNull
    /\ d.sent = c.sent /\ d.usent = c.usent

\* What is remembered of requests.
SameRequest(c, d) ==
    /\ d.seq = c.seq /\ d.history = c.history /\ d.done = c.done
    /\ d.forgotten = c.forgotten

SameEvents(c, d) ==
    Events(d.store) = Events(c.store) /\ Written(d) = Written(c)

\* d is c with one fragment handed to the transport layer.
Transmits(c, d) ==
    d.online = c.online /\ d.transmitting /\ d.clash = (c.clash \/ c.transmitting)

NoShall == "shall" \notin Broadcasts

(***************************************************************************)
(* Messages and numbers.                                                   *)
(***************************************************************************)
LEMMA NumberFacts ==
    /\ 0 \in SeqNums
    /\ \A k \in SeqNums : Next16(k) \in SeqNums
BY SessionAssumption DEF SessionAssumption, SeqNums, Next16

LEMMA MessageFacts ==
    ASSUME NEW m \in Messages
    PROVE  /\ m.seq \in SeqNums /\ m.uns \in BOOLEAN
           /\ m.req.classes \in SUBSET Classes /\ m.req.static \in Nat
           /\ m.req.broken \in BOOLEAN /\ m.req.control \in Controls
           /\ m \in Remembered
<1>1. CASE \E r \in Requests, k \in SeqNums : m = Numbered(r, k)
  <2>1. PICK r \in Requests, k \in SeqNums : m = Numbered(r, k)
    BY <1>1
  <2>2. m.req = r /\ m.seq = k /\ m.uns = FALSE
    BY <2>1 DEF Numbered
  <2>3. /\ r.classes \in SUBSET Classes /\ r.static \in Nat /\ r.broken \in BOOLEAN
        /\ r.control \in Controls
    BY RequestsAssumption DEF RequestsAssumption, Controls
  <2> QED
    BY <2>2, <2>3 DEF Remembered
<1>2. CASE \E k \in SeqNums, u \in BOOLEAN : m = Confirmation(k, u)
  <2>1. PICK k \in SeqNums, u \in BOOLEAN : m = Confirmation(k, u)
    BY <1>2
  <2>2. m.req = ConfirmObjects /\ m.seq = k
    BY <2>1 DEF Confirmation
  <2>3. ConfirmObjects.classes \in SUBSET Classes /\ ConfirmObjects.static \in Nat
    BY DEF ConfirmObjects
  <2>4. ConfirmObjects.broken \in BOOLEAN
    BY DEF ConfirmObjects
  <2>5. ConfirmObjects.control \in Controls
    BY DEF ConfirmObjects, Controls
  <2>6. m.uns \in BOOLEAN
    BY <2>1 DEF Confirmation
  <2> QED
    BY <2>2, <2>3, <2>4, <2>5, <2>6, Zenon DEF Remembered
<1> QED
  BY <1>1, <1>2 DEF Messages

LEMMA NoMessageFacts ==
    /\ NoMessage \in Remembered /\ NoMessage.seq = 0
    /\ Fn(NoMessage) = "none"
BY DEF NoMessage, Remembered, ConfirmObjects, Fn

LEMMA MessageIsNotNone ==
    ASSUME NEW m \in Messages
    PROVE  m # NoMessage
<1>1. CASE \E r \in Requests, k \in SeqNums : m = Numbered(r, k)
  BY <1>1, RequestsAssumption, NoMessageFacts DEF RequestsAssumption, Numbered, Fn
<1>2. CASE \E k \in SeqNums, u \in BOOLEAN : m = Confirmation(k, u)
  BY <1>2, NoMessageFacts DEF Confirmation, ConfirmObjects, Fn
<1> QED
  BY <1>1, <1>2 DEF Messages

(***************************************************************************)
(* Transmitting.                                                           *)
(***************************************************************************)
LEMMA BeginTxFacts ==
    ASSUME NEW n \in Nat, NEW c, Sound(c, n)
    PROVE  /\ Sound(BeginTx(c), n)
           /\ Transmits(c, BeginTx(c)) /\ SameWait(c, BeginTx(c))
           /\ SameRequest(c, BeginTx(c)) /\ BeginTx(c).twice = c.twice
           /\ SameEvents(c, BeginTx(c)) /\ BeginTx(c).deferred = c.deferred
<1>1. c \in Sessions(n)
  BY DEF Sound
<1>2. BeginTx(c) = [c EXCEPT !.transmitting = TRUE, !.clash = c.clash \/ c.transmitting]
  BY DEF BeginTx
<1>3. BeginTx(c) \in Sessions(n) /\ BeginTx(c).store = c.store
  BY <1>1, <1>2 DEF Sessions
<1>4. /\ Transmits(c, BeginTx(c)) /\ SameWait(c, BeginTx(c))
      /\ SameRequest(c, BeginTx(c)) /\ BeginTx(c).twice = c.twice
      /\ BeginTx(c).deferred = c.deferred
  BY <1>1, <1>2 DEF Sessions, Transmits, SameWait, SameRequest
<1> QED
  BY <1>3, <1>4 DEF Sound, SameEvents, Written

LEMMA MarkedFacts ==
    ASSUME NEW n \in Nat, NEW c, Sound(c, n)
    PROVE  /\ Sound(Marked(c), n)
           /\ SameWire(c, Marked(c)) /\ SameWait(c, Marked(c))
           /\ SameRequest(c, Marked(c)) /\ Marked(c).twice = c.twice
           /\ SameEvents(c, Marked(c)) /\ Marked(c).deferred = c.deferred
<1> DEFINE store == IsOverflown(c.store)
           broadcast == IF c.broadcast = "shall" THEN c.broadcast ELSE "none"
<1>1. c \in Sessions(n) /\ Good(c.store, n)
  BY DEF Sound
<1>2. Marked(c) = [c EXCEPT !.store = store, !.broadcast = broadcast]
  BY DEF Marked
<1>3. /\ Good(store, n) /\ store \in Stores(n) /\ Events(store) = Events(c.store)
      /\ InState(store, "written") = InState(c.store, "written")
  <2>1. Good(store, n)
    BY <1>1, IsOverflownGood
  <2> QED
    BY <1>1, <2>1, IsOverflownGood DEF Good
<1>4. broadcast \in Addresses
  BY <1>1 DEF Sessions, Addresses
<1> HIDE DEF store, broadcast
<1>5. Marked(c) \in Sessions(n) /\ Marked(c).store = store
  BY <1>1, <1>2, <1>3, <1>4 DEF Sessions
<1>6. /\ SameWire(c, Marked(c)) /\ SameWait(c, Marked(c))
      /\ SameRequest(c, Marked(c)) /\ Marked(c).twice = c.twice
      /\ Marked(c).deferred = c.deferred
  BY <1>1, <1>2 DEF Sessions, SameWire, SameWait, SameRequest
<1> QED
  BY <1>3, <1>5, <1>6 DEF Sound, SameEvents, Written

\* d answers the request in hand with one fragment, which carries events.
Responds(c, d, n, events) ==
    /\ Sound(d, n) /\ Transmits(c, d)
    /\ SameRequest(c, d) /\ d.twice = c.twice
    /\ Events(d.store) = Events(c.store) /\ Written(d) = Written(c) \cup events
    /\ d.sent = events /\ d.usent = c.usent /\ d.completedNull = c.completedNull
    /\ d.state \in {"Idle", "SolWait"}
    /\ c.timer \/ d.state = "SolWait" => d.timer

LEMMA BeginResponseTxFacts ==
    ASSUME NEW n \in Nat, NEW c, Sound(c, n), NEW seq \in SeqNums, NEW con \in BOOLEAN,
           NEW events \in EventSets(n), events \subseteq Written(c)
    PROVE  /\ Responds(c, BeginResponseTx(c, seq, con, events), n, events)
           /\ NoShall => BeginResponseTx(c, seq, con, events).state = IF con THEN "SolWait" ELSE "Idle"
<1> DEFINE wait == con \/ c.broadcast = "shall"
           b == Marked(c)
           st == IF wait THEN "SolWait" ELSE "Idle"
           tm == b.timer \/ wait
           e == [b EXCEPT !.confirmNum = seq, !.sent = events, !.timer = tm, !.state = st]
           d == BeginResponseTx(c, seq, con, events)
<1>1. d = BeginTx(e)
  BY DEF BeginResponseTx
<1>2. /\ Sound(b, n) /\ SameWire(c, b) /\ SameWait(c, b) /\ SameRequest(c, b)
      /\ b.twice = c.twice /\ SameEvents(c, b)
  BY MarkedFacts
<1>3. /\ st \in {"Idle", "SolWait"} /\ st \in SessionStates
      /\ tm \in BOOLEAN /\ (c.timer \/ st = "SolWait" => tm)
  BY <1>2 DEF SessionStates, SameWait
<1>4. NoShall => st = IF con THEN "SolWait" ELSE "Idle"
  <2>1. c.broadcast \in Addresses
    BY DEF Sound, Sessions
  <2> QED
    BY <2>1 DEF NoShall, Addresses
<1> HIDE DEF b, st, tm, d
<1>5. /\ e \in Sessions(n) /\ e.store = b.store /\ e.sent = events /\ e.state = st
      /\ e.timer = tm /\ SameWire(b, e) /\ SameRequest(b, e) /\ e.twice = b.twice
      /\ e.usent = b.usent /\ e.completedNull = b.completedNull
  BY <1>2, <1>3 DEF Sound, Sessions, SameWire, SameRequest
<1> HIDE DEF e
<1>6. Sound(e, n)
  BY <1>2, <1>5 DEF Sound
<1>7. /\ Sound(d, n) /\ Transmits(e, d) /\ SameWait(e, d) /\ SameRequest(e, d)
      /\ d.twice = e.twice /\ SameEvents(e, d)
  BY <1>1, <1>6, BeginTxFacts
<1>8. Written(c) \cup events = Written(c)
  OBVIOUS
<1>9. Transmits(c, d)
  BY <1>2, <1>5, <1>7 DEF Transmits, SameWire
<1>10. SameRequest(c, d) /\ d.twice = c.twice
  BY <1>2, <1>5, <1>7 DEF SameRequest
<1>11. Events(d.store) = Events(c.store) /\ Written(d) = Written(c)
  BY <1>2, <1>5, <1>7 DEF SameEvents, Written
<1>12. /\ d.sent = events /\ d.usent = c.usent /\ d.completedNull = c.completedNull
       /\ d.state = st /\ d.timer = tm
  BY <1>2, <1>5, <1>7 DEF SameWait
<1> QED
  BY <1>3, <1>4, <1>7, <1>8, <1>9, <1>10, <1>11, <1>12 DEF Responds, d

LEMMA LoadResponseFacts ==
    ASSUME NEW n \in Nat, NEW c, Sound(c, n), NEW seq \in SeqNums
    PROVE  \E events \in EventSets(n) : Responds(c, LoadResponse(c, seq), n, events)
<1> DEFINE events == Loaded(c.store, FragmentRoom)
           store  == Load(c.store, FragmentRoom)
           room   == FragmentRoom - Cardinality(events)
           left   == IF HasAnySelection(store) THEN c.static
                     ELSE IF c.static > room THEN c.static - room ELSE 0
           fin    == ~HasAnySelection(store) /\ left = 0
           b == [c EXCEPT !.store = store, !.static = left]
           con == ~fin \/ events # {}
           d == LoadResponse(c, seq)
<1>1. d = BeginResponseTx(b, seq, con, events)
  BY DEF LoadResponse
<1>2. c \in Sessions(n) /\ Good(c.store, n) /\ FragmentRoom \in Nat
  BY SessionAssumption DEF Sound, SessionAssumption
<1>3. /\ Good(store, n) /\ Events(store) = Events(c.store)
      /\ events \in SUBSET InState(c.store, "selected")
      /\ InState(store, "written") = InState(c.store, "written") \cup events
  BY <1>2, LoadGood
<1>4. store \in Stores(n)
  BY <1>3 DEF Good
<1>5. events \subseteq Events(c.store) /\ Events(c.store) \in SUBSET (1 .. n)
  BY <1>2, <1>3, StoreParts DEF Good, InState
<1>6. events \in EventSets(n)
  BY <1>5 DEF EventSets
<1>7. Cardinality(events) \in Nat
  <2>1. IsFiniteSet(events)
    BY <1>2, <1>5, StoreParts, FS_Subset DEF Good
  <2> QED
    BY <2>1, FS_CardinalityType
<1>8. left \in Nat
  <2>1. c.static \in Nat /\ room \in Int
    BY <1>2, <1>7 DEF Sessions
  <2> HIDE DEF room
  <2> QED
    BY <2>1
<1> HIDE DEF store, left, events, con
<1>9. /\ b \in Sessions(n) /\ b.store = store /\ SameWire(c, b) /\ SameWait(c, b)
      /\ SameRequest(c, b) /\ b.twice = c.twice
  BY <1>2, <1>4, <1>8 DEF Sessions, SameWire, SameWait, SameRequest
<1> HIDE DEF b
<1>10. Sound(b, n) /\ events \subseteq Written(b) /\ con \in BOOLEAN
  BY <1>3, <1>9 DEF Sound, Written, con
<1>11. Responds(b, d, n, events)
  BY <1>1, <1>6, <1>10, BeginResponseTxFacts
<1> HIDE DEF d
<1>12. Responds(c, d, n, events)
  <2>1. Transmits(c, d)
    BY <1>9, <1>11 DEF Transmits, SameWire, Responds
  <2>2. SameRequest(c, d) /\ d.twice = c.twice
    BY <1>9, <1>11 DEF SameRequest, Responds
  <2>3. Events(d.store) = Events(c.store) /\ Written(d) = Written(c) \cup events
    BY <1>3, <1>9, <1>11 DEF Written, Responds
  <2> QED
    BY <1>9, <1>11, <2>1, <2>2, <2>3 DEF Responds, SameWait
<1> QED
  BY <1>6, <1>12 DEF d

(***************************************************************************)
(* The function handlers.                                                  *)
(***************************************************************************)
\* d is c after the objects of m were handled, which only touches what is selected,
\* what is enabled, and which command was carried out last.
Tells(c, d, m) ==
    \/ d.done = c.done /\ d.forgotten = c.forgotten /\ d.twice = c.twice
    \/ Fn(m) \in Commands /\ d.done = m /\ (c.forgotten /\ ~c.twice => ~d.twice)

Handled(c, d, m, n) ==
    /\ Sound(d, n) /\ SameWire(c, d) /\ SameWait(c, d) /\ Tells(c, d, m)
    /\ d.seq = c.seq /\ d.history = c.history
    /\ d.store = c.store /\ d.deferred = c.deferred
    /\ d.broadcast = c.broadcast

LEMMA UnchangedIsHandled ==
    ASSUME NEW n \in Nat, NEW c, Sound(c, n), NEW m
    PROVE  Handled(c, c, m, n)
BY DEF Handled, SameWire, SameWait, Tells

LEMMA ExecutedFacts ==
    ASSUME NEW n \in Nat, NEW c, Sound(c, n), NEW m \in Messages
    PROVE  Handled(c, Executed(c, m), m, n)
<1> DEFINE d == Executed(c, m)
           again == c.twice \/ (m = c.done /\ ~c.forgotten)
<1>1. c \in Sessions(n) /\ Good(c.store, n) /\ m \in Remembered
  BY MessageFacts DEF Sound
<1>2. CASE Fn(m) \notin Commands \/ m.req.broken
  <2>1. d = [c EXCEPT !.shouldCheck = TRUE]
    BY <1>2 DEF Executed
  <2> HIDE DEF d
  <2>2. /\ d \in Sessions(n) /\ d.store = c.store /\ SameWire(c, d) /\ SameWait(c, d)
        /\ SameRequest(c, d) /\ d.twice = c.twice /\ d.deferred = c.deferred
        /\ d.broadcast = c.broadcast
    BY <1>1, <2>1 DEF Sessions, SameWire, SameWait, SameRequest
  <2> QED
    BY <1>1, <2>2 DEF Handled, Sound, SameRequest, Tells, d
<1>3. CASE ~(Fn(m) \notin Commands \/ m.req.broken)
  <2>1. d = [c EXCEPT !.shouldCheck = TRUE, !.done = m, !.forgotten = FALSE, !.twice = again]
    BY <1>3 DEF Executed
  <2>2. again \in BOOLEAN /\ (c.forgotten /\ ~c.twice => ~again)
    BY <1>1 DEF Sessions
  <2> HIDE DEF d, again
  <2>3. /\ d \in Sessions(n) /\ d.store = c.store /\ SameWire(c, d) /\ SameWait(c, d)
        /\ d.seq = c.seq /\ d.history = c.history /\ d.done = m /\ d.twice = again
        /\ d.deferred = c.deferred /\ d.broadcast = c.broadcast
    BY <1>1, <2>1, <2>2 DEF Sessions, SameWire, SameWait
  <2> QED
    BY <1>1, <1>3, <2>2, <2>3 DEF Handled, Sound, Tells, d
<1> QED
  BY <1>2, <1>3

LEMMA HandleSelectFacts ==
    ASSUME NEW n \in Nat, NEW c, Sound(c, n), NEW m \in Messages, NEW ok
    PROVE  Handled(c, HandleSelect(c, m, ok), m, n)
<1> DEFINE d == HandleSelect(c, m, ok)
<1>1. CASE m.req.broken \/ ~ok
  BY <1>1, UnchangedIsHandled DEF HandleSelect
<1>2. CASE ~(m.req.broken \/ ~ok)
  <2>1. d = [c EXCEPT !.selected = TRUE, !.expectedSeq = Next16(c.seq),
                      !.selectedFor = m.req.control, !.inTime = TRUE]
    BY <1>2 DEF HandleSelect
  <2>2. c \in Sessions(n) /\ Good(c.store, n)
    BY DEF Sound
  <2>3. Next16(c.seq) \in SeqNums /\ m.req.control \in Controls
    BY <2>2, NumberFacts, MessageFacts DEF Sessions
  <2> HIDE DEF d
  <2>4. /\ d \in Sessions(n) /\ d.store = c.store /\ SameWire(c, d) /\ SameWait(c, d)
        /\ SameRequest(c, d) /\ d.twice = c.twice /\ d.deferred = c.deferred
        /\ d.broadcast = c.broadcast
    BY <2>1, <2>2, <2>3 DEF Sessions, SameWire, SameWait, SameRequest
  <2> QED
    BY <2>2, <2>4 DEF Handled, Tells, SameRequest, Sound, d
<1> QED
  BY <1>1, <1>2

LEMMA HandleOperateFacts ==
    ASSUME NEW n \in Nat, NEW c, Sound(c, n), NEW m \in Messages
    PROVE  Handled(c, HandleOperate(c, m), m, n)
<1> DEFINE d == HandleOperate(c, m)
<1>1. CASE ValidateSelection(c, m)
  BY <1>1, ExecutedFacts DEF HandleOperate
<1>2. CASE ~ValidateSelection(c, m)
  <2>1. d = [c EXCEPT !.selected = FALSE]
    BY <1>2 DEF HandleOperate
  <2>2. c \in Sessions(n) /\ Good(c.store, n)
    BY DEF Sound
  <2> HIDE DEF d
  <2>3. /\ d \in Sessions(n) /\ d.store = c.store /\ SameWire(c, d) /\ SameWait(c, d)
        /\ SameRequest(c, d) /\ d.twice = c.twice /\ d.deferred = c.deferred
        /\ d.broadcast = c.broadcast
    BY <2>1, <2>2 DEF Sessions, SameWire, SameWait, SameRequest
  <2> QED
    BY <2>2, <2>3 DEF Handled, Tells, SameRequest, Sound, d
<1> QED
  BY <1>1, <1>2

\* ENABLE and DISABLE UNSOLICITED: another mask, and perhaps a look for events.
LEMMA MaskFacts ==
    ASSUME NEW n \in Nat, NEW c, Sound(c, n), NEW m, NEW mask \in Masks,
           NEW check \in BOOLEAN
    PROVE  Handled(c, [c EXCEPT !.mask = mask, !.shouldCheck = check], m, n)
<1> DEFINE d == [c EXCEPT !.mask = mask, !.shouldCheck = check]
<1>1. c \in Sessions(n) /\ Good(c.store, n)
  BY DEF Sound
<1>2. /\ d \in Sessions(n) /\ d.store = c.store /\ SameWire(c, d) /\ SameWait(c, d)
      /\ SameRequest(c, d) /\ d.twice = c.twice /\ d.deferred = c.deferred
      /\ d.broadcast = c.broadcast
  BY <1>1 DEF Sessions, SameWire, SameWait, SameRequest
<1> QED
  BY <1>1, <1>2 DEF Handled, Tells, SameRequest, Sound

LEMMA UnsolicitedMaskFacts ==
    ASSUME NEW n \in Nat, NEW c, Sound(c, n), NEW m \in Messages
    PROVE  /\ Handled(c, HandleDisableUnsolicited(c, m), m, n)
           /\ Handled(c, HandleEnableUnsolicited(c, m), m, n)
<1>1. c \in Sessions(n) /\ c.mask \in Masks /\ c.shouldCheck \in BOOLEAN
  BY DEF Sound, Sessions
<1>2. c.mask \ m.req.classes \in Masks /\ c.mask \cup m.req.classes \in Masks
  BY <1>1, MessageFacts DEF Masks
<1>3. CASE m.req.broken
  BY <1>3, UnchangedIsHandled DEF HandleDisableUnsolicited, HandleEnableUnsolicited
<1>4. CASE ~m.req.broken
  <2>1. HandleDisableUnsolicited(c, m)
          = [c EXCEPT !.mask = c.mask \ m.req.classes, !.shouldCheck = c.shouldCheck]
    BY <1>1, <1>4 DEF HandleDisableUnsolicited, Sessions
  <2>2. HandleEnableUnsolicited(c, m)
          = [c EXCEPT !.mask = c.mask \cup m.req.classes, !.shouldCheck = TRUE]
    BY <1>4 DEF HandleEnableUnsolicited
  <2>3. /\ Handled(c, [c EXCEPT !.mask = c.mask \ m.req.classes,
                               !.shouldCheck = c.shouldCheck], m, n)
        /\ Handled(c, [c EXCEPT !.mask = c.mask \cup m.req.classes,
                               !.shouldCheck = TRUE], m, n)
    BY <1>1, <1>2, MaskFacts
  <2> QED
    BY <2>1, <2>2, <2>3
<1> QED
  BY <1>3, <1>4

LEMMA HandleNonReadResponseFacts ==
    ASSUME NEW n \in Nat, NEW c, Sound(c, n), NEW m \in Messages, NEW ok
    PROVE  Handled(c, HandleNonReadResponse(c, m, ok), m, n)
BY HandleSelectFacts, HandleOperateFacts, ExecutedFacts, UnsolicitedMaskFacts,
   UnchangedIsHandled DEF HandleNonReadResponse

LEMMA ProcessBroadcastRequestFacts ==
    ASSUME NEW n \in Nat, NEW c, Sound(c, n), NEW m \in Messages
    PROVE  /\ Handled(c, ProcessBroadcastRequest(c, m), m, n)
           /\ SameRequest(c, ProcessBroadcastRequest(c, m))
           /\ ProcessBroadcastRequest(c, m).twice = c.twice
<1>1. Handled(c, ProcessBroadcastRequest(c, m), m, n)
  BY ExecutedFacts, UnsolicitedMaskFacts, UnchangedIsHandled DEF ProcessBroadcastRequest
<1>2. CASE Fn(m) \in Commands
  <2>1. ProcessBroadcastRequest(c, m) = c
    BY <1>2 DEF Commands, ProcessBroadcastRequest
  <2> QED
    BY <1>1, <2>1 DEF SameRequest
<1>3. CASE Fn(m) \notin Commands
  BY <1>1, <1>3 DEF Handled, Tells, SameRequest
<1> QED
  BY <1>1, <1>2, <1>3

(***************************************************************************)
(* What a session that waits has to show.                                  *)
(***************************************************************************)
\* A wait has its timer, and the request that started a solicited one was a READ or
\* is forgotten, so that no repeat of another request can stop the timer.
Timed(c) ==
    /\ c.state # "Idle" => c.timer
    /\ c.state = "SolWait" => c.history = NoMessage \/ Fn(c.history) = "READ"

\* What a confirmation will clear is what the awaited fragment carried.
Carried(c) ==
    /\ c.state = "SolWait" => Written(c) \subseteq c.sent
    /\ AwaitsUnsol(c) /\ c.completedNull => Written(c) \subseteq c.usent

Settled(c) == Timed(c) /\ Carried(c)

\* A command that was carried out, and not forgotten, is the request in the
\* history, so that it is known when it is received again.
Known(c) ==
    /\ ~c.twice
    /\ \/ c.done = NoMessage
       \/ c.forgotten
       \/ c.history = c.done /\ c.seq = c.done.seq

(***************************************************************************)
(* Responses.                                                              *)
(***************************************************************************)
LEMMA RespondToReadRequestFacts ==
    ASSUME NEW n \in Nat, NEW c, Sound(c, n), NEW m \in Messages, Fn(m) = "READ"
    PROVE  LET d == RespondToReadRequest(c, m)
           IN  /\ Sound(d, n) /\ Transmits(c, d)
               /\ d.history = m /\ d.seq = c.seq
               /\ d.done = c.done /\ d.forgotten = c.forgotten /\ d.twice = c.twice
               /\ Events(d.store) = Events(c.store)
               /\ Settled(d)
<1> DEFINE u == Unselect(c.store)
           a == [c EXCEPT !.history = m, !.store = u, !.static = 0]
           v == SelectByClass(u, m.req.classes, Cardinality(Events(u)))
           b == [a EXCEPT !.store = v, !.static = m.req.static]
           d == RespondToReadRequest(c, m)
           Prepared(x) ==
               /\ Sound(x, n) /\ SameWire(c, x) /\ x.history = m /\ x.seq = c.seq
               /\ x.done = c.done /\ x.forgotten = c.forgotten /\ x.twice = c.twice
               /\ Events(x.store) = Events(c.store) /\ Written(x) = {}
<1>1. d = IF m.req.broken THEN BeginResponseTx(a, m.seq, FALSE, {}) ELSE LoadResponse(b, m.seq)
  <2>1. a.store = u
    BY DEF Sound, Sessions
  <2> HIDE DEF u
  <2>2. [a EXCEPT !.store = SelectByClass(@, m.req.classes, Cardinality(Events(@))),
                  !.static = m.req.static] = b
    BY <2>1
  <2> QED
    BY <2>2 DEF RespondToReadRequest, u
<1>2. c \in Sessions(n) /\ Good(c.store, n)
  BY DEF Sound
<1>3. /\ m.seq \in SeqNums /\ m.req.static \in Nat /\ m \in Remembered
  BY MessageFacts
<1>4. Good(u, n) /\ Events(u) = Events(c.store) /\ InState(u, "written") = {}
  BY <1>2, UnselectGood
<1>5. /\ Good(v, n) /\ Events(v) = Events(c.store) /\ InState(v, "written") = {}
  <2>1. Cardinality(Events(u)) \in Nat
    BY <1>4, StoreParts, FS_CardinalityType DEF Good
  <2> QED
    BY <1>4, <2>1, SelectByClassGood
<1>6. u \in Stores(n) /\ v \in Stores(n)
  BY <1>4, <1>5 DEF Good
<1> HIDE DEF u, v, d
<1>7. Prepared(a)
  <2>1. /\ a \in Sessions(n) /\ a.store = u /\ SameWire(c, a) /\ a.history = m
        /\ a.seq = c.seq /\ a.done = c.done /\ a.forgotten = c.forgotten
        /\ a.twice = c.twice
    BY <1>2, <1>3, <1>6 DEF Sessions, SameWire
  <2> QED
    BY <1>4, <2>1 DEF Sound, Written
<1>8. Prepared(b)
  <2>1. /\ b \in Sessions(n) /\ b.store = v /\ SameWire(c, b) /\ b.history = m
        /\ b.seq = c.seq /\ b.done = c.done /\ b.forgotten = c.forgotten
        /\ b.twice = c.twice
    BY <1>2, <1>3, <1>6 DEF Sessions, SameWire
  <2> QED
    BY <1>5, <2>1 DEF Sound, Written
<1>9. ASSUME NEW x, Prepared(x), NEW events, Responds(x, d, n, events)
      PROVE  /\ Sound(d, n) /\ Transmits(c, d)
             /\ d.history = m /\ d.seq = c.seq
             /\ d.done = c.done /\ d.forgotten = c.forgotten /\ d.twice = c.twice
             /\ Events(d.store) = Events(c.store)
             /\ Settled(d)
  <2>1. Sound(d, n) /\ Events(d.store) = Events(c.store)
    BY <1>9 DEF Responds
  <2>2. Transmits(c, d)
    BY <1>9 DEF Responds, Transmits, SameWire
  <2>3. /\ d.history = m /\ d.seq = c.seq
        /\ d.done = c.done /\ d.forgotten = c.forgotten /\ d.twice = c.twice
    BY <1>9 DEF Responds, SameRequest
  <2>4. Written(d) = d.sent /\ d.state \in {"Idle", "SolWait"} /\ (d.state = "SolWait" => d.timer)
    BY <1>9 DEF Responds
  <2>5. Settled(d)
    BY <2>3, <2>4 DEF Settled, Timed, Carried, AwaitsUnsol
  <2> QED
    BY <2>1, <2>2, <2>3, <2>5
<1> HIDE DEF Prepared, a, b
<1>10. CASE m.req.broken
  <2>1. Sound(a, n) /\ {} \in EventSets(n)
    BY <1>7 DEF Prepared, EventSets
  <2>2. Responds(a, BeginResponseTx(a, m.seq, FALSE, {}), n, {})
    BY <1>3, <2>1, BeginResponseTxFacts
  <2>3. Responds(a, d, n, {})
    BY <1>1, <1>10, <2>2
  <2> QED
    BY <1>7, <1>9, <2>3 DEF d
<1>11. CASE ~m.req.broken
  <2>1. Sound(b, n)
    BY <1>8 DEF Prepared
  <2>2. PICK events \in EventSets(n) : Responds(b, LoadResponse(b, m.seq), n, events)
    BY <1>3, <2>1, LoadResponseFacts
  <2>3. Responds(b, d, n, events)
    BY <1>1, <1>11, <2>2
  <2> QED
    BY <1>8, <1>9, <2>3 DEF d
<1> QED
  BY <1>10, <1>11

\* The answer to another request carries no events; it does not end a wait for an
\* unsolicited response.
Acknowledges(c, d, m, n) ==
    /\ Sound(d, n) /\ Transmits(c, d)
    /\ d.history = m /\ d.seq = c.seq /\ Tells(c, d, m)
    /\ SameEvents(c, d)
    /\ d.usent = c.usent /\ d.completedNull = c.completedNull
    /\ c.timer => d.timer
    /\ NoShall => d.state = "Idle"

LEMMA RespondToNonReadRequestFacts ==
    ASSUME NEW n \in Nat, NEW c, Sound(c, n), NEW m \in Messages, NEW ok
    PROVE  Acknowledges(c, RespondToNonReadRequest(c, m, ok), m, n)
<1> DEFINE a == [c EXCEPT !.history = m]
           b == HandleNonReadResponse(a, m, ok)
           d == RespondToNonReadRequest(c, m, ok)
<1>1. d = BeginResponseTx(b, m.seq, FALSE, {})
  BY DEF RespondToNonReadRequest
<1>2. c \in Sessions(n) /\ Good(c.store, n) /\ m \in Remembered /\ m.seq \in SeqNums
  BY MessageFacts DEF Sound
<1>3. /\ a \in Sessions(n) /\ a.store = c.store /\ SameWire(c, a) /\ SameWait(c, a)
      /\ a.history = m /\ a.seq = c.seq /\ a.done = c.done /\ a.forgotten = c.forgotten
      /\ a.twice = c.twice
  BY <1>2 DEF Sessions, SameWire, SameWait
<1> HIDE DEF a
<1>4. Sound(a, n)
  BY <1>2, <1>3 DEF Sound
<1>5. Handled(a, b, m, n)
  BY <1>4, HandleNonReadResponseFacts
<1> HIDE DEF b, d
<1>6. Sound(b, n) /\ {} \in EventSets(n) /\ {} \subseteq Written(b)
  BY <1>5 DEF Handled, EventSets
<1>7. /\ Responds(b, d, n, {})
      /\ NoShall => d.state = "Idle"
  <2> DEFINE e == BeginResponseTx(b, m.seq, FALSE, {})
  <2>1. Responds(b, e, n, {}) /\ (NoShall => e.state = IF FALSE THEN "SolWait" ELSE "Idle")
    BY <1>2, <1>6, BeginResponseTxFacts
  <2>2. d = e
    BY <1>1
  <2> HIDE DEF e
  <2> QED
    BY <2>1, <2>2
<1>8. Sound(d, n)
  BY <1>7 DEF Responds
<1>9. Transmits(c, d)
  BY <1>3, <1>5, <1>7 DEF Responds, Handled, SameWire, Transmits
<1>10. d.history = m /\ d.seq = c.seq /\ Tells(c, d, m)
  BY <1>3, <1>5, <1>7 DEF Responds, Handled, SameRequest, Tells
<1>11. SameEvents(c, d)
  BY <1>3, <1>5, <1>7 DEF Responds, Handled, SameEvents, Written
<1>12. d.usent = c.usent /\ d.completedNull = c.completedNull /\ (c.timer => d.timer)
  BY <1>3, <1>5, <1>7 DEF Responds, Handled, SameWait
<1> QED
  BY <1>7, <1>8, <1>9, <1>10, <1>11, <1>12 DEF Acknowledges, d

(***************************************************************************)
(* What a step of the session keeps, and how steps compose.                *)
(***************************************************************************)
Ready(c, n) ==
    Sound(c, n) /\ ~c.clash /\ Known(c) /\ (NoShall => Settled(c))

\* The events that are gone in d were in the fragment that c waits for.
Losses(c, d) ==
    \A i \in Events(c.store) \ Events(d.store) :
        \/ c.state = "SolWait" /\ i \in c.sent
        \/ AwaitsUnsol(c) /\ c.completedNull /\ i \in c.usent

\* d came from c by a handler: what it leaves for the handlers after it.
Goes(c, d, n) ==
    /\ Ready(d, n)
    /\ NoShall => Losses(c, d)
    /\ d.transmitting \/ d.state = "Idle" \/ SameWait(c, d)

LEMMA StaysAsItIs ==
    ASSUME NEW n \in Nat, NEW c, Ready(c, n)
    PROVE  Goes(c, c, n)
BY DEF Goes, Losses, SameWait

LEMMA GoesOn ==
    ASSUME NEW n \in Nat, NEW c, NEW d, NEW e, Goes(c, d, n),
           e = d \/ (~d.transmitting /\ Goes(d, e, n))
    PROVE  Goes(c, e, n)
<1>1. CASE e = d
  BY <1>1
<1>2. CASE ~d.transmitting /\ Goes(d, e, n)
  <2>1. CASE d.state = "Idle"
    <3>1. NoShall => Events(d.store) \subseteq Events(e.store)
      BY <1>2, <2>1 DEF Goes, Losses, AwaitsUnsol
    <3>2. NoShall => Losses(c, e)
      BY <3>1 DEF Goes, Losses
    <3> QED
      BY <1>2, <2>1, <3>2 DEF Goes, SameWait
  <2>2. CASE SameWait(c, d)
    <3>1. NoShall => Losses(c, e)
      BY <1>2, <2>2 DEF Goes, Losses, SameWait, AwaitsUnsol
    <3> QED
      BY <1>2, <2>2, <3>1 DEF Goes, SameWait
  <2> QED
    BY <1>2, <2>1, <2>2 DEF Goes
<1> QED
  BY <1>1, <1>2

(***************************************************************************)
(* The states.                                                             *)
(***************************************************************************)
LEMMA OnRepeatReadRequestFacts ==
    ASSUME NEW n \in Nat, NEW c, Ready(c, n), ~c.transmitting, NEW m \in Messages
    PROVE  Goes(c, OnRepeatReadRequest(c, m), n)
<1> DEFINE d == OnRepeatReadRequest(c, m)
           a == [c EXCEPT !.timer = TRUE]
           b == [c EXCEPT !.deferred = m]
<1>1. /\ Sound(c, n) /\ c \in Sessions(n) /\ Good(c.store, n) /\ m \in Remembered
      /\ c.state \in SessionStates
  BY MessageFacts DEF Ready, Sound, Sessions
<1>2. ASSUME NEW x, Sound(x, n), SameWire(c, x), SameRequest(c, x), x.twice = c.twice,
             SameEvents(c, x), x.state = c.state, x.completedNull = c.completedNull,
             x.sent = c.sent, x.usent = c.usent, c.timer => x.timer,
             d = BeginTx(x)
      PROVE  Goes(c, d, n)
  <2>1. /\ Sound(d, n) /\ Transmits(x, d) /\ SameWait(x, d) /\ SameRequest(x, d)
        /\ d.twice = x.twice /\ SameEvents(x, d)
    BY <1>2, BeginTxFacts
  <2> HIDE DEF d
  <2>2. ~d.clash /\ d.transmitting
    BY <1>2, <2>1 DEF Ready, Transmits, SameWire
  <2>3. Known(d)
    BY <1>2, <2>1 DEF Ready, Known, SameRequest
  <2>4. Settled(c) => Settled(d)
    BY <1>2, <2>1 DEF Settled, Timed, Carried, SameWait, SameRequest, SameEvents, AwaitsUnsol
  <2>5. Losses(c, d)
    BY <1>2, <2>1 DEF Losses, SameEvents
  <2> QED
    BY <2>1, <2>2, <2>3, <2>4, <2>5 DEF Goes, Ready
<1>3. CASE c.state = "Idle"
  <2>1. d = BeginTx(c)
    BY <1>3 DEF OnRepeatReadRequest
  <2> QED
    BY <1>1, <1>2, <2>1 DEF SameWire, SameRequest, SameEvents
<1>4. CASE c.state = "SolWait"
  <2>1. d = BeginTx(a)
    BY <1>4 DEF OnRepeatReadRequest
  <2>2. /\ a \in Sessions(n) /\ a.store = c.store /\ SameWire(c, a) /\ SameRequest(c, a)
        /\ a.twice = c.twice /\ a.state = c.state /\ a.completedNull = c.completedNull
        /\ a.sent = c.sent /\ a.usent = c.usent /\ a.timer
    BY <1>1 DEF Sessions, SameWire, SameRequest
  <2> HIDE DEF a, d
  <2>3. Sound(a, n) /\ SameEvents(c, a)
    BY <1>1, <2>2 DEF Sound, SameEvents, Written
  <2> QED
    BY <1>2, <2>1, <2>2, <2>3 DEF d
<1>5. CASE c.state \notin {"Idle", "SolWait"}
  <2>1. d = b
    BY <1>5 DEF OnRepeatReadRequest
  <2>2. /\ b \in Sessions(n) /\ b.store = c.store /\ SameWire(c, b) /\ SameRequest(c, b)
        /\ b.twice = c.twice /\ SameWait(c, b)
    BY <1>1 DEF Sessions, SameWire, SameRequest, SameWait
  <2> HIDE DEF b, d
  <2>3. Sound(b, n) /\ SameEvents(c, b)
    BY <1>1, <2>2 DEF Sound, SameEvents, Written
  <2>4. ~b.clash /\ Known(b)
    BY <2>2 DEF Ready, Known, SameWire, SameRequest
  <2>5. Settled(c) => Settled(b)
    BY <2>2, <2>3 DEF Settled, Timed, Carried, SameWait, SameRequest, SameEvents, AwaitsUnsol
  <2>6. Losses(c, b)
    BY <2>3 DEF Losses, SameEvents
  <2> QED
    BY <2>1, <2>2, <2>3, <2>4, <2>5, <2>6 DEF Goes, Ready, d
<1> QED
  BY <1>3, <1>4, <1>5

LEMMA OnRepeatNonReadRequestFacts ==
    ASSUME NEW n \in Nat, NEW c, Ready(c, n), ~c.transmitting, NEW m \in Messages,
           c.history = m, m # NoMessage, Fn(m) # "READ"
    PROVE  Goes(c, OnRepeatNonReadRequest(c, m), n)
<1> DEFINE d == OnRepeatNonReadRequest(c, m)
           a == IF c.state = "SolWait" THEN [c EXCEPT !.timer = FALSE] ELSE c
<1>1. d = BeginTx(a)
  BY DEF OnRepeatNonReadRequest
<1>2. Sound(c, n) /\ c \in Sessions(n) /\ Good(c.store, n)
  BY DEF Ready, Sound
<1>3. /\ a \in Sessions(n) /\ a.store = c.store /\ SameWire(c, a) /\ SameRequest(c, a)
      /\ a.twice = c.twice /\ a.state = c.state /\ a.completedNull = c.completedNull
      /\ a.sent = c.sent /\ a.usent = c.usent /\ (c.state # "SolWait" => a.timer = c.timer)
  BY <1>2 DEF Sessions, SameWire, SameRequest
<1> HIDE DEF a
<1>4. Sound(a, n) /\ SameEvents(c, a)
  BY <1>2, <1>3 DEF Sound, SameEvents, Written
<1>5. /\ Sound(d, n) /\ Transmits(a, d) /\ SameWait(a, d) /\ SameRequest(a, d)
      /\ d.twice = a.twice /\ SameEvents(a, d)
  BY <1>1, <1>4, BeginTxFacts
<1> HIDE DEF d
<1>6. ~d.clash /\ d.transmitting
  BY <1>3, <1>5 DEF Ready, Transmits, SameWire
<1>7. Known(d)
  BY <1>3, <1>5 DEF Ready, Known, SameRequest
<1>8. Settled(c) => Settled(d)
  <2> SUFFICES ASSUME Settled(c) PROVE Settled(d)
    OBVIOUS
  <2>1. c.state # "SolWait"
    BY DEF Settled, Timed
  <2> QED
    BY <1>3, <1>4, <1>5, <2>1 DEF Settled, Timed, Carried, SameWait, SameEvents, AwaitsUnsol
<1>9. Losses(c, d)
  BY <1>4, <1>5 DEF Losses, SameEvents
<1> QED
  BY <1>5, <1>6, <1>7, <1>8, <1>9 DEF Goes, Ready, d

\* A request that is not a repeat finds no command that it could be a repeat of.
Fresh(c) == ~c.twice /\ c.forgotten

LEMMA OnNewReadRequestFacts ==
    ASSUME NEW n \in Nat, NEW c, Sound(c, n), ~c.clash, NoShall => Settled(c),
           ~c.transmitting, Fresh(c), NEW m \in Messages, Fn(m) = "READ"
    PROVE  Goes(c, OnNewReadRequest(c, m), n)
<1> DEFINE d == OnNewReadRequest(c, m)
           a == [c EXCEPT !.timer = FALSE]
           b == [c EXCEPT !.deferred = m]
<1>1. /\ c \in Sessions(n) /\ Good(c.store, n) /\ m \in Remembered
      /\ c.state \in SessionStates
  BY MessageFacts DEF Sound, Sessions
<1>2. ASSUME NEW x, Sound(x, n), SameWire(c, x), SameRequest(c, x), x.twice = c.twice,
             SameEvents(c, x), d = RespondToReadRequest(x, m)
      PROVE  Goes(c, d, n)
  <2>1. /\ Sound(d, n) /\ Transmits(x, d)
        /\ d.done = x.done /\ d.forgotten = x.forgotten /\ d.twice = x.twice
        /\ Events(d.store) = Events(x.store) /\ Settled(d)
    BY <1>2, RespondToReadRequestFacts
  <2> HIDE DEF d
  <2>2. ~d.clash /\ d.transmitting
    BY <1>2, <2>1 DEF Transmits, SameWire
  <2>3. Known(d)
    BY <1>2, <2>1 DEF Known, SameRequest, Fresh
  <2>4. Losses(c, d)
    BY <1>2, <2>1 DEF Losses, SameEvents
  <2> QED
    BY <2>1, <2>2, <2>3, <2>4 DEF Goes, Ready
<1>3. CASE c.state = "Idle"
  <2>1. d = RespondToReadRequest(c, m)
    BY <1>3 DEF OnNewReadRequest
  <2> QED
    BY <1>2, <2>1 DEF SameWire, SameRequest, SameEvents
<1>4. CASE c.state = "UnsolWait"
  <2>1. d = b
    BY <1>4 DEF OnNewReadRequest
  <2>2. /\ b \in Sessions(n) /\ b.store = c.store /\ SameWire(c, b) /\ SameRequest(c, b)
        /\ b.twice = c.twice /\ SameWait(c, b)
    BY <1>1 DEF Sessions, SameWire, SameRequest, SameWait
  <2> HIDE DEF b, d
  <2>3. Sound(b, n) /\ SameEvents(c, b)
    BY <1>1, <2>2 DEF Sound, SameEvents, Written
  <2>4. ~b.clash /\ Known(b)
    BY <2>2 DEF Known, SameWire, SameRequest, Fresh
  <2>5. Settled(c) => Settled(b)
    BY <2>2, <2>3 DEF Settled, Timed, Carried, SameWait, SameRequest, SameEvents, AwaitsUnsol
  <2>6. Losses(c, b)
    BY <2>3 DEF Losses, SameEvents
  <2> QED
    BY <2>1, <2>2, <2>3, <2>4, <2>5, <2>6 DEF Goes, Ready, d
<1>5. CASE c.state \notin {"Idle", "UnsolWait"}
  <2>1. d = RespondToReadRequest(a, m)
    BY <1>5 DEF OnNewReadRequest
  <2>2. /\ a \in Sessions(n) /\ a.store = c.store /\ SameWire(c, a) /\ SameRequest(c, a)
        /\ a.twice = c.twice
    BY <1>1 DEF Sessions, SameWire, SameRequest
  <2> HIDE DEF a, d
  <2>3. Sound(a, n) /\ SameEvents(c, a)
    BY <1>1, <2>2 DEF Sound, SameEvents, Written
  <2> QED
    BY <1>2, <2>1, <2>2, <2>3 DEF d
<1> QED
  BY <1>3, <1>4, <1>5

LEMMA OnNewNonReadRequestFacts ==
    ASSUME NEW n \in Nat, NEW c, Sound(c, n), ~c.clash, NoShall => Settled(c),
           ~c.transmitting, Fresh(c), NEW m \in Messages, NEW ok,
           c.seq = m.seq
    PROVE  Goes(c, OnNewNonReadRequest(c, m, ok), n)
<1> DEFINE d == OnNewNonReadRequest(c, m, ok)
           a == [c EXCEPT !.timer = FALSE]
           b == [c EXCEPT !.deferred = NoMessage]
<1>1. /\ c \in Sessions(n) /\ Good(c.store, n) /\ NoMessage \in Remembered
      /\ c.state \in SessionStates
  BY NoMessageFacts DEF Sound, Sessions
<1>2. ASSUME NEW x, Sound(x, n), SameWire(c, x), SameRequest(c, x), x.twice = c.twice,
             SameEvents(c, x), NEW e, Acknowledges(x, e, m, n)
      PROVE  /\ Sound(e, n) /\ ~e.clash /\ e.transmitting /\ Known(e)
             /\ SameEvents(c, e) /\ Losses(c, e)
  <2>1. Sound(e, n) /\ SameEvents(c, e)
    BY <1>2 DEF Acknowledges, SameEvents
  <2>2. ~e.clash /\ e.transmitting
    BY <1>2 DEF Acknowledges, Transmits, SameWire
  <2>3. Known(e)
    BY <1>1, <1>2 DEF Acknowledges, Known, SameRequest, Fresh, Tells
  <2> QED
    BY <2>1, <2>2, <2>3 DEF Losses, SameEvents
<1>3. CASE c.state = "Idle"
  <2>1. Acknowledges(c, d, m, n)
    BY <1>3, RespondToNonReadRequestFacts DEF OnNewNonReadRequest
  <2> HIDE DEF d
  <2>2. /\ Sound(d, n) /\ ~d.clash /\ d.transmitting /\ Known(d) /\ Losses(c, d)
    BY <1>2, <2>1 DEF SameWire, SameRequest, SameEvents
  <2>3. NoShall => Settled(d)
    BY <2>1 DEF Acknowledges, Settled, Timed, Carried, AwaitsUnsol
  <2> QED
    BY <2>2, <2>3 DEF Goes, Ready, d
<1>4. CASE c.state = "SolWait"
  <2>1. d = RespondToNonReadRequest(a, m, ok)
    BY <1>4 DEF OnNewNonReadRequest
  <2>2. /\ a \in Sessions(n) /\ a.store = c.store /\ SameWire(c, a) /\ SameRequest(c, a)
        /\ a.twice = c.twice
    BY <1>1 DEF Sessions, SameWire, SameRequest
  <2> HIDE DEF a, d
  <2>3. Sound(a, n) /\ SameEvents(c, a)
    BY <1>1, <2>2 DEF Sound, SameEvents, Written
  <2>4. Acknowledges(a, d, m, n)
    BY <2>1, <2>3, RespondToNonReadRequestFacts
  <2>5. /\ Sound(d, n) /\ ~d.clash /\ d.transmitting /\ Known(d) /\ Losses(c, d)
    BY <1>2, <2>2, <2>3, <2>4
  <2>6. NoShall => Settled(d)
    BY <2>4 DEF Acknowledges, Settled, Timed, Carried, AwaitsUnsol
  <2> QED
    BY <2>5, <2>6 DEF Goes, Ready, d
<1>5. CASE c.state \notin {"Idle", "SolWait"}
  <2> DEFINE e == RespondToNonReadRequest(b, m, ok)
             f == [e EXCEPT !.state = c.state]
  <2>1. d = f
    BY <1>5 DEF OnNewNonReadRequest
  <2>2. /\ b \in Sessions(n) /\ b.store = c.store /\ SameWire(c, b) /\ SameRequest(c, b)
        /\ b.twice = c.twice /\ SameWait(c, b)
    BY <1>1 DEF Sessions, SameWire, SameRequest, SameWait
  <2> HIDE DEF b, d
  <2>3. Sound(b, n) /\ SameEvents(c, b)
    BY <1>1, <2>2 DEF Sound, SameEvents, Written
  <2>4. Acknowledges(b, e, m, n)
    BY <2>3, RespondToNonReadRequestFacts
  <2> HIDE DEF e
  <2>5. /\ Sound(e, n) /\ ~e.clash /\ e.transmitting /\ Known(e) /\ SameEvents(c, e)
        /\ Losses(c, e)
    BY <1>2, <2>2, <2>3, <2>4
  <2>6. /\ f \in Sessions(n) /\ f.store = e.store /\ SameWire(e, f) /\ SameRequest(e, f)
        /\ f.twice = e.twice /\ f.state = c.state /\ f.timer = e.timer
        /\ f.completedNull = e.completedNull /\ f.usent = e.usent
    BY <1>1, <2>5 DEF Sound, Sessions, SameWire, SameRequest
  <2> HIDE DEF f
  <2>7. Sound(f, n) /\ SameEvents(c, f) /\ Losses(c, f)
    BY <2>5, <2>6 DEF Sound, SameEvents, Written, Losses
  <2>8. ~f.clash /\ f.transmitting /\ Known(f)
    BY <2>5, <2>6 DEF SameWire, SameRequest, Known
  <2>9. f.usent = c.usent /\ f.completedNull = c.completedNull /\ (c.timer => f.timer)
    BY <2>2, <2>4, <2>6 DEF Acknowledges, SameWait
  <2>10. Settled(c) => Settled(f)
    BY <1>5, <2>6, <2>7, <2>9 DEF Settled, Timed, Carried, SameEvents, AwaitsUnsol
  <2> QED
    BY <2>1, <2>7, <2>8, <2>10 DEF Goes, Ready, d
<1> QED
  BY <1>3, <1>4, <1>5

(***************************************************************************)
(* Requests and confirmations.                                             *)
(***************************************************************************)
\* What is remembered of a command when the request m is in hand.
About(c, m) == c.done = m \/ c.forgotten

LEMMA NotedFacts ==
    ASSUME NEW n \in Nat, NEW c, Ready(c, n), NEW m \in Messages
    PROVE  LET d == Noted(c, m)
           IN  /\ Ready(d, n) /\ About(d, m) /\ SameWait(c, d) /\ SameWire(c, d)
               /\ SameEvents(c, d)
<1> DEFINE f == c.forgotten \/ m # c.done
           d == Noted(c, m)
<1>1. d = [c EXCEPT !.forgotten = f]
  BY DEF Noted
<1>2. Sound(c, n) /\ c \in Sessions(n) /\ Good(c.store, n)
  BY DEF Ready, Sound
<1>3. f \in BOOLEAN /\ (c.forgotten => f) /\ (c.done = m \/ f)
  BY <1>2 DEF Sessions
<1> HIDE DEF f, d
<1>4. /\ d \in Sessions(n) /\ d.store = c.store /\ SameWire(c, d) /\ SameWait(c, d)
      /\ d.history = c.history /\ d.seq = c.seq /\ d.done = c.done /\ d.twice = c.twice
      /\ d.forgotten = f
  BY <1>1, <1>2, <1>3 DEF Sessions, SameWire, SameWait
<1>5. Sound(d, n) /\ SameEvents(c, d)
  BY <1>2, <1>4 DEF Sound, SameEvents, Written
<1>6. ~d.clash /\ Known(d)
  BY <1>3, <1>4 DEF Ready, SameWire, Known
<1>7. Settled(c) => Settled(d)
  BY <1>4, <1>5 DEF Settled, Timed, Carried, SameWait, SameEvents, AwaitsUnsol
<1>8. About(d, m)
  BY <1>3, <1>4 DEF About
<1> QED
  BY <1>4, <1>5, <1>6, <1>7, <1>8 DEF Ready, d

LEMMA OnReceiveSolRequestFacts ==
    ASSUME NEW n \in Nat, NEW c, Ready(c, n), ~c.transmitting,
           NEW m \in Messages, NEW ok, About(c, m)
    PROVE  Goes(c, OnReceiveSolRequest(c, m, ok), n)
<1> DEFINE d == OnReceiveSolRequest(c, m, ok)
           b == [c EXCEPT !.seq = m.seq]
<1>1. CASE IsRepeat(c, m)
  <2>1. c.history = m /\ m # NoMessage
    BY <1>1 DEF IsRepeat
  <2>2. CASE Fn(m) = "READ"
    BY <1>1, <2>2, OnRepeatReadRequestFacts DEF OnReceiveSolRequest
  <2>3. CASE Fn(m) # "READ"
    BY <1>1, <2>1, <2>3, OnRepeatNonReadRequestFacts DEF OnReceiveSolRequest
  <2> QED
    BY <2>2, <2>3
<1>2. CASE ~IsRepeat(c, m)
  <2>1. Fresh(c)
    <3>1. Known(c) /\ m # NoMessage
      BY MessageIsNotNone DEF Ready
    <3>2. CASE c.done = m /\ ~c.forgotten
      BY <1>2, <3>1, <3>2 DEF Known, IsRepeat
    <3> QED
      BY <3>1, <3>2 DEF Fresh, Known, About
  <2>2. Sound(c, n) /\ c \in Sessions(n) /\ Good(c.store, n) /\ m.seq \in SeqNums
    BY MessageFacts DEF Ready, Sound
  <2>3. /\ b \in Sessions(n) /\ b.store = c.store /\ SameWire(c, b) /\ SameWait(c, b)
        /\ b.history = c.history /\ b.done = c.done /\ b.twice = c.twice
        /\ b.forgotten = c.forgotten /\ b.seq = m.seq
    BY <2>2 DEF Sessions, SameWire, SameWait
  <2> HIDE DEF b
  <2>5. Sound(b, n) /\ SameEvents(c, b)
    BY <2>2, <2>3 DEF Sound, SameEvents, Written
  <2>6. ~b.clash /\ ~b.transmitting
    BY <2>3 DEF Ready, SameWire
  <2>7. NoShall => Settled(b)
    BY <2>3, <2>5 DEF Ready, Settled, Timed, Carried, SameWait, SameEvents, AwaitsUnsol
  <2>8. Fresh(b)
    BY <2>1, <2>3 DEF Fresh
  <2>9. Goes(b, d, n)
    <3>1. CASE Fn(m) = "READ"
      <4>1. d = OnNewReadRequest(b, m)
        BY <1>2, <3>1 DEF OnReceiveSolRequest, b
      <4>2. Goes(b, OnNewReadRequest(b, m), n)
        BY <2>5, <2>6, <2>7, <2>8, <3>1, OnNewReadRequestFacts
      <4> QED
        BY <4>1, <4>2
    <3>2. CASE Fn(m) # "READ"
      <4>1. d = OnNewNonReadRequest(b, m, ok)
        BY <1>2, <3>2 DEF OnReceiveSolRequest, b
      <4>2. Goes(b, OnNewNonReadRequest(b, m, ok), n)
        BY <2>3, <2>5, <2>6, <2>7, <2>8, OnNewNonReadRequestFacts
      <4> QED
        BY <4>1, <4>2
    <3> QED
      BY <3>1, <3>2
  <2> HIDE DEF d
  <2>10. NoShall => Losses(c, d)
    BY <2>3, <2>5, <2>9 DEF Goes, Losses, SameEvents, SameWait, AwaitsUnsol
  <2> QED
    BY <2>3, <2>9, <2>10 DEF Goes, SameWait, d
<1> QED
  BY <1>1, <1>2

\* A handler that leaves the waits, the requests and the events alone.
LEMMA LeavesAlone ==
    ASSUME NEW n \in Nat, NEW c, Ready(c, n), NEW d, Sound(d, n), d.clash = c.clash,
           SameWait(c, d), SameRequest(c, d), d.twice = c.twice, SameEvents(c, d)
    PROVE  Goes(c, d, n)
<1>1. ~d.clash /\ Known(d)
  BY DEF Ready, Known, SameRequest
<1>2. Settled(c) => Settled(d)
  BY DEF Settled, Timed, Carried, SameWait, SameRequest, SameEvents, AwaitsUnsol
<1>3. Losses(c, d)
  BY DEF Losses, SameEvents
<1> QED
  BY <1>1, <1>2, <1>3 DEF Goes, Ready

LEMMA GoesFrom ==
    ASSUME NEW n \in Nat, NEW c, NEW b, NEW d, SameWait(c, b), SameEvents(c, b), Goes(b, d, n)
    PROVE  Goes(c, d, n)
<1>1. NoShall => Losses(c, d)
  BY DEF Goes, Losses, SameEvents, SameWait, AwaitsUnsol
<1> QED
  BY <1>1 DEF Goes, SameWait

LEMMA ProcessRequestFacts ==
    ASSUME NEW n \in Nat, NEW c, Ready(c, n), ~c.transmitting, NEW m \in Messages, NEW ok
    PROVE  Goes(c, ProcessRequest(c, m, ok), n)
<1>1. CASE m.uns
  BY <1>1, StaysAsItIs DEF ProcessRequest
<1>2. CASE ~m.uns
  <2> DEFINE b == Noted(c, m)
             d == OnReceiveSolRequest(b, m, ok)
  <2>1. ProcessRequest(c, m, ok) = d
    BY <1>2 DEF ProcessRequest
  <2>2. /\ Ready(b, n) /\ About(b, m) /\ SameWait(c, b) /\ SameWire(c, b) /\ SameEvents(c, b)
    BY NotedFacts
  <2>3. ~b.transmitting
    BY <2>2 DEF SameWire
  <2> HIDE DEF b
  <2>4. Goes(b, d, n)
    BY <2>2, <2>3, OnReceiveSolRequestFacts
  <2> HIDE DEF d
  <2>5. Goes(c, d, n)
    BY <2>2, <2>4, GoesFrom
  <2> QED
    BY <2>1, <2>5
<1> QED
  BY <1>1, <1>2

LEMMA SolConfirmedFacts ==
    ASSUME NEW n \in Nat, NEW c, Ready(c, n), ~c.transmitting, NEW m \in Messages,
           c.state = "SolWait"
    PROVE  Goes(c, SolConfirmed(c, m), n)
<1> DEFINE w == ClearWritten(c.store)
           b == [c EXCEPT !.history = NoMessage, !.timer = FALSE, !.forgotten = TRUE,
                          !.store = w, !.broadcast = "none"]
           seq == Next16(m.seq)
           f == [b EXCEPT !.state = "Idle"]
           d == SolConfirmed(c, m)
<1>1. d = IF HasAnySelection(b.store) \/ b.static > 0 THEN LoadResponse(b, seq) ELSE f
  BY DEF SolConfirmed
<1>2. /\ Sound(c, n) /\ c \in Sessions(n) /\ Good(c.store, n) /\ ~c.clash /\ ~c.twice
      /\ (NoShall => Written(c) \subseteq c.sent)
      /\ NoMessage \in Remembered /\ seq \in SeqNums /\ "none" \in Addresses
      /\ "Idle" \in SessionStates
  BY MessageFacts, NoMessageFacts, NumberFacts
     DEF Ready, Known, Sound, Settled, Carried, Addresses, SessionStates
<1>3. /\ Good(w, n) /\ w \in Stores(n) /\ Events(w) = Events(c.store) \ Written(c)
      /\ InState(w, "written") = {}
  <2>1. Good(w, n)
    BY <1>2, ClearWrittenGood
  <2> QED
    BY <1>2, <2>1, ClearWrittenGood DEF Good, Written
<1> HIDE DEF w, seq, d
<1>4. /\ b \in Sessions(n) /\ b.store = w /\ SameWire(c, b)
      /\ b.forgotten /\ b.twice = c.twice /\ b.history = NoMessage
  BY <1>2, <1>3 DEF Sessions, SameWire
<1>5. /\ f \in Sessions(n) /\ f.store = w /\ SameWire(c, f)
      /\ f.forgotten /\ f.twice = c.twice /\ f.state = "Idle"
  BY <1>2, <1>3 DEF Sessions, SameWire
<1> HIDE DEF b, f
<1>6. Sound(b, n) /\ Sound(f, n)
  BY <1>3, <1>4, <1>5 DEF Sound
<1>7. CASE d = LoadResponse(b, seq)
  <2>1. PICK events \in EventSets(n) : Responds(b, d, n, events)
    BY <1>2, <1>6, <1>7, LoadResponseFacts
  <2>2. ~d.clash /\ d.transmitting
    BY <1>2, <1>4, <2>1 DEF Responds, Transmits, SameWire
  <2>3. d.forgotten /\ d.history = NoMessage /\ ~d.twice
    BY <1>2, <1>4, <2>1 DEF Responds, SameRequest
  <2>4. Written(d) = d.sent /\ d.state \in {"Idle", "SolWait"} /\ (d.state = "SolWait" => d.timer)
    BY <1>3, <1>4, <2>1 DEF Responds, Written
  <2>5. Settled(d)
    BY <2>3, <2>4 DEF Settled, Timed, Carried, AwaitsUnsol
  <2>6. NoShall => Losses(c, d)
    BY <1>2, <1>3, <1>4, <2>1 DEF Responds, Losses
  <2> QED
    BY <2>1, <2>2, <2>3, <2>5, <2>6 DEF Goes, Ready, Responds, Known, d
<1>8. CASE d = f
  <2>1. Settled(f)
    BY <1>5 DEF Settled, Timed, Carried, AwaitsUnsol
  <2>2. ~f.clash /\ Known(f)
    BY <1>2, <1>5 DEF SameWire, Known
  <2>3. NoShall => Losses(c, f)
    BY <1>2, <1>3, <1>5 DEF Losses
  <2> QED
    BY <1>5, <1>6, <1>8, <2>1, <2>2, <2>3 DEF Goes, Ready, d
<1> QED
  BY <1>1, <1>7, <1>8

LEMMA UnsolConfirmedFacts ==
    ASSUME NEW n \in Nat, NEW c, Ready(c, n), AwaitsUnsol(c)
    PROVE  Goes(c, UnsolConfirmed(c), n)
<1> DEFINE w == IF c.completedNull THEN ClearWritten(c.store) ELSE c.store
           d == UnsolConfirmed(c)
<1>1. d = [c EXCEPT !.history = NoMessage, !.timer = FALSE, !.forgotten = TRUE,
                    !.broadcast = "none", !.store = w,
                    !.completedNull = TRUE, !.shouldCheck = TRUE, !.state = "Idle"]
  BY DEF UnsolConfirmed
<1>2. /\ Sound(c, n) /\ c \in Sessions(n) /\ Good(c.store, n) /\ ~c.clash /\ ~c.twice
      /\ (NoShall /\ c.completedNull => Written(c) \subseteq c.usent)
      /\ NoMessage \in Remembered /\ "none" \in Addresses /\ "Idle" \in SessionStates
  BY NoMessageFacts DEF Ready, Known, Sound, Settled, Carried, Addresses, SessionStates
<1>3. Good(w, n) /\ w \in Stores(n)
  <2>1. Good(w, n)
    BY <1>2, ClearWrittenGood
  <2> QED
    BY <2>1 DEF Good
<1>4. \A i \in Events(c.store) \ Events(w) : c.completedNull /\ i \in Written(c)
  BY <1>2, ClearWrittenGood DEF Written
<1> HIDE DEF w, d
<1>5. /\ d \in Sessions(n) /\ d.store = w /\ SameWire(c, d)
      /\ d.forgotten /\ d.twice = c.twice /\ d.state = "Idle"
  BY <1>1, <1>2, <1>3 DEF Sessions, SameWire
<1>6. Settled(d)
  BY <1>5 DEF Settled, Timed, Carried, AwaitsUnsol
<1>7. Sound(d, n) /\ ~d.clash /\ Known(d)
  BY <1>2, <1>3, <1>5 DEF Sound, SameWire, Known
<1>8. NoShall => Losses(c, d)
  BY <1>2, <1>4, <1>5 DEF Losses
<1> QED
  BY <1>5, <1>6, <1>7, <1>8 DEF Goes, Ready, d

LEMMA OnConfirmFacts ==
    ASSUME NEW n \in Nat, NEW c, Ready(c, n), ~c.transmitting, NEW m \in Messages
    PROVE  Goes(c, OnConfirm(c, m), n)
<1>1. CASE c.state = "SolWait" /\ ~m.uns /\ m.seq = c.confirmNum
  <2>1. ~(AwaitsUnsol(c) /\ m.uns /\ m.seq = c.uconfirmNum)
    BY <1>1
  <2>2. OnConfirm(c, m) = SolConfirmed(c, m)
    BY <1>1, <2>1 DEF OnConfirm
  <2> QED
    BY <1>1, <2>2, SolConfirmedFacts
<1>2. CASE AwaitsUnsol(c) /\ m.uns /\ m.seq = c.uconfirmNum
  <2>1. OnConfirm(c, m) = UnsolConfirmed(c)
    BY <1>2 DEF OnConfirm
  <2> QED
    BY <1>2, <2>1, UnsolConfirmedFacts
<1>3. CASE /\ ~(c.state = "SolWait" /\ ~m.uns /\ m.seq = c.confirmNum)
           /\ ~(AwaitsUnsol(c) /\ m.uns /\ m.seq = c.uconfirmNum)
  <2>1. OnConfirm(c, m) = c
    BY <1>3 DEF OnConfirm
  <2> QED
    BY <2>1, StaysAsItIs
<1> QED
  BY <1>1, <1>2, <1>3

\* A message is put aside while the session transmits, or taken off again.
LEMMA DeferFacts ==
    ASSUME NEW n \in Nat, NEW c, Ready(c, n), NEW m \in Remembered
    PROVE  /\ Goes(c, [c EXCEPT !.deferred = m], n)
           /\ SameWait(c, [c EXCEPT !.deferred = m]) /\ SameWire(c, [c EXCEPT !.deferred = m])
           /\ SameEvents(c, [c EXCEPT !.deferred = m])
<1> DEFINE d == [c EXCEPT !.deferred = m]
<1>1. Sound(c, n) /\ c \in Sessions(n) /\ Good(c.store, n)
  BY DEF Ready, Sound
<1>2. /\ d \in Sessions(n) /\ d.store = c.store /\ SameWire(c, d) /\ SameWait(c, d)
      /\ SameRequest(c, d) /\ d.twice = c.twice
  BY <1>1 DEF Sessions, SameWire, SameWait, SameRequest
<1> HIDE DEF d
<1>3. Sound(d, n) /\ SameEvents(c, d) /\ d.clash = c.clash
  BY <1>1, <1>2 DEF Sound, SameEvents, Written, SameWire
<1>4. Goes(c, d, n)
  BY <1>2, <1>3, LeavesAlone
<1> QED
  BY <1>2, <1>3, <1>4 DEF d

LEMMA ProcessRequestNoAckFacts ==
    ASSUME NEW n \in Nat, NEW c, Ready(c, n), NEW m \in Messages,
           Fn(m) \in NoAck
    PROVE  Goes(c, ProcessRequestNoAck(c, m), n)
<1> DEFINE d == Executed(c, m)
<1>1. Handled(c, d, m, n)
  BY ExecutedFacts DEF Ready
<1> HIDE DEF d
<1>2. SameRequest(c, d) /\ d.twice = c.twice
  BY <1>1 DEF Handled, Tells, SameRequest, NoAck, Commands
<1>3. SameEvents(c, d) /\ d.clash = c.clash
  BY <1>1 DEF Handled, SameEvents, Written, SameWire
<1>4. Goes(c, d, n)
  BY <1>1, <1>2, <1>3, LeavesAlone DEF Handled
<1> QED
  BY <1>4 DEF ProcessRequestNoAck, d

LEMMA ProcessMessageFacts ==
    ASSUME NEW n \in Nat, NEW c, Ready(c, n), NEW m \in Messages, NEW ok
    PROVE  Goes(c, ProcessMessage(c, m, ok), n)
<1>1. CASE Fn(m) = "MALFORMED"
  <2>1. ProcessMessage(c, m, ok) = c
    BY <1>1 DEF ProcessMessage, NoAck
  <2> QED
    BY <2>1, StaysAsItIs
<1>2. CASE Fn(m) \in NoAck
  <2>1. ProcessMessage(c, m, ok) = ProcessRequestNoAck(c, m)
    BY <1>2 DEF ProcessMessage, NoAck
  <2> QED
    BY <1>2, <2>1, ProcessRequestNoAckFacts
<1>3. CASE Fn(m) \notin NoAck \cup {"MALFORMED"} /\ c.transmitting
  <2>1. ProcessMessage(c, m, ok) = [c EXCEPT !.deferred = m]
    BY <1>3 DEF ProcessMessage
  <2> QED
    BY <2>1, MessageFacts, DeferFacts
<1>4. CASE Fn(m) \notin NoAck \cup {"MALFORMED"} /\ ~c.transmitting /\ Fn(m) = "CONFIRM"
  <2>1. ProcessMessage(c, m, ok) = OnConfirm(c, m)
    BY <1>4 DEF ProcessMessage
  <2> QED
    BY <1>4, <2>1, OnConfirmFacts
<1>5. CASE Fn(m) \notin NoAck \cup {"MALFORMED"} /\ ~c.transmitting /\ Fn(m) # "CONFIRM"
  <2>1. ProcessMessage(c, m, ok) = ProcessRequest(c, m, ok)
    BY <1>5 DEF ProcessMessage
  <2> QED
    BY <1>5, <2>1, ProcessRequestFacts
<1> QED
  BY <1>1, <1>2, <1>3, <1>4, <1>5

(***************************************************************************)
(* CheckForTaskStart.                                                      *)
(***************************************************************************)
\* A part of CheckForTaskStart does nothing, or finds the session able to transmit.
Checks(c, d, n) == d = c \/ (~c.transmitting /\ Goes(c, d, n))

LEMMA CheckForDeferredRequestFacts ==
    ASSUME NEW n \in Nat, NEW c, Ready(c, n), NEW ok
    PROVE  Checks(c, CheckForDeferredRequest(c, ok), n)
<1> DEFINE m == c.deferred
           b == IF Fn(m) = "CONFIRM" THEN OnConfirm(c, m) ELSE ProcessRequest(c, m, ok)
           d == [b EXCEPT !.deferred = NoMessage]
<1>1. CASE ~(CanTransmit(c) /\ c.deferred # NoMessage)
           \/ (Fn(m) = "READ" /\ c.state # "Idle")
  BY <1>1 DEF CheckForDeferredRequest, ProcessDeferredRequest, Checks
<1>2. CASE /\ CanTransmit(c) /\ c.deferred # NoMessage
           /\ ~(Fn(m) = "READ" /\ c.state # "Idle")
  <2>1. CheckForDeferredRequest(c, ok) = d
    BY <1>2 DEF CheckForDeferredRequest, ProcessDeferredRequest
  <2>2. m \in Messages /\ ~c.transmitting
    BY <1>2 DEF Ready, Sound, Sessions, Remembered, CanTransmit
  <2>3. Goes(c, b, n)
    BY <2>2, OnConfirmFacts, ProcessRequestFacts
  <2> HIDE DEF b, m
  <2>4. Ready(b, n)
    BY <2>3 DEF Goes
  <2>5. Goes(b, d, n) /\ SameWait(b, d) /\ SameWire(b, d) /\ SameEvents(b, d)
    BY <2>4, NoMessageFacts, DeferFacts
  <2> HIDE DEF d
  <2>6. Goes(c, d, n)
    <3>1. NoShall => Losses(c, d)
      BY <2>3, <2>5 DEF Goes, Losses, SameEvents
    <3>2. d.transmitting \/ d.state = "Idle" \/ SameWait(c, d)
      BY <2>3, <2>5 DEF Goes, SameWait, SameWire
    <3> QED
      BY <2>5, <3>1, <3>2 DEF Goes
  <2> QED
    BY <2>1, <2>2, <2>6 DEF Checks
<1> QED
  BY <1>1, <1>2

LEMMA BeginUnsolTxFacts ==
    ASSUME NEW n \in Nat, NEW c, Sound(c, n), NEW events \in EventSets(n)
    PROVE  LET d == BeginUnsolTx(c, events)
           IN  /\ Sound(d, n) /\ Transmits(c, d)
               /\ SameRequest(c, d) /\ d.twice = c.twice /\ SameEvents(c, d)
               /\ d.usent = events /\ d.timer /\ d.state = c.state
               /\ d.completedNull = c.completedNull
<1> DEFINE b == Marked(c)
           e == [b EXCEPT !.uconfirmNum = c.unum, !.unum = Next16(c.unum),
                          !.usent = events, !.timer = TRUE]
           d == BeginUnsolTx(c, events)
<1>1. d = BeginTx(e)
  BY DEF BeginUnsolTx
<1>2. /\ Sound(b, n) /\ SameWire(c, b) /\ SameWait(c, b) /\ SameRequest(c, b)
      /\ b.twice = c.twice /\ SameEvents(c, b)
  BY MarkedFacts
<1>3. c.unum \in SeqNums /\ Next16(c.unum) \in SeqNums
  BY NumberFacts DEF Sound, Sessions
<1> HIDE DEF b, d
<1>4. /\ e \in Sessions(n) /\ e.store = b.store /\ SameWire(b, e) /\ SameRequest(b, e)
      /\ e.twice = b.twice /\ e.state = b.state /\ e.completedNull = b.completedNull
      /\ e.usent = events /\ e.timer
  BY <1>2, <1>3 DEF Sound, Sessions, SameWire, SameRequest
<1> HIDE DEF e
<1>5. Sound(e, n)
  BY <1>2, <1>4 DEF Sound
<1>6. /\ Sound(d, n) /\ Transmits(e, d) /\ SameWait(e, d) /\ SameRequest(e, d)
      /\ d.twice = e.twice /\ SameEvents(e, d)
  BY <1>1, <1>5, BeginTxFacts
<1>7. Transmits(c, d)
  BY <1>2, <1>4, <1>6 DEF Transmits, SameWire
<1>8. SameRequest(c, d) /\ d.twice = c.twice
  BY <1>2, <1>4, <1>6 DEF SameRequest
<1>9. SameEvents(c, d)
  BY <1>2, <1>4, <1>6 DEF SameEvents, Written
<1>10. d.usent = events /\ d.timer /\ d.state = c.state /\ d.completedNull = c.completedNull
  BY <1>2, <1>4, <1>6 DEF SameWait
<1> QED
  BY <1>6, <1>7, <1>8, <1>9, <1>10 DEF d

LEMMA CheckForUnsolicitedNullFacts ==
    ASSUME NEW n \in Nat, NEW c, Ready(c, n)
    PROVE  Checks(c, CheckForUnsolicitedNull(c), n)
<1> DEFINE st == IF ReadDuringNull THEN "NullWait" ELSE "UnsolWait"
           b == [c EXCEPT !.state = st]
           d == BeginUnsolTx(b, {})
<1>1. CASE ~(MaySendUnsol(c) /\ ~c.completedNull)
  BY <1>1 DEF CheckForUnsolicitedNull, Checks
<1>2. CASE MaySendUnsol(c) /\ ~c.completedNull
  <2>1. CheckForUnsolicitedNull(c) = d
    BY <1>2 DEF CheckForUnsolicitedNull
  <2>2. /\ Sound(c, n) /\ c \in Sessions(n) /\ Good(c.store, n) /\ ~c.clash /\ Known(c)
        /\ ~c.transmitting
    BY <1>2 DEF Ready, Sound, MaySendUnsol, CanTransmit
  <2>3. st \in SessionStates /\ st # "SolWait" /\ {} \in EventSets(n)
    BY DEF SessionStates, EventSets
  <2> HIDE DEF st
  <2>4. /\ b \in Sessions(n) /\ b.store = c.store /\ SameWire(c, b) /\ SameRequest(c, b)
        /\ b.twice = c.twice /\ b.state = st /\ b.completedNull = c.completedNull
    BY <2>2, <2>3 DEF Sessions, SameWire, SameRequest
  <2> HIDE DEF b
  <2>5. Sound(b, n) /\ SameEvents(c, b)
    BY <2>2, <2>4 DEF Sound, SameEvents, Written
  <2>6. /\ Sound(d, n) /\ Transmits(b, d) /\ SameRequest(b, d) /\ d.twice = b.twice
        /\ SameEvents(b, d) /\ d.timer /\ d.state = b.state
        /\ d.completedNull = b.completedNull
    BY <2>3, <2>5, BeginUnsolTxFacts
  <2> HIDE DEF d
  <2>7. ~d.clash /\ d.transmitting /\ Known(d)
    BY <2>2, <2>4, <2>6 DEF Transmits, SameWire, Known, SameRequest
  <2>8. Settled(d)
    BY <1>2, <2>3, <2>4, <2>6 DEF Settled, Timed, Carried, AwaitsUnsol
  <2>9. Losses(c, d)
    BY <2>5, <2>6 DEF Losses, SameEvents
  <2> QED
    BY <2>1, <2>2, <2>6, <2>7, <2>8, <2>9 DEF Checks, Goes, Ready
<1> QED
  BY <1>1, <1>2

LEMMA SendUnsolicitedFacts ==
    ASSUME NEW n \in Nat, NEW c, Ready(c, n), ~c.transmitting
    PROVE  Goes(c, SendUnsolicited(c), n)
<1> DEFINE u == Unselect(c.store)
           v == SelectByClass(u, c.mask, Cardinality(Events(c.store)))
           events == Loaded(v, FragmentRoom)
           w == Load(v, FragmentRoom)
           b == [c EXCEPT !.retries = 0, !.state = "UnsolWait", !.store = w]
           d == SendUnsolicited(c)
<1>1. d = BeginUnsolTx(b, events)
  BY DEF SendUnsolicited
<1>2. /\ Sound(c, n) /\ c \in Sessions(n) /\ Good(c.store, n) /\ ~c.clash /\ Known(c)
      /\ FragmentRoom \in Nat /\ "UnsolWait" \in SessionStates
  BY SessionAssumption DEF Ready, Sound, SessionAssumption, SessionStates
<1>3. Good(u, n) /\ Events(u) = Events(c.store) /\ InState(u, "written") = {}
  BY <1>2, UnselectGood
<1>4. /\ Good(v, n) /\ Events(v) = Events(c.store) /\ InState(v, "written") = {}
  <2>1. Cardinality(Events(c.store)) \in Nat
    BY <1>2, StoreParts, FS_CardinalityType DEF Good
  <2> QED
    BY <1>3, <2>1, SelectByClassGood
<1> HIDE DEF v
<1>5. /\ Good(w, n) /\ Events(w) = Events(c.store) /\ InState(w, "written") = events
      /\ events \in SUBSET InState(v, "selected")
  <2>1. /\ Good(w, n) /\ Events(w) = Events(v)
        /\ InState(w, "written") = InState(v, "written") \cup events
        /\ events \in SUBSET InState(v, "selected")
    BY <1>2, <1>4, LoadGood
  <2> HIDE DEF w, events
  <2> QED
    BY <1>4, <2>1
<1>6. w \in Stores(n) /\ events \in EventSets(n)
  <2>1. events \subseteq Events(c.store) /\ Events(c.store) \in SUBSET (1 .. n)
    BY <1>2, <1>4, <1>5, StoreParts DEF Good, InState
  <2> QED
    BY <1>5, <2>1 DEF Good, EventSets
<1> HIDE DEF w, events, d
<1>7. /\ b \in Sessions(n) /\ b.store = w /\ SameWire(c, b) /\ SameRequest(c, b)
      /\ b.twice = c.twice /\ b.state = "UnsolWait"
  BY <1>2, <1>6 DEF Sessions, SameWire, SameRequest
<1> HIDE DEF b
<1>8. Sound(b, n)
  BY <1>5, <1>7 DEF Sound
<1>9. /\ Sound(d, n) /\ Transmits(b, d) /\ SameRequest(b, d) /\ d.twice = b.twice
      /\ SameEvents(b, d) /\ d.timer /\ d.state = b.state /\ d.usent = events
  BY <1>1, <1>6, <1>8, BeginUnsolTxFacts
<1>10. ~d.clash /\ d.transmitting /\ Known(d)
  BY <1>2, <1>7, <1>9 DEF Transmits, SameWire, Known, SameRequest
<1>11. Settled(d)
  BY <1>5, <1>7, <1>9 DEF Settled, Timed, Carried, SameEvents, Written
<1>12. Losses(c, d)
  BY <1>5, <1>7, <1>9 DEF Losses, SameEvents
<1> QED
  BY <1>9, <1>10, <1>11, <1>12 DEF Goes, Ready, d

LEMMA CheckForUnsolicitedFacts ==
    ASSUME NEW n \in Nat, NEW c, Ready(c, n)
    PROVE  Checks(c, CheckForUnsolicited(c), n)
<1> DEFINE b == [c EXCEPT !.shouldCheck = FALSE]
<1>1. CASE ~(c.shouldCheck /\ MaySendUnsol(c))
  BY <1>1 DEF CheckForUnsolicited, Checks
<1>2. CASE c.shouldCheck /\ MaySendUnsol(c)
  <2>1. /\ Sound(c, n) /\ c \in Sessions(n) /\ Good(c.store, n) /\ ~c.transmitting
    BY <1>2 DEF Ready, Sound, MaySendUnsol, CanTransmit
  <2>2. \/ CheckForUnsolicited(c) = SendUnsolicited(b)
        \/ CheckForUnsolicited(c) = b
    BY <1>2 DEF CheckForUnsolicited
  <2>3. /\ b \in Sessions(n) /\ b.store = c.store /\ SameWire(c, b) /\ SameRequest(c, b)
        /\ b.twice = c.twice /\ SameWait(c, b)
    BY <2>1 DEF Sessions, SameWire, SameRequest, SameWait
  <2> HIDE DEF b
  <2>4. Sound(b, n) /\ SameEvents(c, b) /\ b.clash = c.clash /\ ~b.transmitting
    BY <2>1, <2>3 DEF Sound, SameEvents, Written, SameWire
  <2>5. Goes(c, b, n)
    BY <2>3, <2>4, LeavesAlone
  <2>6. Goes(b, SendUnsolicited(b), n)
    BY <2>4, <2>5, SendUnsolicitedFacts DEF Goes
  <2>7. Goes(c, SendUnsolicited(b), n)
    BY <2>3, <2>4, <2>6, GoesFrom
  <2> QED
    BY <2>1, <2>2, <2>5, <2>7 DEF Checks
<1> QED
  BY <1>1, <1>2

LEMMA CheckForTaskStartFacts ==
    ASSUME NEW n \in Nat, NEW c, NEW d, Goes(c, d, n), NEW ok
    PROVE  Goes(c, CheckForTaskStart(d, ok), n)
<1> DEFINE e == CheckForDeferredRequest(d, ok)
           f == CheckForUnsolicitedNull(e)
           g == CheckForUnsolicited(f)
<1>1. Ready(d, n)
  BY DEF Goes
<1>2. Goes(c, e, n)
  <2>1. Checks(d, e, n)
    BY <1>1, CheckForDeferredRequestFacts
  <2> HIDE DEF e
  <2> QED
    BY <2>1, GoesOn DEF Checks
<1> HIDE DEF e
<1>3. Goes(c, f, n)
  <2>1. Checks(e, f, n)
    BY <1>2, CheckForUnsolicitedNullFacts DEF Goes
  <2> HIDE DEF f
  <2> QED
    BY <1>2, <2>1, GoesOn DEF Checks
<1> HIDE DEF f
<1>4. Goes(c, g, n)
  <2>1. Checks(f, g, n)
    BY <1>3, CheckForUnsolicitedFacts DEF Goes
  <2> HIDE DEF g
  <2> QED
    BY <1>3, <2>1, GoesOn DEF Checks
<1> QED
  BY <1>4 DEF CheckForTaskStart, e, f

(***************************************************************************)
(* The actions.                                                            *)
(***************************************************************************)
IInv == made \in Nat /\ Ready(s, made)

LEMMA OnConfirmTimeoutFacts ==
    ASSUME NEW n \in Nat, NEW c, Ready(c, n)
    PROVE  Goes(c, OnConfirmTimeout([c EXCEPT !.timer = FALSE]), n)
<1> DEFINE a == [c EXCEPT !.timer = FALSE]
           k == IF InfiniteRetries \/ c.retries > MaxRetries THEN c.retries ELSE c.retries + 1
           u == Unselect(c.store)
           x == [c EXCEPT !.timer = TRUE, !.retries = k, !.transmitting = TRUE]
           y == [c EXCEPT !.timer = FALSE, !.retries = k, !.store = u, !.state = "Idle"]
           z == [c EXCEPT !.timer = FALSE, !.state = "Idle"]
           d == OnConfirmTimeout(a)
<1>1. /\ Sound(c, n) /\ c \in Sessions(n) /\ Good(c.store, n) /\ ~c.clash
      /\ "Idle" \in SessionStates
  BY DEF Ready, Sound, SessionStates
<1>2. k \in Nat
  BY <1>1 DEF Sessions
<1>3. Good(u, n) /\ u \in Stores(n) /\ Events(u) = Events(c.store)
  <2>1. Good(u, n)
    BY <1>1, UnselectGood
  <2> QED
    BY <1>1, <2>1, UnselectGood DEF Good
<1>4. d \in {x, y, z}
  <2> DEFINE counted == [a EXCEPT !.retries = k]
  <2>1. a.retries = c.retries /\ a.store = c.store
    BY <1>1 DEF Sessions
  <2>2. [a EXCEPT !.retries = IF InfiniteRetries \/ @ > MaxRetries THEN @ ELSE @ + 1] = counted
    BY <2>1
  <2>3. \/ d = BeginRetransmitLastUnsolicitedResponse([counted EXCEPT !.timer = TRUE])
        \/ d = [counted EXCEPT !.store = Unselect(@), !.state = "Idle"]
        \/ d = [a EXCEPT !.state = "Idle"]
    <3> HIDE DEF a, k
    <3> QED
      BY <2>2 DEF OnConfirmTimeout
  <2>4. BeginRetransmitLastUnsolicitedResponse([counted EXCEPT !.timer = TRUE]) = x
    BY <1>1 DEF BeginRetransmitLastUnsolicitedResponse, Sessions
  <2>5. [counted EXCEPT !.store = Unselect(@), !.state = "Idle"] = y
    BY <1>1 DEF Sessions
  <2>6. [a EXCEPT !.state = "Idle"] = z
    BY <1>1 DEF Sessions
  <2> HIDE DEF d, x, y, z
  <2> QED
    BY <2>3, <2>4, <2>5, <2>6
<1> HIDE DEF k, u, d
<1>5. Goes(c, x, n)
  <2>1. /\ x \in Sessions(n) /\ x.store = c.store /\ x.clash = c.clash /\ SameRequest(c, x)
        /\ x.twice = c.twice /\ x.state = c.state /\ x.timer /\ x.transmitting
        /\ x.sent = c.sent /\ x.usent = c.usent /\ x.completedNull = c.completedNull
    BY <1>1, <1>2 DEF Sessions, SameRequest
  <2> HIDE DEF x
  <2>2. Sound(x, n) /\ SameEvents(c, x)
    BY <1>1, <2>1 DEF Sound, SameEvents, Written
  <2>3. ~x.clash /\ Known(x)
    BY <2>1 DEF Ready, Known, SameRequest
  <2>4. Settled(c) => Settled(x)
    BY <2>1, <2>2 DEF Settled, Timed, Carried, SameRequest, SameEvents, AwaitsUnsol
  <2>5. Losses(c, x)
    BY <2>2 DEF Losses, SameEvents
  <2> QED
    BY <2>1, <2>2, <2>3, <2>4, <2>5 DEF Goes, Ready
<1>6. ASSUME NEW e, e \in Sessions(n), Good(e.store, n), Events(e.store) = Events(c.store),
             e.clash = c.clash, SameRequest(c, e), e.twice = c.twice, e.state = "Idle"
      PROVE  Goes(c, e, n)
  <2>1. Sound(e, n) /\ Losses(c, e)
    BY <1>6 DEF Sound, Losses
  <2>2. ~e.clash /\ Known(e)
    BY <1>6 DEF Ready, Known, SameRequest
  <2>3. Settled(e)
    BY <1>6 DEF Settled, Timed, Carried, AwaitsUnsol
  <2> QED
    BY <1>6, <2>1, <2>2, <2>3 DEF Goes, Ready
<1>7. Goes(c, y, n)
  <2>1. /\ y \in Sessions(n) /\ y.store = u /\ y.clash = c.clash /\ SameRequest(c, y)
        /\ y.twice = c.twice /\ y.state = "Idle"
    BY <1>1, <1>2, <1>3 DEF Sessions, SameRequest
  <2> HIDE DEF y
  <2> QED
    BY <1>3, <1>6, <2>1
<1>8. Goes(c, z, n)
  <2>1. /\ z \in Sessions(n) /\ z.store = c.store /\ z.clash = c.clash /\ SameRequest(c, z)
        /\ z.twice = c.twice /\ z.state = "Idle"
    BY <1>1 DEF Sessions, SameRequest
  <2> HIDE DEF z
  <2> QED
    BY <1>1, <1>6, <2>1
<1> HIDE DEF x, y, z
<1> QED
  BY <1>4, <1>5, <1>7, <1>8 DEF d

LEMMA BroadcastFacts ==
    ASSUME NEW n \in Nat, NEW c, Ready(c, n), NEW m \in Messages, NEW address \in Broadcasts
    PROVE  LET noted == [c EXCEPT !.broadcast = address]
           IN  Goes(c, IF Fn(m) = "MALFORMED" THEN noted ELSE OnBroadcastMessage(noted, m), n)
<1> DEFINE a == [c EXCEPT !.broadcast = address]
           b == ProcessBroadcastRequest(a, m)
           d == [b EXCEPT !.state = "Idle"]
<1>1. /\ Sound(c, n) /\ c \in Sessions(n) /\ Good(c.store, n) /\ address \in Addresses
      /\ "Idle" \in SessionStates
  BY DEF Ready, Sound, Addresses, SessionStates
<1>2. /\ a \in Sessions(n) /\ a.store = c.store /\ SameWire(c, a) /\ SameRequest(c, a)
      /\ a.twice = c.twice /\ SameWait(c, a)
  BY <1>1 DEF Sessions, SameWire, SameRequest, SameWait
<1> HIDE DEF a
<1>3. Sound(a, n) /\ SameEvents(c, a) /\ a.clash = c.clash
  BY <1>1, <1>2 DEF Sound, SameEvents, Written, SameWire
<1>4. Goes(c, a, n)
  BY <1>2, <1>3, LeavesAlone
<1>5. Handled(a, b, m, n) /\ SameRequest(a, b) /\ b.twice = a.twice
  BY <1>3, ProcessBroadcastRequestFacts
<1> HIDE DEF b
<1>6. /\ d \in Sessions(n) /\ d.store = b.store /\ SameWire(b, d) /\ SameRequest(b, d)
      /\ d.twice = b.twice /\ d.state = "Idle"
  BY <1>1, <1>5 DEF Handled, Sound, Sessions, SameWire, SameRequest
<1>7. OnBroadcastMessage(a, m) = d
  BY DEF OnBroadcastMessage, b
<1> HIDE DEF d
<1>8. Sound(d, n) /\ SameEvents(c, d)
  BY <1>3, <1>5, <1>6 DEF Handled, Sound, SameEvents, Written
<1>9. ~d.clash /\ Known(d)
  BY <1>2, <1>3, <1>5, <1>6 DEF Ready, Handled, SameWire, Known, SameRequest
<1>10. Settled(d) /\ Losses(c, d)
  BY <1>6, <1>8 DEF Settled, Timed, Carried, AwaitsUnsol, Losses, SameEvents
<1>11. Goes(c, d, n)
  BY <1>6, <1>8, <1>9, <1>10 DEF Goes, Ready
<1> QED
  BY <1>4, <1>7, <1>11 DEF a

\* The lower layer comes up, has sent a fragment, or the time of a selection ends.
LEMMA SignalFacts ==
    ASSUME NEW n \in Nat, NEW c, Ready(c, n)
    PROVE  /\ Goes(c, [c EXCEPT !.online = TRUE, !.shouldCheck = TRUE], n)
           /\ Goes(c, [c EXCEPT !.transmitting = FALSE], n)
           /\ Goes(c, [c EXCEPT !.inTime = FALSE], n)
<1> DEFINE x == [c EXCEPT !.online = TRUE, !.shouldCheck = TRUE]
           y == [c EXCEPT !.transmitting = FALSE]
           z == [c EXCEPT !.inTime = FALSE]
<1>1. c \in Sessions(n) /\ Good(c.store, n)
  BY DEF Ready, Sound
<1>2. ASSUME NEW d, d \in Sessions(n), d.store = c.store, d.clash = c.clash,
             SameRequest(c, d), d.twice = c.twice, SameWait(c, d)
      PROVE  Goes(c, d, n)
  <2>1. Sound(d, n) /\ SameEvents(c, d)
    BY <1>1, <1>2 DEF Sound, SameEvents, Written
  <2> QED
    BY <1>2, <2>1, LeavesAlone
<1>3. /\ x \in Sessions(n) /\ x.store = c.store /\ x.clash = c.clash
      /\ SameRequest(c, x) /\ x.twice = c.twice /\ SameWait(c, x)
  BY <1>1 DEF Sessions, SameRequest, SameWait
<1>4. /\ y \in Sessions(n) /\ y.store = c.store /\ y.clash = c.clash
      /\ SameRequest(c, y) /\ y.twice = c.twice /\ SameWait(c, y)
  BY <1>1 DEF Sessions, SameRequest, SameWait
<1>5. /\ z \in Sessions(n) /\ z.store = c.store /\ z.clash = c.clash
      /\ SameRequest(c, z) /\ z.twice = c.twice /\ SameWait(c, z)
  BY <1>1 DEF Sessions, SameRequest, SameWait
<1> HIDE DEF x, y, z
<1>6. Goes(c, x, n) /\ Goes(c, y, n) /\ Goes(c, z, n)
  BY <1>2, <1>3, <1>4, <1>5
<1> QED
  BY <1>6 DEF x, y, z

LEMMA LowerLayerDownFacts ==
    ASSUME IInv, OnLowerLayerDown
    PROVE  Goes(s, s', made)
<1> DEFINE u == Unselect(s.store)
<1>1. s' = [s EXCEPT !.online = FALSE, !.transmitting = FALSE, !.state = "Idle",
                     !.completedNull = FALSE, !.timer = FALSE,
                     !.history = NoMessage, !.deferred = NoMessage,
                     !.store = u, !.forgotten = TRUE]
  BY DEF OnLowerLayerDown
<1>2. /\ s \in Sessions(made) /\ Good(s.store, made) /\ ~s.clash /\ ~s.twice
      /\ made \in Nat /\ "Idle" \in SessionStates /\ NoMessage \in Remembered
  BY NoMessageFacts DEF IInv, Ready, Sound, Known, SessionStates
<1>3. Good(u, made) /\ u \in Stores(made) /\ Events(u) = Events(s.store)
  <2>1. Good(u, made)
    BY <1>2, UnselectGood
  <2> QED
    BY <1>2, <2>1, UnselectGood DEF Good
<1> HIDE DEF u
<1>4. /\ s' \in Sessions(made) /\ s'.store = u /\ s'.clash = s.clash
      /\ s'.twice = s.twice /\ s'.forgotten /\ s'.state = "Idle"
  BY <1>1, <1>2, <1>3 DEF Sessions
<1>5. Sound(s', made) /\ ~s'.clash /\ Known(s') /\ Settled(s') /\ Losses(s, s')
  BY <1>2, <1>3, <1>4 DEF Sound, Known, Settled, Timed, Carried, AwaitsUnsol, Losses
<1> QED
  BY <1>4, <1>5 DEF Goes, Ready

\* The steps that make no event.
LEMMA QuietStep ==
    ASSUME IInv, [Next]_vars,
           ~ \E ok \in BOOLEAN, t \in Types, c \in Classes : HandleNewEvents(t, c, ok)
    PROVE  made' = made /\ Goes(s, s', made)
<1>0. made \in Nat /\ Ready(s, made)
  BY DEF IInv
<1>1. ASSUME NEW ok \in BOOLEAN, OnLowerLayerUp(ok)
      PROVE  made' = made /\ Goes(s, s', made)
  BY <1>0, <1>1, SignalFacts, CheckForTaskStartFacts DEF OnLowerLayerUp
<1>2. ASSUME NEW ok \in BOOLEAN, OnTxReady(ok)
      PROVE  made' = made /\ Goes(s, s', made)
  BY <1>0, <1>2, SignalFacts, CheckForTaskStartFacts DEF OnTxReady
<1>3. ASSUME NEW ok \in BOOLEAN, ConfirmTimeout(ok)
      PROVE  made' = made /\ Goes(s, s', made)
  BY <1>0, <1>3, OnConfirmTimeoutFacts, CheckForTaskStartFacts DEF ConfirmTimeout
<1>4. ASSUME NEW ok \in BOOLEAN, NEW m \in Messages, OnReceive(m, ok)
      PROVE  made' = made /\ Goes(s, s', made)
  BY <1>0, <1>4, ProcessMessageFacts, CheckForTaskStartFacts DEF OnReceive
<1>5. ASSUME NEW ok \in BOOLEAN, NEW r \in Requests, NEW k \in SeqNums, NEW a \in Broadcasts,
             OnReceiveBroadcast(Numbered(r, k), a, ok)
      PROVE  made' = made /\ Goes(s, s', made)
  <2> DEFINE m == Numbered(r, k)
             noted == [s EXCEPT !.broadcast = a]
             d == IF Fn(m) = "MALFORMED" THEN noted ELSE OnBroadcastMessage(noted, m)
  <2>1. m \in Messages
    BY DEF Messages
  <2> HIDE DEF m
  <2>2. made' = made /\ s' = CheckForTaskStart(d, ok)
    BY <1>5 DEF OnReceiveBroadcast, m
  <2>3. Goes(s, d, made)
    BY <1>0, <2>1, BroadcastFacts
  <2> HIDE DEF d
  <2> QED
    BY <1>0, <2>2, <2>3, CheckForTaskStartFacts
<1>6. ASSUME OnLowerLayerDown
      PROVE  made' = made /\ Goes(s, s', made)
  BY <1>6, LowerLayerDownFacts DEF OnLowerLayerDown
<1>7. ASSUME SelectTimeout
      PROVE  made' = made /\ Goes(s, s', made)
  BY <1>0, <1>7, SignalFacts DEF SelectTimeout
<1>8. ASSUME UNCHANGED vars
      PROVE  made' = made /\ Goes(s, s', made)
  BY <1>0, <1>8, StaysAsItIs DEF vars
<1> QED
  BY <1>1, <1>2, <1>3, <1>4, <1>5, <1>6, <1>7, <1>8 DEF Next

\* The events that are gone after an event was made: the oldest of a full list, or
\* those of the fragment that was waited for.
LEMMA EventStep ==
    ASSUME IInv, NEW t \in Types, NEW c \in Classes, NEW ok, HandleNewEvents(t, c, ok)
    PROVE  /\ made' = made + 1 /\ Ready(s', made')
           /\ NoShall =>
                \A i \in Events(s.store) \ Events(s'.store) :
                    \/ s.state = "SolWait" /\ i \in s.sent
                    \/ AwaitsUnsol(s) /\ s.completedNull /\ i \in s.usent
                    \/ /\ s.store.events[i].type = t /\ i = Oldest(s.store, t)
                       /\ IsFullAndCapacityNotZero(s.store, t)
<1> DEFINE w == Update(s.store, made + 1, t, c)
           b == [s EXCEPT !.store = w, !.shouldCheck = TRUE]
           n == made + 1
<1>1. made' = n /\ s' = CheckForTaskStart(b, ok)
  BY DEF HandleNewEvents
<1>2. /\ made \in Nat /\ n \in Nat /\ Ready(s, made) /\ s \in Sessions(made)
      /\ Good(s.store, made)
  BY DEF IInv, Ready, Sound
<1>3. /\ Good(w, n)
      /\ Events(s.store) \ Events(w) \subseteq Dropped(s.store, t)
      /\ InState(w, "written") \subseteq InState(s.store, "written")
  <2>1. CASE Capacity[t] = 0
    BY <1>2, <2>1, UpdateGood
  <2>2. CASE Capacity[t] # 0
    <3>1. /\ Good(w, n)
          /\ Events(w) = (Events(s.store) \ Dropped(s.store, t)) \cup {made + 1}
          /\ InState(w, "written") = InState(s.store, "written") \ Dropped(s.store, t)
      BY <1>2, <2>2, UpdateGood
    <3> HIDE DEF w
    <3> QED
      BY <3>1
  <2> QED
    BY <2>1, <2>2
<1>4. \A i \in Dropped(s.store, t) :
          /\ s.store.events[i].type = t /\ i = Oldest(s.store, t)
          /\ IsFullAndCapacityNotZero(s.store, t)
  BY <1>2, UpdateGood DEF Dropped
<1>5. w \in Stores(n)
  BY <1>3 DEF Good
<1>6. s.sent \in EventSets(n) /\ s.usent \in EventSets(n)
  <2>1. s.sent \subseteq 1 .. made /\ s.usent \subseteq 1 .. made
    BY <1>2 DEF Sessions, EventSets
  <2>2. 1 .. made \subseteq 1 .. n
    BY <1>2
  <2> QED
    BY <2>1, <2>2 DEF EventSets
<1> HIDE DEF w, n
<1>7. /\ b \in Sessions(n) /\ b.store = w /\ b.clash = s.clash /\ SameRequest(s, b)
      /\ b.twice = s.twice /\ SameWait(s, b)
  BY <1>2, <1>5, <1>6 DEF Sessions, SameRequest, SameWait
<1> HIDE DEF b
<1>8. Sound(b, n) /\ ~b.clash /\ Known(b)
  BY <1>2, <1>3, <1>7 DEF Sound, Ready, Known, SameRequest
<1>9. NoShall => Settled(b)
  BY <1>2, <1>3, <1>7
     DEF Ready, Settled, Timed, Carried, SameWait, SameRequest, AwaitsUnsol, Written
<1>10. Goes(b, s', n)
  BY <1>1, <1>2, <1>8, <1>9, StaysAsItIs, CheckForTaskStartFacts DEF Ready
<1>11. ASSUME NoShall, NEW i \in Events(s.store) \ Events(s'.store)
       PROVE  \/ s.state = "SolWait" /\ i \in s.sent
              \/ AwaitsUnsol(s) /\ s.completedNull /\ i \in s.usent
              \/ i \in Dropped(s.store, t)
  <2>1. CASE i \in Events(w)
    BY <1>7, <1>10, <1>11, <2>1 DEF Goes, Losses, SameWait, AwaitsUnsol
  <2>2. CASE i \notin Events(w)
    BY <1>3, <2>2
  <2> QED
    BY <2>1, <2>2
<1> QED
  BY <1>1, <1>4, <1>10, <1>11 DEF Goes, n

LEMMA InitReady == Init => IInv
<1> SUFFICES ASSUME Init PROVE IInv
  OBVIOUS
<1>1. s = NewSession /\ made = 0
  BY DEF Init
<1>2. Good(EmptyStore, 0) /\ EmptyStore \in Stores(0) /\ {} \in EventSets(0)
  BY EmptyGood DEF Good, EventSets
<1>3. /\ 0 \in SeqNums /\ NoMessage \in Remembered /\ StartMask \in Masks
      /\ "Idle" \in SessionStates /\ "none" \in Controls
      /\ "none" \in Addresses
  BY NumberFacts, NoMessageFacts, SessionAssumption
     DEF SessionAssumption, Masks, SessionStates, Controls, Addresses
<1>4. /\ s \in Sessions(0) /\ s.store = EmptyStore /\ ~s.clash
      /\ ~s.twice /\ s.done = NoMessage /\ s.state = "Idle"
  BY <1>1, <1>2, <1>3 DEF NewSession, Sessions
<1>5. Sound(s, 0) /\ Known(s) /\ Settled(s)
  BY <1>2, <1>4 DEF Sound, Known, Settled, Timed, Carried, AwaitsUnsol
<1> QED
  BY <1>1, <1>4, <1>5 DEF IInv, Ready

LEMMA StepReady == IInv /\ [Next]_vars => IInv'
<1> SUFFICES ASSUME IInv, [Next]_vars PROVE IInv'
  OBVIOUS
<1>1. CASE \E ok \in BOOLEAN, t \in Types, c \in Classes : HandleNewEvents(t, c, ok)
  BY <1>1, EventStep DEF IInv
<1>2. CASE ~ \E ok \in BOOLEAN, t \in Types, c \in Classes : HandleNewEvents(t, c, ok)
  BY <1>2, QuietStep DEF IInv, Goes
<1> QED
  BY <1>1, <1>2

LEMMA AlwaysReady == Spec => []IInv
BY InitReady, StepReady, PTL DEF Spec

(***************************************************************************)
(* The theorems.                                                           *)
(***************************************************************************)
\* The fields of the session are what OContext declares: numbers wrap, messages that
\* are remembered were received, and the events a fragment carries have happened.
THEOREM SessionTypeCorrect == Spec => []TypeOK
<1>1. IInv => TypeOK
  <2> SUFFICES ASSUME IInv PROVE TypeOK
    OBVIOUS
  <2>1. made \in Nat /\ s \in Sessions(made)
    BY DEF IInv, Ready, Sound
  <2>2. {s.online, s.transmitting, s.timer, s.completedNull, s.shouldCheck, s.selected,
         s.inTime, s.clash, s.forgotten, s.twice} \subseteq BOOLEAN
    BY <2>1 DEF Sessions
  <2>3. /\ s.state \in {"Idle", "SolWait", "UnsolWait", "NullWait"}
        /\ {s.seq, s.confirmNum, s.unum, s.uconfirmNum, s.expectedSeq} \subseteq SeqNums
        /\ {s.history, s.deferred, s.done} \subseteq Messages \cup {NoMessage}
    BY <2>1 DEF Sessions, SessionStates, Remembered
  <2>4. /\ s.sent \cup s.usent \subseteq 1 .. made
        /\ s.static \in Nat /\ s.retries \in Nat
        /\ s.broadcast \in Broadcasts \cup {"none"}
        /\ s.mask \subseteq Classes
    BY <2>1 DEF Sessions, EventSets, Addresses, Masks
  <2> QED
    BY <2>1, <2>2, <2>3, <2>4 DEF TypeOK
<1> QED
  BY <1>1, AlwaysReady, PTL

\* Whatever the session does with the event store, its lists and counters agree and
\* events are reported oldest first.
THEOREM SessionKeepsStore ==
    Spec => [](ListsMatch(s.store) /\ CountsMatch(s.store) /\ InOrder(s.store))
<1>1. IInv => ListsMatch(s.store) /\ CountsMatch(s.store) /\ InOrder(s.store)
  BY DEF IInv, Ready, Sound, Good
<1> QED
  BY <1>1, AlwaysReady, PTL

\* No answer, no repeat of one and no first transmission of an unsolicited response
\* is handed to the transport layer while it is sending (OContext::CanTransmit,
\* BeginTx); this needs no assumption on what the master sends.  The retry of an
\* unsolicited response after a timeout looks at nothing
\* (BeginRetransmitLastUnsolicitedResponse) and is not covered.
THEOREM NeverTwoTransmissions == Spec => []OneTransmissionAtATime
<1>1. IInv => OneTransmissionAtATime
  BY DEF IInv, Ready, OneTransmissionAtATime
<1> QED
  BY <1>1, AlwaysReady, PTL

\* Between two executions of the same command, with the same sequence number, the
\* session processed a confirmation or another request, or lost its link: nothing
\* else makes it take a repeat for a new request (RequestHistory,
\* OContext::OnReceiveSolRequest).
THEOREM CommandsOnceUnlessForgotten == Spec => []OnceUnlessForgotten
<1>1. IInv => OnceUnlessForgotten
  BY DEF IInv, Ready, Known, OnceUnlessForgotten
<1> QED
  BY <1>1, AlwaysReady, PTL

\* Where no broadcast asks for a confirmation, a session that waits has its timer.
THEOREM EveryWaitTimed ==
    ASSUME NoShall
    PROVE  Spec => []WaitsAreTimed
<1>1. IInv => WaitsAreTimed
  BY DEF IInv, Ready, Settled, Timed, WaitsAreTimed
<1> QED
  BY <1>1, AlwaysReady, PTL

\* Where no broadcast asks for a confirmation, an event leaves the outstation only
\* with the confirmation of the fragment that carried it, or when a full list makes
\* room for a newer one.
THEOREM EventsStayUntilConfirmed ==
    ASSUME NoShall
    PROVE  Spec => UnconfirmedEventsStay
<1> DEFINE Stay ==
        \A i \in Events(s.store) \ Events(s'.store) :
            \/ s.state = "SolWait" /\ i \in s.sent
            \/ AwaitsUnsol(s) /\ s.completedNull /\ i \in s.usent
            \/ /\ made' > made
               /\ LET t == s.store.events[i].type
                  IN  IsFullAndCapacityNotZero(s.store, t) /\ i = Oldest(s.store, t)
<1>1. IInv /\ [Next]_vars => Stay
  <2> SUFFICES ASSUME IInv, [Next]_vars PROVE Stay
    OBVIOUS
  <2>1. CASE \E ok \in BOOLEAN, t \in Types, c \in Classes : HandleNewEvents(t, c, ok)
    <3>1. PICK ok \in BOOLEAN, t \in Types, c \in Classes : HandleNewEvents(t, c, ok)
      BY <2>1
    <3>2. made \in Nat /\ made' = made + 1
      BY <3>1, EventStep DEF IInv
    <3>3. made' > made
      BY <3>2
    <3> QED
      BY <3>1, <3>3, EventStep
  <2>2. CASE ~ \E ok \in BOOLEAN, t \in Types, c \in Classes : HandleNewEvents(t, c, ok)
    BY <2>2, QuietStep DEF Goes, Losses
  <2> QED
    BY <2>1, <2>2
<1>2. IInv /\ [Next]_vars => [Stay]_vars
  BY <1>1
<1> HIDE DEF Stay
<1>3. Spec => [][Stay]_vars
  BY <1>2, AlwaysReady, PTL DEF Spec
<1> QED
  BY <1>3 DEF UnconfirmedEventsStay, Stay
=============================================================================

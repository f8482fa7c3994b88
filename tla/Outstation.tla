----------------------------- MODULE Outstation -----------------------------
(***************************************************************************)
(* The application layer session of an outstation (opendnp3, OContext and  *)
(* OutstationStates): requests and their repeats, solicited responses in   *)
(* fragments, unsolicited responses, confirmations and their timer,        *)
(* deferred requests, broadcasts, and select before operate.               *)
(*                                                                         *)
(* The session is one object that lives on one thread; its handlers are    *)
(* functions from a session to the next, named as in the source.  What     *)
(* arrives, and when the timer, the lower layers and the application       *)
(* speak, is arbitrary: any request may be lost, repeated or late.         *)
(*                                                                         *)
(* sent and usent (the events in the last solicited and unsolicited        *)
(* fragment), clash, done (the command carried out last), forgotten (what  *)
(* the session knew of it is gone) and twice are history: only properties  *)
(* read them.                                                              *)
(***************************************************************************)
EXTENDS EventLists

CONSTANTS
    Requests,        \* the requests a master sends, without their numbers
    Broadcasts,      \* the broadcast addresses in use
    SeqMod,          \* sequence numbers run from 0 to SeqMod - 1 (16)
    FragmentRoom,    \* events or static points that fit into a fragment
    StartMask,       \* params.unsolClassMask at the start
    AllowUnsol,      \* params.allowUnsolicited
    ReadDuringNull,  \* params.noDefferedReadDuringUnsolicitedNullResponse
    InfiniteRetries, \* params.numUnsolRetries
    MaxRetries,      \*   and its limit when it has one
    MaxEvents        \* bound: events that happen

ASSUME SessionAssumption ==
    /\ Broadcasts \subseteq {"dont", "optional", "shall"}
    /\ SeqMod \in Nat \ {0}
    /\ FragmentRoom \in Nat \ {0}
    /\ StartMask \subseteq Classes
    /\ {AllowUnsol, ReadDuringNull, InfiniteRetries} \subseteq BOOLEAN
    /\ MaxRetries \in Nat
    /\ MaxEvents \in Nat

\* The fields of a request: its function, the event classes and the number of
\* static points it names, whether its objects end in an error, and the control
\* block of a command.
ASSUME RequestsAssumption ==
    \A r \in Requests :
        /\ {"fn", "classes", "static", "broken", "control"} = DOMAIN r
        /\ r.fn \notin {"CONFIRM", "none"}
        /\ r.classes \subseteq Classes
        /\ r.static \in Nat
        /\ r.broken \in BOOLEAN

VARIABLES
    s,      \* OContext
    made    \* how many events have happened

vars == <<s, made>>

SeqNums == 0 .. SeqMod - 1

\* Variant: a number that does not wrap.
NextUnbounded(n) == n + 1

\* AppSeqNum::Next
Next16(n) == (n + 1) % SeqMod

\* A request as received: with its sequence number and its UNS bit.
Numbered(r, n) == [req |-> r, seq |-> n, uns |-> FALSE]

ConfirmObjects == [fn |-> "CONFIRM", classes |-> {}, static |-> 0, broken |-> FALSE,
                   control |-> "none"]

Confirmation(n, uns) == [req |-> ConfirmObjects, seq |-> n, uns |-> uns]

Messages == {Numbered(r, n) : r \in Requests, n \in SeqNums}
              \cup {Confirmation(n, uns) : n \in SeqNums, uns \in BOOLEAN}

NoMessage == [req |-> [ConfirmObjects EXCEPT !.fn = "none"], seq |-> 0, uns |-> FALSE]

Fn(m) == m.req.fn

NoAck == {"DIRECT_OPERATE_NR"}

Commands == {"OPERATE", "DIRECT_OPERATE"}

NewSession ==
    [online |-> FALSE, transmitting |-> FALSE, state |-> "Idle", timer |-> FALSE,
     seq |-> 0, confirmNum |-> 0, sent |-> {},
     unum |-> 0, uconfirmNum |-> 0, usent |-> {}, completedNull |-> FALSE, retries |-> 0,
     history |-> NoMessage, deferred |-> NoMessage,
     store |-> EmptyStore, static |-> 0,
     selected |-> FALSE, expectedSeq |-> 0, selectedFor |-> "none", inTime |-> FALSE,
     broadcast |-> "none", mask |-> StartMask, shouldCheck |-> FALSE,
     clash |-> FALSE, done |-> NoMessage, forgotten |-> FALSE, twice |-> FALSE]

Init == s = NewSession /\ made = 0

(***************************************************************************)
(* Transmitting.                                                           *)
(***************************************************************************)
CanTransmit(c) == c.online /\ ~c.transmitting

BeginTx(c) == [c EXCEPT !.transmitting = TRUE, !.clash = @ \/ c.transmitting]

\* The transport layer refuses the retry if it is still sending; the next timeout
\* tries again.
BeginRetransmitLastUnsolicitedResponse(c) == [c EXCEPT !.transmitting = TRUE]

\* GetResponseIIN and CheckForBroadcastConfirmation, on the way of any response.
Marked(c) == [c EXCEPT !.store = IsOverflown(@),
                       !.broadcast = IF @ = "shall" THEN @ ELSE "none"]

BeginResponseTx(c, seq, con, events) ==
    LET wait == con \/ c.broadcast = "shall"
    IN  BeginTx([Marked(c) EXCEPT !.confirmNum = seq, !.sent = events,
                                  !.timer = @ \/ wait,
                                  !.state = IF wait THEN "SolWait" ELSE "Idle"])

BeginUnsolTx(c, events) ==
    BeginTx([Marked(c) EXCEPT !.uconfirmNum = c.unum, !.unum = Next16(c.unum),
                              !.usent = events, !.timer = TRUE])

\* ResponseContext::LoadResponse: events while there are selected ones, then
\* static points in what is left of the fragment.
LoadResponse(c, seq) ==
    LET events == Loaded(c.store, FragmentRoom)
        store  == Load(c.store, FragmentRoom)
        room   == FragmentRoom - Cardinality(events)
        left   == IF HasAnySelection(store) THEN c.static
                  ELSE IF c.static > room THEN c.static - room ELSE 0
        fin    == ~HasAnySelection(store) /\ left = 0
    IN  BeginResponseTx([c EXCEPT !.store = store, !.static = left], seq,
                        ~fin \/ events # {}, events)

(***************************************************************************)
(* The function handlers.  ok is the application's answer to a command.    *)
(***************************************************************************)
Executed(c, m) ==
    IF Fn(m) \notin Commands \/ m.req.broken THEN [c EXCEPT !.shouldCheck = TRUE]
    ELSE [c EXCEPT !.shouldCheck = TRUE, !.done = m, !.forgotten = FALSE,
                   !.twice = @ \/ (m = c.done /\ ~c.forgotten)]

HandleSelect(c, m, ok) ==
    IF m.req.broken \/ ~ok THEN c
    ELSE [c EXCEPT !.selected = TRUE, !.expectedSeq = Next16(c.seq),
                   !.selectedFor = m.req.control, !.inTime = TRUE]

ValidateSelection(c, m) ==
    /\ c.selected /\ c.expectedSeq = c.seq
    /\ c.inTime
    /\ c.selectedFor = m.req.control

HandleOperate(c, m) ==
    IF ValidateSelection(c, m) THEN Executed(c, m) ELSE [c EXCEPT !.selected = FALSE]

HandleDisableUnsolicited(c, m) ==
    IF m.req.broken THEN c ELSE [c EXCEPT !.mask = @ \ m.req.classes]

HandleEnableUnsolicited(c, m) ==
    IF m.req.broken THEN c
    ELSE [c EXCEPT !.mask = @ \cup m.req.classes, !.shouldCheck = TRUE]

\* What the other functions do (writes, restarts, freezes, times, classes) leaves
\* the session as it is.
HandleNonReadResponse(c, m, ok) ==
    CASE Fn(m) = "SELECT"                 -> HandleSelect(c, m, ok)
      [] Fn(m) = "OPERATE"                -> HandleOperate(c, m)
      [] Fn(m) = "DIRECT_OPERATE"         -> Executed(c, m)
      [] Fn(m) = "DISABLE" /\ AllowUnsol  -> HandleDisableUnsolicited(c, m)
      [] Fn(m) = "ENABLE" /\ AllowUnsol   -> HandleEnableUnsolicited(c, m)
      [] OTHER                            -> c

ProcessBroadcastRequest(c, m) ==
    CASE Fn(m) = "DIRECT_OPERATE_NR"      -> Executed(c, m)
      [] Fn(m) = "DISABLE" /\ AllowUnsol  -> HandleDisableUnsolicited(c, m)
      [] Fn(m) = "ENABLE" /\ AllowUnsol   -> HandleEnableUnsolicited(c, m)
      [] OTHER                            -> c

ProcessRequestNoAck(c, m) == Executed(c, m)

\* HandleRead.  APDUParser::Parse looks through all objects before it hands on the
\* first, so a READ that ends in an error selects nothing.
RespondToReadRequest(c, m) ==
    LET cleared == [c EXCEPT !.history = m, !.store = Unselect(@), !.static = 0]
        chosen  == [cleared EXCEPT
                      !.store = SelectByClass(@, m.req.classes, Cardinality(Events(@))),
                      !.static = m.req.static]
    IN  IF m.req.broken THEN BeginResponseTx(cleared, m.seq, FALSE, {})
                        ELSE LoadResponse(chosen, m.seq)

\* Variant: a request is remembered only when it is a READ.
RespondForgetfully(c, m, ok) ==
    BeginResponseTx(HandleNonReadResponse(c, m, ok), m.seq, FALSE, {})

RespondToNonReadRequest(c, m, ok) ==
    BeginResponseTx(HandleNonReadResponse([c EXCEPT !.history = m], m, ok),
                    m.seq, FALSE, {})

(***************************************************************************)
(* The states.  IsWaiting covers the two states that wait for the          *)
(* confirmation of an unsolicited response.                                *)
(***************************************************************************)
AwaitsUnsol(c) == c.state \in {"UnsolWait", "NullWait"}

OnNewReadRequest(c, m) ==
    CASE c.state = "Idle"      -> RespondToReadRequest(c, m)
      [] c.state = "UnsolWait" -> [c EXCEPT !.deferred = m]
      [] OTHER                 -> RespondToReadRequest([c EXCEPT !.timer = FALSE], m)

OnNewNonReadRequest(c, m, ok) ==
    CASE c.state = "Idle"    -> RespondToNonReadRequest(c, m, ok)
      [] c.state = "SolWait" -> RespondToNonReadRequest([c EXCEPT !.timer = FALSE], m, ok)
      [] OTHER               -> [RespondToNonReadRequest([c EXCEPT !.deferred = NoMessage], m, ok)
                                   EXCEPT !.state = c.state]

OnRepeatReadRequest(c, m) ==
    CASE c.state = "Idle"    -> BeginTx(c)
      [] c.state = "SolWait" -> BeginTx([c EXCEPT !.timer = TRUE])
      [] OTHER               -> [c EXCEPT !.deferred = m]

OnRepeatNonReadRequest(c, m) ==
    BeginTx(IF c.state = "SolWait" THEN [c EXCEPT !.timer = FALSE] ELSE c)

OnBroadcastMessage(c, m) == [ProcessBroadcastRequest(c, m) EXCEPT !.state = "Idle"]

SolConfirmed(c, m) ==
    LET d == [c EXCEPT !.history = NoMessage, !.timer = FALSE, !.forgotten = TRUE,
                       !.store = ClearWritten(@), !.broadcast = "none"]
    IN  IF HasAnySelection(d.store) \/ d.static > 0
        THEN LoadResponse(d, Next16(m.seq))
        ELSE [d EXCEPT !.state = "Idle"]

UnsolConfirmed(c) ==
    [c EXCEPT !.history = NoMessage, !.timer = FALSE, !.forgotten = TRUE,
              !.broadcast = "none",
              !.store = IF c.completedNull THEN ClearWritten(@) ELSE @,
              !.completedNull = TRUE, !.shouldCheck = TRUE, !.state = "Idle"]

OnConfirm(c, m) ==
    CASE c.state = "SolWait" /\ ~m.uns /\ m.seq = c.confirmNum -> SolConfirmed(c, m)
      [] AwaitsUnsol(c) /\ m.uns /\ m.seq = c.uconfirmNum      -> UnsolConfirmed(c)
      [] OTHER                                                 -> c

Retry(c) == InfiniteRetries \/ c.retries < MaxRetries

\* Variant: a retry does not start the timer again.
OnConfirmTimeoutUntimed(c) ==
    LET counted == [c EXCEPT !.retries = IF InfiniteRetries \/ @ > MaxRetries THEN @ ELSE @ + 1]
    IN  CASE AwaitsUnsol(c) /\ c.completedNull /\ Retry(c) /\ c.deferred = NoMessage ->
                BeginRetransmitLastUnsolicitedResponse(counted)
          [] AwaitsUnsol(c) /\ c.completedNull /\ ~(Retry(c) /\ c.deferred = NoMessage) ->
                [counted EXCEPT !.store = Unselect(@), !.state = "Idle"]
          [] OTHER -> [c EXCEPT !.state = "Idle"]

\* Variant: an unsolicited response is retried although a request waits.
OnConfirmTimeoutStubborn(c) ==
    LET counted == [c EXCEPT !.retries = IF InfiniteRetries \/ @ > MaxRetries THEN @ ELSE @ + 1]
    IN  CASE AwaitsUnsol(c) /\ c.completedNull /\ Retry(c) ->
                BeginRetransmitLastUnsolicitedResponse([counted EXCEPT !.timer = TRUE])
          [] AwaitsUnsol(c) /\ c.completedNull /\ ~Retry(c) ->
                [counted EXCEPT !.store = Unselect(@), !.state = "Idle"]
          [] OTHER -> [c EXCEPT !.state = "Idle"]

OnConfirmTimeout(c) ==
    LET counted == [c EXCEPT !.retries = IF InfiniteRetries \/ @ > MaxRetries THEN @ ELSE @ + 1]
    IN  CASE AwaitsUnsol(c) /\ c.completedNull /\ Retry(c) /\ c.deferred = NoMessage ->
                BeginRetransmitLastUnsolicitedResponse([counted EXCEPT !.timer = TRUE])
          [] AwaitsUnsol(c) /\ c.completedNull /\ ~(Retry(c) /\ c.deferred = NoMessage) ->
                [counted EXCEPT !.store = Unselect(@), !.state = "Idle"]
          [] OTHER -> [c EXCEPT !.state = "Idle"]

(***************************************************************************)
(* Requests.                                                               *)
(***************************************************************************)
\* The session keeps the last request only: any other one takes the place of a
\* command that was carried out.
Noted(c, m) == [c EXCEPT !.forgotten = @ \/ m # c.done]

IsRepeat(c, m) == c.history # NoMessage /\ c.seq = m.seq /\ c.history = m

OnReceiveSolRequest(c, m, ok) ==
    LET new == [c EXCEPT !.seq = m.seq]
    IN  CASE IsRepeat(c, m) /\ Fn(m) = "READ"  -> OnRepeatReadRequest(c, m)
          [] IsRepeat(c, m) /\ Fn(m) # "READ"  -> OnRepeatNonReadRequest(c, m)
          [] ~IsRepeat(c, m) /\ Fn(m) = "READ" -> OnNewReadRequest(new, m)
          [] OTHER                             -> OnNewNonReadRequest(new, m, ok)

ProcessRequest(c, m, ok) == IF m.uns THEN c ELSE OnReceiveSolRequest(Noted(c, m), m, ok)

\* Variant: requests are processed while a response is on its way.
ProcessMessageAtOnce(c, m, ok) ==
    CASE Fn(m) = "MALFORMED" -> c
      [] Fn(m) \in NoAck     -> ProcessRequestNoAck(c, m)
      [] Fn(m) = "CONFIRM"   -> OnConfirm(c, m)
      [] OTHER -> ProcessRequest(c, m, ok)

\* A message whose header cannot be parsed goes no further.
ProcessMessage(c, m, ok) ==
    CASE Fn(m) = "MALFORMED" -> c
      [] Fn(m) \in NoAck     -> ProcessRequestNoAck(c, m)
      [] Fn(m) \notin NoAck \cup {"MALFORMED"} /\ c.transmitting -> [c EXCEPT !.deferred = m]
      [] Fn(m) = "CONFIRM" /\ ~c.transmitting -> OnConfirm(c, m)
      [] OTHER -> ProcessRequest(c, m, ok)

(***************************************************************************)
(* CheckForTaskStart, run at the end of every handler.                     *)
(***************************************************************************)
ProcessDeferredRequest(c, ok) ==
    LET m    == c.deferred
        next == IF Fn(m) = "CONFIRM" THEN OnConfirm(c, m) ELSE ProcessRequest(c, m, ok)
    IN  IF Fn(m) = "READ" /\ c.state # "Idle" THEN c
        ELSE [next EXCEPT !.deferred = NoMessage]

CheckForDeferredRequest(c, ok) ==
    IF CanTransmit(c) /\ c.deferred # NoMessage THEN ProcessDeferredRequest(c, ok) ELSE c

MaySendUnsol(c) == CanTransmit(c) /\ c.state = "Idle" /\ AllowUnsol

CheckForUnsolicitedNull(c) ==
    IF MaySendUnsol(c) /\ ~c.completedNull
    THEN BeginUnsolTx([c EXCEPT !.state = IF ReadDuringNull THEN "NullWait" ELSE "UnsolWait"],
                      {})
    ELSE c

\* Variant: what an earlier response had taken is not put back first.
SendUnsolicitedKeeping(c) ==
    LET store == SelectByClass(c.store, c.mask, Cardinality(Events(c.store)))
    IN  BeginUnsolTx([c EXCEPT !.retries = 0, !.state = "UnsolWait",
                               !.store = Load(store, FragmentRoom)],
                     Loaded(store, FragmentRoom))

SendUnsolicited(c) ==
    LET store == SelectByClass(Unselect(c.store), c.mask, Cardinality(Events(c.store)))
    IN  BeginUnsolTx([c EXCEPT !.retries = 0, !.state = "UnsolWait",
                               !.store = Load(store, FragmentRoom)],
                     Loaded(store, FragmentRoom))

\* Variant: that something is to be sent is forgotten when it cannot be sent.
CheckForUnsolicitedOnce(c) ==
    LET checked == [c EXCEPT !.shouldCheck = FALSE]
    IN  IF /\ c.shouldCheck /\ MaySendUnsol(c) /\ c.completedNull
           /\ c.mask \cap UnwrittenClassField(c.store) # {}
        THEN SendUnsolicited(checked)
        ELSE checked

CheckForUnsolicited(c) ==
    IF ~(c.shouldCheck /\ MaySendUnsol(c)) THEN c
    ELSE LET checked == [c EXCEPT !.shouldCheck = FALSE]
         IN  IF c.completedNull /\ c.mask \cap UnwrittenClassField(c.store) # {}
             THEN SendUnsolicited(checked)
             ELSE checked

CheckForTaskStart(c, ok) ==
    CheckForUnsolicited(CheckForUnsolicitedNull(CheckForDeferredRequest(c, ok)))

(***************************************************************************)
(* Actions.                                                                *)
(***************************************************************************)
OnLowerLayerUp(ok) ==
    /\ ~s.online
    /\ s' = CheckForTaskStart([s EXCEPT !.online = TRUE, !.shouldCheck = TRUE], ok)
    /\ UNCHANGED made

OnLowerLayerDown ==
    /\ s.online
    /\ s' = [s EXCEPT !.online = FALSE, !.transmitting = FALSE, !.state = "Idle",
                      !.completedNull = FALSE, !.timer = FALSE,
                      !.history = NoMessage, !.deferred = NoMessage,
                      !.store = Unselect(@), !.forgotten = TRUE]
    /\ UNCHANGED made

OnTxReady(ok) ==
    /\ s.online /\ s.transmitting
    /\ s' = CheckForTaskStart([s EXCEPT !.transmitting = FALSE], ok)
    /\ UNCHANGED made

OnReceive(m, ok) ==
    /\ s.online
    /\ s' = CheckForTaskStart(ProcessMessage(s, m, ok), ok)
    /\ UNCHANGED made

\* A broadcast is noted before anything else in it is looked at; one that cannot
\* be parsed goes no further.
OnReceiveBroadcast(m, address, ok) ==
    /\ s.online
    /\ LET noted == [s EXCEPT !.broadcast = address]
       IN  s' = CheckForTaskStart(IF Fn(m) = "MALFORMED" THEN noted
                                  ELSE OnBroadcastMessage(noted, m), ok)
    /\ UNCHANGED made

ConfirmTimeout(ok) ==
    /\ s.timer
    /\ s' = CheckForTaskStart(OnConfirmTimeout([s EXCEPT !.timer = FALSE]), ok)
    /\ UNCHANGED made

\* An update of the database makes an event and HandleNewEvents follows.
HandleNewEvents(t, c, ok) ==
    /\ made < MaxEvents
    /\ made' = made + 1
    /\ s' = CheckForTaskStart([s EXCEPT !.store = Update(@, made + 1, t, c),
                                        !.shouldCheck = TRUE], ok)

\* params.selectTimeout passes.
SelectTimeout ==
    /\ s.selected /\ s.inTime
    /\ s' = [s EXCEPT !.inTime = FALSE]
    /\ UNCHANGED made

Next ==
    \/ \E ok \in BOOLEAN :
        \/ OnLowerLayerUp(ok)
        \/ OnTxReady(ok)
        \/ ConfirmTimeout(ok)
        \/ \E m \in Messages : OnReceive(m, ok)
        \/ \E r \in Requests, n \in SeqNums, a \in Broadcasts :
              OnReceiveBroadcast(Numbered(r, n), a, ok)
        \/ \E t \in Types, c \in Classes : HandleNewEvents(t, c, ok)
    \/ OnLowerLayerDown
    \/ SelectTimeout

Spec == Init /\ [][Next]_vars

(***************************************************************************)
(* Properties.                                                             *)
(***************************************************************************)
\* The fields of OContext are what their declarations say.
TypeOK ==
    /\ made \in Nat
    /\ {s.online, s.transmitting, s.timer, s.completedNull, s.shouldCheck, s.selected,
        s.inTime, s.clash, s.forgotten, s.twice} \subseteq BOOLEAN
    /\ s.state \in {"Idle", "SolWait", "UnsolWait", "NullWait"}
    /\ {s.seq, s.confirmNum, s.unum, s.uconfirmNum, s.expectedSeq} \subseteq SeqNums
    /\ {s.history, s.deferred, s.done} \subseteq Messages \cup {NoMessage}
    /\ s.sent \cup s.usent \subseteq 1 .. made
    /\ s.static \in Nat /\ s.retries \in Nat
    /\ s.broadcast \in Broadcasts \cup {"none"}
    /\ s.mask \subseteq Classes

\* An event is given up only when the confirmation being processed is that of the
\* fragment which carried it, or when the full list of its type makes room: a
\* response that timed out, was abandoned for a new request or for a broadcast, or
\* was followed by another one, leaves its events with the outstation.
UnconfirmedEventsStay ==
    [][\A i \in Events(s.store) \ Events(s'.store) :
        \/ s.state = "SolWait" /\ i \in s.sent
        \/ AwaitsUnsol(s) /\ s.completedNull /\ i \in s.usent
        \/ /\ made' > made
           /\ LET t == s.store.events[i].type
              IN  IsFullAndCapacityNotZero(s.store, t) /\ i = Oldest(s.store, t)]_vars

\* A session that waits for a confirmation has its timer running, so that lost
\* confirmations end the wait (RestartSolConfirmTimer, RestartUnsolConfirmTimer,
\* and every cancel of the timer they share).
WaitsAreTimed == s.state # "Idle" => s.timer

\* Nothing but the retry of an unsolicited response is handed to the transport
\* layer while it is still sending: a new response, a repeated one or a deferred
\* request would be refused there, and lost (BeginTx, TransportLayer::BeginTransmit).
OneTransmissionAtATime == ~s.clash

\* A request to operate that is received again is answered again and not carried
\* out again (RequestHistory, OnRepeatNonReadRequest), unless since the last time
\* a confirmation was processed, another request was processed, or the link was
\* lost: each of the three makes the session forget it, and no fourth thing does,
\* be it a broadcast, a timeout, a deferred request that waits, or a confirmation
\* that does not match.
OnceUnlessForgotten == ~s.twice
=============================================================================

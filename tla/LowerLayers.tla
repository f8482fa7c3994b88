----------------------------- MODULE LowerLayers -----------------------------
(***************************************************************************)
(* What carries the session's fragments (opendnp3): the transport layer,   *)
(* which cuts a fragment into segments, the link layer, which sends        *)
(* segments, keep-alives and answers through one socket, the channel that  *)
(* owns the socket, and the transport layer of the other end, which puts   *)
(* segments together again.  s is the sending end, whose layers share one  *)
(* thread; its handlers are functions from a state of the stack to the     *)
(* next, named as in the source.  Frames may be lost on the way (a frame   *)
(* with a wrong CRC is dropped), and a connection may be replaced at any   *)
(* time.                                                                   *)
(*                                                                         *)
(* accepted, out, since and mishap are history: only properties read them. *)
(***************************************************************************)
EXTENDS Integers, Sequences

CONSTANTS
    Sizes,        \* the numbers of segments a fragment may have
    SeqMod,       \* segments are numbered from 0 to SeqMod - 1 (64)
    RxRoom,       \* segments that fit into the receiver's buffer
    MaxMessages   \* bound: fragments that are sent

ASSUME LayersAssumption ==
    /\ Sizes \subseteq Nat \ {0}
    /\ SeqMod \in Nat \ {0}
    /\ RxRoom \in Nat
    /\ \A n \in Sizes : n <= RxRoom
    /\ MaxMessages \in Nat

VARIABLES
    s,          \* TransportLayer, TransportTx, LinkContext and IOHandler of the sender
    r,          \* TransportRx of the receiver
    accepted,   \* fragments accepted so far: they are numbered
    out,        \* the last fragment that was handed up, and whether it was good
    since,      \* segments written since the receiver had the first of a fragment
    mishap      \* what went wrong around the layers, see the properties

vars == <<s, r, accepted, out, since, mishap>>

LinkFrame == [link |-> TRUE]

\* TransportTx::GetSegment.  A segment is named by its fragment and its place in
\* it: the first has FIR, and its number is that of the transmitter.
GetSegment(c) ==
    [link |-> FALSE, msg |-> c.msg, part |-> c.count + 1, fin |-> c.left <= 1, seq |-> c.num]

NewStack ==
    [online |-> FALSE,
     sending |-> FALSE, msg |-> 0, left |-> 0, count |-> 0, num |-> 0,
     segments |-> FALSE, txMode |-> "Idle", pendingPri |-> FALSE, pendingSec |-> FALSE,
     pri |-> "Idle", sec |-> "NotReset", nextReadFCB |-> FALSE,
     keepAlive |-> FALSE, timer |-> FALSE, priTxBuffer |-> LinkFrame,
     txQueue |-> <<>>, posted |-> 0]

Init ==
    /\ s = NewStack
    /\ r = [parts |-> <<>>, expectedSeq |-> 0]
    /\ accepted = 0 /\ out = [msg |-> 0, good |-> TRUE] /\ since = 0 /\ mishap = {}

(***************************************************************************)
(* The transmitter.                                                        *)
(***************************************************************************)
\* Variant: a number that does not wrap.
AdvanceUnbounded(c) ==
    [c EXCEPT !.left = IF @ > 0 THEN @ - 1 ELSE 0, !.count = @ + 1, !.num = @ + 1]

\* TransportTx::Advance; left is the answer
Advance(c) ==
    [c EXCEPT !.left = IF @ > 0 THEN @ - 1 ELSE 0, !.count = @ + 1,
              !.num = (@ + 1) % SeqMod]

(***************************************************************************)
(* The link layer.  A frame lives in one of two buffers, one for the       *)
(* primary and one for the secondary station, and is written from there.   *)
(***************************************************************************)
\* LinkContext::QueueTransmit with IOHandler::BeginTransmit.  An entry of txQueue
\* has what the buffer held when it was handed to the channel.
QueuePrimary(c) ==
    IF c.txMode = "Idle"
    THEN [c EXCEPT !.txMode = "Primary",
                   !.txQueue = Append(@, [primary |-> TRUE, frame |-> c.priTxBuffer])]
    ELSE [c EXCEPT !.pendingPri = TRUE]

\* Variant: an answer does not wait for the frame that is being written.
QueueSecondaryAtOnce(c) ==
    [c EXCEPT !.txMode = "Secondary",
              !.txQueue = Append(@, [primary |-> FALSE, frame |-> LinkFrame])]

\* QueueAck, QueueLinkStatus
QueueSecondary(c) ==
    IF c.txMode = "Idle"
    THEN [c EXCEPT !.txMode = "Secondary",
                   !.txQueue = Append(@, [primary |-> FALSE, frame |-> LinkFrame])]
    ELSE [c EXCEPT !.pendingSec = TRUE]

SendSegment(c) == QueuePrimary([c EXCEPT !.priTxBuffer = GetSegment(c)])

TrySendUnconfirmed(c) ==
    IF c.pri = "Idle" THEN [SendSegment(c) EXCEPT !.pri = "TransmitWait"] ELSE c

\* Variant: a keep-alive does not wait for the segment that is being written.
TrySendRequestLinkStatusAnyway(c) ==
    [QueuePrimary([c EXCEPT !.priTxBuffer = LinkFrame])
        EXCEPT !.keepAlive = FALSE, !.timer = TRUE, !.pri = "StatusWait"]

\* Variant: the answer to a keep-alive is waited for without a timer.
TrySendRequestLinkStatusUntimed(c) ==
    IF c.pri = "Idle"
    THEN [QueuePrimary([c EXCEPT !.priTxBuffer = LinkFrame])
            EXCEPT !.keepAlive = FALSE, !.pri = "StatusWait"]
    ELSE c

TrySendRequestLinkStatus(c) ==
    IF c.pri = "Idle"
    THEN [QueuePrimary([c EXCEPT !.priTxBuffer = LinkFrame])
            EXCEPT !.keepAlive = FALSE, !.timer = TRUE, !.pri = "StatusWait"]
    ELSE c

TryStartTransmission(c) ==
    LET d == IF c.keepAlive THEN TrySendRequestLinkStatus(c) ELSE c
    IN  IF d.segments THEN TrySendUnconfirmed(d) ELSE d

\* Variant: the link layer does not let go of the fragment it has sent.
CompleteSendOperationHolding(c) == [c EXCEPT !.posted = @ + 1]

\* The transport layer is told later, by a task of the executor.
CompleteSendOperation(c) == [c EXCEPT !.segments = FALSE, !.posted = @ + 1]

\* PriStateBase::OnTxReady
PriOnTxReady(c) ==
    LET d == Advance(c)
    IN  IF c.pri # "TransmitWait" THEN c
        ELSE IF d.left > 0 THEN SendSegment(d)
        ELSE [CompleteSendOperation(d) EXCEPT !.pri = "Idle"]

\* SecStateBase::OnTxReady
SecOnTxReady(c) ==
    [c EXCEPT !.sec = CASE @ = "TransmitWaitReset"    -> "Reset"
                        [] @ = "TransmitWaitNotReset" -> "NotReset"
                        [] OTHER                      -> @]

TryPendingSec(c) ==
    IF c.pendingSec /\ c.txMode = "Idle"
    THEN QueueSecondary([c EXCEPT !.pendingSec = FALSE]) ELSE c

TryPendingPri(c) ==
    IF c.pendingPri /\ c.txMode = "Idle"
    THEN QueuePrimary([c EXCEPT !.pendingPri = FALSE]) ELSE c

\* LinkLayer::OnTxReady, called when the channel has written a frame
OnTxReady(c) ==
    LET d == TryPendingPri(TryPendingSec([c EXCEPT !.txMode = "Idle"]))
    IN  IF c.txMode = "Idle" THEN c
        ELSE TryStartTransmission(IF c.txMode = "Primary" THEN PriOnTxReady(d)
                                                          ELSE SecOnTxReady(d))

(***************************************************************************)
(* Frames from the other end.                                              *)
(***************************************************************************)
\* ACK, NACK, LINK_STATUS and NOT_SUPPORTED all end the wait for a link status.
OnAnswer(c) ==
    IF c.pri = "StatusWait" THEN [c EXCEPT !.timer = FALSE, !.pri = "Idle"] ELSE c

OnResetLinkStates(c) ==
    IF c.sec \in {"NotReset", "Reset"}
    THEN [QueueSecondary(c) EXCEPT !.nextReadFCB = TRUE, !.sec = "TransmitWaitReset"]
    ELSE c

OnRequestLinkStatus(c) ==
    CASE c.sec = "NotReset" -> [QueueSecondary(c) EXCEPT !.sec = "TransmitWaitNotReset"]
      [] c.sec = "Reset"    -> [QueueSecondary(c) EXCEPT !.sec = "TransmitWaitReset"]
      [] OTHER              -> c

\* Variant: a frame with an unexpected FCB makes the station wait as well.
OnTestLinkStatusWaiting(c, fcb) ==
    IF c.sec = "Reset"
    THEN [IF c.nextReadFCB = fcb THEN QueueSecondary(c) ELSE c
            EXCEPT !.nextReadFCB = ~fcb, !.sec = "TransmitWaitReset"]
    ELSE c

OnTestLinkStatus(c, fcb) ==
    IF c.sec = "Reset" /\ c.nextReadFCB = fcb
    THEN [QueueSecondary(c) EXCEPT !.nextReadFCB = ~@, !.sec = "TransmitWaitReset"]
    ELSE c

\* The data go up when fcb is the one expected; the answer of the application is
\* an action of its own.
OnConfirmedUserData(c, fcb, isBroadcast) ==
    IF c.sec # "Reset" THEN c
    ELSE [IF isBroadcast THEN c ELSE QueueSecondary(c)
            EXCEPT !.nextReadFCB = IF @ = fcb THEN ~@ ELSE @,
                   !.sec = "TransmitWaitReset"]

Functions == {"ANSWER", "RESET", "REQUEST_STATUS", "TEST", "CONFIRMED", "UNCONFIRMED"}

\* LinkContext::OnFrame, for the frames that its checks let pass
Handled(c, fn, fcb, isBroadcast) ==
    CASE fn = "ANSWER"         -> OnAnswer(c)
      [] fn = "RESET"          -> OnResetLinkStates(c)
      [] fn = "REQUEST_STATUS" -> OnRequestLinkStatus(c)
      [] fn = "TEST"           -> OnTestLinkStatus(c, fcb)
      [] fn = "CONFIRMED"      -> OnConfirmedUserData(c, fcb, isBroadcast)
      [] fn = "UNCONFIRMED"    -> c

(***************************************************************************)
(* The receiver, TransportRx::ProcessReceive.                              *)
(***************************************************************************)
\* What the receiver has of the fragment when it comes to the segment f.
Begun(f) == IF f.part = 1 THEN <<>> ELSE r.parts

\* Variant: the number of a segment is not looked at.
FollowsAny(f) == f.part = 1 \/ r.parts # <<>>

Follows(f) == f.part = 1 \/ (r.parts # <<>> /\ f.seq = r.expectedSeq)

\* A fragment as it was sent, and not handed up before.
Judged(parts) ==
    [msg  |-> parts[1].msg,
     good |-> /\ \A i \in DOMAIN parts : parts[i].msg = parts[1].msg /\ parts[i].part = i
              /\ parts[Len(parts)].fin
              /\ parts[1].msg > out.msg]

ProcessReceive(f) ==
    LET parts == Append(Begun(f), f)
    IN  IF ~Follows(f) THEN UNCHANGED <<r, out>>
        ELSE IF Len(parts) > RxRoom
        THEN r' = [r EXCEPT !.parts = <<>>] /\ UNCHANGED out
        ELSE /\ r' = [parts |-> IF f.fin THEN <<>> ELSE parts,
                      expectedSeq |-> (f.seq + 1) % SeqMod]
             /\ out' = IF f.fin THEN Judged(parts) ELSE out

(***************************************************************************)
(* Actions.                                                                *)
(***************************************************************************)
\* LinkContext::OnLowerLayerDown
LinkDown(c) ==
    [c EXCEPT !.online = FALSE, !.segments = FALSE, !.txMode = "Idle",
              !.pendingPri = FALSE, !.pendingSec = FALSE, !.pri = "Idle",
              !.sec = "NotReset", !.keepAlive = FALSE, !.timer = FALSE]

\* TransportLayer::OnLowerLayerDown; the transmitter keeps its number.
TransportDown(c) == [c EXCEPT !.sending = FALSE]

\* IOHandler::Reset.  Tasks of the executor stay where they are.
Reset(c) == [TransportDown(LinkDown(c)) EXCEPT !.txQueue = <<>>]

\* IOHandler::OnNewChannel: an existing channel is closed first.
OnNewChannel ==
    /\ s' = [Reset(s) EXCEPT !.online = TRUE]
    /\ r' = [r EXCEPT !.parts = <<>>]
    /\ mishap' = IF s.posted > 0 THEN mishap \cup {"overtaken"} ELSE mishap
    /\ UNCHANGED <<accepted, out, since>>

\* Reading or writing fails.
ChannelFails ==
    /\ s.online
    /\ s' = Reset(s)
    /\ r' = [r EXCEPT !.parts = <<>>]
    /\ UNCHANGED <<accepted, out, since, mishap>>

\* LinkLayer::Send: refused while there are segments of another fragment.
Send(c) == IF c.segments THEN c ELSE TryStartTransmission([c EXCEPT !.segments = TRUE])

\* TransportTx::Configure
Configure(c, m, n) == [c EXCEPT !.msg = m, !.left = n, !.count = 0]

\* TransportLayer::BeginTransmit, when the application has a fragment for it.
BeginTransmit(n) ==
    /\ s.online /\ ~s.sending
    /\ accepted < MaxMessages
    /\ accepted' = accepted + 1
    /\ s' = Send(Configure([s EXCEPT !.sending = TRUE], accepted + 1, n))
    /\ UNCHANGED <<r, out, since, mishap>>

\* The task of CompleteSendOperation, with TransportLayer::OnTxReady.
RunPosted ==
    /\ s.posted > 0
    /\ s' = [s EXCEPT !.posted = @ - 1, !.sending = FALSE]
    /\ UNCHANGED <<r, accepted, out, since, mishap>>

\* What may arrive of a frame whose buffer may have been used again meanwhile.
Written(e) ==
    IF e.primary THEN {e.frame, s.priTxBuffer} ELSE {e.frame}

OnWriteComplete ==
    /\ s.txQueue # <<>>
    /\ s' = OnTxReady([s EXCEPT !.txQueue = Tail(@)])
    /\ UNCHANGED accepted
    /\ \E f \in Written(Head(s.txQueue)), lost \in BOOLEAN :
          IF f.link THEN UNCHANGED <<r, out, since, mishap>>
          ELSE /\ since' = IF ~lost /\ f.part = 1 THEN 0
                           ELSE IF since >= SeqMod THEN since ELSE since + 1
               /\ mishap' = IF ~lost /\ f.part # 1 /\ since >= SeqMod
                            THEN mishap \cup {"wrapped"} ELSE mishap
               /\ IF lost THEN UNCHANGED <<r, out>> ELSE ProcessReceive(f)

OnKeepAliveTimeout ==
    /\ s.online
    /\ s' = TryStartTransmission([s EXCEPT !.keepAlive = TRUE])
    /\ UNCHANGED <<r, accepted, out, since, mishap>>

\* A wait for the link status ends before the request for it is written.
EndsEarly(c) == c.pri = "StatusWait" /\ (c.txMode = "Primary" \/ c.pendingPri)

\* Variant: what waits for the end of the request is not started.
OnResponseTimeoutIdle ==
    /\ s.timer
    /\ s' = [s EXCEPT !.timer = FALSE, !.pri = IF @ = "StatusWait" THEN "Idle" ELSE @]
    /\ mishap' = IF EndsEarly(s) THEN mishap \cup {"stalled"} ELSE mishap
    /\ UNCHANGED <<r, accepted, out, since>>

OnResponseTimeout ==
    /\ s.timer
    /\ s' = TryStartTransmission([s EXCEPT !.timer = FALSE,
                                             !.pri = IF @ = "StatusWait" THEN "Idle" ELSE @])
    /\ mishap' = IF EndsEarly(s) THEN mishap \cup {"stalled"} ELSE mishap
    /\ UNCHANGED <<r, accepted, out, since>>

OnFrame(fn, fcb, isBroadcast) ==
    /\ s.online
    /\ isBroadcast => fn \in {"CONFIRMED", "UNCONFIRMED"}
    /\ s' = TryStartTransmission(Handled(s, fn, fcb, isBroadcast))
    /\ mishap' = mishap
         \cup (IF fn = "ANSWER" /\ EndsEarly(s) THEN {"stalled"} ELSE {})
         \cup (IF fn = "CONFIRMED" /\ isBroadcast /\ s.sec = "Reset" THEN {"unanswered"} ELSE {})
    /\ UNCHANGED <<r, accepted, out, since>>

Next ==
    \/ OnNewChannel \/ ChannelFails
    \/ \E n \in Sizes : BeginTransmit(n)
    \/ RunPosted \/ OnWriteComplete
    \/ OnKeepAliveTimeout \/ OnResponseTimeout
    \/ \E fn \in Functions, fcb, isBroadcast \in BOOLEAN : OnFrame(fn, fcb, isBroadcast)

Spec == Init /\ [][Next]_vars

\* The socket takes what it is given (or fails), tasks are run and timers expire.
FairSpec ==
    /\ Spec
    /\ WF_vars(OnWriteComplete)
    /\ WF_vars(RunPosted)
    /\ WF_vars(OnResponseTimeout)

(***************************************************************************)
(* Properties.                                                             *)
(***************************************************************************)
\* The fields of the layers are what their declarations say.
TypeOK ==
    /\ s.txMode \in {"Idle", "Primary", "Secondary"}
    /\ s.pri \in {"Idle", "TransmitWait", "StatusWait"}
    /\ s.sec \in {"NotReset", "Reset", "TransmitWaitReset", "TransmitWaitNotReset"}
    /\ {s.num, r.expectedSeq} \subseteq 0 .. SeqMod - 1
    /\ s.left \in Nat /\ s.count \in Nat /\ s.posted \in Nat
    /\ Len(r.parts) <= RxRoom

\* A fragment that is handed up is one that was sent, with all its segments in
\* their order, and fragments are handed up in the order in which they were
\* accepted, none twice: whatever frames are lost, as long as fewer than SeqMod
\* segments go by without the first of a fragment, no connection is replaced
\* between the end of a transmission and the task that tells of it, and no wait
\* for a link status ends before the request for it is written.
DeliversFragments == mishap \subseteq {"unanswered"} => out.good

\* "Called by the lower layer when it is ready to transmit more data": when the
\* transport layer hears that a fragment is sent, the link layer has no segments of
\* it left, and until then it takes no other; unless a new connection overtakes
\* the task or a wait for a link status ends early.
ReadyWhenTold ==
    s.online /\ mishap \cap {"overtaken", "stalled"} = {} =>
        /\ s.sending <=> s.segments \/ s.posted > 0
        /\ s.posted > 0 => ~s.segments /\ s.posted = 1

\* The two stations of the link layer share a socket and never start a frame while
\* another is written.
OneFrameAtATime ==
    CASE s.txMode = "Idle"      -> s.txQueue = <<>> /\ ~s.pendingPri /\ ~s.pendingSec
      [] s.txMode = "Primary"   -> Len(s.txQueue) = 1 /\ s.txQueue[1].primary
      [] s.txMode = "Secondary" -> Len(s.txQueue) = 1 /\ ~s.txQueue[1].primary

\* The buffer of a frame is not used again while the frame is written, unless a
\* wait for a link status ends before the request for it is written.
BuffersAreKept ==
    "stalled" \notin mishap /\ s.txMode = "Primary" =>
        s.txQueue[1].frame = s.priTxBuffer /\ ~s.pendingPri

\* A secondary station that ignores frames has an answer on its way, which ends
\* that; unless it was a broadcast it did not answer.
IgnoresOnlyWhileAnswering ==
    "unanswered" \notin mishap =>
        (s.sec \in {"TransmitWaitReset", "TransmitWaitNotReset"}
            <=> s.txMode = "Secondary" \/ s.pendingSec)

\* No wakeup is lost: while the primary station of the link layer is idle, there is
\* no segment and no keep-alive for it to send.
WorkIsStarted == s.pri = "Idle" => ~s.segments /\ ~s.keepAlive

\* In the end keep-alives do not come due while one is under way: their period is
\* longer than the timeout of the answer.
KeepAlivesAreRare ==
    <>[][s.pri = "StatusWait" /\ ~s.keepAlive => ~s'.keepAlive]_vars

\* What the session relies on: a transmission that was accepted comes to its end,
\* whatever the other end sends, keeps or does not answer.
TransmissionEnds == KeepAlivesAreRare => (s.sending ~> ~s.sending)
=============================================================================

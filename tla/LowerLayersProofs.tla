-------------------------- MODULE LowerLayersProofs --------------------------
(***************************************************************************)
(* Proofs about LowerLayers.                                               *)
(***************************************************************************)
EXTENDS LowerLayers, SequenceTheorems, TLAPS

SegmentFrames ==
    [link : {FALSE}, msg : Nat, part : Nat, fin : BOOLEAN, seq : 0 .. SeqMod - 1]

Frames == {LinkFrame} \cup SegmentFrames

Entries ==
    [primary : {TRUE}, frame : Frames] \cup [primary : {FALSE}, frame : {LinkFrame}]

Stack ==
    [online : BOOLEAN,
     sending : BOOLEAN, msg : Nat, left : Nat, count : Nat, num : 0 .. SeqMod - 1,
     segments : BOOLEAN, txMode : {"Idle", "Primary", "Secondary"},
     pendingPri : BOOLEAN, pendingSec : BOOLEAN,
     pri : {"Idle", "TransmitWait", "StatusWait"},
     sec : {"NotReset", "Reset", "TransmitWaitReset", "TransmitWaitNotReset"},
     nextReadFCB : BOOLEAN, keepAlive : BOOLEAN, timer : BOOLEAN,
     priTxBuffer : Frames, txQueue : Seq(Entries), posted : Nat]

\* OneFrameAtATime, of a stack
OneFrame(c) ==
    /\ c.txMode = "Idle" => c.txQueue = <<>> /\ ~c.pendingPri /\ ~c.pendingSec
    /\ c.txMode = "Primary" => Len(c.txQueue) = 1 /\ c.txQueue[1].primary
    /\ c.txMode = "Secondary" => Len(c.txQueue) = 1 /\ ~c.txQueue[1].primary

(***************************************************************************)
(* What a handler leaves alone, and the parts of the invariant that are    *)
(* about one stack.                                                        *)
(***************************************************************************)
\* d has the fragment of c.
SameFragment(c, d) ==
    /\ d.online = c.online /\ d.sending = c.sending /\ d.posted = c.posted
    /\ d.segments = c.segments
    /\ d.msg = c.msg /\ d.left = c.left /\ d.count = c.count /\ d.num = c.num

\* The secondary station of d is where that of c is.
SameSecondary(c, d) ==
    /\ d.sec = c.sec /\ d.pendingSec = c.pendingSec
    /\ d.txMode = "Secondary" <=> c.txMode = "Secondary"

\* The primary station of d is where that of c is.
SamePrimary(c, d) ==
    /\ d.pri = c.pri /\ d.timer = c.timer /\ d.keepAlive = c.keepAlive
    /\ d.priTxBuffer = c.priTxBuffer /\ d.pendingPri = c.pendingPri
    /\ d.txMode = "Primary" <=> c.txMode = "Primary"
    /\ d.txMode = "Primary" => d.txQueue = c.txQueue

Waiting(c) == c.sec \in {"TransmitWaitReset", "TransmitWaitNotReset"}

Answering(c) == c.txMode = "Secondary" \/ c.pendingSec

SecondaryOK(c) ==
    /\ Waiting(c) <=> Answering(c)
    /\ ~(c.txMode = "Secondary" /\ c.pendingSec)

\* A frame of the primary station is being written or waits for it.
Outstanding(c) == c.txMode = "Primary" \/ c.pendingPri

PrimaryOK(c) ==
    /\ c.pri = "Idle" => ~Outstanding(c)
    /\ c.pri = "TransmitWait" => c.segments /\ Outstanding(c)
    /\ c.pri = "StatusWait" /\ Outstanding(c) => c.priTxBuffer = LinkFrame
    /\ c.txMode = "Primary" => ~c.pendingPri /\ c.txQueue[1].frame = c.priTxBuffer

\* Whatever could be started is started.
Started(c) == c.pri = "Idle" => ~c.segments /\ ~c.keepAlive

\* The frame that is sent is the segment the transmitter is at.
Current(c) == c.pri = "TransmitWait" => c.priTxBuffer = GetSegment(c)

LEMMA GetSegmentType ==
    ASSUME NEW c \in Stack
    PROVE  GetSegment(c) \in SegmentFrames
BY DEF GetSegment, SegmentFrames, Stack

LEMMA AdvanceFacts ==
    ASSUME NEW c \in Stack
    PROVE  /\ Advance(c) \in Stack
           /\ Advance(c).left = IF c.left > 0 THEN c.left - 1 ELSE 0
           /\ Advance(c).count = c.count + 1
           /\ Advance(c).num = (c.num + 1) % SeqMod
           /\ Advance(c) = [c EXCEPT !.left = Advance(c).left, !.count = Advance(c).count,
                                     !.num = Advance(c).num]
<1> DEFINE left  == IF c.left > 0 THEN c.left - 1 ELSE 0
           count == c.count + 1
           num   == (c.num + 1) % SeqMod
<1>1. num \in 0 .. SeqMod - 1 /\ left \in Nat /\ count \in Nat
  BY LayersAssumption DEF LayersAssumption, Stack
<1>2. Advance(c) = [c EXCEPT !.left = left, !.count = count, !.num = num]
  BY DEF Advance
<1> HIDE DEF left, count, num
<1>3. /\ Advance(c) \in Stack
      /\ Advance(c).left = left /\ Advance(c).count = count /\ Advance(c).num = num
  BY <1>1, <1>2 DEF Stack
<1> QED
  BY <1>2, <1>3 DEF left, count, num

\* d is c with a frame handed to QueuePrimary.
Queued(c, d) ==
    /\ d \in Stack /\ OneFrame(d)
    /\ SameFragment(c, d) /\ SameSecondary(c, d)
    /\ d.pri = c.pri /\ d.timer = c.timer /\ d.keepAlive = c.keepAlive
    /\ d.priTxBuffer = c.priTxBuffer
    /\ Outstanding(d)
    /\ ~Outstanding(c) /\ d.txMode = "Primary" =>
          ~d.pendingPri /\ d.txQueue[1].frame = d.priTxBuffer

LEMMA QueuePrimaryFacts ==
    ASSUME NEW c \in Stack, OneFrame(c)
    PROVE  Queued(c, QueuePrimary(c))
<1>1. CASE c.txMode = "Idle"
  <2> DEFINE e == [primary |-> TRUE, frame |-> c.priTxBuffer]
  <2>1. e \in Entries
    BY DEF Entries, Stack
  <2>2. c.txQueue = <<>> /\ Append(<<>>, e) = <<e>>
    BY <1>1, <2>1 DEF OneFrame
  <2>3. QueuePrimary(c) = [c EXCEPT !.txMode = "Primary", !.txQueue = <<e>>]
    BY <1>1, <2>2 DEF QueuePrimary
  <2>4. /\ <<e>> \in Seq(Entries) /\ Len(<<e>>) = 1 /\ <<e>>[1] = e /\ e.primary
        /\ <<e>>[1].frame = c.priTxBuffer
    BY <2>1
  <2> HIDE DEF e
  <2>5. QueuePrimary(c) \in Stack
    BY <2>3, <2>4 DEF Stack
  <2> QED
    BY <1>1, <2>3, <2>4, <2>5 DEF Stack, OneFrame, Queued, SameFragment, SameSecondary,
       Outstanding
<1>2. CASE c.txMode # "Idle"
  <2>1. QueuePrimary(c) = [c EXCEPT !.pendingPri = TRUE]
    BY <1>2 DEF QueuePrimary
  <2> QED
    BY <1>2, <2>1 DEF Stack, OneFrame, Queued, SameFragment, SameSecondary, Outstanding
<1> QED
  BY <1>1, <1>2

\* d is c with its segment handed to QueuePrimary.
LEMMA SendSegmentFacts ==
    ASSUME NEW c \in Stack, OneFrame(c)
    PROVE  /\ Queued([c EXCEPT !.priTxBuffer = GetSegment(c)], SendSegment(c))
           /\ SameFragment(c, SendSegment(c)) /\ SameSecondary(c, SendSegment(c))
           /\ SendSegment(c).priTxBuffer = GetSegment(c)
           /\ SendSegment(c).pri = c.pri /\ SendSegment(c).timer = c.timer
           /\ SendSegment(c).keepAlive = c.keepAlive
<1> DEFINE b == [c EXCEPT !.priTxBuffer = GetSegment(c)]
<1>1. b \in Stack /\ OneFrame(b)
  BY GetSegmentType DEF Stack, Frames, OneFrame
<1>2. Queued(b, SendSegment(c))
  BY <1>1, QueuePrimaryFacts DEF SendSegment
<1> QED
  BY <1>2 DEF Queued, SameFragment, SameSecondary, Stack

\* What a step of the primary station that starts something does to a stack.
Starts(c, d) ==
    /\ d \in Stack /\ OneFrame(d)
    /\ SameFragment(c, d) /\ SameSecondary(c, d)
    /\ PrimaryOK(c) => PrimaryOK(d)
    /\ Current(c) => Current(d)

LEMMA SameSegment ==
    ASSUME NEW c, NEW d, SameFragment(c, d)
    PROVE  GetSegment(d) = GetSegment(c)
BY DEF SameFragment, GetSegment

LEMMA StartsTrans ==
    ASSUME NEW c, NEW d, NEW e, Starts(c, d), Starts(d, e)
    PROVE  Starts(c, e)
BY DEF Starts, SameFragment, SameSecondary

LEMMA TrySendUnconfirmedFacts ==
    ASSUME NEW c \in Stack, OneFrame(c), c.segments
    PROVE  /\ Starts(c, TrySendUnconfirmed(c))
           /\ TrySendUnconfirmed(c).pri # "Idle"
<1> DEFINE b == SendSegment(c)
           d == [b EXCEPT !.pri = "TransmitWait"]
<1>1. CASE c.pri = "Idle"
  <2>1. /\ Queued([c EXCEPT !.priTxBuffer = GetSegment(c)], b)
        /\ SameFragment(c, b) /\ SameSecondary(c, b)
        /\ b.priTxBuffer = GetSegment(c)
    BY SendSegmentFacts
  <2>2. TrySendUnconfirmed(c) = d
    BY <1>1 DEF TrySendUnconfirmed
  <2> HIDE DEF b
  <2>3. b \in Stack /\ OneFrame(b) /\ Outstanding(b)
    BY <2>1 DEF Queued
  <2>4. d \in Stack /\ OneFrame(d) /\ SameFragment(c, d) /\ SameSecondary(c, d)
    BY <2>1, <2>3 DEF Stack, OneFrame, SameFragment, SameSecondary
  <2>5. Current(d)
    BY <2>1, <2>3, <2>4, SameSegment DEF Current, Stack
  <2>6. ~Outstanding(c) /\ b.txMode = "Primary" =>
           ~b.pendingPri /\ b.txQueue[1].frame = b.priTxBuffer
    BY <2>1 DEF Queued, Outstanding, Stack
  <2>7. PrimaryOK(c) => PrimaryOK(d)
    BY <1>1, <2>1, <2>3, <2>6 DEF PrimaryOK, Outstanding, SameFragment, Stack
  <2>8. d.pri = "TransmitWait"
    BY <2>3 DEF Stack
  <2> QED
    BY <2>2, <2>4, <2>5, <2>7, <2>8 DEF Starts
<1>2. CASE c.pri # "Idle"
  BY <1>2 DEF TrySendUnconfirmed, Starts, SameFragment, SameSecondary
<1> QED
  BY <1>1, <1>2

LEMMA TrySendRequestLinkStatusFacts ==
    ASSUME NEW c \in Stack, OneFrame(c)
    PROVE  /\ Starts(c, TrySendRequestLinkStatus(c))
           /\ TrySendRequestLinkStatus(c).pri # "Idle"
<1> DEFINE a == [c EXCEPT !.priTxBuffer = LinkFrame]
           b == QueuePrimary(a)
           d == [b EXCEPT !.keepAlive = FALSE, !.timer = TRUE, !.pri = "StatusWait"]
<1>1. CASE c.pri = "Idle"
  <2>1. a \in Stack /\ OneFrame(a)
    BY DEF Stack, Frames, OneFrame
  <2>2. Queued(a, b)
    BY <2>1, QueuePrimaryFacts
  <2>3. TrySendRequestLinkStatus(c) = d
    BY <1>1 DEF TrySendRequestLinkStatus
  <2>4. a.priTxBuffer = LinkFrame /\ SameFragment(c, a) /\ SameSecondary(c, a)
        /\ (Outstanding(a) <=> Outstanding(c))
    BY DEF Stack, SameFragment, SameSecondary, Outstanding
  <2> HIDE DEF a, b
  <2>5. d \in Stack /\ OneFrame(d) /\ d.pri = "StatusWait"
    BY <2>2 DEF Queued, Stack, OneFrame
  <2>6. SameFragment(c, d) /\ SameSecondary(c, d)
    BY <2>2, <2>4, <2>5 DEF Queued, Stack, SameFragment, SameSecondary
  <2>7. PrimaryOK(c) => PrimaryOK(d)
    BY <1>1, <2>2, <2>4 DEF PrimaryOK, Outstanding, Queued, Stack
  <2> QED
    BY <2>3, <2>5, <2>6, <2>7 DEF Starts, Current
<1>2. CASE c.pri # "Idle"
  BY <1>2 DEF TrySendRequestLinkStatus, Starts, SameFragment, SameSecondary
<1> QED
  BY <1>1, <1>2

LEMMA TryStartTransmissionFacts ==
    ASSUME NEW c \in Stack, OneFrame(c)
    PROVE  /\ Starts(c, TryStartTransmission(c))
           /\ Started(TryStartTransmission(c))
<1> DEFINE d == IF c.keepAlive THEN TrySendRequestLinkStatus(c) ELSE c
           e == TryStartTransmission(c)
<1>1. Starts(c, d) /\ (d.pri = "Idle" => ~d.keepAlive)
  BY TrySendRequestLinkStatusFacts DEF Starts, SameFragment, SameSecondary, Stack
<1>2. e = IF d.segments THEN TrySendUnconfirmed(d) ELSE d
  BY DEF TryStartTransmission
<1> HIDE DEF d, e
<1>3. d \in Stack /\ OneFrame(d)
  BY <1>1 DEF Starts
<1>4. CASE d.segments
  <2>1. Starts(d, e) /\ e.pri # "Idle"
    BY <1>2, <1>3, <1>4, TrySendUnconfirmedFacts
  <2> QED
    BY <1>1, <2>1, StartsTrans DEF Started, e
<1>5. CASE ~d.segments
  BY <1>1, <1>2, <1>5 DEF Started, e
<1> QED
  BY <1>3, <1>4, <1>5 DEF Stack

(***************************************************************************)
(* Answers of the secondary station, and what the end of a frame starts.   *)
(***************************************************************************)
\* d is c with an answer handed to QueueSecondary.
LEMMA QueueSecondaryFacts ==
    ASSUME NEW c \in Stack, OneFrame(c),
           NEW d, d = QueueSecondary(c)
    PROVE  /\ d \in Stack /\ OneFrame(d)
           /\ SameFragment(c, d) /\ SamePrimary(c, d)
           /\ d.sec = c.sec /\ d.nextReadFCB = c.nextReadFCB
           /\ Answering(d)
           /\ ~Answering(c) => ~(d.txMode = "Secondary" /\ d.pendingSec)
<1>1. CASE c.txMode = "Idle"
  <2> DEFINE e == [primary |-> FALSE, frame |-> LinkFrame]
  <2>1. e \in Entries
    BY DEF Entries, Frames
  <2>2. c.txQueue = <<>> /\ Append(<<>>, e) = <<e>>
    BY <1>1, <2>1 DEF OneFrame
  <2>3. d = [c EXCEPT !.txMode = "Secondary", !.txQueue = <<e>>]
    BY <1>1, <2>2 DEF QueueSecondary
  <2>4. <<e>> \in Seq(Entries) /\ Len(<<e>>) = 1 /\ <<e>>[1] = e /\ ~e.primary
    BY <2>1
  <2> HIDE DEF e
  <2>5. d \in Stack
    BY <2>3, <2>4 DEF Stack
  <2> QED
    BY <1>1, <2>3, <2>4, <2>5 DEF Stack, OneFrame, SameFragment, SamePrimary, Outstanding,
       Answering
<1>2. CASE c.txMode # "Idle"
  <2>1. d = [c EXCEPT !.pendingSec = TRUE]
    BY <1>2 DEF QueueSecondary
  <2> QED
    BY <1>2, <2>1 DEF Stack, OneFrame, SameFragment, SamePrimary, Outstanding, Answering
<1> QED
  BY <1>1, <1>2

\* The socket is free: what waits for it goes first.
LEMMA PendingFacts ==
    ASSUME NEW c \in Stack, c.txMode = "Idle", c.txQueue = <<>>,
           NEW d, d = TryPendingPri(TryPendingSec(c))
    PROVE  /\ d \in Stack /\ OneFrame(d)
           /\ SameFragment(c, d)
           /\ d.pri = c.pri /\ d.timer = c.timer /\ d.keepAlive = c.keepAlive
           /\ d.priTxBuffer = c.priTxBuffer /\ d.sec = c.sec
           /\ Answering(d) <=> c.pendingSec
           /\ ~(d.txMode = "Secondary" /\ d.pendingSec)
           /\ Outstanding(d) <=> c.pendingPri
           /\ d.txMode = "Primary" => ~d.pendingPri /\ d.txQueue[1].frame = d.priTxBuffer
<1>1. CASE c.pendingSec
  <2> DEFINE e == [primary |-> FALSE, frame |-> LinkFrame]
             b == [c EXCEPT !.pendingSec = FALSE]
  <2>1. e \in Entries
    BY DEF Entries, Frames
  <2>2. /\ <<e>> \in Seq(Entries) /\ Len(<<e>>) = 1 /\ <<e>>[1] = e /\ ~e.primary
        /\ Append(<<>>, e) = <<e>>
    BY <2>1
  <2>3. b.txMode = "Idle" /\ b.txQueue = <<>> /\ TryPendingSec(c) = QueueSecondary(b)
    BY <1>1 DEF Stack, TryPendingSec
  <2>4. TryPendingSec(c) = [c EXCEPT !.pendingSec = FALSE, !.txMode = "Secondary",
                                      !.txQueue = <<e>>]
    BY <2>2, <2>3 DEF QueueSecondary
  <2> HIDE DEF e, b
  <2>5. d = [c EXCEPT !.pendingSec = FALSE, !.txMode = "Secondary", !.txQueue = <<e>>]
    BY <2>4 DEF TryPendingPri, Stack
  <2>6. d \in Stack
    BY <2>2, <2>5 DEF Stack
  <2> QED
    BY <1>1, <2>2, <2>5, <2>6 DEF Stack, OneFrame, SameFragment, Outstanding, Answering
<1>2. CASE ~c.pendingSec /\ c.pendingPri
  <2> DEFINE e == [primary |-> TRUE, frame |-> c.priTxBuffer]
             b == [c EXCEPT !.pendingPri = FALSE]
  <2>1. e \in Entries
    BY DEF Entries, Stack
  <2>2. /\ <<e>> \in Seq(Entries) /\ Len(<<e>>) = 1 /\ <<e>>[1] = e /\ e.primary
        /\ <<e>>[1].frame = c.priTxBuffer
        /\ Append(<<>>, e) = <<e>>
    BY <2>1
  <2>3. /\ b.txMode = "Idle" /\ b.txQueue = <<>> /\ b.priTxBuffer = c.priTxBuffer
        /\ TryPendingSec(c) = c /\ TryPendingPri(c) = QueuePrimary(b)
    BY <1>2 DEF Stack, TryPendingSec, TryPendingPri
  <2>4. d = [c EXCEPT !.pendingPri = FALSE, !.txMode = "Primary", !.txQueue = <<e>>]
    BY <2>2, <2>3 DEF QueuePrimary
  <2> DEFINE q == <<e>>
  <2>6. q \in Seq(Entries)
    BY <2>2
  <2>7. d = [c EXCEPT !.pendingPri = FALSE, !.txMode = "Primary", !.txQueue = q]
    BY <2>4
  <2> HIDE DEF e, b, q
  <2>5. d \in Stack
    BY <2>6, <2>7 DEF Stack
  <2> QED
    BY <1>2, <2>2, <2>4, <2>5 DEF Stack, OneFrame, SameFragment, Outstanding, Answering
<1>3. CASE ~c.pendingSec /\ ~c.pendingPri
  <2>1. d = c
    BY <1>3 DEF TryPendingSec, TryPendingPri
  <2> QED
    BY <1>3, <2>1 DEF Stack, OneFrame, SameFragment, Outstanding, Answering
<1> QED
  BY <1>1, <1>2, <1>3 DEF Stack

\* What the end of a frame does to the fragment: after a segment the transmitter
\* goes on to the next, and after the last the link layer lets go of the fragment.
Wrote(c, d) ==
    /\ d.online = c.online /\ d.sending = c.sending /\ d.msg = c.msg
    /\ c.txMode = "Primary" /\ c.pri = "TransmitWait" =>
          /\ d.count = c.count + 1 /\ d.num = (c.num + 1) % SeqMod
          /\ d.left = IF c.left > 0 THEN c.left - 1 ELSE 0
          /\ d.left > 0 => d.segments = c.segments /\ d.posted = c.posted
          /\ d.left = 0 => ~d.segments /\ d.posted = c.posted + 1
    /\ ~(c.txMode = "Primary" /\ c.pri = "TransmitWait") => SameFragment(c, d)

\* The primary station, when its frame is written and no other is outstanding.
LEMMA PriOnTxReadyFacts ==
    ASSUME NEW c \in Stack, OneFrame(c), NEW d, d = PriOnTxReady(c)
    PROVE  /\ d \in Stack /\ OneFrame(d) /\ SameSecondary(c, d)
           /\ c.pri # "TransmitWait" => d = c
           /\ c.pri = "TransmitWait" =>
                 /\ d.online = c.online /\ d.sending = c.sending /\ d.msg = c.msg
                 /\ d.count = c.count + 1 /\ d.num = (c.num + 1) % SeqMod
                 /\ d.left = IF c.left > 0 THEN c.left - 1 ELSE 0
                 /\ d.left > 0 => /\ d.segments = c.segments /\ d.posted = c.posted
                                  /\ d.pri = "TransmitWait" /\ Current(d)
                                  /\ Outstanding(d)
                                  /\ ~Outstanding(c) /\ d.txMode = "Primary" =>
                                        ~d.pendingPri /\ d.txQueue[1].frame = d.priTxBuffer
                 /\ d.left = 0 => /\ ~d.segments /\ d.posted = c.posted + 1
                                  /\ d.pri = "Idle" /\ (Outstanding(d) <=> Outstanding(c))
                                  /\ d.txMode = c.txMode /\ d.pendingPri = c.pendingPri
<1> DEFINE a == Advance(c)
<1>1. /\ a \in Stack
      /\ a.left = IF c.left > 0 THEN c.left - 1 ELSE 0
      /\ a.count = c.count + 1 /\ a.num = (c.num + 1) % SeqMod
      /\ a = [c EXCEPT !.left = a.left, !.count = a.count, !.num = a.num]
  BY AdvanceFacts
<1>2. d = IF c.pri # "TransmitWait" THEN c
          ELSE IF a.left > 0 THEN SendSegment(a)
          ELSE [CompleteSendOperation(a) EXCEPT !.pri = "Idle"]
  BY DEF PriOnTxReady
<1> HIDE DEF a
<1>3. /\ OneFrame(a) /\ SameSecondary(c, a) /\ (Outstanding(a) <=> Outstanding(c))
      /\ a.online = c.online /\ a.sending = c.sending /\ a.msg = c.msg
      /\ a.segments = c.segments /\ a.posted = c.posted /\ a.pri = c.pri
      /\ a.txMode = c.txMode /\ a.pendingPri = c.pendingPri
  <2> DEFINE l == a.left
             n == a.count
             m == a.num
  <2>1. a = [c EXCEPT !.left = l, !.count = n, !.num = m]
    BY <1>1
  <2> HIDE DEF l, n, m
  <2> QED
    BY <2>1 DEF Stack, OneFrame, SameSecondary, Outstanding
<1>4. CASE c.pri # "TransmitWait"
  BY <1>2, <1>4 DEF SameSecondary
<1>5. CASE c.pri = "TransmitWait" /\ a.left > 0
  <2>1. d = SendSegment(a)
    BY <1>2, <1>5
  <2>2. /\ Queued([a EXCEPT !.priTxBuffer = GetSegment(a)], d)
        /\ SameFragment(a, d) /\ SameSecondary(a, d)
        /\ d.priTxBuffer = GetSegment(a) /\ d.pri = a.pri
    BY <1>1, <1>3, <2>1, SendSegmentFacts
  <2>3. d \in Stack /\ OneFrame(d) /\ Outstanding(d)
    BY <2>2 DEF Queued
  <2>4. ~Outstanding(a) /\ d.txMode = "Primary" =>
           ~d.pendingPri /\ d.txQueue[1].frame = d.priTxBuffer
    BY <1>1, <2>2 DEF Queued, Outstanding, Stack
  <2>5. Current(d)
    BY <2>2, SameSegment DEF Current
  <2>6. SameSecondary(c, d)
    BY <1>3, <2>2 DEF SameSecondary
  <2>7. /\ d.online = c.online /\ d.sending = c.sending /\ d.msg = c.msg
        /\ d.count = c.count + 1 /\ d.num = (c.num + 1) % SeqMod
        /\ d.left = IF c.left > 0 THEN c.left - 1 ELSE 0
        /\ d.segments = c.segments /\ d.posted = c.posted /\ d.pri = "TransmitWait"
        /\ d.left # 0
    BY <1>1, <1>3, <1>5, <2>2 DEF SameFragment
  <2> QED
    BY <1>3, <1>5, <2>3, <2>4, <2>5, <2>6, <2>7
<1>6. CASE c.pri = "TransmitWait" /\ ~(a.left > 0)
  <2>1. d = [a EXCEPT !.segments = FALSE, !.posted = @ + 1, !.pri = "Idle"]
    BY <1>1, <1>2, <1>6 DEF CompleteSendOperation, Stack
  <2>5. a \in Stack /\ a.left = 0
    BY <1>1, <1>6 DEF Stack
  <2> DEFINE n == a.posted + 1
  <2>6. d \in Stack
    <3>1. n \in Nat
      BY <2>5 DEF Stack
    <3>2. d = [a EXCEPT !.segments = FALSE, !.posted = n, !.pri = "Idle"]
      BY <2>1
    <3> HIDE DEF n
    <3> QED
      BY <2>5, <3>1, <3>2 DEF Stack
  <2>2. d \in Stack /\ OneFrame(d) /\ d.left = a.left /\ d.left = 0
    BY <1>3, <2>1, <2>5, <2>6 DEF Stack, OneFrame
  <2>3. /\ SameSecondary(c, d) /\ (Outstanding(d) <=> Outstanding(c))
        /\ d.txMode = c.txMode /\ d.pendingPri = c.pendingPri
    BY <1>1, <1>3, <2>1 DEF Stack, SameSecondary, Outstanding
  <2>4. /\ d.online = a.online /\ d.sending = a.sending /\ d.msg = a.msg
        /\ d.count = a.count /\ d.num = a.num
        /\ ~d.segments /\ d.posted = a.posted + 1 /\ d.pri = "Idle"
    BY <1>1, <2>1 DEF Stack
  <2> QED
    BY <1>1, <1>3, <1>6, <2>2, <2>3, <2>4
<1> QED
  BY <1>4, <1>5, <1>6

LEMMA SecOnTxReadyFacts ==
    ASSUME NEW c \in Stack, OneFrame(c), NEW d, d = SecOnTxReady(c)
    PROVE  /\ d \in Stack /\ OneFrame(d) /\ SameFragment(c, d) /\ SamePrimary(c, d)
           /\ d.txMode = c.txMode /\ d.pendingSec = c.pendingSec
           /\ ~Waiting(d)
<1> DEFINE e == CASE c.sec = "TransmitWaitReset"    -> "Reset"
                  [] c.sec = "TransmitWaitNotReset" -> "NotReset"
                  [] OTHER                          -> c.sec
<1>1. e \in {"NotReset", "Reset"}
  BY DEF Stack
<1>2. d = [c EXCEPT !.sec = e]
  BY DEF SecOnTxReady
<1> HIDE DEF e
<1> QED
  BY <1>1, <1>2 DEF Stack, OneFrame, SameFragment, SamePrimary, Waiting

LEMMA OnTxReadyFacts ==
    ASSUME NEW c \in Stack, OneFrame(c), c.txQueue # <<>>,
           NEW d, d = OnTxReady([c EXCEPT !.txQueue = Tail(@)])
    PROVE  /\ d \in Stack /\ OneFrame(d) /\ Wrote(c, d) /\ Started(d)
           /\ SecondaryOK(c) => SecondaryOK(d)
           /\ PrimaryOK(c) => PrimaryOK(d)
           /\ PrimaryOK(c) /\ Current(c) => Current(d)
<1> DEFINE a == [c EXCEPT !.txQueue = Tail(@)]
           b == [a EXCEPT !.txMode = "Idle"]
           p == TryPendingPri(TryPendingSec(b))
           x == IF c.txMode = "Primary" THEN PriOnTxReady(p) ELSE SecOnTxReady(p)
<1>1. c.txMode \in {"Primary", "Secondary"} /\ Tail(c.txQueue) = <<>>
  <2>1. c.txMode \in {"Primary", "Secondary"} /\ Len(c.txQueue) = 1
    BY DEF OneFrame, Stack
  <2>2. c.txQueue \in Seq(Entries)
    BY DEF Stack
  <2>3. Tail(c.txQueue) \in Seq(Entries) /\ Len(Tail(c.txQueue)) = 0
    BY <2>1, <2>2, HeadTailProperties
  <2> QED
    BY <2>1, <2>3, EmptySeq
<1>2. /\ b = [c EXCEPT !.txQueue = <<>>, !.txMode = "Idle"]
      /\ a.txMode = c.txMode
  BY <1>1 DEF Stack
<1>3. d = TryStartTransmission(x)
  BY <1>1, <1>2 DEF OnTxReady
<1>4. /\ b \in Stack /\ b.txMode = "Idle" /\ b.txQueue = <<>>
      /\ SameFragment(c, b)
      /\ b.pri = c.pri /\ b.timer = c.timer /\ b.keepAlive = c.keepAlive
      /\ b.priTxBuffer = c.priTxBuffer /\ b.sec = c.sec
      /\ b.pendingPri = c.pendingPri /\ b.pendingSec = c.pendingSec
  <2>1. <<>> \in Seq(Entries)
    OBVIOUS
  <2> QED
    BY <1>2, <2>1 DEF Stack, SameFragment
<1> HIDE DEF a, b, p, x
<1>5. /\ p \in Stack /\ OneFrame(p)
      /\ SameFragment(b, p)
      /\ p.pri = b.pri /\ p.timer = b.timer /\ p.keepAlive = b.keepAlive
      /\ p.priTxBuffer = b.priTxBuffer /\ p.sec = b.sec
      /\ Answering(p) <=> b.pendingSec
      /\ ~(p.txMode = "Secondary" /\ p.pendingSec)
      /\ Outstanding(p) <=> b.pendingPri
      /\ p.txMode = "Primary" => ~p.pendingPri /\ p.txQueue[1].frame = p.priTxBuffer
  BY <1>4, PendingFacts DEF p
<1>6. SameFragment(c, p)
  BY <1>4, <1>5 DEF SameFragment
<1>7. /\ x \in Stack /\ OneFrame(x) /\ Wrote(c, x)
      /\ SecondaryOK(c) => SecondaryOK(x)
      /\ PrimaryOK(c) => PrimaryOK(x)
      /\ PrimaryOK(c) /\ Current(c) => Current(x)
  <2>1. CASE c.txMode = "Primary"
    <3>1. x = PriOnTxReady(p)
      BY <2>1 DEF x
    <3>2. x \in Stack /\ OneFrame(x) /\ SameSecondary(p, x)
      BY <1>5, <3>1, PriOnTxReadyFacts
    <3>3. SecondaryOK(c) => SecondaryOK(x)
      BY <1>4, <1>5, <2>1, <3>2 DEF SecondaryOK, SameSecondary, Waiting, Answering
    <3>4. CASE c.pri # "TransmitWait"
      <4>1. x = p
        BY <1>4, <1>5, <3>1, <3>4, PriOnTxReadyFacts
      <4>2. PrimaryOK(c) => PrimaryOK(p)
        BY <1>4, <1>5, <1>6, <2>1, <3>4 DEF PrimaryOK, Outstanding, SameFragment
      <4> QED
        BY <1>4, <1>5, <1>6, <3>2, <3>3, <3>4, <4>1, <4>2 DEF Wrote, Current, SameFragment
    <3>5. CASE c.pri = "TransmitWait"
      <4>1. /\ x.online = p.online /\ x.sending = p.sending /\ x.msg = p.msg
            /\ x.count = p.count + 1 /\ x.num = (p.num + 1) % SeqMod
            /\ x.left = IF p.left > 0 THEN p.left - 1 ELSE 0
            /\ x.left > 0 => /\ x.segments = p.segments /\ x.posted = p.posted
                             /\ x.pri = "TransmitWait" /\ Current(x)
                             /\ Outstanding(x)
                             /\ ~Outstanding(p) /\ x.txMode = "Primary" =>
                                   ~x.pendingPri /\ x.txQueue[1].frame = x.priTxBuffer
            /\ x.left = 0 => /\ ~x.segments /\ x.posted = p.posted + 1
                             /\ x.pri = "Idle" /\ (Outstanding(x) <=> Outstanding(p))
                             /\ x.txMode = p.txMode /\ x.pendingPri = p.pendingPri
        BY <1>4, <1>5, <3>1, <3>5, PriOnTxReadyFacts
      <4>2. Wrote(c, x)
        BY <1>6, <2>1, <3>5, <4>1 DEF Wrote, SameFragment
      <4>3. x.left > 0 \/ x.left = 0
        BY <3>2 DEF Stack
      <4>4. PrimaryOK(c) => ~Outstanding(p) /\ p.segments
        BY <1>4, <1>5, <1>6, <2>1, <3>5 DEF PrimaryOK, SameFragment
      <4>5. PrimaryOK(c) => PrimaryOK(x)
        BY <4>1, <4>3, <4>4 DEF PrimaryOK, Outstanding
      <4>6. Current(x)
        BY <4>1, <4>3 DEF Current
      <4> QED
        BY <3>2, <3>3, <4>2, <4>5, <4>6
    <3> QED
      BY <3>4, <3>5
  <2>2. CASE c.txMode = "Secondary"
    <3>1. x = SecOnTxReady(p)
      BY <2>2 DEF x
    <3>2. /\ x \in Stack /\ OneFrame(x) /\ SameFragment(p, x) /\ SamePrimary(p, x)
          /\ x.txMode = p.txMode /\ x.pendingSec = p.pendingSec
          /\ ~Waiting(x)
      BY <1>5, <3>1, SecOnTxReadyFacts
    <3>3. SecondaryOK(c) => SecondaryOK(x)
      BY <1>4, <1>5, <2>2, <3>2 DEF SecondaryOK, Answering
    <3>4. PrimaryOK(c) => PrimaryOK(x)
      BY <1>4, <1>5, <1>6, <2>2, <3>2 DEF PrimaryOK, SamePrimary, SameFragment, Outstanding
    <3>5. SameFragment(c, x)
      BY <1>6, <3>2 DEF SameFragment
    <3>6. Current(c) => Current(x)
      BY <1>4, <1>5, <3>2, <3>5, SameSegment DEF Current, SamePrimary
    <3> QED
      BY <2>2, <3>2, <3>3, <3>4, <3>5, <3>6 DEF Wrote, SameFragment
  <2> QED
    BY <1>1, <2>1, <2>2
<1>8. Starts(x, d) /\ Started(d)
  BY <1>3, <1>7, TryStartTransmissionFacts
<1> QED
  BY <1>7, <1>8 DEF Starts, SameFragment, SameSecondary, SecondaryOK, Waiting, Answering, Wrote

(***************************************************************************)
(* Frames from the other end.                                              *)
(***************************************************************************)
\* What a frame does to a stack, and what it may spoil.
Served(c, d, early, silent) ==
    /\ d \in Stack /\ OneFrame(d) /\ SameFragment(c, d)
    /\ SecondaryOK(c) /\ ~silent => SecondaryOK(d)
    /\ PrimaryOK(c) /\ ~early => PrimaryOK(d)
    /\ Current(c) => Current(d)

LEMMA ServedItself ==
    ASSUME NEW c \in Stack, OneFrame(c), NEW early, NEW silent
    PROVE  Served(c, c, early, silent)
BY DEF Served, SameFragment

LEMMA PrimaryStays ==
    ASSUME NEW c, NEW d, SameFragment(c, d), SamePrimary(c, d)
    PROVE  (PrimaryOK(c) => PrimaryOK(d)) /\ (Current(c) => Current(d))
BY SameSegment DEF SameFragment, SamePrimary, PrimaryOK, Outstanding, Current

\* The secondary station of d waits for its answer to be written.
Moved(q, d, v, w) ==
    \/ d = [q EXCEPT !.sec = w]
    \/ d = [q EXCEPT !.nextReadFCB = v, !.sec = w]

LEMMA MovedFacts ==
    ASSUME NEW q \in Stack, OneFrame(q), NEW v \in BOOLEAN,
           NEW w \in {"TransmitWaitReset", "TransmitWaitNotReset"},
           NEW d, Moved(q, d, v, w)
    PROVE  /\ d \in Stack /\ OneFrame(d) /\ SameFragment(q, d) /\ SamePrimary(q, d)
           /\ d.sec = w /\ d.txMode = q.txMode /\ d.pendingSec = q.pendingSec
<1>1. CASE d = [q EXCEPT !.sec = w]
  <2>1. d \in Stack
    BY <1>1 DEF Stack
  <2> QED
    BY <1>1, <2>1 DEF Stack, OneFrame, SameFragment, SamePrimary
<1>2. CASE d = [q EXCEPT !.nextReadFCB = v, !.sec = w]
  <2>1. d \in Stack
    BY <1>2 DEF Stack
  <2> QED
    BY <1>2, <2>1 DEF Stack, OneFrame, SameFragment, SamePrimary
<1> QED
  BY <1>1, <1>2 DEF Moved

\* A secondary station that was ready answers and waits.
LEMMA AnswerFacts ==
    ASSUME NEW c \in Stack, OneFrame(c), c.sec \in {"NotReset", "Reset"},
           NEW early, NEW silent, NEW v \in BOOLEAN,
           NEW w \in {"TransmitWaitReset", "TransmitWaitNotReset"},
           NEW d, Moved(QueueSecondary(c), d, v, w)
    PROVE  Served(c, d, early, silent)
<1> DEFINE q == QueueSecondary(c)
<1>1. /\ q \in Stack /\ OneFrame(q)
      /\ SameFragment(c, q) /\ SamePrimary(c, q)
      /\ Answering(q)
      /\ ~Answering(c) => ~(q.txMode = "Secondary" /\ q.pendingSec)
  BY QueueSecondaryFacts
<1>2. Moved(q, d, v, w)
  OBVIOUS
<1> HIDE DEF q
<1>3. /\ d \in Stack /\ OneFrame(d) /\ SameFragment(q, d) /\ SamePrimary(q, d)
      /\ d.sec = w /\ d.txMode = q.txMode /\ d.pendingSec = q.pendingSec
  BY <1>1, <1>2, MovedFacts
<1>6. SameFragment(c, d) /\ SamePrimary(c, d)
  BY <1>1, <1>3 DEF SameFragment, SamePrimary
<1>7. SecondaryOK(c) => SecondaryOK(d)
  BY <1>1, <1>3 DEF SecondaryOK, Waiting, Answering
<1> QED
  BY <1>3, <1>6, <1>7, PrimaryStays DEF Served

LEMMA OnAnswerFacts ==
    ASSUME NEW c \in Stack, OneFrame(c), NEW silent
    PROVE  Served(c, OnAnswer(c), EndsEarly(c), silent)
<1> DEFINE d == OnAnswer(c)
<1>1. CASE c.pri = "StatusWait"
  <2>1. d = [c EXCEPT !.timer = FALSE, !.pri = "Idle"]
    BY <1>1 DEF OnAnswer
  <2> HIDE DEF d
  <2>2. d \in Stack /\ OneFrame(d) /\ SameFragment(c, d) /\ SameSecondary(c, d)
    BY <2>1 DEF Stack, OneFrame, SameFragment, SameSecondary
  <2>3. SecondaryOK(c) => SecondaryOK(d)
    BY <2>2 DEF SameSecondary, SecondaryOK, Waiting, Answering
  <2>4. d.pri = "Idle" /\ (Outstanding(d) <=> Outstanding(c)) /\ d.txMode = c.txMode
    BY <2>1 DEF Stack, Outstanding
  <2>5. ~EndsEarly(c) => PrimaryOK(d)
    BY <1>1, <2>4 DEF EndsEarly, PrimaryOK, Outstanding
  <2> QED
    BY <2>2, <2>3, <2>4, <2>5 DEF Served, Current, d
<1>2. CASE c.pri # "StatusWait"
  BY <1>2, ServedItself DEF OnAnswer
<1> QED
  BY <1>1, <1>2

\* A broadcast makes the station wait though it has no answer to send.
LEMMA BroadcastFacts ==
    ASSUME NEW c \in Stack, OneFrame(c), NEW early, NEW v \in BOOLEAN,
           NEW d, d = [c EXCEPT !.nextReadFCB = v, !.sec = "TransmitWaitReset"]
    PROVE  Served(c, d, early, TRUE)
<1>1. d \in Stack /\ OneFrame(d) /\ SameFragment(c, d) /\ SamePrimary(c, d)
  BY DEF Stack, OneFrame, SameFragment, SamePrimary
<1> QED
  BY <1>1, PrimaryStays DEF Served

LEMMA HandledFacts ==
    ASSUME NEW c \in Stack, OneFrame(c),
           NEW fn \in Functions, NEW fcb \in BOOLEAN, NEW isBroadcast \in BOOLEAN
    PROVE  Served(c, Handled(c, fn, fcb, isBroadcast), fn = "ANSWER" /\ EndsEarly(c),
                  fn = "CONFIRMED" /\ isBroadcast /\ c.sec = "Reset")
<1> DEFINE early  == fn = "ANSWER" /\ EndsEarly(c)
           silent == fn = "CONFIRMED" /\ isBroadcast /\ c.sec = "Reset"
           d == Handled(c, fn, fcb, isBroadcast)
<1> SUFFICES Served(c, d, early, silent)
  OBVIOUS
<1>1. CASE fn = "ANSWER"
  <2>1. d = OnAnswer(c) /\ (early <=> EndsEarly(c))
    BY <1>1 DEF Handled
  <2>2. Served(c, d, EndsEarly(c), silent)
    BY <2>1, OnAnswerFacts
  <2> QED
    BY <2>1, <2>2 DEF Served
<1>2. CASE fn = "RESET"
  <2>1. d = OnResetLinkStates(c)
    BY <1>2 DEF Handled
  <2>2. CASE c.sec \in {"NotReset", "Reset"}
    BY <2>1, <2>2, AnswerFacts DEF OnResetLinkStates, Moved
  <2>3. CASE c.sec \notin {"NotReset", "Reset"}
    BY <2>1, <2>3, ServedItself DEF OnResetLinkStates
  <2> QED
    BY <2>2, <2>3
<1>3. CASE fn = "REQUEST_STATUS"
  <2>1. d = OnRequestLinkStatus(c)
    BY <1>3 DEF Handled
  <2>2. CASE c.sec = "NotReset"
    BY <2>1, <2>2, AnswerFacts DEF OnRequestLinkStatus, Moved
  <2>3. CASE c.sec = "Reset"
    BY <2>1, <2>3, AnswerFacts DEF OnRequestLinkStatus, Moved
  <2>4. CASE c.sec \notin {"NotReset", "Reset"}
    BY <2>1, <2>4, ServedItself DEF OnRequestLinkStatus
  <2> QED
    BY <2>2, <2>3, <2>4
<1>4. CASE fn = "TEST"
  <2>1. d = OnTestLinkStatus(c, fcb)
    BY <1>4 DEF Handled
  <2>2. CASE c.sec = "Reset" /\ c.nextReadFCB = fcb
    <3> DEFINE v == ~QueueSecondary(c).nextReadFCB
    <3>1. v \in BOOLEAN
      OBVIOUS
    <3>2. d = [QueueSecondary(c) EXCEPT !.nextReadFCB = v, !.sec = "TransmitWaitReset"]
      BY <2>1, <2>2 DEF OnTestLinkStatus
    <3> HIDE DEF v, d, early, silent
    <3> QED
      BY <2>2, <3>1, <3>2, AnswerFacts DEF Moved
  <2>3. CASE ~(c.sec = "Reset" /\ c.nextReadFCB = fcb)
    BY <2>1, <2>3, ServedItself DEF OnTestLinkStatus
  <2> QED
    BY <2>2, <2>3
<1>5. CASE fn = "CONFIRMED"
  <2>1. d = OnConfirmedUserData(c, fcb, isBroadcast)
    BY <1>5 DEF Handled
  <2>2. CASE c.sec = "Reset" /\ ~isBroadcast
    <3> DEFINE n == QueueSecondary(c).nextReadFCB
               v == IF n = fcb THEN ~n ELSE n
    <3>1. v \in BOOLEAN
      BY QueueSecondaryFacts DEF Stack
    <3>2. d = [QueueSecondary(c) EXCEPT !.nextReadFCB = v, !.sec = "TransmitWaitReset"]
      BY <2>1, <2>2 DEF OnConfirmedUserData
    <3> HIDE DEF n, v, d, early, silent
    <3> QED
      BY <2>2, <3>1, <3>2, AnswerFacts DEF Moved
  <2>3. CASE c.sec = "Reset" /\ isBroadcast
    <3> DEFINE v == IF c.nextReadFCB = fcb THEN ~c.nextReadFCB ELSE c.nextReadFCB
    <3>1. v \in BOOLEAN
      BY DEF Stack
    <3>2. d = [c EXCEPT !.nextReadFCB = v, !.sec = "TransmitWaitReset"]
      BY <2>1, <2>3 DEF OnConfirmedUserData
    <3>3. silent
      BY <1>5, <2>3
    <3> HIDE DEF v, d, early, silent
    <3>4. Served(c, d, early, TRUE)
      BY <3>1, <3>2, BroadcastFacts
    <3> QED
      BY <3>3, <3>4 DEF Served
  <2>4. CASE c.sec # "Reset"
    BY <2>1, <2>4, ServedItself DEF OnConfirmedUserData
  <2> QED
    BY <2>2, <2>3, <2>4
<1>6. CASE fn = "UNCONFIRMED"
  BY <1>6, ServedItself DEF Handled
<1> QED
  BY <1>1, <1>2, <1>3, <1>4, <1>5, <1>6 DEF Functions

(***************************************************************************)
(* The inductive invariant of the sending end.                             *)
(***************************************************************************)
Told(c) ==
    c.online =>
        /\ c.sending <=> c.segments \/ c.posted > 0
        /\ c.posted > 0 => ~c.segments /\ c.posted = 1

SInv ==
    /\ s \in Stack /\ OneFrame(s) /\ Started(s) /\ accepted \in Nat
    /\ "unanswered" \notin mishap => SecondaryOK(s)
    /\ "stalled" \notin mishap => PrimaryOK(s)
    /\ "stalled" \notin mishap /\ "overtaken" \notin mishap =>
          Told(s) /\ Current(s) /\ (s.segments => s.left > 0)

LEMMA ResetFacts ==
    ASSUME NEW c \in Stack, NEW on \in BOOLEAN,
           NEW d, d = [Reset(c) EXCEPT !.online = on]
    PROVE  /\ d \in Stack /\ OneFrame(d) /\ Started(d)
           /\ SecondaryOK(d) /\ PrimaryOK(d) /\ Current(d)
           /\ d.online = on /\ ~d.sending /\ ~d.segments /\ d.posted = c.posted
           /\ d.msg = c.msg /\ d.num = c.num
<1>1. d = [c EXCEPT !.online = on, !.segments = FALSE, !.txMode = "Idle",
              !.pendingPri = FALSE, !.pendingSec = FALSE, !.pri = "Idle",
              !.sec = "NotReset", !.keepAlive = FALSE, !.timer = FALSE,
              !.sending = FALSE, !.txQueue = <<>>]
  BY DEF Reset, TransportDown, LinkDown, Stack
<1>2. <<>> \in Seq(Entries)
  OBVIOUS
<1>3. d \in Stack
  <2> DEFINE q == <<>>
             a == [c EXCEPT !.online = on, !.segments = FALSE, !.txMode = "Idle",
                            !.pendingPri = FALSE, !.pendingSec = FALSE, !.pri = "Idle"]
  <2>1. q \in Seq(Entries)
    BY <1>2
  <2>2. d = [a EXCEPT !.sec = "NotReset", !.keepAlive = FALSE, !.timer = FALSE,
                      !.sending = FALSE, !.txQueue = q]
    BY <1>1
  <2>3. a \in Stack
    BY DEF Stack
  <2> HIDE DEF q, a
  <2> QED
    BY <2>1, <2>2, <2>3 DEF Stack
<1>4. /\ d.online = on /\ ~d.sending /\ ~d.segments /\ d.posted = c.posted
      /\ d.msg = c.msg /\ d.num = c.num
      /\ d.txMode = "Idle" /\ ~d.pendingPri /\ ~d.pendingSec /\ d.pri = "Idle"
      /\ d.sec = "NotReset" /\ ~d.keepAlive /\ d.txQueue = <<>>
  BY <1>1 DEF Stack
<1> QED
  BY <1>3, <1>4 DEF OneFrame, Started, SecondaryOK, PrimaryOK, Current, Waiting, Answering,
     Outstanding

LEMMA TimeoutFacts ==
    ASSUME NEW c \in Stack, OneFrame(c),
           NEW d, d = [c EXCEPT !.timer = FALSE,
                                !.pri = IF @ = "StatusWait" THEN "Idle" ELSE @]
    PROVE  Served(c, d, EndsEarly(c), FALSE)
<1>1. CASE c.pri = "StatusWait"
  <2>1. d = OnAnswer(c)
    BY <1>1 DEF OnAnswer
  <2> QED
    BY <2>1, OnAnswerFacts
<1>2. CASE c.pri # "StatusWait"
  <2>1. d = [c EXCEPT !.timer = FALSE]
    BY <1>2 DEF Stack
  <2>2. d \in Stack /\ OneFrame(d) /\ SameFragment(c, d) /\ SameSecondary(c, d)
    BY <2>1 DEF Stack, OneFrame, SameFragment, SameSecondary
  <2>3. /\ d.pri = c.pri /\ d.priTxBuffer = c.priTxBuffer /\ d.pendingPri = c.pendingPri
        /\ d.txMode = c.txMode /\ d.txQueue = c.txQueue
    BY <2>1 DEF Stack
  <2>4. PrimaryOK(c) => PrimaryOK(d)
    BY <2>2, <2>3 DEF PrimaryOK, Outstanding, SameFragment
  <2>5. Current(c) => Current(d)
    BY <2>2, <2>3, SameSegment DEF Current
  <2>6. SecondaryOK(c) => SecondaryOK(d)
    BY <2>2 DEF SameSecondary, SecondaryOK, Waiting, Answering
  <2> QED
    BY <2>2, <2>4, <2>5, <2>6 DEF Served
<1> QED
  BY <1>1, <1>2

\* A handler that ends with TryStartTransmission keeps the invariant, unless it
\* is one of the mishaps.
LEMMA ServedKeeps ==
    ASSUME SInv, NEW early, NEW silent, NEW c, Served(s, c, early, silent),
           s' = TryStartTransmission(c), accepted' = accepted,
           mishap \subseteq mishap',
           early => "stalled" \in mishap', silent => "unanswered" \in mishap'
    PROVE  SInv' /\ SameFragment(s, s')
<1>1. c \in Stack /\ OneFrame(c)
  BY DEF Served
<1>2. Starts(c, s') /\ Started(s')
  BY <1>1, TryStartTransmissionFacts
<1>3. s' \in Stack /\ OneFrame(s') /\ SameFragment(s, s')
  BY <1>2 DEF Starts, Served, SameFragment
<1>4. "unanswered" \notin mishap' => SecondaryOK(s')
  <2>1. "unanswered" \notin mishap' => SecondaryOK(c)
    BY DEF SInv, Served
  <2> QED
    BY <1>2, <2>1 DEF Starts, SameSecondary, SecondaryOK, Waiting, Answering
<1>5. "stalled" \notin mishap' => PrimaryOK(s')
  BY <1>2 DEF SInv, Served, Starts
<1>6. "stalled" \notin mishap' /\ "overtaken" \notin mishap' =>
         Told(s') /\ Current(s') /\ (s'.segments => s'.left > 0)
  <2>1. "stalled" \notin mishap' /\ "overtaken" \notin mishap' => Current(s')
    BY <1>2 DEF SInv, Served, Starts
  <2> QED
    BY <1>3, <2>1 DEF SInv, SameFragment, Told
<1> QED
  BY <1>2, <1>3, <1>4, <1>5, <1>6 DEF SInv, OneFrame, Started, SecondaryOK, PrimaryOK, Told,
     Current, Waiting, Answering, Outstanding, GetSegment

LEMMA InitSInv == Init => SInv
<1> SUFFICES ASSUME Init PROVE SInv
  OBVIOUS
<1>1. s = NewStack /\ mishap = {} /\ accepted = 0
  BY DEF Init
<1>2. s \in Stack
  <2> DEFINE q == <<>>
  <2>1. q \in Seq(Entries)
    OBVIOUS
  <2>2. s.txQueue = q /\ DOMAIN s = DOMAIN NewStack
    BY <1>1 DEF NewStack
  <2>3. LinkFrame \in Frames /\ 0 \in 0 .. SeqMod - 1
    BY LayersAssumption DEF Frames, LayersAssumption
  <2>4. s = [online |-> FALSE,
             sending |-> FALSE, msg |-> 0, left |-> 0, count |-> 0, num |-> 0,
             segments |-> FALSE, txMode |-> "Idle", pendingPri |-> FALSE, pendingSec |-> FALSE,
             pri |-> "Idle", sec |-> "NotReset", nextReadFCB |-> FALSE,
             keepAlive |-> FALSE, timer |-> FALSE, priTxBuffer |-> LinkFrame,
             txQueue |-> q, posted |-> 0]
    BY <1>1 DEF NewStack
  <2> HIDE DEF q
  <2> QED
    BY <2>1, <2>3, <2>4 DEF Stack
<1> QED
  BY <1>1, <1>2 DEF NewStack, SInv, OneFrame, Started, SecondaryOK, PrimaryOK, Told, Current,
     Waiting, Answering, Outstanding

LEMMA NewChannelKeeps ==
    ASSUME SInv, OnNewChannel
    PROVE  SInv'
<1>1. s \in Stack /\ s' = [Reset(s) EXCEPT !.online = TRUE] /\ accepted' = accepted
  BY DEF SInv, OnNewChannel
<1>2. /\ s' \in Stack /\ OneFrame(s') /\ Started(s')
      /\ SecondaryOK(s') /\ PrimaryOK(s') /\ Current(s')
      /\ s'.online /\ ~s'.sending /\ ~s'.segments /\ s'.posted = s.posted
  BY <1>1, ResetFacts
<1>3. "overtaken" \notin mishap' => Told(s')
  <2>1. s.posted > 0 => "overtaken" \in mishap'
    BY DEF OnNewChannel
  <2> QED
    BY <1>2, <2>1 DEF Told
<1> QED
  BY <1>1, <1>2, <1>3 DEF SInv, OneFrame, Started, SecondaryOK, PrimaryOK, Told,
     Current, Waiting, Answering, Outstanding, GetSegment

LEMMA ChannelFailsKeeps ==
    ASSUME SInv, ChannelFails
    PROVE  SInv'
<1>1. s \in Stack /\ s' = Reset(s) /\ accepted' = accepted
  BY DEF SInv, ChannelFails
<1>2. s' = [Reset(s) EXCEPT !.online = FALSE]
  BY <1>1 DEF Reset, TransportDown, LinkDown, Stack
<1>3. /\ s' \in Stack /\ OneFrame(s') /\ Started(s')
      /\ SecondaryOK(s') /\ PrimaryOK(s') /\ Current(s')
      /\ ~s'.online /\ ~s'.segments
  BY <1>1, <1>2, ResetFacts
<1> QED
  BY <1>1, <1>3 DEF SInv, OneFrame, Started, SecondaryOK, PrimaryOK, Told,
     Current, Waiting, Answering, Outstanding, GetSegment

LEMMA RunPostedKeeps ==
    ASSUME SInv, RunPosted
    PROVE  SInv'
<1> DEFINE n == s.posted - 1
<1>1. s \in Stack /\ n \in Nat /\ s' = [s EXCEPT !.posted = n, !.sending = FALSE]
  BY DEF SInv, RunPosted, Stack
<1>2. s' \in Stack
  <2> HIDE DEF n
  <2> QED
    BY <1>1 DEF Stack
<1>3. /\ s'.txMode = s.txMode /\ s'.txQueue = s.txQueue /\ s'.pendingPri = s.pendingPri
      /\ s'.pendingSec = s.pendingSec /\ s'.pri = s.pri /\ s'.sec = s.sec
      /\ s'.keepAlive = s.keepAlive /\ s'.priTxBuffer = s.priTxBuffer
      /\ s'.online = s.online /\ s'.segments = s.segments
      /\ s'.msg = s.msg /\ s'.left = s.left /\ s'.count = s.count /\ s'.num = s.num
      /\ s'.posted = n /\ ~s'.sending
  <2> HIDE DEF n
  <2> QED
    BY <1>1 DEF Stack
<1>4. mishap' = mishap /\ s.posted > 0 /\ accepted' = accepted
  BY DEF RunPosted
<1>5. GetSegment(s)' = GetSegment(s)
  BY <1>3 DEF GetSegment
<1>6. Told(s) => Told(s)'
  BY <1>1, <1>3, <1>4 DEF Told
<1> QED
  BY <1>2, <1>3, <1>4, <1>5, <1>6 DEF SInv, OneFrame, Started, SecondaryOK, PrimaryOK,
     Current, Waiting, Answering, Outstanding

LEMMA KeepAliveKeeps ==
    ASSUME SInv, OnKeepAliveTimeout
    PROVE  SInv' /\ SameFragment(s, s')
<1> DEFINE c == [s EXCEPT !.keepAlive = TRUE]
<1>1. s \in Stack /\ OneFrame(s)
  BY DEF SInv
<1>2. c \in Stack /\ OneFrame(c) /\ SameFragment(s, c)
  BY <1>1 DEF Stack, OneFrame, SameFragment
<1>3. /\ c.txMode = s.txMode /\ c.txQueue = s.txQueue /\ c.pendingPri = s.pendingPri
      /\ c.pendingSec = s.pendingSec /\ c.pri = s.pri /\ c.sec = s.sec
      /\ c.priTxBuffer = s.priTxBuffer
  BY <1>1 DEF Stack
<1>4. s' = TryStartTransmission(c) /\ mishap' = mishap /\ accepted' = accepted
  BY DEF OnKeepAliveTimeout
<1> HIDE DEF c
<1>5. Current(s) => Current(c)
  BY <1>2, <1>3, SameSegment DEF Current
<1>6. Served(s, c, FALSE, FALSE)
  BY <1>2, <1>3, <1>5 DEF Served, SecondaryOK, PrimaryOK, Waiting, Answering, Outstanding,
     SameFragment
<1> QED
  BY <1>4, <1>6, ServedKeeps

LEMMA ResponseTimeoutKeeps ==
    ASSUME SInv, OnResponseTimeout
    PROVE  SInv' /\ SameFragment(s, s')
<1> DEFINE c == [s EXCEPT !.timer = FALSE, !.pri = IF @ = "StatusWait" THEN "Idle" ELSE @]
<1>1. s \in Stack /\ OneFrame(s)
  BY DEF SInv
<1>2. /\ s' = TryStartTransmission(c) /\ accepted' = accepted /\ mishap \subseteq mishap'
      /\ EndsEarly(s) => "stalled" \in mishap'
  BY DEF OnResponseTimeout
<1>3. Served(s, c, EndsEarly(s), FALSE)
  BY <1>1, TimeoutFacts
<1> HIDE DEF c
<1> QED
  BY <1>2, <1>3, ServedKeeps

LEMMA FrameKeeps ==
    ASSUME SInv, NEW fn \in Functions, NEW fcb \in BOOLEAN, NEW isBroadcast \in BOOLEAN,
           OnFrame(fn, fcb, isBroadcast)
    PROVE  SInv' /\ SameFragment(s, s')
<1> DEFINE c == Handled(s, fn, fcb, isBroadcast)
           early  == fn = "ANSWER" /\ EndsEarly(s)
           silent == fn = "CONFIRMED" /\ isBroadcast /\ s.sec = "Reset"
<1>1. s \in Stack /\ OneFrame(s)
  BY DEF SInv
<1>2. /\ s' = TryStartTransmission(c) /\ accepted' = accepted /\ mishap \subseteq mishap'
      /\ early => "stalled" \in mishap'
      /\ silent => "unanswered" \in mishap'
  BY DEF OnFrame
<1>3. Served(s, c, early, silent)
  BY <1>1, HandledFacts
<1> HIDE DEF c, early, silent
<1> QED
  BY <1>2, <1>3, ServedKeeps

LEMMA BeginTransmitKeeps ==
    ASSUME SInv, NEW n \in Sizes, BeginTransmit(n)
    PROVE  /\ SInv'
           /\ s'.msg = accepted + 1 /\ s'.num = s.num
           /\ ~s.segments => s'.segments
<1> DEFINE m == accepted + 1
           a == [s EXCEPT !.sending = TRUE, !.msg = m, !.left = n, !.count = 0]
           c == [a EXCEPT !.segments = TRUE]
<1>1. /\ s \in Stack /\ OneFrame(s) /\ m \in Nat /\ n \in Nat /\ n > 0
      /\ accepted' = m /\ mishap' = mishap /\ s.online /\ ~s.sending
  BY LayersAssumption DEF SInv, BeginTransmit, LayersAssumption
<1>2. s' = Send(a)
  BY DEF BeginTransmit, Configure
<1> HIDE DEF m
<1>3. a \in Stack
  BY <1>1 DEF Stack
<1>4. /\ OneFrame(a)
      /\ a.txMode = s.txMode /\ a.txQueue = s.txQueue /\ a.pendingPri = s.pendingPri
      /\ a.pendingSec = s.pendingSec /\ a.pri = s.pri /\ a.sec = s.sec
      /\ a.keepAlive = s.keepAlive /\ a.priTxBuffer = s.priTxBuffer
      /\ a.online = s.online /\ a.segments = s.segments /\ a.posted = s.posted
      /\ a.sending /\ a.msg = m /\ a.left = n /\ a.num = s.num
  BY <1>1 DEF Stack, OneFrame
<1> HIDE DEF a
<1>5. "stalled" \notin mishap /\ "overtaken" \notin mishap => ~s.segments /\ s.posted = 0
  BY <1>1 DEF SInv, Told, Stack
<1>6. CASE s.segments
  <2>1. s' = a
    BY <1>2, <1>4, <1>6 DEF Send
  <2>2. Started(a) /\ (SecondaryOK(s) => SecondaryOK(a)) /\ (PrimaryOK(s) => PrimaryOK(a))
    BY <1>4 DEF SInv, Started, SecondaryOK, PrimaryOK, Waiting, Answering, Outstanding
  <2>3. "stalled" \in mishap \/ "overtaken" \in mishap
    BY <1>5, <1>6
  <2> QED
    BY <1>1, <1>3, <1>4, <1>6, <2>1, <2>2, <2>3 DEF SInv, OneFrame, Started, SecondaryOK,
       PrimaryOK, Waiting, Answering, Outstanding, m
<1>7. CASE ~s.segments
  <2>1. s' = TryStartTransmission(c)
    BY <1>2, <1>4, <1>7 DEF Send
  <2>2. c \in Stack /\ OneFrame(c)
    BY <1>3, <1>4 DEF Stack, OneFrame
  <2>3. /\ c.txMode = a.txMode /\ c.txQueue = a.txQueue /\ c.pendingPri = a.pendingPri
        /\ c.pendingSec = a.pendingSec /\ c.pri = a.pri /\ c.sec = a.sec
        /\ c.priTxBuffer = a.priTxBuffer
        /\ c.online = a.online /\ c.segments /\ c.posted = a.posted
        /\ c.sending = a.sending /\ c.msg = a.msg /\ c.left = a.left /\ c.num = a.num
    BY <1>3 DEF Stack
  <2> HIDE DEF c
  <2>4. Starts(c, s') /\ Started(s')
    BY <2>1, <2>2, TryStartTransmissionFacts
  <2>5. SecondaryOK(s) => SecondaryOK(s')
    BY <1>4, <2>3, <2>4 DEF Starts, SameSecondary, SecondaryOK, Waiting, Answering
  <2>6. PrimaryOK(s) => PrimaryOK(c) /\ Current(c)
    BY <1>4, <1>7, <2>3 DEF PrimaryOK, Outstanding, Current
  <2>7. PrimaryOK(s) => PrimaryOK(s') /\ Current(s')
    BY <2>4, <2>6 DEF Starts
  <2>8. /\ s' \in Stack /\ OneFrame(s')
        /\ s'.online /\ s'.segments /\ s'.posted = s.posted /\ s'.sending
        /\ s'.msg = m /\ s'.left > 0 /\ s'.num = s.num
    BY <1>1, <1>4, <2>3, <2>4 DEF Starts, SameFragment
  <2>9. "stalled" \notin mishap /\ "overtaken" \notin mishap => Told(s')
    BY <1>5, <2>8 DEF Told
  <2> QED
    BY <1>1, <2>4, <2>5, <2>7, <2>8, <2>9 DEF SInv, OneFrame, Started, SecondaryOK, PrimaryOK,
       Told, Current, Waiting, Answering, Outstanding, GetSegment, m
<1> QED
  BY <1>1, <1>6, <1>7 DEF Stack

LEMMA WriteCompleteKeeps ==
    ASSUME SInv, OnWriteComplete
    PROVE  SInv' /\ Wrote(s, s')
<1>1. /\ s \in Stack /\ OneFrame(s) /\ s.txQueue # <<>>
      /\ s' = OnTxReady([s EXCEPT !.txQueue = Tail(@)]) /\ accepted' = accepted
  BY DEF SInv, OnWriteComplete
<1>2. mishap \subseteq mishap'
  <2>1. PICK f \in Written(Head(s.txQueue)), lost \in BOOLEAN :
           IF f.link THEN UNCHANGED <<r, out, since, mishap>>
           ELSE mishap' = IF ~lost /\ f.part # 1 /\ since >= SeqMod
                          THEN mishap \cup {"wrapped"} ELSE mishap
    BY DEF OnWriteComplete
  <2> QED
    BY <2>1
<1>3. /\ s' \in Stack /\ OneFrame(s') /\ Wrote(s, s') /\ Started(s')
      /\ SecondaryOK(s) => SecondaryOK(s')
      /\ PrimaryOK(s) => PrimaryOK(s')
      /\ PrimaryOK(s) /\ Current(s) => Current(s')
  BY <1>1, OnTxReadyFacts
<1>4. "unanswered" \notin mishap' => SecondaryOK(s')
  BY <1>2, <1>3 DEF SInv
<1>5. "stalled" \notin mishap' => PrimaryOK(s')
  BY <1>2, <1>3 DEF SInv
<1>6. "stalled" \notin mishap' /\ "overtaken" \notin mishap' =>
         Told(s') /\ Current(s') /\ (s'.segments => s'.left > 0)
  <2> SUFFICES ASSUME "stalled" \notin mishap', "overtaken" \notin mishap'
               PROVE  Told(s') /\ Current(s') /\ (s'.segments => s'.left > 0)
    OBVIOUS
  <2>1. PrimaryOK(s) /\ Told(s) /\ Current(s) /\ (s.segments => s.left > 0)
    BY <1>2 DEF SInv
  <2>2. CASE s.txMode = "Primary" /\ s.pri = "TransmitWait"
    <3>1. s.segments /\ s.left > 0
      BY <2>1, <2>2 DEF PrimaryOK
    <3>2. s'.left > 0 \/ s'.left = 0
      BY <1>3 DEF Stack
    <3>3. /\ s'.online = s.online /\ s'.sending = s.sending
          /\ s'.left > 0 => s'.segments = s.segments /\ s'.posted = s.posted
          /\ s'.left = 0 => ~s'.segments /\ s'.posted = s.posted + 1
      BY <1>3, <2>2 DEF Wrote
    <3>4. Current(s')
      BY <1>3, <2>1
    <3>5. s.posted \in Nat /\ (s.online => s.sending /\ s.posted = 0)
      BY <1>1, <2>1, <3>1 DEF Told, Stack
    <3>6. CASE s'.left > 0
      <4>1. s'.segments /\ s'.posted = s.posted /\ (s'.online => s.online)
        BY <3>1, <3>3, <3>6
      <4>2. s'.online => s'.sending
        BY <3>3, <3>5, <4>1
      <4>3. s'.online => ~(s'.posted > 0)
        BY <3>5, <4>1
      <4> QED
        BY <3>4, <3>6, <4>1, <4>2, <4>3 DEF Told
    <3>7. CASE s'.left = 0
      BY <3>3, <3>4, <3>5, <3>7 DEF Told
    <3> QED
      BY <3>2, <3>6, <3>7
  <2>3. CASE ~(s.txMode = "Primary" /\ s.pri = "TransmitWait")
    BY <1>3, <2>1, <2>3 DEF Wrote, SameFragment, Told
  <2> QED
    BY <2>2, <2>3
<1> QED
  BY <1>1, <1>3, <1>4, <1>5, <1>6 DEF SInv, OneFrame, Started, SecondaryOK, PrimaryOK,
     Told, Current, Waiting, Answering, Outstanding, GetSegment

LEMMA NextSInv == SInv /\ [Next]_vars => SInv'
<1> SUFFICES ASSUME SInv, [Next]_vars PROVE SInv'
  OBVIOUS
<1>1. CASE OnNewChannel
  BY <1>1, NewChannelKeeps
<1>2. CASE ChannelFails
  BY <1>2, ChannelFailsKeeps
<1>3. CASE \E n \in Sizes : BeginTransmit(n)
  BY <1>3, BeginTransmitKeeps
<1>4. CASE RunPosted
  BY <1>4, RunPostedKeeps
<1>5. CASE OnWriteComplete
  BY <1>5, WriteCompleteKeeps
<1>6. CASE OnKeepAliveTimeout
  BY <1>6, KeepAliveKeeps
<1>7. CASE OnResponseTimeout
  BY <1>7, ResponseTimeoutKeeps
<1>8. CASE \E fn \in Functions, fcb, isBroadcast \in BOOLEAN : OnFrame(fn, fcb, isBroadcast)
  BY <1>8, FrameKeeps
<1>9. CASE UNCHANGED vars
  BY <1>9 DEF vars, SInv, OneFrame, Started, SecondaryOK, PrimaryOK,
     Told, Current, Waiting, Answering, Outstanding, GetSegment
<1> QED
  BY <1>1, <1>2, <1>3, <1>4, <1>5, <1>6, <1>7, <1>8, <1>9 DEF Next

LEMMA SInvAlways == Spec => []SInv
<1> QED
  BY InitSInv, NextSInv, PTL DEF Spec

\* Whatever the other end sends and whenever the connection changes, the stations of
\* the link layer never start a frame while another one is written, and nothing waits
\* for the socket while it is free (LinkContext::QueueTransmit, TryPendingTx).
THEOREM OneFrameAtATimeTheorem == Spec => []OneFrameAtATime
<1>1. SInv => OneFrameAtATime
  BY DEF SInv, OneFrame, OneFrameAtATime, Stack
<1> QED
  BY <1>1, SInvAlways, PTL

\* The frame that is written is what the buffer holds, for any number of segments,
\* keep-alives and answers (LinkContext::FormatPrimaryBufferWithUnconfirmed).
THEOREM BuffersAreKeptTheorem == Spec => []BuffersAreKept
<1>1. SInv => BuffersAreKept
  BY DEF SInv, PrimaryOK, BuffersAreKept
<1> QED
  BY <1>1, SInvAlways, PTL

\* A secondary station waits exactly as long as an answer of it is on its way
\* (SecLinkLayerStates.cpp).
THEOREM IgnoresOnlyWhileAnsweringTheorem == Spec => []IgnoresOnlyWhileAnswering
<1>1. SInv => IgnoresOnlyWhileAnswering
  BY DEF SInv, SecondaryOK, Waiting, Answering, IgnoresOnlyWhileAnswering
<1> QED
  BY <1>1, SInvAlways, PTL

\* The transport layer is told of the end of a fragment when the link layer has let
\* go of it, and takes no other before (LinkContext::CompleteSendOperation).
THEOREM ReadyWhenToldTheorem == Spec => []ReadyWhenTold
<1>1. SInv => ReadyWhenTold
  BY DEF SInv, Told, ReadyWhenTold
<1> QED
  BY <1>1, SInvAlways, PTL

\* Every handler starts what the primary station could send before it returns
\* (LinkContext::TryStartTransmission).
THEOREM WorkIsStartedTheorem == Spec => []WorkIsStarted
<1>1. SInv => WorkIsStarted
  BY DEF SInv, Started, WorkIsStarted
<1> QED
  BY <1>1, SInvAlways, PTL

(***************************************************************************)
(* The receiving end.                                                      *)
(***************************************************************************)
LEMMA Successor ==
    ASSUME NEW n \in 0 .. SeqMod - 1
    PROVE  (n + 1) % SeqMod = IF n + 1 = SeqMod THEN 0 ELSE n + 1
BY LayersAssumption DEF LayersAssumption

RType ==
    /\ r \in [parts : Seq(SegmentFrames), expectedSeq : 0 .. SeqMod - 1]
    /\ Len(r.parts) <= RxRoom
    /\ out \in [msg : Nat, good : BOOLEAN]
    /\ since \in Nat

Calm == "stalled" \notin mishap /\ "overtaken" \notin mishap /\ "wrapped" \notin mishap

\* What was handed up is older than what is sent.
Delivered ==
    /\ out.good
    /\ out.msg <= s.msg /\ s.msg <= accepted
    /\ s.segments => out.msg < s.msg

\* The first segments of one fragment.
Prefix(q) == \A i \in 1 .. Len(q) : q[i].msg = q[1].msg /\ q[i].part = i

\* The transmitter is k segments ahead.
Ahead(num, expected, k) == num = expected + k \/ num = expected + k - SeqMod

\* since + 1 segments were sent since the first one of the receiver's fragment; when
\* it has them all, it is at the transmitter's place.
Aligned ==
    r.parts # <<>> /\ since < SeqMod =>
        /\ Len(r.parts) <= since + 1
        /\ Ahead(s.num, r.expectedSeq, since + 1 - Len(r.parts))
        /\ Len(r.parts) = since + 1 =>
              s.segments /\ s.msg = r.parts[1].msg /\ s.count = Len(r.parts)

DInv == RType /\ (Calm => Delivered /\ Prefix(r.parts) /\ Aligned)

LEMMA InitDInv == Init => DInv
<1> SUFFICES ASSUME Init PROVE DInv
  OBVIOUS
<1> DEFINE q == <<>>
<1>1. /\ s = NewStack /\ r = [parts |-> q, expectedSeq |-> 0]
      /\ accepted = 0 /\ out = [msg |-> 0, good |-> TRUE] /\ since = 0
  BY DEF Init
<1>2. q \in Seq(SegmentFrames) /\ Len(q) = 0 /\ 0 \in 0 .. SeqMod - 1 /\ RxRoom \in Nat
  BY LayersAssumption DEF LayersAssumption
<1>3. s.msg = 0 /\ ~s.segments /\ r.parts = <<>>
  BY <1>1 DEF NewStack
<1> HIDE DEF q
<1>4. RType
  BY <1>1, <1>2 DEF RType
<1>5. Delivered
  BY <1>1, <1>3 DEF Delivered
<1>6. Prefix(r.parts)
  BY <1>1, <1>2 DEF Prefix
<1> QED
  BY <1>3, <1>4, <1>5, <1>6 DEF DInv, Aligned

\* A step that leaves the fragment and the receiver alone.
LEMMA SameKeeps ==
    ASSUME DInv, SameFragment(s, s'), UNCHANGED <<r, accepted, out, since>>,
           mishap \subseteq mishap'
    PROVE  DInv'
<1>1. RType' /\ (Calm' => Calm)
  BY DEF DInv, RType, Calm
<1>2. /\ s'.msg = s.msg /\ s'.num = s.num /\ s'.count = s.count /\ s'.segments = s.segments
      /\ r' = r /\ accepted' = accepted /\ out' = out /\ since' = since
  BY DEF SameFragment
<1>3. Delivered => Delivered'
  BY <1>2 DEF Delivered
<1>4. Prefix(r.parts) => Prefix(r.parts)'
  BY <1>2 DEF Prefix
<1>5. Aligned => Aligned'
  BY <1>2 DEF Aligned, Ahead
<1> QED
  BY <1>1, <1>3, <1>4, <1>5 DEF DInv

\* A connection that goes away takes the fragment on both sides with it.
LEMMA LostKeeps ==
    ASSUME DInv, s'.msg = s.msg, ~s'.segments, r' = [r EXCEPT !.parts = <<>>],
           UNCHANGED <<accepted, out, since>>, mishap \subseteq mishap'
    PROVE  DInv'
<1> DEFINE q == <<>>
<1>1. q \in Seq(SegmentFrames) /\ Len(q) = 0 /\ RxRoom \in Nat
  BY LayersAssumption DEF LayersAssumption
<1>2. r \in [parts : Seq(SegmentFrames), expectedSeq : 0 .. SeqMod - 1]
  BY DEF DInv, RType
<1>3. r' = [r EXCEPT !.parts = q] /\ r'.parts = <<>>
  BY <1>2
<1> HIDE DEF q
<1>8. r' \in [parts : Seq(SegmentFrames), expectedSeq : 0 .. SeqMod - 1] /\ r'.parts = q
  BY <1>1, <1>2, <1>3
<1>9. Len(r'.parts) <= RxRoom
  BY <1>1, <1>8
<1>4. RType'
  BY <1>8, <1>9 DEF DInv, RType
<1>5. (Calm' => Calm) /\ (Delivered => Delivered')
  BY DEF Calm, Delivered
<1>6. Prefix(r'.parts)
  BY <1>1, <1>2, <1>3 DEF Prefix
<1>7. Aligned'
  BY <1>3 DEF Aligned
<1> QED
  BY <1>4, <1>5, <1>6, <1>7 DEF DInv, Prefix

LEMMA BeginKeeps ==
    ASSUME SInv, DInv, NEW n \in Sizes, BeginTransmit(n)
    PROVE  DInv'
<1>1. /\ s'.msg = accepted + 1 /\ s'.num = s.num
      /\ accepted \in Nat /\ accepted' = accepted + 1
      /\ s.online /\ ~s.sending
      /\ r' = r /\ out' = out /\ since' = since /\ mishap' = mishap
  BY BeginTransmitKeeps DEF BeginTransmit, SInv
<1>2. RType'
  BY <1>1 DEF DInv, RType
<1>3. Calm => ~s.segments
  BY <1>1 DEF SInv, Told, Calm
<1>4. out.msg \in Nat /\ s.msg \in Nat
  BY DEF DInv, RType, SInv, Stack
<1>5. Delivered => Delivered'
  BY <1>1, <1>4 DEF Delivered
<1>6. Calm /\ Aligned => Aligned'
  BY <1>1, <1>3 DEF Aligned, Ahead
<1> QED
  BY <1>1, <1>2, <1>5, <1>6 DEF DInv, Calm, Prefix

\* What arrives of a segment is the segment the transmitter is at.
LEMMA WrittenSegment ==
    ASSUME SInv, Calm, s.txQueue # <<>>,
           NEW f \in Written(Head(s.txQueue)), ~f.link
    PROVE  /\ s.txMode = "Primary" /\ s.pri = "TransmitWait"
           /\ f = GetSegment(s) /\ s.segments /\ s.left > 0
<1> DEFINE e == Head(s.txQueue)
<1>1. s \in Stack /\ OneFrame(s) /\ PrimaryOK(s) /\ Current(s) /\ (s.segments => s.left > 0)
  BY DEF SInv, Calm
<1>2. s.txQueue \in Seq(Entries) /\ s.txMode \in {"Primary", "Secondary"}
  BY <1>1 DEF Stack, OneFrame
<1>3. e \in Entries /\ e = s.txQueue[1]
  BY <1>2
<1>4. f \in (IF e.primary THEN {e.frame, s.priTxBuffer} ELSE {e.frame})
  BY DEF Written
<1> HIDE DEF e
<1>5. e.primary
  <2> SUFFICES ASSUME ~e.primary PROVE FALSE
    OBVIOUS
  <2>1. e.frame = LinkFrame
    BY <1>3 DEF Entries
  <2> QED
    BY <1>4, <2>1 DEF LinkFrame
<1>6. s.txMode = "Primary"
  BY <1>1, <1>2, <1>3, <1>5 DEF OneFrame
<1>7. f = s.priTxBuffer
  BY <1>1, <1>3, <1>4, <1>5, <1>6 DEF PrimaryOK
<1>8. s.pri = "TransmitWait"
  <2>1. s.pri # "Idle"
    BY <1>1, <1>6 DEF PrimaryOK, Outstanding
  <2>2. s.pri # "StatusWait"
    <3> SUFFICES ASSUME s.pri = "StatusWait" PROVE FALSE
      OBVIOUS
    <3>1. f = LinkFrame
      BY <1>1, <1>6, <1>7 DEF PrimaryOK, Outstanding
    <3> QED
      BY <3>1 DEF LinkFrame
  <2> QED
    BY <1>1, <2>1, <2>2 DEF Stack
<1> QED
  BY <1>1, <1>6, <1>7, <1>8 DEF PrimaryOK, Current

LEMMA WrittenLink ==
    ASSUME SInv, Calm, s.txQueue # <<>>,
           NEW f \in Written(Head(s.txQueue)), f.link
    PROVE  ~(s.txMode = "Primary" /\ s.pri = "TransmitWait")
<1> SUFFICES ASSUME s.txMode = "Primary", s.pri = "TransmitWait" PROVE FALSE
  OBVIOUS
<1> DEFINE e == Head(s.txQueue)
<1>1. s \in Stack /\ PrimaryOK(s) /\ Current(s)
  BY DEF SInv, Calm
<1>2. s.txQueue \in Seq(Entries)
  BY <1>1 DEF Stack
<1>3. e = s.txQueue[1]
  BY <1>2
<1>4. f \in {e.frame, s.priTxBuffer}
  BY DEF Written
<1> HIDE DEF e
<1>5. f = GetSegment(s)
  BY <1>1, <1>3, <1>4 DEF PrimaryOK, Current
<1> QED
  BY <1>5 DEF GetSegment

LEMMA WrittenType ==
    ASSUME SInv, s.txQueue # <<>>, NEW f \in Written(Head(s.txQueue)), ~f.link
    PROVE  f \in SegmentFrames
<1> DEFINE e == Head(s.txQueue)
<1>1. s.txQueue \in Seq(Entries) /\ s.priTxBuffer \in Frames
  BY DEF SInv, Stack
<1>2. e \in Entries
  BY <1>1
<1>3. f \in {e.frame, s.priTxBuffer}
  BY DEF Written
<1> HIDE DEF e
<1>4. e.frame \in Frames
  BY <1>2 DEF Entries, Frames
<1> QED
  BY <1>1, <1>3, <1>4 DEF Frames, LinkFrame

\* The receiver with the segment f.
LEMMA AppendFacts ==
    ASSUME RType, NEW f \in SegmentFrames
    PROVE  /\ Append(Begun(f), f) \in Seq(SegmentFrames)
           /\ Begun(f) \in Seq(SegmentFrames)
           /\ Len(Append(Begun(f), f)) = Len(Begun(f)) + 1
           /\ \A i \in 1 .. Len(Begun(f)) : Append(Begun(f), f)[i] = Begun(f)[i]
           /\ Append(Begun(f), f)[Len(Begun(f)) + 1] = f
<1>1. Begun(f) \in Seq(SegmentFrames)
  BY DEF Begun, RType
<1> QED
  BY <1>1, AppendProperties

LEMMA ReceiveTyped ==
    ASSUME SInv, RType, OnWriteComplete
    PROVE  RType'
<1>1. PICK f \in Written(Head(s.txQueue)), lost \in BOOLEAN :
         IF f.link THEN UNCHANGED <<r, out, since, mishap>>
         ELSE /\ since' = IF ~lost /\ f.part = 1 THEN 0
                          ELSE IF since >= SeqMod THEN since ELSE since + 1
              /\ mishap' = IF ~lost /\ f.part # 1 /\ since >= SeqMod
                           THEN mishap \cup {"wrapped"} ELSE mishap
              /\ IF lost THEN UNCHANGED <<r, out>> ELSE ProcessReceive(f)
  BY DEF OnWriteComplete
<1>2. CASE f.link
  BY <1>1, <1>2 DEF RType
<1>3. CASE ~f.link
  <2>1. f \in SegmentFrames
    BY <1>3, WrittenType DEF OnWriteComplete
  <2>2. since' \in Nat
    BY <1>1, <1>3 DEF RType
  <2>3. CASE UNCHANGED <<r, out>>
    BY <2>2, <2>3 DEF RType
  <2>4. CASE ProcessReceive(f) /\ ~UNCHANGED <<r, out>>
    <3> DEFINE q == Append(Begun(f), f)
    <3>1. q \in Seq(SegmentFrames) /\ Len(q) \in Nat /\ Len(q) >= 1
      BY <2>1, AppendFacts
    <3>2. \/ Len(q) > RxRoom /\ r' = [r EXCEPT !.parts = <<>>] /\ out' = out
          \/ /\ ~(Len(q) > RxRoom)
             /\ r' = [parts |-> IF f.fin THEN <<>> ELSE q, expectedSeq |-> (f.seq + 1) % SeqMod]
             /\ out' = IF f.fin THEN Judged(q) ELSE out
      BY <2>4 DEF ProcessReceive
    <3>3. Judged(q) \in [msg : Nat, good : BOOLEAN]
      <4>1. q[1] \in SegmentFrames
        BY <3>1
      <4>2. q[1].msg \in Nat
        BY <4>1 DEF SegmentFrames
      <4> QED
        BY <4>2 DEF Judged
    <3> DEFINE z == <<>>
    <3>4. z \in Seq(SegmentFrames) /\ Len(z) = 0 /\ RxRoom \in Nat
      BY LayersAssumption DEF LayersAssumption
    <3>5. (f.seq + 1) % SeqMod \in 0 .. SeqMod - 1
      BY <2>1, LayersAssumption DEF LayersAssumption, SegmentFrames
    <3>6. \/ Len(q) > RxRoom /\ r' = [r EXCEPT !.parts = z] /\ out' = out
          \/ /\ ~(Len(q) > RxRoom)
             /\ r' = [parts |-> IF f.fin THEN z ELSE q, expectedSeq |-> (f.seq + 1) % SeqMod]
             /\ out' = IF f.fin THEN Judged(q) ELSE out
      BY <3>2
    <3> HIDE DEF q, z
    <3>7. CASE Len(q) > RxRoom /\ r' = [r EXCEPT !.parts = z] /\ out' = out
      <4>1. r' \in [parts : Seq(SegmentFrames), expectedSeq : 0 .. SeqMod - 1] /\ r'.parts = z
        BY <3>4, <3>7 DEF RType
      <4>2. Len(r'.parts) <= RxRoom
        BY <3>4, <4>1
      <4> QED
        BY <2>2, <3>7, <4>1, <4>2 DEF RType
    <3>8. CASE /\ ~(Len(q) > RxRoom)
               /\ r' = [parts |-> IF f.fin THEN z ELSE q, expectedSeq |-> (f.seq + 1) % SeqMod]
               /\ out' = IF f.fin THEN Judged(q) ELSE out
      <4> DEFINE y == IF f.fin THEN z ELSE q
                 x == (f.seq + 1) % SeqMod
      <4>1. y \in Seq(SegmentFrames) /\ Len(y) <= RxRoom
        BY <3>1, <3>4, <3>8
      <4>2. out' \in [msg : Nat, good : BOOLEAN]
        BY <3>3, <3>8 DEF RType
      <4>3. x \in 0 .. SeqMod - 1 /\ r' = [parts |-> y, expectedSeq |-> x]
        BY <3>5, <3>8
      <4> HIDE DEF x, y
      <4>4. r' \in [parts : Seq(SegmentFrames), expectedSeq : 0 .. SeqMod - 1] /\ r'.parts = y
        BY <4>1, <4>3
      <4> QED
        BY <2>2, <4>1, <4>2, <4>4 DEF RType
    <3> QED
      BY <3>6, <3>7, <3>8
  <2> QED
    BY <1>1, <1>3, <2>3, <2>4
<1> QED
  BY <1>2, <1>3

\* What a written segment does to the transmitter.
Moves ==
    /\ s'.msg = s.msg /\ s'.count = s.count + 1
    /\ s'.num = IF s.num + 1 = SeqMod THEN 0 ELSE s.num + 1
    /\ s.segments /\ s.left > 0
    /\ s'.segments <=> s.left > 1

\* The segment did not get to the receiver, or did not follow what it has.
LEMMA MissedKeeps ==
    ASSUME SInv, RType, Moves, Delivered, Prefix(r.parts), Aligned,
           UNCHANGED <<r, out, accepted>>,
           since' = IF since >= SeqMod THEN since ELSE since + 1
    PROVE  Delivered' /\ Prefix(r.parts)' /\ Aligned'
<1>1. Delivered'
  BY DEF Delivered, Moves
<1>2. Prefix(r.parts)'
  BY DEF Prefix
<1>3. Aligned'
  <2> SUFFICES ASSUME r.parts # <<>>, since' < SeqMod
               PROVE  /\ Len(r.parts) <= since' + 1 /\ Len(r.parts) # since' + 1
                      /\ Ahead(s'.num, r.expectedSeq, since' + 1 - Len(r.parts))
    BY DEF Aligned, Ahead
  <2>1. /\ since \in Nat /\ r.parts \in Seq(SegmentFrames) /\ r.expectedSeq \in 0 .. SeqMod - 1
        /\ s.num \in 0 .. SeqMod - 1 /\ SeqMod \in Nat
    BY LayersAssumption DEF LayersAssumption, RType, SInv, Stack
  <2>2. since < SeqMod /\ since' = since + 1
    BY <2>1
  <2>3. /\ Len(r.parts) <= since + 1
        /\ Ahead(s.num, r.expectedSeq, since + 1 - Len(r.parts))
    BY <2>2 DEF Aligned
  <2>4. Len(r.parts) \in Nat /\ Len(r.parts) >= 1
    BY <2>1
  <2> DEFINE len == Len(r.parts)
  <2>5. len \in Nat /\ len >= 1 /\ len <= since + 1
    BY <2>3, <2>4
  <2>6. s.num = r.expectedSeq + (since + 1 - len) \/ s.num = r.expectedSeq + (since + 1 - len) - SeqMod
    BY <2>3 DEF Ahead
  <2> HIDE DEF len
  <2>7. \/ s'.num = r.expectedSeq + (since + 2 - len)
        \/ s'.num = r.expectedSeq + (since + 2 - len) - SeqMod
    BY <2>1, <2>2, <2>5, <2>6 DEF Moves
  <2>8. len <= since' + 1 /\ len # since' + 1 /\ since' + 1 - len = since + 2 - len
    BY <2>1, <2>2, <2>5
  <2> QED
    BY <2>7, <2>8 DEF Ahead, len
<1> QED
  BY <1>1, <1>2, <1>3

\* A segment that follows what the receiver has is the next one of its fragment.
LEMMA FollowingFacts ==
    ASSUME SInv, RType, Moves, Delivered, Prefix(r.parts), Aligned,
           NEW f \in SegmentFrames, f = GetSegment(s), Follows(f),
           since' = IF f.part = 1 THEN 0 ELSE IF since >= SeqMod THEN since ELSE since + 1,
           f.part # 1 => since < SeqMod,
           NEW q, q = Append(Begun(f), f)
    PROVE  /\ Prefix(q) /\ q[1].msg = s.msg /\ Len(q) = s.count + 1
           /\ q[Len(q)] = f /\ Len(q) = since' + 1
<1> DEFINE b == Begun(f)
<1>1. /\ q \in Seq(SegmentFrames) /\ b \in Seq(SegmentFrames)
      /\ Len(q) = Len(b) + 1 /\ Len(b) \in Nat
      /\ \A i \in 1 .. Len(b) : q[i] = b[i]
      /\ q[Len(b) + 1] = f
  BY AppendFacts
<1>2. f.part = s.count + 1 /\ f.msg = s.msg /\ f.seq = s.num /\ s.count \in Nat
  BY DEF GetSegment, SInv, Stack
<1>3. CASE f.part = 1
  <2>1. b = <<>> /\ Len(b) = 0
    BY <1>3 DEF Begun
  <2>2. Len(q) = 1 /\ q[1] = f
    BY <1>1, <2>1
  <2> QED
    BY <1>2, <1>3, <2>2 DEF Prefix
<1>4. CASE f.part # 1
  <2>1. b = r.parts /\ r.parts # <<>> /\ f.seq = r.expectedSeq /\ since < SeqMod
    BY <1>4 DEF Begun, Follows
  <2>2. /\ since \in Nat /\ r.parts \in Seq(SegmentFrames) /\ r.expectedSeq \in 0 .. SeqMod - 1
        /\ SeqMod \in Nat
    BY LayersAssumption DEF LayersAssumption, RType
  <2>3. since' = since + 1
    BY <1>4, <2>1, <2>2
  <2>4. /\ Len(b) <= since + 1
        /\ Ahead(s.num, r.expectedSeq, since + 1 - Len(b))
        /\ Len(b) = since + 1 =>
              s.segments /\ s.msg = b[1].msg /\ s.count = Len(b)
    BY <2>1 DEF Aligned
  <2>5. Len(b) >= 1
    BY <1>1, <2>1
  <2> HIDE DEF b
  <2>6. Len(b) = since + 1
    <3> DEFINE len == Len(b)
    <3>1. len \in Nat /\ len >= 1 /\ len <= since + 1
      BY <1>1, <2>4, <2>5
    <3>2. s.num = s.num + (since + 1 - len) \/ s.num = s.num + (since + 1 - len) - SeqMod
      BY <1>2, <2>1, <2>4 DEF Ahead
    <3> DEFINE n == s.num
               k == since + 1 - len
    <3>5. n = n + k \/ n = n + k - SeqMod
      BY <3>2
    <3>7. n \in Nat
      BY DEF SInv, Stack
    <3> HIDE DEF len, n
    <3>8. since < SeqMod /\ since \in Nat /\ SeqMod \in Nat
      BY <2>1, <2>2
    <3>3. k \in Nat /\ k < SeqMod
      BY <3>1, <3>8
    <3> HIDE DEF k
    <3>6. k = 0
      BY <2>2, <3>3, <3>5, <3>7
    <3>4. len = since + 1
      BY <2>2, <3>1, <3>6 DEF k
    <3> QED
      BY <3>4 DEF len
  <2>7. s.msg = b[1].msg /\ s.count = Len(b) /\ q[1] = b[1]
    BY <1>1, <2>4, <2>5, <2>6
  <2>8. Prefix(b)
    BY <2>1
  <2>9. Prefix(q)
    <3> SUFFICES ASSUME NEW i \in 1 .. Len(q) PROVE q[i].msg = q[1].msg /\ q[i].part = i
      BY DEF Prefix
    <3>1. CASE i \in 1 .. Len(b)
      BY <1>1, <2>7, <2>8, <3>1 DEF Prefix
    <3>2. CASE i = Len(b) + 1
      BY <1>1, <1>2, <2>7, <3>2
    <3> QED
      BY <1>1, <3>1, <3>2
  <2> QED
    BY <1>1, <2>3, <2>6, <2>7, <2>9
<1> QED
  BY <1>3, <1>4

\* The receiver takes the segment.
LEMMA TakenKeeps ==
    ASSUME SInv, RType, Moves, Delivered, Prefix(r.parts), Aligned,
           NEW f \in SegmentFrames, f = GetSegment(s), Follows(f), ProcessReceive(f),
           since' = IF f.part = 1 THEN 0 ELSE IF since >= SeqMod THEN since ELSE since + 1,
           f.part # 1 => since < SeqMod,
           accepted' = accepted
    PROVE  Delivered' /\ Prefix(r.parts)' /\ Aligned'
<1> DEFINE q == Append(Begun(f), f)
<1>1. /\ Prefix(q) /\ q[1].msg = s.msg /\ Len(q) = s.count + 1
      /\ q[Len(q)] = f /\ Len(q) = since' + 1
  BY FollowingFacts
<1>2. q \in Seq(SegmentFrames) /\ DOMAIN q = 1 .. Len(q) /\ Len(q) \in Nat /\ Len(q) >= 1
  BY AppendFacts
<1>3. \/ Len(q) > RxRoom /\ r' = [r EXCEPT !.parts = <<>>] /\ out' = out
      \/ /\ r' = [parts |-> IF f.fin THEN <<>> ELSE q, expectedSeq |-> (f.seq + 1) % SeqMod]
         /\ out' = IF f.fin THEN Judged(q) ELSE out
  BY DEF ProcessReceive
<1>4. /\ out.msg < s.msg /\ out.msg \in Nat /\ s.msg \in Nat /\ accepted \in Nat
      /\ s.msg <= accepted /\ out.good /\ s'.msg = s.msg
  BY DEF Delivered, Moves, RType, SInv, Stack
<1>5. f.fin <=> s.left <= 1
  BY DEF GetSegment
<1>6. s.left \in Nat /\ (f.fin <=> ~s'.segments)
  BY <1>5 DEF Moves, SInv, Stack
<1>7. Judged(q).msg = s.msg /\ (f.fin => Judged(q).good)
  BY <1>1, <1>2, <1>4 DEF Judged, Prefix
<1> HIDE DEF q
<1>8. CASE r'.parts = <<>> /\ (out' = out \/ (f.fin /\ out' = Judged(q)))
  <2>1. Prefix(r'.parts)
    BY <1>8 DEF Prefix
  <2>2. Delivered'
    BY <1>4, <1>6, <1>7, <1>8 DEF Delivered
  <2> QED
    BY <1>8, <2>1, <2>2 DEF Aligned, Prefix
<1>9. CASE ~f.fin /\ r' = [parts |-> q, expectedSeq |-> (f.seq + 1) % SeqMod] /\ out' = out
  <2>1. r'.parts = q /\ r'.expectedSeq = (f.seq + 1) % SeqMod
    BY <1>9
  <2>2. Delivered'
    BY <1>4, <1>9 DEF Delivered
  <2>3. s'.segments /\ s'.count = Len(q) /\ s'.msg = q[1].msg
    BY <1>1, <1>6, <1>9 DEF Moves
  <2>4. r'.expectedSeq = s'.num /\ s'.num \in Nat
    <3>1. f.seq = s.num /\ s.num \in 0 .. SeqMod - 1 /\ SeqMod \in Nat
      BY LayersAssumption DEF LayersAssumption, GetSegment, SInv, Stack
    <3>2. (s.num + 1) % SeqMod = IF s.num + 1 = SeqMod THEN 0 ELSE s.num + 1
      BY <3>1, Successor
    <3> QED
      BY <2>1, <3>1, <3>2 DEF Moves
  <2>5. since' + 1 - Len(q) = 0
    BY <1>1, <1>2
  <2>6. Ahead(s'.num, r'.expectedSeq, since' + 1 - Len(q))
    BY <2>4, <2>5 DEF Ahead
  <2>8. Len(q) <= since' + 1
    BY <1>1, <1>2
  <2>7. Aligned'
    BY <2>1, <2>3, <2>6, <2>8 DEF Aligned, Ahead
  <2> QED
    BY <1>1, <2>1, <2>2, <2>7 DEF Prefix
<1>10. \/ r'.parts = <<>> /\ (out' = out \/ (f.fin /\ out' = Judged(q)))
       \/ ~f.fin /\ r' = [parts |-> q, expectedSeq |-> (f.seq + 1) % SeqMod] /\ out' = out
  BY <1>3 DEF RType
<1> QED
  BY <1>8, <1>9, <1>10

LEMMA WriteKeeps ==
    ASSUME SInv, DInv, OnWriteComplete
    PROVE  DInv'
<1>1. PICK f \in Written(Head(s.txQueue)), lost \in BOOLEAN :
         IF f.link THEN UNCHANGED <<r, out, since, mishap>>
         ELSE /\ since' = IF ~lost /\ f.part = 1 THEN 0
                          ELSE IF since >= SeqMod THEN since ELSE since + 1
              /\ mishap' = IF ~lost /\ f.part # 1 /\ since >= SeqMod
                           THEN mishap \cup {"wrapped"} ELSE mishap
              /\ IF lost THEN UNCHANGED <<r, out>> ELSE ProcessReceive(f)
  BY DEF OnWriteComplete
<1>2. RType' /\ RType
  BY ReceiveTyped DEF DInv
<1>3. s.txQueue # <<>> /\ accepted' = accepted /\ Wrote(s, s') /\ s' \in Stack
  BY WriteCompleteKeeps DEF OnWriteComplete, SInv
<1> SUFFICES ASSUME Calm' PROVE Delivered' /\ Prefix(r.parts)' /\ Aligned'
  BY <1>2 DEF DInv
<1>4. mishap \subseteq mishap' /\ Calm
  BY <1>1 DEF Calm
<1>5. Delivered /\ Prefix(r.parts) /\ Aligned
  BY <1>4 DEF DInv
<1>6. CASE f.link
  <2>1. SameFragment(s, s')
    BY <1>3, <1>4, <1>6, WrittenLink DEF Wrote
  <2>2. DInv'
    BY <1>1, <1>3, <1>4, <1>6, <2>1, SameKeeps
  <2> QED
    BY <2>2 DEF DInv
<1>7. CASE ~f.link
  <2>1. /\ s.txMode = "Primary" /\ s.pri = "TransmitWait"
        /\ f = GetSegment(s) /\ s.segments /\ s.left > 0
    BY <1>3, <1>4, <1>7, WrittenSegment
  <2>2. f \in SegmentFrames
    BY <1>3, <1>7, WrittenType
  <2>3. Moves
    <3>1. s.num \in 0 .. SeqMod - 1 /\ s.left \in Nat /\ s'.left \in Nat
      BY <1>3 DEF SInv, Stack
    <3>2. (s.num + 1) % SeqMod = IF s.num + 1 = SeqMod THEN 0 ELSE s.num + 1
      BY <3>1, Successor
    <3>3. /\ s'.msg = s.msg /\ s'.count = s.count + 1 /\ s'.num = (s.num + 1) % SeqMod
          /\ s'.left = s.left - 1
          /\ s'.left > 0 => s'.segments = s.segments
          /\ s'.left = 0 => ~s'.segments
      BY <1>3, <2>1 DEF Wrote
    <3>4. CASE s.left > 1
      <4>1. s'.segments = s.segments
        BY <3>1, <3>3, <3>4
      <4> QED
        BY <2>1, <3>2, <3>3, <3>4, <4>1 DEF Moves
    <3>5. CASE ~(s.left > 1)
      <4>1. ~s'.segments
        BY <2>1, <3>1, <3>3, <3>5
      <4> QED
        BY <2>1, <3>2, <3>3, <3>5, <4>1 DEF Moves
    <3> QED
      BY <3>4, <3>5
  <2>4. CASE lost \/ ~Follows(f)
    <3>1. r' = r /\ out' = out
      BY <1>1, <1>7, <2>4 DEF ProcessReceive
    <3>2. since' = IF since >= SeqMod THEN since ELSE since + 1
      BY <1>1, <1>7, <2>4 DEF Follows
    <3> QED
      BY <1>2, <1>3, <1>5, <2>3, <3>1, <3>2, MissedKeeps
  <2>5. CASE ~lost /\ Follows(f)
    <3>1. since' = IF f.part = 1 THEN 0 ELSE IF since >= SeqMod THEN since ELSE since + 1
      BY <1>1, <1>7, <2>5
    <3>2. f.part # 1 => since < SeqMod
      <4>1. f.part # 1 => ~(since >= SeqMod)
        BY <1>1, <1>7, <2>5 DEF Calm
      <4> QED
        BY <1>2, <4>1, LayersAssumption DEF RType, LayersAssumption
    <3>3. ProcessReceive(f)
      BY <1>1, <1>7, <2>5
    <3> QED
      BY <1>2, <1>3, <1>5, <2>1, <2>2, <2>3, <2>5, <3>1, <3>2, <3>3, TakenKeeps
  <2> QED
    BY <2>4, <2>5
<1> QED
  BY <1>6, <1>7

LEMMA NextDInv == SInv /\ DInv /\ [Next]_vars => DInv'
<1> SUFFICES ASSUME SInv, DInv, [Next]_vars PROVE DInv'
  OBVIOUS
<1>1. CASE OnNewChannel
  <2>1. s \in Stack /\ s' = [Reset(s) EXCEPT !.online = TRUE]
    BY <1>1 DEF SInv, OnNewChannel
  <2>2. s'.msg = s.msg /\ ~s'.segments
    BY <2>1, ResetFacts
  <2>3. mishap \subseteq mishap'
    BY <1>1 DEF OnNewChannel
  <2> QED
    BY <1>1, <2>2, <2>3, LostKeeps DEF OnNewChannel
<1>2. CASE ChannelFails
  <2>1. s \in Stack /\ s' = Reset(s)
    BY <1>2 DEF SInv, ChannelFails
  <2>2. s' = [Reset(s) EXCEPT !.online = FALSE]
    BY <2>1 DEF Reset, TransportDown, LinkDown, Stack
  <2>3. s'.msg = s.msg /\ ~s'.segments
    BY <2>1, <2>2, ResetFacts
  <2>4. mishap' = mishap
    BY <1>2 DEF ChannelFails
  <2> QED
    BY <1>2, <2>3, <2>4, LostKeeps DEF ChannelFails
<1>3. CASE \E n \in Sizes : BeginTransmit(n)
  BY <1>3, BeginKeeps
<1>4. CASE RunPosted
  <2>1. /\ s'.msg = s.msg /\ s'.num = s.num /\ s'.count = s.count
        /\ s'.segments = s.segments
        /\ UNCHANGED <<r, accepted, out, since, mishap>>
    BY <1>4 DEF RunPosted, SInv, Stack
  <2> QED
    BY <2>1 DEF DInv, RType, Calm, Delivered, Prefix, Aligned, Ahead
<1>5. CASE OnWriteComplete
  BY <1>5, WriteKeeps
<1>6. CASE OnKeepAliveTimeout
  <2>1. UNCHANGED <<r, accepted, out, since>> /\ mishap' = mishap
    BY <1>6 DEF OnKeepAliveTimeout
  <2> QED
    BY <1>6, <2>1, KeepAliveKeeps, SameKeeps
<1>7. CASE OnResponseTimeout
  <2>1. UNCHANGED <<r, accepted, out, since>> /\ mishap \subseteq mishap'
    BY <1>7 DEF OnResponseTimeout
  <2> QED
    BY <1>7, <2>1, ResponseTimeoutKeeps, SameKeeps
<1>8. CASE \E fn \in Functions, fcb, isBroadcast \in BOOLEAN : OnFrame(fn, fcb, isBroadcast)
  <2>1. PICK fn \in Functions, fcb \in BOOLEAN, isBroadcast \in BOOLEAN :
           OnFrame(fn, fcb, isBroadcast)
    BY <1>8
  <2>2. UNCHANGED <<r, accepted, out, since>> /\ mishap \subseteq mishap'
    BY <2>1 DEF OnFrame
  <2> QED
    BY <2>1, <2>2, FrameKeeps, SameKeeps
<1>9. CASE UNCHANGED vars
  BY <1>9 DEF vars, DInv, RType, Calm, Delivered, Prefix, Aligned, Ahead
<1> QED
  BY <1>1, <1>2, <1>3, <1>4, <1>5, <1>6, <1>7, <1>8, <1>9 DEF Next

LEMMA DInvAlways == Spec => []DInv
<1> QED
  BY InitDInv, NextDInv, SInvAlways, PTL DEF Spec

\* For any sizes of fragments, any number space of segments and any losses, a fragment
\* that is handed up is one that was sent, whole and in order, and none is handed up
\* twice or after a later one (TransportTx, TransportRx::ProcessReceive).
THEOREM DeliversFragmentsTheorem == Spec => []DeliversFragments
<1>1. DInv => DeliversFragments
  BY DEF DInv, Calm, Delivered, DeliversFragments
<1> QED
  BY <1>1, DInvAlways, PTL

\* The layers keep their types; the receiver's buffer is never exceeded.
THEOREM TypeTheorem == Spec => []TypeOK
<1>1. SInv /\ DInv => TypeOK
  BY DEF SInv, DInv, RType, Stack, TypeOK
<1> QED
  BY <1>1, SInvAlways, DInvAlways, PTL
=============================================================================

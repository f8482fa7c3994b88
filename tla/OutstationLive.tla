--------------------------- MODULE OutstationLive ---------------------------
(***************************************************************************)
(* What an outstation session gets done in the end.  The variable last     *)
(* names the step just taken, which lets fairness be stated of steps by    *)
(* their name and by the state in which they can happen; told holds the    *)
(* events that some unsolicited response has carried.                      *)
(***************************************************************************)
EXTENDS Outstation

VARIABLES last, told

liveVars == <<s, made, last, told>>

LiveInit == Init /\ last = "none" /\ told = {}

\* The wait for the confirmation of an unsolicited response with events ends
\* without it: a broadcast came, a message is deferred, or no retry is left.
GivesUp == AwaitsUnsol(s) /\ s.completedNull /\ ~AwaitsUnsol(s')

NamedNext ==
    \/ \E ok \in BOOLEAN :
        \/ OnLowerLayerUp(ok) /\ last' = "up"
        \/ OnTxReady(ok) /\ last' = "txReady"
        \/ ConfirmTimeout(ok) /\ last' = IF GivesUp THEN "gaveUp" ELSE "timeout"
        \/ \E m \in Messages :
              /\ OnReceive(m, ok)
              /\ last' = CASE m = Confirmation(s.uconfirmNum, TRUE) -> "confirm"
                           [] Fn(m) = "READ"                        -> "read"
                           [] OTHER                                 -> "request"
        \/ \E r \in Requests, n \in SeqNums, a \in Broadcasts :
              /\ OnReceiveBroadcast(Numbered(r, n), a, ok)
              /\ last' = IF GivesUp THEN "interrupted" ELSE "other"
        \/ \E t \in Types, c \in Classes : HandleNewEvents(t, c, ok) /\ last' = "event"
    \/ OnLowerLayerDown /\ last' = "down"
    \/ SelectTimeout /\ last' = "other"

LiveNext == NamedNext /\ told' = told \cup s'.usent

(***************************************************************************)
(* Weak and strong fairness of a step, with the states in which it can     *)
(* happen instead of ENABLED.                                              *)
(***************************************************************************)
Sending == s.online /\ s.transmitting

\* The lower layers finish what they are given.
SendingEnds ==
    []<>~Sending \/ []<><<Sending /\ last' = "txReady">>_liveVars

\* A step that cancels the timer and starts it anew: it hands down a fragment that
\* is to be confirmed, or repeats one (RestartSolConfirmTimer,
\* RestartUnsolConfirmTimer; the retry of an unsolicited response is an expiry).
Restarts ==
    /\ s'.transmitting /\ (s.transmitting => last' = "txReady")
    /\ s'.state = "SolWait" \/ s'.broadcast = "shall" \/ s'.unum # s.unum

\* A timer that is armed, and from some time on left alone, expires.
TimerExpires ==
    \/ []<>~s.timer
    \/ []<><<Restarts>>_liveVars
    \/ []<><<s.timer /\ last' \in {"timeout", "gaveUp"}>>_liveVars

FairSpec ==
    /\ LiveInit /\ [][LiveNext]_liveVars
    /\ SendingEnds
    /\ TimerExpires

\* Every READ that comes while a solicited response waits to be confirmed starts
\* the wait anew: the master does not for ever send READs instead of confirming,
\* or instead of letting the timer run.
ReadsLeaveTheWait ==
    <>[][~(s.state = "SolWait" /\ ~s.transmitting /\ last' = "read")]_liveVars

\* A READ that was put off, because a response was on its way or an unsolicited
\* one is not confirmed, is taken up in the end (or replaced by a later request),
\* however often unsolicited responses are retried and other requests repeated,
\* and even if no confirmation ever comes, unless the master itself keeps
\* restarting the wait of a solicited response.
DeferredReadAnswered ==
    ReadsLeaveTheWait => (Fn(s.deferred) = "READ" ~> Fn(s.deferred) # "READ")

(***************************************************************************)
(* What an unsolicited response needs besides.                             *)
(***************************************************************************)
\* Sending does not always take longer than the timer of the confirmation.
SendingEndsInTime ==
    \/ <>[]~(Sending /\ AwaitsUnsol(s))
    \/ []<><<Sending /\ AwaitsUnsol(s) /\ last' = "txReady">>_liveVars

Listening == s.online /\ ~s.transmitting /\ AwaitsUnsol(s)

\* Of the confirmations that a master sends again and again one gets through.
ConfirmsArrive ==
    <>[]~Listening \/ []<><<Listening /\ last' = "confirm">>_liveVars

\* The master does not ask for ever without a pause: requests come before
\* unsolicited responses, and a master may keep the session busy with them.
RequestsCease == <>[][last' \notin {"read", "request"}]_liveVars

\* An event that the answer to a READ carried and that was not confirmed stays
\* marked as written when the session gives up waiting: CheckForUnsolicited does
\* not count it until another event, a READ or a new link puts it back.
Stranded(i) == s.state = "Idle" /\ i \in InState(s.store, "written")

Due(i) == s.online /\ i \in Events(s.store) /\ s.store.events[i].class \in s.mask

\* What makes the session look for events: the link is new, or an event of an
\* enabled class has happened.
Prompted == last = "up" \/ (last = "event" /\ Due(made))

\* When the link comes up, and whenever an event of an enabled class happens, each
\* event that is held for unsolicited responses gets into one, once requests leave
\* the session the time for it.  Two cases are excepted, in which nothing looks
\* again until the next event, READ or link: the unconfirmed answer to a READ
\* leaves the event stranded; or the session gives up an unsolicited response, and
\* with it the events that were to follow.
EventsAreReported ==
    AllowUnsol /\ SendingEndsInTime /\ ConfirmsArrive /\ RequestsCease =>
        \A i \in 1 .. MaxEvents :
            Prompted /\ Due(i) ~> \/ ~Due(i) \/ i \in told
                                 \/ Stranded(i) \/ last \in {"gaveUp", "interrupted"}
=============================================================================

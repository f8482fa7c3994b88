------------------------------- MODULE Gateway -------------------------------
(***************************************************************************)
(* The running gateway of RPI_slavednp3: one polling thread per configured *)
(* point reads a Modbus register and publishes it to the DNP3 database;    *)
(* the single thread of the opendnp3 executor applies the published        *)
(* updates and executes the master's commands on the Modbus device; the    *)
(* web panel and the console share the process.  The threads are           *)
(* coordinated by four mutexes: modbus_access_mutex, dnp3_update_mutex,    *)
(* data_mutex and log_mutex.                                               *)
(*                                                                         *)
(* A step is the work a thread does between two points at which another    *)
(* thread can interfere: acquiring or releasing a mutex, touching a device *)
(* or a socket, and, inside the critical section of data_mutex, each of    *)
(* the two groups of assignments to a point's state.  A run of LogLine     *)
(* calls with nothing but local work between them is one step, which needs *)
(* log_mutex to be free.                                                   *)
(*                                                                         *)
(* Definitions marked "Variant" are wrong on purpose and part of no        *)
(* behaviour: each is a slip the code could have had, kept to show which   *)
(* property would notice it.                                               *)
(***************************************************************************)
EXTENDS Integers, Sequences, FiniteSets

CONSTANTS
    Points,        \* the configured read points (g_profile.read_points)
    Binary,        \* those published as DNP3 binaries (coils, input status)
    Writable,      \* those with an automatic command (coils, holding registers)
    Values,        \* what a register can hold, 0 and 1 among them
    StartValues,   \* what a register may hold when the gateway starts
    MaxFailures,   \* ReadPointState::max_failures_before_zero
    MaxPending,    \* bound: own updates a poller may leave in the executor
    MaxVersions    \* bound: values a register goes through before it is frozen

ASSUME PointsAssumption ==
    /\ Points \cap {"exec", "http", "console", "nobody"} = {}
    /\ Binary \subseteq Points
    /\ Writable \subseteq Points

ASSUME ValuesAssumption ==
    /\ Values \subseteq Nat
    /\ {0, 1} \subseteq Values
    /\ StartValues \subseteq Values

ASSUME BoundsAssumption ==
    /\ MaxFailures \in Nat \ {0}
    /\ MaxPending \in Nat \ {0}
    /\ MaxVersions \in Nat \ {0}

VARIABLES
    running,   \* g_running
    owner,     \* the thread inside each mutex
    pc,        \* where each thread is
    read,      \* read_success and new_value of each polling thread
    state,     \* point_states
    update,    \* the UpdateBuilder of each polling thread
    queue,     \* updates posted to the executor of the outstation
    db,        \* the measurement the outstation reports for each point
    cmd,       \* the command being executed by the outstation
    hist       \* every value the register of a point has had; the last is current

vars == <<running, owner, pc, read, state, update, queue, db, cmd, hist>>

(***************************************************************************)
(* Threads, mutexes and labels.                                            *)
(***************************************************************************)
Threads == Points \cup {"exec", "http", "console"}

Mutexes == {"modbus", "dnp3", "data", "log"}

\* A mutex is only ever requested by a thread whose mutexes rank below it.
Rank(m) == CASE m = "modbus" -> 1
             [] m = "dnp3"   -> 1
             [] m = "data"   -> 2
             [] OTHER        -> 3

PollLabels == {"loop", "waitModbus", "reading", "failLog", "waitStore", "store",
               "settle", "storeLog", "waitDnp3", "waitBuild", "apply", "done"}

ExecLabels == {"idle", "cmdLog", "cmdModbus", "writing", "writeLog", "resultLog"}

HttpLabels == {"start", "accept", "recv", "waitPage", "pageLog", "render",
               "send", "closed"}

ConsoleLabels == {"report", "prompt", "left"}

Labels == PollLabels \cup ExecLabels \cup HttpLabels \cup ConsoleLabels

\* The labels at which a thread is inside each mutex ...
Inside(m) ==
    CASE m = "modbus" -> {"reading", "writing", "writeLog"}
      [] m = "dnp3"   -> {"waitBuild", "apply"}
      [] m = "data"   -> {"store", "settle", "storeLog", "pageLog", "render"}
      [] OTHER        -> {"render"}

\* ... and those at which it cannot go on until the mutex is free.
Awaiting(m) ==
    CASE m = "modbus" -> {"waitModbus", "cmdModbus"}
      [] m = "dnp3"   -> {"waitDnp3"}
      [] m = "data"   -> {"waitStore", "waitBuild", "waitPage"}
      [] OTHER        -> {"failLog", "storeLog", "cmdLog", "writeLog",
                          "resultLog", "start", "pageLog", "report"}

Go(t, from, to) == pc[t] = from /\ pc' = [pc EXCEPT ![t] = to]

Free(m) == owner[m] = "nobody"

Acquire(t, m) == Free(m) /\ owner' = [owner EXCEPT ![m] = t]

Release(m) == owner' = [owner EXCEPT ![m] = "nobody"]

(***************************************************************************)
(* Measurements.  A measurement carries, besides its value, the position   *)
(* in the history of its register of the value it was made from; 0 before  *)
(* the first successful read.  The position is read only by properties.    *)
(***************************************************************************)
Measurements == [value : Values, ver : Nat]

Unread == [value |-> 0, ver |-> 0]

RegisterValues(p) == IF p \in Binary THEN {0, 1} ELSE Values

Current(p) == hist[p][Len(hist[p])]

Sample(p) == [value |-> Current(p), ver |-> Len(hist[p])]

Reading == [ok : BOOLEAN, m : Measurements]

NoReading == [ok |-> FALSE, m |-> Unread]

PointState == [analog_value : Values, ver : Nat, connection_status : BOOLEAN,
               failure_count : 0 .. MaxFailures]

InitialState == [analog_value |-> 0, ver |-> 0, connection_status |-> FALSE,
                 failure_count |-> 0]

TooManyFailures(s) == s.failure_count >= MaxFailures

\* The assignments PollPoint makes to a point's state, in the two groups that
\* the critical section of data_mutex keeps together: the value and then
\* HandleCommunicationSuccess, or HandleCommunicationFailure's bookkeeping and
\* then its zeroing.  failure_count is kept up to the limit it is tested against;
\* connection_changed and last_change_time, which nothing reads, are left out.
StoreValue(s, m) == [s EXCEPT !.analog_value = m.value, !.ver = m.ver]

\* Variants: the count decremented, and the reset forgotten.
MarkConnectedCountsDown(s) ==
    [s EXCEPT !.connection_status = TRUE, !.failure_count = @ - 1]

MarkConnectedKeepsCount(s) == [s EXCEPT !.connection_status = TRUE]

MarkConnected(s) ==
    [s EXCEPT !.connection_status = TRUE, !.failure_count = 0]

MarkFailed(s) ==
    [s EXCEPT !.connection_status = FALSE,
              !.failure_count = IF TooManyFailures(s) THEN @ ELSE @ + 1]

ZeroAfterFailures(s) ==
    IF TooManyFailures(s) THEN [s EXCEPT !.analog_value = 0] ELSE s

\* UpdateDNP3Values: what is published for point p in state s.
Published(p, s) ==
    LET v == IF TooManyFailures(s) THEN 0 ELSE s.analog_value
    IN  [value |-> IF p \in Binary THEN (IF v # 0 THEN 1 ELSE 0) ELSE v,
         ver   |-> s.ver]

\* What an UpdateBuilder collects: new measurements for some of the points.
Untouched == [value |-> 0, ver |-> -1]

Updates == [Points -> Measurements \cup {Untouched}]

Covers(u, p) == u[p] # Untouched

\* A write on its way to a device: FindCommandConfig found the point and
\* BuildHoldingRegisterWritePayload a representation for the value.
Writes == [pt : Writable, value : Values]

NoWrite == [pt |-> "nobody", value |-> 0]

ControlOK ==
    /\ running \in BOOLEAN
    /\ owner \in [Mutexes -> Threads \cup {"nobody"}]
    /\ pc \in [Threads -> Labels]
    /\ \A p \in Points : pc[p] \in PollLabels
    /\ pc["exec"] \in ExecLabels
    /\ pc["http"] \in HttpLabels
    /\ pc["console"] \in ConsoleLabels

DataOK ==
    /\ read \in [Points -> Reading]
    /\ state \in [Points -> PointState]
    /\ update \in [Points -> Measurements]
    /\ queue \in Seq(Updates)
    /\ db \in [Points -> Measurements]
    /\ cmd \in Writes \cup {NoWrite}
    /\ hist \in [Points -> Seq(Values)]
    /\ \A p \in Points : hist[p] # <<>>

\* A write is under way exactly while the executor works on one.
WriteOK ==
    /\ pc["exec"] = "idle" => cmd = NoWrite
    /\ pc["exec"] \in {"cmdModbus", "writing", "writeLog", "resultLog"} => cmd \in Writes

\* The type invariant.
TypeOK == ControlOK /\ DataOK /\ WriteOK

\* main has applied the initial state and started the threads.
Init ==
    /\ running = TRUE
    /\ owner = [m \in Mutexes |-> "nobody"]
    /\ pc = [t \in Threads |-> CASE t \in Points    -> "loop"
                                 [] t = "exec"    -> "idle"
                                 [] t = "http"    -> "start"
                                 [] t = "console" -> "report"]
    /\ read = [p \in Points |-> NoReading]
    /\ state = [p \in Points |-> InitialState]
    /\ update = [p \in Points |-> Unread]
    /\ queue = <<[p \in Points |-> Published(p, InitialState)]>>
    /\ db = [p \in Points |-> Unread]
    /\ cmd = NoWrite
    /\ hist \in [Points -> {<<v>> : v \in StartValues}]
    /\ \A p \in Points : Current(p) \in RegisterValues(p)

(***************************************************************************)
(* A polling thread: PollPoint, ReadModbusPoint, PublishPointToDNP3.       *)
(***************************************************************************)
Pending(p) == {i \in DOMAIN queue : Covers(queue[i], p)}

\* Variant: the flag is not looked at.
PollForever(p) ==
    /\ Cardinality(Pending(p)) < MaxPending
    /\ Go(p, "loop", "waitModbus")
    /\ UNCHANGED <<running, owner, read, state, update, queue, db, cmd, hist>>

\* The loop condition.  The pause between cycles bounds how many updates of
\* the point can be waiting in the executor.
PollLoop(p) ==
    /\ IF running
       THEN Cardinality(Pending(p)) < MaxPending /\ Go(p, "loop", "waitModbus")
       ELSE Go(p, "loop", "done")
    /\ UNCHANGED <<running, owner, read, state, update, queue, db, cmd, hist>>

ReadLock(p) ==
    /\ Go(p, "waitModbus", "reading")
    /\ Acquire(p, "modbus")
    /\ UNCHANGED <<running, read, state, update, queue, db, cmd, hist>>

\* The two ways out of ReadModbusPoint; both give the mutex back.
ReadSucceeds(p) ==
    /\ Go(p, "reading", "waitStore")
    /\ read' = [read EXCEPT ![p] = [ok |-> TRUE, m |-> Sample(p)]]
    /\ Release("modbus")
    /\ UNCHANGED <<running, state, update, queue, db, cmd, hist>>

\* Variant: an error return that forgets to unlock.
ReadFailsKeepsLock(p) ==
    /\ Go(p, "reading", "failLog")
    /\ read' = [read EXCEPT ![p] = NoReading]
    /\ UNCHANGED <<running, owner, state, update, queue, db, cmd, hist>>

ReadFails(p) ==
    /\ Go(p, "reading", "failLog")
    /\ read' = [read EXCEPT ![p] = NoReading]
    /\ Release("modbus")
    /\ UNCHANGED <<running, state, update, queue, db, cmd, hist>>

ReadFailureLog(p) ==
    /\ Free("log")
    /\ Go(p, "failLog", "waitStore")
    /\ UNCHANGED <<running, owner, read, state, update, queue, db, cmd, hist>>

\* Variant: the assignments are made without data_mutex.
StoreWithoutLock(p) ==
    /\ Go(p, "waitStore", "store")
    /\ UNCHANGED <<running, owner, read, state, update, queue, db, cmd, hist>>

StoreLock(p) ==
    /\ Go(p, "waitStore", "store")
    /\ Acquire(p, "data")
    /\ UNCHANGED <<running, read, state, update, queue, db, cmd, hist>>

\* First assignments: the new value, or the start of HandleCommunicationFailure.
StoreReading(p) ==
    /\ state' = [state EXCEPT ![p] = IF read[p].ok THEN StoreValue(@, read[p].m)
                                                   ELSE MarkFailed(@)]
    /\ Go(p, "store", "settle")
    /\ UNCHANGED <<running, owner, read, update, queue, db, cmd, hist>>

\* The rest: HandleCommunicationSuccess, or the zeroing after too many failures.
\* The locals of the cycle are not used again.
SettleState(p) ==
    /\ state' = [state EXCEPT ![p] = IF read[p].ok THEN MarkConnected(@)
                                                   ELSE ZeroAfterFailures(@)]
    /\ read' = [read EXCEPT ![p] = NoReading]
    /\ Go(p, "settle", "storeLog")
    /\ UNCHANGED <<running, owner, update, queue, db, cmd, hist>>

\* Variant: a failed cycle ends without publishing.
StoreLogSkipsFailures(p) ==
    /\ Free("log")
    /\ Go(p, "storeLog", IF state[p].connection_status THEN "waitDnp3" ELSE "loop")
    /\ Release("data")
    /\ UNCHANGED <<running, read, state, update, queue, db, cmd, hist>>

\* LogLine is called with data_mutex still held.
StoreLog(p) ==
    /\ Free("log")
    /\ Go(p, "storeLog", "waitDnp3")
    /\ Release("data")
    /\ UNCHANGED <<running, read, state, update, queue, db, cmd, hist>>

PublishLock(p) ==
    /\ Go(p, "waitDnp3", "waitBuild")
    /\ Acquire(p, "dnp3")
    /\ UNCHANGED <<running, read, state, update, queue, db, cmd, hist>>

\* The critical section of data_mutex inside PublishPointToDNP3, in one step.
BuildUpdate(p) ==
    /\ Free("data")
    /\ update' = [update EXCEPT ![p] = Published(p, state[p])]
    /\ Go(p, "waitBuild", "apply")
    /\ UNCHANGED <<running, owner, read, state, queue, db, cmd, hist>>

\* IOutstation::Apply posts the update to the executor and returns.
ApplyUpdate(p) ==
    /\ queue' = Append(queue, [q \in Points |-> IF q = p THEN update[p] ELSE Untouched])
    /\ update' = [update EXCEPT ![p] = Unread]
    /\ Go(p, "apply", "loop")
    /\ Release("dnp3")
    /\ UNCHANGED <<running, read, state, db, cmd, hist>>

PollPoint(p) ==
    \/ PollLoop(p)
    \/ ReadLock(p) \/ ReadSucceeds(p) \/ ReadFails(p) \/ ReadFailureLog(p)
    \/ StoreLock(p) \/ StoreReading(p) \/ SettleState(p) \/ StoreLog(p)
    \/ PublishLock(p) \/ BuildUpdate(p) \/ ApplyUpdate(p)

(***************************************************************************)
(* The executor thread of the outstation: posted updates and the command   *)
(* handler run on it, one at a time.                                       *)
(***************************************************************************)
\* Variant: the newest update first.
RunNewestUpdate ==
    /\ pc["exec"] = "idle"
    /\ queue # <<>>
    /\ LET u == queue[Len(queue)]
       IN  db' = [p \in Points |-> IF Covers(u, p) THEN u[p] ELSE db[p]]
    /\ queue' = SubSeq(queue, 1, Len(queue) - 1)
    /\ UNCHANGED <<running, owner, pc, read, state, update, cmd, hist>>

RunUpdate ==
    /\ pc["exec"] = "idle"
    /\ queue # <<>>
    /\ db' = [p \in Points |-> IF Covers(Head(queue), p) THEN Head(queue)[p] ELSE db[p]]
    /\ queue' = Tail(queue)
    /\ UNCHANGED <<running, owner, pc, read, state, update, cmd, hist>>

\* A command of the master reaches the handler.  Operate of a mapped point with a
\* value that fits becomes a write; Select, an index without a command and a
\* value out of range do not.  Len(hist) is bounded.
ReceiveOperate(w) ==
    /\ Go("exec", "idle", "cmdLog")
    /\ w.value \in RegisterValues(w.pt)
    /\ Len(hist[w.pt]) < MaxVersions \/ w.value = Current(w.pt)
    /\ cmd' = w
    /\ UNCHANGED <<running, owner, read, state, update, queue, db, hist>>

ReceiveOther ==
    /\ Go("exec", "idle", "cmdLog")
    /\ UNCHANGED <<running, owner, read, state, update, queue, db, cmd, hist>>

\* The handler logs what it received and how it judges it, and answers if there
\* is nothing to write.
LogCommand ==
    /\ Free("log")
    /\ Go("exec", "cmdLog", IF cmd = NoWrite THEN "idle" ELSE "cmdModbus")
    /\ UNCHANGED <<running, owner, read, state, update, queue, db, cmd, hist>>

WriteLock ==
    /\ Go("exec", "cmdModbus", "writing")
    /\ Acquire("exec", "modbus")
    /\ UNCHANGED <<running, read, state, update, queue, db, cmd, hist>>

\* Variant: a return that forgets to unlock.
EndWriteKeepsLock(from) ==
    /\ IF cmd.pt \in Binary THEN Go("exec", from, "resultLog") /\ UNCHANGED cmd
                            ELSE Go("exec", from, "idle") /\ cmd' = NoWrite
    /\ UNCHANGED <<running, owner, read, state, update, queue, db, hist>>

\* Leaving WriteCoil or WriteHoldingRegister gives modbus_access_mutex back; only
\* Operate of a coil has a result to log before it answers.
EndWrite(from) ==
    /\ IF cmd.pt \in Binary THEN Go("exec", from, "resultLog") /\ UNCHANGED cmd
                            ELSE Go("exec", from, "idle") /\ cmd' = NoWrite
    /\ Release("modbus")
    /\ UNCHANGED <<running, read, state, update, queue, db, hist>>

ConnectFails == EndWrite("writing")

\* The device takes the value, whether or not its answer arrives in time ...
WriteTaken ==
    /\ Go("exec", "writing", "writeLog")
    /\ hist' = IF cmd.value = Current(cmd.pt) THEN hist
               ELSE [hist EXCEPT ![cmd.pt] = Append(@, cmd.value)]
    /\ UNCHANGED <<running, owner, read, state, update, queue, db, cmd>>

\* ... or the request is refused or lost.
WriteLost ==
    /\ Go("exec", "writing", "writeLog")
    /\ UNCHANGED <<running, owner, read, state, update, queue, db, cmd, hist>>

\* Both outcomes are logged with modbus_access_mutex still held.
LogWrite ==
    /\ Free("log")
    /\ EndWrite("writeLog")

LogResult ==
    /\ Free("log")
    /\ Go("exec", "resultLog", "idle")
    /\ cmd' = NoWrite
    /\ UNCHANGED <<running, owner, read, state, update, queue, db, hist>>

ExecuteCommand == LogCommand \/ WriteLock \/ ConnectFails \/ WriteTaken
                  \/ WriteLost \/ LogWrite \/ LogResult

(***************************************************************************)
(* The web panel: HttpServerThread, HandleHttpClient.  What a request does *)
(* to the configuration file is the subject of ConfigStore; it takes none  *)
(* of the mutexes.                                                         *)
(***************************************************************************)
\* socket, bind and listen succeed or fail; either way the outcome is logged.
HttpStart ==
    /\ Free("log")
    /\ \E next \in {"accept", "closed"} : Go("http", "start", next)
    /\ UNCHANGED <<running, owner, read, state, update, queue, db, cmd, hist>>

\* The flag is tested, then accept and recv wait for a client to speak.
HttpAccept ==
    /\ Go("http", "accept", IF running THEN "recv" ELSE "closed")
    /\ UNCHANGED <<running, owner, read, state, update, queue, db, cmd, hist>>

\* The peer hangs up, asks for the page, or asks for anything else.
HttpRecv ==
    /\ \E next \in {"accept", "waitPage", "send"} : Go("http", "recv", next)
    /\ UNCHANGED <<running, owner, read, state, update, queue, db, cmd, hist>>

\* Variant: the two lock_guards of the page the other way round.
PageLockLogFirst ==
    /\ Go("http", "waitPage", "pageLog")
    /\ Acquire("http", "log")
    /\ UNCHANGED <<running, read, state, update, queue, db, cmd, hist>>

PageLockData ==
    /\ Go("http", "waitPage", "pageLog")
    /\ Acquire("http", "data")
    /\ UNCHANGED <<running, read, state, update, queue, db, cmd, hist>>

PageLockLog ==
    /\ Go("http", "pageLog", "render")
    /\ Acquire("http", "log")
    /\ UNCHANGED <<running, read, state, update, queue, db, cmd, hist>>

\* Variant: log_mutex is kept while the page goes out.
PageRenderedKeepsLog ==
    /\ Go("http", "render", "send")
    /\ Release("data")
    /\ UNCHANGED <<running, read, state, update, queue, db, cmd, hist>>

\* The page is complete: both locks go before anything is sent.
PageRendered ==
    /\ Go("http", "render", "send")
    /\ owner' = [owner EXCEPT !["data"] = "nobody", !["log"] = "nobody"]
    /\ UNCHANGED <<running, read, state, update, queue, db, cmd, hist>>

HttpSend ==
    /\ Go("http", "send", "accept")
    /\ UNCHANGED <<running, owner, read, state, update, queue, db, cmd, hist>>

BuildPage == PageLockData \/ PageLockLog \/ PageRendered

(***************************************************************************)
(* The console: ConsoleThread, ExecuteCommandLine.                         *)
(***************************************************************************)
ConsoleReport ==
    /\ Free("log")
    /\ Go("console", "report", IF running THEN "prompt" ELSE "left")
    /\ UNCHANGED <<running, owner, read, state, update, queue, db, cmd, hist>>

\* help, show or an unknown word: the answer is logged.
ConsoleOther ==
    /\ Go("console", "prompt", "report")
    /\ UNCHANGED <<running, owner, read, state, update, queue, db, cmd, hist>>

\* quit or exit: the flag goes first, then the log line.
ConsoleQuit ==
    /\ Go("console", "prompt", "report")
    /\ running' = FALSE
    /\ UNCHANGED <<owner, read, state, update, queue, db, cmd, hist>>

(***************************************************************************)
(* The devices.                                                            *)
(***************************************************************************)
RegisterChanges(p) ==
    /\ Len(hist[p]) < MaxVersions
    /\ \E v \in RegisterValues(p) \ {Current(p)} :
           hist' = [hist EXCEPT ![p] = Append(@, v)]
    /\ UNCHANGED <<running, owner, pc, read, state, update, queue, db, cmd>>

Next ==
    \/ \E p \in Points : PollPoint(p) \/ RegisterChanges(p)
    \/ RunUpdate
    \/ ReceiveOther
    \/ \E w \in Writes : ReceiveOperate(w)
    \/ ExecuteCommand
    \/ HttpStart \/ HttpAccept \/ HttpRecv \/ BuildPage \/ HttpSend
    \/ ConsoleReport \/ ConsoleOther \/ ConsoleQuit

Spec == Init /\ [][Next]_vars

(***************************************************************************)
(* Fairness.  Modbus exchanges end by timeout, critical sections are short *)
(* and the executor serves its tasks in turn, so a polling thread and the  *)
(* executor move on whenever they are able to again and again; a page that *)
(* has been asked for gets built.  Nothing is assumed of HTTP clients, of  *)
(* the operator, of the master or of the devices.                          *)
(***************************************************************************)
Fairness ==
    /\ \A p \in Points : SF_vars(PollPoint(p))
    /\ SF_vars(RunUpdate)
    /\ SF_vars(ExecuteCommand)
    /\ SF_vars(BuildPage)

FairSpec == Spec /\ Fairness

(***************************************************************************)
(* Properties.                                                             *)
(***************************************************************************)
\* A mutex belongs to the thread that is between its lock_guard and the end of
\* that scope, and to no other: every early return of ReadModbusPoint,
\* WriteCoil, WriteHoldingRegister and the page gives back what it took, and no
\* two threads are inside the same critical section.
MutexesHeldInScope ==
    \A m \in Mutexes, t \in Threads : owner[m] = t <=> pc[t] \in Inside(m)

\* A thread that waits for a mutex holds only mutexes of lower rank: data_mutex
\* inside dnp3_update_mutex, log_mutex inside any other, never the reverse.
LockOrder ==
    \A t \in Threads, m, n \in Mutexes :
        pc[t] \in Awaiting(m) /\ owner[n] = t => Rank(n) < Rank(m)

\* No set of threads waits in a circle, whatever the polling threads, the
\* executor, the page and the console interleave: in every group some thread
\* is not waiting for a mutex that is in the hands of the group.
NoWaitCycle ==
    \A S \in (SUBSET Threads) \ {{}} :
        \E t \in S : \A m \in Mutexes : pc[t] \in Awaiting(m) => owner[m] \notin S

\* What PollPoint leaves behind when it gives data_mutex back.  A connected
\* point has no failures; a point with too many failures is zero; otherwise its
\* value is the one its register had at the last successful read.
Settled(p) ==
    LET s == state[p]
    IN  /\ s.connection_status => s.failure_count = 0
        /\ TooManyFailures(s) => s.analog_value = 0
        /\ ~TooManyFailures(s) =>
               s.analog_value = IF s.ver = 0 THEN 0 ELSE hist[p][s.ver]

\* Nobody but the polling thread in the middle of its assignments ever meets a
\* half-updated point: neither the page nor PublishPointToDNP3 can show the new
\* value with the old failure count, or a value that should have been zeroed.
OthersSeeSettledStates ==
    \A p \in Points : owner["data"] # p => Settled(p)

\* The last update posted for p, or what the outstation has if none is waiting.
LastPosted(p) ==
    IF Pending(p) = {} THEN db[p]
    ELSE queue[CHOOSE i \in Pending(p) : \A j \in Pending(p) : j <= i][p]

\* Every change of a point's state is published: outside the stretch from the
\* store to the Apply, what has been posted last is what the state says now.
NothingUnpublished ==
    \A p \in Points :
        pc[p] \in {"loop", "waitModbus", "reading", "failLog", "waitStore", "store", "done"}
            => LastPosted(p) = Published(p, state[p])

\* The gateway implements Mirror: what the master reads for a point is a value
\* its register has had, or zero, and never an older one after a newer one.
\* Updates of one point reach the database in the order of its reads.
View == INSTANCE Mirror WITH shown <- db

MirrorsRegisters == View!Spec

\* quit stops every polling thread, whatever HTTP clients do with the sockets
\* the panel waits on without a timeout.
QuitStopsPolling ==
    ~running ~> \A p \in Points : pc[p] = "done"

\* A command that has reached the device side is answered: neither a poller nor
\* the panel can keep modbus_access_mutex or log_mutex from the executor.
CommandsAnswered ==
    pc["exec"] = "cmdModbus" ~> pc["exec"] = "idle"

\* If the gateway keeps running and from some time on the reads of a point
\* succeed, the outstation ends up with the register's value, also after
\* failures, zeroing and commands.
DatabaseConverges ==
    \A p \in Points :
        <>[]running /\ <>[][~ReadFails(p)]_vars => <>[](db[p].value = Current(p))

====

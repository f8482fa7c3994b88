# Verification of the DNP3/Modbus gateway (RPI_slavednp3)

TLA+ models of the gateway in `src/RPI_slavednp3`: the threads of the running
process and the mutexes between them, the way of a value from a Modbus register
to the DNP3 database and of a command back to the register, and the
configuration file from which every boot starts; and of the parts of opendnp3 on
which its promises to the master rest: the event store, the outstation session,
and the transport and link layers below it. TLC checks them on small instances;
TLAPS proves the results listed below for every value of the constants.

## 1. The system

The process polls Modbus devices and presents the values to a DNP3 master as an
outstation; it also takes the master's commands and writes them to the devices.
A web panel edits the file of points and a console can stop the program.

| Component | State it keeps | Operations | Source |
|---|---|---|---|
| Polling and publication | `point_states` (value, connection, failure count), the UpdateBuilder of each thread | `PollPoint`, `HandleCommunicationSuccess/Failure`, `PublishPointToDNP3`, `UpdateDNP3Values`, `ApplyInitialStateToDNP3` | `Dnp3.cpp`, `Config.cpp`, `Main.cpp` |
| Modbus master | `modbus_access_mutex`, a connection per call | `ReadModbusPoint`, `WriteHoldingRegister`, `WriteCoil` | `Modbus.cpp` |
| DNP3 command handler | none of its own | `Select` and `Operate` of CROB and analog outputs | `Dnp3.cpp` |
| Executor of the outstation | queue of posted tasks, the measurement database | `Apply`, run a task | `opendnp3/.../OutstationStack.cpp` |
| Event buffer | one list of all events, one per type, counters, overflow flag | `Update`, selections, `Load`, `ClearWritten`, `Unselect` | `opendnp3/.../outstation/event` |
| Outstation session | state of the session, request history, deferred request, selection, confirmation timer, masks | `OnReceive`, `OnTxReady`, `OnLowerLayerUp/Down`, confirmation timeout, `HandleNewEvents` | `opendnp3/.../outstation` |
| Transport and link layers | segments to send and their number, states of both stations, one mode and two slots for the socket, timers; parts received | `BeginTransmit`, `OnTxReady`, `OnFrame`, `QueueTransmit`, timeouts, `ProcessReceive`, `OnNewChannel` | `opendnp3/.../transport`, `link`, `channel` |
| Configuration file | `points_config.csv`, `g_profile` | read at boot, append, remove, clear | `Config.cpp`, `Interface.cpp` |
| DNP3 database configuration | slots of inputs and output statuses | `ConfigureDatabase` | `Dnp3.cpp` |
| Web panel | one thread, listening socket | `HttpServerThread`, `HandleHttpClient`, page, append, remove, clear | `Interface.cpp` |
| Console | `g_running` | `ConsoleThread`, `ExecuteCommandLine` | `Interface.cpp` |
| Log | ring of lines, `log_mutex` | `LogLine` | `Log.cpp` |
| Start and end | - | `main` | `Main.cpp` |
| Value types | tables | `ReadValueType` predicates, register counts, variations | `Config.cpp` |

How they interact. One thread per point runs `PollPoint`: it reads its register
inside `modbus_access_mutex` (one for all devices), stores the outcome in
`point_states` inside `data_mutex`, and publishes it inside `dnp3_update_mutex`
by building an update (again inside `data_mutex`) and posting it with `Apply`.
The only thread of the opendnp3 executor runs the posted updates and, between
them, the command handler, which blocks that thread while it waits for
`modbus_access_mutex` and for the device. The web panel's thread reads
`point_states` and the log with `data_mutex` and `log_mutex` both held. Every
`LogLine`, wherever it is called from, takes `log_mutex`. The console sets
`g_running`, which each loop tests in its own time. The panel's edits change the
file only; the running profile changes at the next boot.

What is hard about it, and what has to be true:

* **Locks.** Four mutexes, taken nested by four kinds of thread, with `LogLine`
  called inside three of them and several early returns inside
  `modbus_access_mutex`. Each must be given back on every path, and the threads
  must never wait in a circle.
* **Shared state.** Value, flag and counter of a point are assigned one by one;
  others must only see them together. Every change must reach the master, though
  the state is stored in one critical section and published from another.
* **Order.** A read, a command's write, a posted update and its execution are
  four moments. The database must never go back from a newer register value to
  an older one, and must end up with the register's value.
* **Progress.** Commands wait behind every poller's timeouts; HTTP clients can
  hold the panel's thread for ever. Neither may keep a command, a poller or
  `quit` from completing.
* **Events.** Four structures describe one set of events and are updated one
  after the other, also when a list is full in the middle of a response. An event
  must leave only when the master has confirmed the fragment that carried it, or
  noticeably; older events must not be overtaken.
* **The session.** Requests, repeats, confirmations, timeouts and new events come
  in any order, while a response is being sent or waits for its confirmation. No
  command may be carried out twice for one request, no request may be forgotten,
  and no wait may be without an end.
* **The lower layers.** One socket is shared by segments, keep-alives and answers;
  its end of sending is told by a posted task, which a new connection can
  overtake. What arrives must be what was sent, and every transmission must end.
* **Numbers.** Registers, commands and DNP3 variations have different widths and
  signs. What is accepted must come back, and what does not fit must be flagged.
* **The file.** It is rewritten in place, appended to without looking at how it
  ends, edited through pages that go stale, and read into 16-bit indexes.

`PROJECT.json` lists the hazards one by one, at their lines, with the properties
that watch them.

## 2. Modules

| Module | What it is |
|---|---|
| `Gateway` | the running process: pollers, executor, panel, console, devices |
| `Mirror` | abstract: what the master is promised about a point |
| `GatewayProofs` | theorems about the locks and types of `Gateway` |
| `MirrorProofs` | theorems about its data, and that it implements `Mirror` |
| `MCGateway` | instances of `Gateway` |
| `ConfigStore` | the file, booting from it, editing it, crashes while writing it |
| `PointList` | abstract: the file as a list of points |
| `ConfigStoreProofs` | theorems about the file, and that it implements `PointList` |
| `MCConfigStore` | instances of `ConfigStore` |
| `EventLists` | the event store as a record, its operations as functions |
| `EventBuffer` | the store under every order of calls |
| `EventReport` | abstract: what a store of events promises to its session |
| `EventListsProofs`, `EventBufferProofs` | theorems about the store, and that it implements `EventReport` |
| `MCEventBuffer` | its instance |
| `Outstation` | the session, with an event store inside |
| `OutstationLive` | the session with fairness, and what it gets done |
| `OutstationProofs` | theorems about the session |
| `MCOutstation`, `MCOutstationLive` | their instances |
| `LowerLayers` | transport layer, link layer and channel of the sender, receiver of the other end |
| `LowerLayersProofs` | theorems about them |
| `MCLowerLayers` | its instance |
| `ModbusCodec` | types, tokens, registers and variations as operators |
| `ModbusCodecProofs` | theorems about them |

`Outstation` composes the session with `EventLists`; `SendingEnds`, which it assumes
of what is below it, is what `LowerLayers` shows (`TransmissionEnds`). `ModbusCodec`
fills in the values that `Gateway` takes as small numbers.

Definitions whose comment says "Variant" are deliberately wrong forms of the
definition that follows them (a return that keeps its lock, a counter not reset,
a loop that stops one short). No behaviour uses them. `PROJECT.json` names, for
each property, a variant that violates it.

### Gateway

`pc[t]` is the place of each thread, `owner[m]` the holder of each mutex. A step
is what a thread does between two points at which another can interfere:
acquiring or releasing a mutex, one exchange with a device or socket, and inside
`data_mutex` each of the two groups of assignments of `PollPoint`, so that a
reader that did not take the mutex would meet a half-updated state.

| Label | Code |
|---|---|
| `loop`, `done` | `while (g_running)` in `PollPoint` with the pause |
| `waitModbus`, `reading` | `ReadModbusPoint` before and inside `modbus_access_mutex` |
| `failLog` | the `LogLine` of a failed read |
| `waitStore`, `store`, `settle`, `storeLog` | the block of `PollPoint` inside `data_mutex`: value or failure, then the connection or the zeroing, then the `LogLine` |
| `waitDnp3`, `waitBuild`, `apply` | `PublishPointToDNP3`: outer mutex, inner mutex with `UpdateDNP3Values`, `Apply` |
| `idle`, `cmdLog` | the executor; a handler's log lines |
| `cmdModbus`, `writing`, `writeLog`, `resultLog` | `WriteCoil`/`WriteHoldingRegister`, and the result line of a coil's `Operate` |
| `start`, `accept`, `recv`, `send`, `closed` | `HttpServerThread`, `HandleHttpClient` |
| `waitPage`, `pageLog`, `render` | `BuildHtmlPage` inside `data_mutex` and `log_mutex` |
| `report`, `prompt`, `left` | `ConsoleThread` |

`hist[p]` holds every value the register of `p` has had. A measurement carries
the position in `hist` it was read from (`ver`); only properties look at it.

Abstractions: a register value is a small number (what it stands for is the
subject of `ModbusCodec`); a
read or write may fail at any time, without a reason; a lost answer to a write is
`WriteTaken`, which is also what a good one is, since the statuses are not
modelled; `accept` and `recv` are one step, as both only wait; consecutive
`LogLine` calls are one step; `failure_count` stops at the limit it is compared
with; `connection_changed` and `last_change_time` are written and never read, and
are left out. Every point has a DNP3 slot of its own, which `ConfigStore` shows
of any file kept by the panel.

### ConfigStore

A line of the file is a comment, a line the parser refuses, or a point with its
name, kind and index as written; `ReadPoint` narrows the index as the parser
does (`% IndexMod`). `disk.whole` says whether the last line has its newline. A
boot reads the file (`BootFromFile`) or starts a new one (`BootEmpty`), then runs
the loops of `ConfigureDatabase` one turn at a time with their `uint16_t`
counter. The panel's requests are `AddPoint`, `DeletePoint`, `ClearPoints` and
`ViewPage`. A write has two steps, opening (which truncates, unless it appends,
and may fail) and closing; `Stop` between the two leaves any prefix of what was
being written, down to the digits of an index (`Pieces`, `CutShort`).

`Configured` is the reading loop, as a recursive function of the number of lines
read; boots, pages and the panel's requests all go through it.

The append does not look at how the file ends. Behind a last line without newline
the text of the new line continues the old one, and `Joined` says what the parser
may make of the two. The index is the last field of a point, so that the name of
the new point follows its digits: a `1` and the name `2x` are read by `stoi` as 12,
and since a name may begin with any digits, every index (narrowed) is possible, and
a number too large for `stoi` as well, which drops the point. A name that begins
otherwise leaves the point as it was. A line that was cut in its name takes the
fields of the new line, under a name made of both; one cut later can become a point
when its register has been read already. In each case the new point is not a line of
its own. Fields are taken to contain no `;`, and indexes not to be negative; a file
that ends in an empty line counts as ended.

`PointList` knows of this only whether the list has its end (`ended`): `Add` needs
it, and without it a submission is a `Blur`, which may change or drop the last row
and add at most one; no other row changes.

`torn` is a history variable: a write was cut short or continued a line without
newline, or the first file already had two points for one slot. What is promised
only of files the panel wrote undisturbed is promised under `~torn`.

### EventLists, EventBuffer and EventReport

A store is a record: `events` is the common list (an event is a number, so the
order of the list is that of the numbers), `typed[t]` the list of a type with the
variation each event was selected in, `total`, `written` and `selected` the
counters of `ClazzCount.h` and `EventCollection.h`. The operations are functions on
it with the names of the source. `EventBuffer` lets anyone call them in any order.
`Load` takes a number of events that fit; how an event is encoded, and that an
octet string needs more room, is left out. `EventReport` knows only pending
events, which of them are reported, and the classes announced to the master.

### Outstation and OutstationLive

`s` is `OContext` with the state objects of `OutstationStates.cpp` as its field
`state`. Handlers are functions from a session to the next, so that an action is a
whole handler with everything it calls: `CheckForTaskStart` ends each one.

| Field | Code |
|---|---|
| `state` | `StateIdle`, `StateSolicitedConfirmWait`, `StateUnsolicitedConfirmWait`, `StateNullUnsolicitedConfirmWait` |
| `transmitting`, `online` | `isTransmitting`, `isOnline` |
| `timer` | `confirmTimer`, armed or not |
| `seq`, `confirmNum`, `unum`, `uconfirmNum` | `sol.seq`, `unsol.seq` |
| `history`, `deferred` | `RequestHistory`, `DeferredRequest` |
| `store`, `static` | `EventBuffer`; static points still to be written |
| `selected`, `expectedSeq`, `selectedFor`, `inTime` | `ControlState` and whether its timeout has passed |
| `broadcast`, `mask`, `shouldCheck`, `completedNull`, `retries` | `lastBroadcastMessageReceived`, `unsolClassMask`, `shouldCheckForUnsolicited`, `completedNull`, `NumRetries` |

`ok` is what the application answers to a command. `MALFORMED` stands for whatever
is refused before it is looked at: objects that do not parse, `FIR`, `FIN` or `CON`
bits that a request must not have, other addresses. Requests are taken to fit into
a response. The restart bit, time synchronisation, class assignment and freezes
pass to the application or the database and leave the session as it is. Anything
may arrive at any time, so lost, repeated, late and reordered messages need no
actions of their own. `sent`, `usent`, `clash`, `done`, `forgotten` and `twice` are
history and read by properties only. `done` is the command carried out last;
`forgotten` is set by what makes the session unable to know it again: a confirmation
or the loss of the link, which empty the history, and a request other than `done`,
which replaces it. It is cleared by the next execution only. `clash` is set by every
transmission that is started while one is under way, except by the retry of an
unsolicited response after a timeout, which does not test `isTransmitting` in the
code. `OutstationLive` adds the name of the last step and the set of events that
unsolicited responses have carried (`told`); what the answer to a READ carries is not
in it.

### LowerLayers

`s` is everything of the sender that lives on its thread: `TransportTx` (`msg`,
`left`, `count`, `num`), `TransportLayer` (`sending`, `online`), `LinkContext` (the other
fields to `priTxBuffer`) and `IOHandler` (`txQueue`), with `posted`, the tasks that
`CompleteSendOperation` has posted and the executor has not run. `r` is the
`TransportRx` of the other end. Writing a frame and its arrival or loss are one
step, `OnWriteComplete`; the bytes of frames, their checksums and their parser are
left out, since a damaged frame is a lost one. One session uses the channel, and
addresses are always right. `OnFrame` gives the sender any frame the other end
could send, at any time.

`mishap` records four events after which the code promises less than before; each
property says which of them it excludes:

* *overtaken*: a connection is replaced while the task that tells of the end of a
  transmission is posted; the task is then taken for the end of the next one;
* *stalled*: the wait for a link status ends before its request is written, and the
  buffer of the primary station is used again;
* *unanswered*: confirmed user data by broadcast, after which the secondary
  station waits for the end of an answer that it does not send;
* *wrapped*: as many segments as there are sequence numbers are lost in a row.

### ModbusCodec

Operators without state, at the widths of the code (65536 and 2^32), and therefore
beyond TLC's integers: they are proved about and not run. The value of a command
to an integer point is given in halves, so that it can lie between two integers;
values that are not numbers are left out there. The value of a command to a float
point is a double with its IEEE 754 fields (`Doubles`), which `Narrow` casts to a float
as `static_cast<float>` does: to the nearest, with ties to the even one, carries into
the exponent, infinity beyond the largest float, subnormal floats and NaNs included.
`Widen` is the cast of an `AnalogOutputFloat32` to double. A float is its 32 bits, which
the code copies to and from registers.

## 3. Runs

| Run | Instance | Shows |
|---|---|---|
| `gateway_locks` | two coils, both commanded, one failure to zero; symmetric | `TypeOK`; `MutexesHeldInScope`: a mutex is held exactly inside its scope, on every return; `LockOrder`; `NoWaitCycle`: no group of threads waits in a circle |
| `gateway_data` | one analog point whose register takes three values in turn, two failures to zero, two updates waiting | `OthersSeeSettledStates`: nobody meets a half-updated state; `NothingUnpublished`: outside the stretch from store to `Apply`, the last update posted is the state; `MirrorsRegisters`: `Gateway` implements `Mirror` |
| `gateway_liveness` | one coil, one failure to zero, two register values | `QuitStopsPolling`, `CommandsAnswered`, `DatabaseConverges` |
| `config_file` | no file, old examples, and a file kept by hand with and without its last newline; two forms, up to three lines, one open page | `TypeOK`, `SlotsStayDistinct`, `ProfileHasSlots`; `FileIsAList`: `ConfigStore` implements `PointList`: a boot keeps the list, only a crash cuts it short, and only an append behind an unended line blurs its end; `FreshLinkRemovesItsRow`; `BootCompletesBelowLast`: a boot that reads no point with the last index comes to its end |
| `config_last_index` | a point with the last index | violated: `BootCompletes` |
| `config_unended_file` | a last line without newline | violated: `SavedPointIsListed` |
| `config_stale_page` | one page left open | violated: `LinkRemovesItsRow` |
| `event_store` | two types with room for two and for one, two classes, four events | `TypeOK`, `ListsAgree`, `CountersExact`, `OldestFirst`; `LeavesKnowingly`: an event leaves confirmed or as an overflow; `ReportsEvents`: the store implements `EventReport` |
| `session_events` | every kind of request but answered commands, three events, room for two, one per fragment, endless retries | `TypeOK`; `WaitsAreTimed`; `OneTransmissionAtATime`; `UnconfirmedEventsStay`: only the confirmation of the fragment that carried an event removes it |
| `session_commands` | select, operate with two control blocks, direct operate, a READ of two fragments, broadcasts that ask for a confirmation, no retries, no events | `OnceUnlessForgotten`: a command received again is not carried out again unless a confirmation, another request or the loss of the link came between |
| `session_liveness` | a READ and a WRITE, two events | `DeferredReadAnswered`; `EventsAreReported` |
| `lower_layers` | two fragments of one or three segments, numbers that wrap after two | `TypeOK`, `ReadyWhenTold`, `OneFrameAtATime`, `BuffersAreKept`, `IgnoresOnlyWhileAnswering`, `WorkIsStarted`; `DeliversFragments`: what is handed up is a fragment as it was sent, in order and once; `TransmissionEnds` |

Bounds and why they suffice:

* *Two pollers* in `gateway_locks`: each lock is contended between two pollers,
  between a poller and the executor, and between a poller, the page and the
  console. What holds for more is proved, not checked.
* *One point* in `gateway_data` and `gateway_liveness`: state, update and slot of
  a point are touched by its own thread only; other pollers matter to it through
  the mutexes.
* `MaxFailures` 2 (5 in the code) has a cycle below the limit and one at it, so
  both sides of the comparison occur; 1 where the property is not about it.
* `MaxPending` 2 lets updates overtake each other if they could. The pause of
  the poller and the executor's speed keep the real queue short without
  bounding it.
* `MaxVersions` 3 is the smallest with a value that can be skipped between an
  older and a newer one.
* `IndexMod` 3 (4 in the runs about one finding) and `Radix` 2 stand for 65536 and
  10: there is an index beyond the counter (4, which is 1), whose digits cut short
  are two other indexes, and a last index, which no form has and a continued line
  can get; that is why the run states `BootCompletesBelowLast`.
* `MaxLines` 3 lets a heading and two points, or three points be present, so that
  a first, a middle and a last row can be removed.
* `event_store`: one type overflows with its first event selected, written or
  neither, while the other still has room; two classes make counters and lists
  disagree if they can. The theorems lift all bounds.
* `session_*`: `SeqMod` 2 (16 in the code) is the smallest at which a stale number
  differs from the current one, and makes it come round again; `FragmentRoom` 1
  makes any two objects a response of two fragments; three events with room for
  two overflow during a response. Commands touch no events, so `session_commands`
  has none; `session_liveness` has two, so that one can be left behind by a response
  that carries the other.
* `lower_layers`: three segments wrap the numbers within one fragment, so that a
  receiver that looks only at the number can be misled; two fragments are the
  least of which parts can be mixed. The theorems lift all bounds.

### Fairness

`FairSpec` of `Gateway` assumes strong fairness of each polling thread as a whole,
of running updates, of the executor's work on a command, and of building a page
that was asked for. The code's ground: a Modbus exchange ends by libmodbus's
timeout, critical sections contain no other wait (that no mutex is held across a
socket operation is part of the model, and what `QuitStopsPolling` checks), the
executor runs its tasks in the order they were posted, and `std::mutex`, which
does not promise it, is fair enough that a thread which finds it free again and
again gets it in the end. Nothing is assumed of HTTP clients (`HttpAccept`,
`HttpRecv`, `HttpSend` may never happen again), the operator, the master or the
devices. Strong fairness of `PollPoint(p)` does not make reads succeed:
`DatabaseConverges` assumes that separately, as reads that from some time on no
longer fail.

`FairSpec` of `ConfigStore` assumes only that a boot and a write which are not
interrupted go on.

`OutstationLive` assumes that what is handed to the lower layers is sent
(`SendingEnds`, which `lower_layers` shows as `TransmissionEnds`) and that a timer which
is armed, and from some time on neither cancelled nor started anew, expires
(`TimerExpires`). No request, confirmation or connection needs to come. Of the master
each property assumes something as its antecedent:

* `DeferredReadAnswered`: it does not for ever send READs, new or repeated, while a
  solicited response waits (`ReadsLeaveTheWait`). Each of them cancels and restarts the
  timer and leaves the deferred READ where it is; without the assumption TLC shows
  a master that never confirms and puts it off for ever.
* `EventsAreReported`: sending does not for ever take longer than the confirmation
  timer (`SendingEndsInTime`), one of infinitely many confirmations gets through
  (`ConfirmsArrive`; until the first unsolicited response is confirmed, no event is
  sent), and requests, which come first, cease (`RequestsCease`).

`EventsAreReported` is about unsolicited responses alone, and from the moments at which
the code looks for events: a new link, or an event of an enabled class. Its
conclusion names the two cases in which an event is not sent, each of which TLC
finds as soon as it is left out: the event is `Stranded`, or the wait for the
confirmation of another one was given up (section "Observed"). Assumptions are stated with
the states in which a step can happen in place of `ENABLED`, which is far cheaper to
check.

`LowerLayers` assumes that a write ends, posted tasks are run and the response
timer expires. `TransmissionEnds` needs keep-alives not to come due for ever while
one is under way (`KeepAlivesAreRare`): they are sent before segments, and their
period is longer than the wait for their answer in any sensible configuration,
though nothing enforces it.

### What the code does otherwise than it says

* `config_last_index`: the panel accepts index 65535 and says that a restart will
  create it; on the restart the loop `index <= max` of `ConfigureDatabase` never
  ends, its `uint16_t` counter wrapping from 65535 to 0.
* `config_unended_file`: a point appended after a last line without newline is
  reported as saved and on the list, and is neither.
* `config_stale_page`: the link "Remover este ponto" of a page out of date removes
  the point that has moved to that row.

### Observed, and contradicted by nothing the repository says

* With broadcasts that ask for a confirmation (`Broadcasts = {"shall"}`),
  `UnconfirmedEventsStay` and `WaitsAreTimed` fail: a solicited response to another
  request then waits for a confirmation too, and a confirmation clears every event
  marked as written, also those of an earlier response; a repeated request
  cancels the timer of such a wait.
* After a confirmation or the loss of the link the request history is empty, and
  after another request it holds that one; the selection is still in place each
  time. An OPERATE that arrives again within the timeout is then carried out again;
  `OnceUnlessForgotten` says that these three are the only ways.
* Events in the answer to a READ that is never confirmed stay marked as written when
  the wait times out. They are not counted among those to be sent, so no unsolicited
  response carries them until another event, a READ or a new link puts them back.
* A broadcast, a deferred message or the last retry ends the wait of an unsolicited
  response without a new look for events: those that were to follow wait for the
  next event or link.
* READs that arrive while a solicited response waits restart the wait each time, and
  can put a deferred READ off for ever.
* The retry of an unsolicited response does not look whether its last transmission
  has ended.
* An append behind a last line without newline can change the index of the point on
  that line, and let two points share a slot, unnoticed until the database is built.
* A command to a float point is always accepted: 16777217 is written as 16777216,
  and what is too large as infinity (`FloatCommandMayChange`).
* The four mishaps of the lower layers, above.
* An unsigned point in the upper half of its range is reported clipped, though
  flagged, by static reads; events of 16-bit points report the same state exactly,
  and events of float points are cut to integers.

## 4. Theorems

From `PointsAssumption` (the points are none of the other threads),
`ValuesAssumption` (0 and 1 are values) and `BoundsAssumption` (the limit of
failures is at least 1), for any number of points. In `GatewayProofs`:

* `ScopesHold`: `MutexesHeldInScope` is always true. It is inductive together
  with `ControlOK`: a thread crosses the boundary of a set `Inside(m)` only by a
  step that acquires or releases `m`. The proof has one case per action.
* `LockOrderHolds`: a waiting thread's place tells by `ScopesHold` what it holds;
  label by label, that ranks below what it waits for.
* `NoWaitCycleEver`: in a circle, each thread waits for a mutex whose holder, also
  in the circle, waits for one of higher rank. Three ranks leave no room for
  that, however many threads there are.
* `TypeCorrect`: `TypeOK` is always true. Its parts depend on each other: a write
  changes a history to a value of a command, which `WriteOK` says exists at that
  label, and the histories are never empty because reads take their last value.

In `MirrorProofs`, from the invariant `DataInv`. None of the properties is
inductive by itself, because each speaks of one moment of a cycle; `DataInv` says
what is true at every label:

* `ReadRight`, `StateRight`: what a poller has read is the value at its position
  of the register's history and not older than what it replaces; between its two
  groups of assignments the state is what the second group needs (`HalfSettled`),
  and otherwise it is `Settled`.
* `BuiltRight`, `QueueRight`: an update about to be posted equals the state; the
  positions are in the order database, waiting updates (as posted), state; each
  value is zero or the one at its position (`Genuine`).
* `ShapesRight`: an update has one point, or is the initial one.
* `LatestRight`: `NothingUnpublished` without the choice of a last update, in a form
  that survives appending to and taking from the queue.
* `RegistersOK`, `CommandOK`: binary registers hold 0 or 1, so publishing a bit
  loses nothing.

`StepKinds` sorts the steps by what they do to the data: most only move threads
(`OnlyMoves`), and one lemma deals with each of the others.

* `SettledStatesHold`: `OthersSeeSettledStates`; with `ScopesHold`, the one label at
  which a state is not settled is inside `data_mutex`.
* `NothingUnpublishedHolds`: `NothingUnpublished`.
* `ImplementsMirror`: `Gateway` implements `Mirror`. Steps of devices and commands
  map to `RegisterTakes`, the execution of an update to `Show` or, for the
  initial one, to a stutter, every other step to a stutter.

In `EventListsProofs` and `EventBufferProofs`, from `CapacityAssumption` (finitely
many types, each with a capacity) and the bounds' types. The inductive invariant is
`Good`: the store has its type, the lists hold the same events (`ListsMatch`), the
counters are the numbers they stand for (`CountsMatch`), and older events are never
behind newer ones of their type and class (`InOrder`). None of the four is inductive
alone: that a counter is not decremented below zero needs the lists to match, that
the oldest of a type is in the common list needs the same, and that a selection
with a limit keeps the order needs the order. `EventListsProofs` has one lemma
per operation, by way of what it does to the states of a set of events (`Moved`) and
to the set itself (`Kept`); sums over events are cardinalities, from
`FiniteSetTheorems`.

* `StoreTypeCorrect`, `ListsAlwaysAgree`, `CountersAlwaysExact`, `AlwaysOldestFirst`: the
  parts of `Good`.
* `EventsLeaveKnowingly`: `LeavesKnowingly`.
* `StoreReportsEvents`: `EventBuffer` implements `EventReport`. An update maps to
  `Happen`, `Load` to `Report`, the others to `Confirm`, `GiveUp` or a stutter; that
  the announced classes are the right ones is `CountsMatch`.

In `LowerLayersProofs`, from `LayersAssumption` (sizes are positive and fit the
receiver, the modulus is positive), along two invariants. `SInv` is about the
sender: its type, one frame with the channel at a time, an idle primary station
has nothing to do; and, except after the mishaps that end it, that each station
waits exactly while it has a frame out (`SecondaryOK`, `PrimaryOK`), that the buffer
is the segment the transmitter stands at (`Current`), and that the session is told
once (`Told`). Each handler has a lemma that says what it may change, and `Starts`,
`Wrote` and `Served` describe chains of calls. `DInv` is about both ends: while
nothing has gone wrong (`Calm`), the parts received are the first parts of one
fragment (`Prefix`), fragments come in order (`Delivered`), and the transmitter's number
is ahead of the expected one by as many segments as were written since, modulo
`SeqMod` (`Aligned`). `Aligned` is what makes a segment with the expected number the
next one, as long as fewer than `SeqMod` were lost.

* `TypeTheorem`, `OneFrameAtATimeTheorem`, `BuffersAreKeptTheorem`,
  `IgnoresOnlyWhileAnsweringTheorem`, `ReadyWhenToldTheorem`, `WorkIsStartedTheorem`,
  `DeliversFragmentsTheorem`: the invariants of run `lower_layers`.

In `ModbusCodecProofs`, without assumptions, for every type and value:

* `NearestInteger`, `CommandIsReadBack`, `RefusedOnlyOutOfRange`: an accepted command to an
  integer point is read back as its rounded value, and only what no register
  contents can mean is refused.
* `FloatIsReadBack`: every command to a float point is accepted and read back as the
  float it was cast to. `FloatIsNearest`: where that is a normal float, it is off by
  at most half of its last digit. `FloatCommandIsExact`: a command that is a float, zero
  or normal, is not changed. `FloatCommandMayChange`: others are, without notice. Casts
  that end in a subnormal float, by a shift of `2 ^ k`, are modelled and not proved
  about.
* `ReadIsInjective`: reading loses nothing.
* `SignedPointsAreExact`, `UnsignedPointsAreClipped`: what static reads and events
  make of it.
* `PanelShowsTheVariation`, `TypeSurvivesRewrite`: tables written apart agree.

In `OutstationProofs`, from the assumptions on the constants of `Outstation` and
`EventLists`. The inductive invariant `IInv` is `Ready(s, made)`, in four parts:

* `Sound`: the session has its type, and the store inside it is `Good` with events
  that have happened; the lemmas of `EventListsProofs` are cited as they are.
* `~clash`: the history bit of `OneTransmissionAtATime`. It is kept because each
  handler that sends is reached only where `CanTransmit` was tested: a handler leaves
  a session that transmits, is idle, or waits as it did before (`Goes`), and what
  follows it goes on only in the last two cases.
* `Known`: no command was carried out twice, and the last one, unless forgotten, is
  the request in the history, with its number, where a repeat is recognised.
  `OnceUnlessForgotten` is only its first half.
* `Settled`, only where no broadcast asks for a confirmation (`NoShall`): `Timed`, a
  waiting session has its timer and a solicited wait was caused by a READ or by
  no request that is still remembered, so that no repeat can cancel the timer; and
  `Carried`, the events marked as written are those of the fragment awaited.

A handler is a chain of functions from a session to the next, always ended by
`CheckForTaskStart`. Each function has one lemma, that it takes a `Ready` session to
one that `Goes` on from it, and `GoesOn` composes them.

* `SessionTypeCorrect`, `SessionKeepsStore`, `NeverTwoTransmissions`,
  `CommandsOnceUnlessForgotten`: with any broadcasts.
* `EveryWaitTimed`, `EventsStayUntilConfirmed`: under `NoShall`. The hypothesis is
  needed: section 3 tells how both fail without it.

In `ConfigStoreProofs`, from `SizesAssumption` and `LinesAssumption` (a submitted line
is a point, since the parser has accepted it; a file that does not exist has no
lines), for files, lists and indexes of any size. What the reading loop makes of a
file is shown by induction on the lines read. The library's induction theorems
cannot be used here, as they have a predicate for a parameter; `UpTo` and `SeqUpTo`
state the same of a set, and are proved from the well-foundedness of `<`. With them:
`ConfiguredType`; `ConfiguredFrom`, a point comes from a line; `ConfiguredInOrder`, the
first lines give the first points; `ConfiguredSaved`.

* `ConfiguredSaved`: what a rewrite writes is read back.
* `FileTypeCorrect`: `TypeOK`, with `Absent` (no lines without a file), which a boot
  without a file needs.
* `ServedPointsHaveSlots`: `ProfileHasSlots`. It speaks of the end of a boot, so the
  invariant `Booting` says what each phase has done: a loop has created all slots
  below its counter (also after it wrapped, when that is none), a loop that ended
  all of its kind, and a boot that first writes the file still starts at 0.
* `NoSlotTwice`: `SlotsStayDistinct` is inductive with the types. It says nothing of a
  file once a line was continued (`torn`), where slots may indeed be shared.
* `FileImplementsList`: `ConfigStore` implements `PointList`. Boots map to `Start`, requests
  that could open the file to `Add`, `Remove` and `Clear`, the end of the process to
  `Crash`; a write counts when it begins, so its completion is a stutter. An append
  behind an unended line maps to `Blur`. The hard step is a crash while writing: by
  `ConfiguredInOrder` the lines left, and the piece of the next one, are the first
  rows and perhaps one of another index; a write that continues a line leaves that
  line with any part of the new text.
* `FreshLinkIsRight`: `FreshLinkRemovesItsRow`, an action property, from `NoSlotTwice`: the
  point removed is in no other row.
* `SavedPointIsListedIfEnded`: `SavedPointIsListed`, which a run shows to be violated, is
  true of files that started with their last newline and were never torn.

Only model-checked, because the prover handles no fairness: the liveness properties
`QuitStopsPolling`, `CommandsAnswered`, `DatabaseConverges`, `BootCompletesBelowLast`,
`DeferredReadAnswered`, `EventsAreReported` and `TransmissionEnds`. Every invariant,
every action property and every refinement of a passing run is also a theorem.

## 5. What is not modelled

* Which DNP3 status a libmodbus error becomes: `errno` is read after other library
  calls, so that the sources do not determine it.
* `main` returning after `quit` while detached threads may still run: the process
  is at its end, no behaviour is specified there, and the sleep before it is an
  hour long.
* HTML, URL decoding, log text, colours, the unused `BuildStateJson`, the build
  without libmodbus, the deployment scripts.
* Of opendnp3: the parsers and writers of objects, the static database beyond
  the number of points still to be written, frames as bytes, several sessions on
  one channel, TLS and serial lines. And everything the gateway does not run: the
  master, the bindings for other languages, the examples and tests. Together with
  tables that are generated these are by far the most of the repository's lines,
  so that the share of it that the models cover stays small, while of the
  gateway's own program nearly all that keeps state is covered.

## 6. Plan

In order of what matters to the users of the gateway:

1. Done: `Gateway`, `Mirror`, their runs, the theorems on locks, types and data.
2. Done: `ConfigStore`, `PointList` and their runs.
3. Done: `EventLists`, `EventBuffer`, `EventReport`, run and theorems.
4. Done: `Outstation`, `OutstationLive` and their runs.
5. Done: `LowerLayers`, its run and its theorems.
6. Done: `ModbusCodec` and its theorems.
7. Done: proofs about `Outstation`.
8. Done: proofs about `ConfigStore`, and that it implements `PointList`.
9. The static database: ranges of selected points, which a read walks through
   across fragments, and the detection of events.

----------------------------- MODULE MirrorProofs ----------------------------
(***************************************************************************)
(* Proofs about the data of Gateway, for any number of points, values and  *)
(* bounds: the shared states are whole, every change is published, and the *)
(* database mirrors the registers.                                         *)
(***************************************************************************)
EXTENDS GatewayProofs

(***************************************************************************)
(* The inductive invariant.                                                *)
(***************************************************************************)
\* The value at position k of a register's history, 0 before the first.
ValueAt(p, k) == IF k = 0 THEN 0 ELSE hist[p][k]

\* A measurement that a register, or the zeroing after failures, can account for.
Genuine(p, m) ==
    /\ m.ver \in 0 .. Len(hist[p])
    /\ m.value = 0 \/ m.value = ValueAt(p, m.ver)

\* Registers, and the command on its way to one, have values of their kind.
CommandOK == cmd # NoWrite => cmd.value \in RegisterValues(cmd.pt)

RegistersOK ==
    \A p \in Points : \A k \in 1 .. Len(hist[p]) : hist[p][k] \in RegisterValues(p)

\* A successful read is not older than what it is about to replace.
ReadRight(p) ==
    read[p].ok => /\ read[p].m.ver \in 1 .. Len(hist[p])
                  /\ read[p].m.value = hist[p][read[p].m.ver]
                  /\ state[p].ver <= read[p].m.ver

\* Between the two groups of assignments the state is what SettleState needs.
HalfSettled(p) ==
    /\ read[p].ok => state[p].analog_value = ValueAt(p, state[p].ver)
    /\ ~read[p].ok =>
           /\ ~state[p].connection_status
           /\ ~TooManyFailures(state[p]) => state[p].analog_value = ValueAt(p, state[p].ver)

StateRight(p) ==
    /\ state[p].ver \in 0 .. Len(hist[p])
    /\ pc[p] # "settle" => Settled(p)
    /\ pc[p] = "settle" => HalfSettled(p)

StatesRight == \A p \in Points : ReadRight(p) /\ StateRight(p)

\* An update about to be posted says what the state says.
BuiltRight(p) == pc[p] = "apply" => update[p] = Published(p, state[p])

\* What waits in the executor for p lies between the database and the state, and
\* in the order in which it was posted.
QueueRight(p) ==
    /\ Genuine(p, db[p])
    /\ db[p].ver <= state[p].ver
    /\ \A i \in Pending(p) : /\ Genuine(p, queue[i][p])
                             /\ db[p].ver <= queue[i][p].ver
                             /\ queue[i][p].ver <= state[p].ver
    /\ \A i, j \in Pending(p) : i <= j => queue[i][p].ver <= queue[j][p].ver

\* An update is the initial one or one of a single point.
Single(u) == \E p \in Points : \A q \in Points \ {p} : ~Covers(u, q)

ShapesRight ==
    \A i \in DOMAIN queue : Single(queue[i]) \/ queue[i] = [p \in Points |-> Unread]

\* m is what p was last posted to be, without a choice of the last update.
Latest(p, m) ==
    \/ Pending(p) = {} /\ db[p] = m
    \/ \E i \in Pending(p) : queue[i][p] = m /\ \A j \in Pending(p) : j <= i

(***************************************************************************)
(* Steps, by what they do to the data.                                     *)
(***************************************************************************)
Quiet == {"loop", "waitModbus", "reading", "failLog", "waitStore", "store", "done"}

LatestRight(p) == pc[p] \in Quiet => Latest(p, Published(p, state[p]))

UpdatesRight ==
    /\ ShapesRight
    /\ \A p \in Points : BuiltRight(p) /\ QueueRight(p) /\ LatestRight(p)

\* A step that moves threads only, and none into or out of a delicate label.
OnlyMoves ==
    /\ UNCHANGED <<read, state, update, queue, db, hist>>
    /\ \A p \in Points : /\ pc'[p] = "settle" <=> pc[p] = "settle"
                         /\ pc'[p] = "apply" <=> pc[p] = "apply"
                         /\ pc'[p] \in Quiet => pc[p] \in Quiet

\* A register takes a value, from its device or from a command.
Takes(p, v) ==
    /\ hist' = [hist EXCEPT ![p] = Append(@, v)]
    /\ UNCHANGED <<read, state, update, queue, db>>
    /\ \A q \in Points : pc'[q] = pc[q]

LEMMA CommandStep == TypeOK /\ CommandOK /\ [Next]_vars => CommandOK'
<1> SUFFICES ASSUME TypeOK, CommandOK, [Next]_vars PROVE CommandOK'
  OBVIOUS
<1> USE DEF CommandOK, RegisterValues
<1>1. ASSUME NEW p \in Points, PollPoint(p) PROVE UNCHANGED cmd
  BY <1>1 DEF PollPoint, PollLoop, ReadLock, ReadSucceeds, ReadFails, ReadFailureLog, StoreLock,
     StoreReading, SettleState, StoreLog, PublishLock, BuildUpdate, ApplyUpdate
<1>2. ASSUME NEW p \in Points, RegisterChanges(p) PROVE UNCHANGED cmd
  BY <1>2 DEF RegisterChanges
<1>3. ASSUME NEW w \in Writes, ReceiveOperate(w) PROVE CommandOK'
  BY <1>3 DEF ReceiveOperate
<1>4. CASE RunUpdate \/ ReceiveOther \/ LogCommand \/ WriteLock \/ WriteTaken \/ WriteLost
  BY <1>4 DEF RunUpdate, ReceiveOther, LogCommand, WriteLock, WriteTaken, WriteLost
<1>5. CASE ConnectFails \/ LogWrite \/ LogResult
  BY <1>5 DEF ConnectFails, LogWrite, LogResult, EndWrite
<1>6. CASE HttpStart \/ HttpAccept \/ HttpRecv \/ BuildPage \/ HttpSend
  BY <1>6 DEF HttpStart, HttpAccept, HttpRecv, BuildPage, PageLockData, PageLockLog, PageRendered,
     HttpSend
<1>7. CASE ConsoleReport \/ ConsoleOther \/ ConsoleQuit
  BY <1>7 DEF ConsoleReport, ConsoleOther, ConsoleQuit
<1>8. CASE UNCHANGED vars
  BY <1>8 DEF vars
<1> QED
  BY <1>1, <1>2, <1>3, <1>4, <1>5, <1>6, <1>7, <1>8 DEF Next, ExecuteCommand

\* The kinds of step, as far as the data are concerned.
LEMMA StepKinds ==
    ASSUME TypeOK, CommandOK, [Next]_vars
    PROVE  \/ OnlyMoves
           \/ RunUpdate
           \/ \E p \in Points : \E v \in RegisterValues(p) : Takes(p, v)
           \/ \E p \in Points : \/ ReadSucceeds(p) \/ ReadFails(p) \/ StoreReading(p)
                                \/ SettleState(p) \/ BuildUpdate(p) \/ ApplyUpdate(p)
<1> USE DEF Go
<1>0. /\ pc \in [Threads -> Labels] /\ Points \subseteq Threads
      /\ "exec" \in Threads /\ "http" \in Threads /\ "console" \in Threads
      /\ "exec" \notin Points /\ "http" \notin Points /\ "console" \notin Points
  BY PointsAssumption DEF TypeOK, ControlOK, Threads
<1>1. ASSUME NEW p \in Points,
             PollLoop(p) \/ ReadLock(p) \/ ReadFailureLog(p) \/ StoreLock(p) \/ StoreLog(p)
             \/ PublishLock(p)
      PROVE  OnlyMoves
  BY <1>0, <1>1 DEF OnlyMoves, Quiet, PollLoop, ReadLock, ReadFailureLog, StoreLock, StoreLog,
     PublishLock
<1>2. ASSUME NEW p \in Points, RegisterChanges(p)
      PROVE  \E v \in RegisterValues(p) : Takes(p, v)
  BY <1>2 DEF RegisterChanges, Takes
<1>3. CASE WriteTaken
  <2>1. cmd \in Writes /\ cmd # NoWrite
    BY <1>3, PointsAssumption DEF TypeOK, WriteOK, WriteTaken, Writes, NoWrite
  <2>2. cmd.pt \in Points /\ cmd.value \in RegisterValues(cmd.pt)
    BY <2>1, PointsAssumption DEF Writes, CommandOK
  <2>3. CASE cmd.value = Current(cmd.pt)
    BY <1>0, <1>3, <2>3 DEF WriteTaken, OnlyMoves
  <2>4. CASE cmd.value # Current(cmd.pt)
    <3>1. Takes(cmd.pt, cmd.value)
      BY <1>0, <1>3, <2>4 DEF WriteTaken, Takes
    <3> QED BY <2>2, <3>1
  <2> QED BY <2>3, <2>4
<1>4. CASE ReceiveOther \/ LogCommand \/ WriteLock \/ WriteLost
  BY <1>0, <1>4 DEF OnlyMoves, ReceiveOther, LogCommand, WriteLock, WriteLost
<1>5. ASSUME NEW w \in Writes, ReceiveOperate(w) PROVE OnlyMoves
  BY <1>0, <1>5 DEF OnlyMoves, ReceiveOperate
<1>6. CASE ConnectFails \/ LogWrite \/ LogResult
  BY <1>0, <1>6 DEF OnlyMoves, ConnectFails, LogWrite, LogResult, EndWrite
<1>7. CASE HttpStart \/ HttpAccept \/ HttpRecv \/ BuildPage \/ HttpSend
  BY <1>0, <1>7 DEF OnlyMoves, HttpStart, HttpAccept, HttpRecv, BuildPage, PageLockData,
     PageLockLog, PageRendered, HttpSend
<1>8. CASE ConsoleReport \/ ConsoleOther \/ ConsoleQuit
  BY <1>0, <1>8 DEF OnlyMoves, ConsoleReport, ConsoleOther, ConsoleQuit
<1>9. CASE UNCHANGED vars
  BY <1>9 DEF OnlyMoves, vars
<1> QED
  BY <1>1, <1>2, <1>3, <1>4, <1>5, <1>6, <1>7, <1>8, <1>9 DEF Next, ExecuteCommand, PollPoint

(***************************************************************************)
(* Registers and states.                                                   *)
(***************************************************************************)
\* What a position of a history means does not change when the history grows.
LEMMA Grown ==
    ASSUME DataOK, NEW q \in Points, NEW v \in RegisterValues(q), Takes(q, v)
    PROVE  \A p \in Points :
               /\ Len(hist[p]) \in Nat /\ Len(hist'[p]) \in Nat
               /\ Len(hist[p]) <= Len(hist'[p])
               /\ \A k \in 1 .. Len(hist[p]) : hist'[p][k] = hist[p][k]
<1>1. v \in Values
  BY ValuesAssumption DEF RegisterValues
<1>2. hist' = [hist EXCEPT ![q] = Append(@, v)]
  BY DEF Takes
<1> QED
  BY <1>1, <1>2, HistoryGrows DEF DataOK

LEMMA RegistersInit == Init => CommandOK /\ RegistersOK
<1> SUFFICES ASSUME Init PROVE CommandOK /\ RegistersOK
  OBVIOUS
<1>1. ASSUME NEW p \in Points, NEW k \in 1 .. Len(hist[p]) PROVE hist[p][k] \in RegisterValues(p)
  <2>1. PICK v \in StartValues : hist[p] = <<v>>
    BY DEF Init
  <2>2. Len(hist[p]) = 1 /\ k = 1
    BY <2>1
  <2> QED BY <2>2 DEF Init, Current
<1> QED
  BY <1>1 DEF Init, CommandOK, RegistersOK

LEMMA RegistersStep ==
    ASSUME TypeOK, CommandOK, RegistersOK, [Next]_vars
    PROVE  RegistersOK'
<1>1. CASE UNCHANGED hist
  BY <1>1 DEF RegistersOK, RegisterValues
<1>2. ASSUME NEW q \in Points, NEW v \in RegisterValues(q), Takes(q, v) PROVE RegistersOK'
  <2> SUFFICES ASSUME NEW p \in Points, NEW k \in 1 .. Len(hist'[p])
               PROVE  hist'[p][k] \in RegisterValues(p)
    BY DEF RegistersOK, RegisterValues
  <2>1. hist'[p] = IF p = q THEN Append(hist[p], v) ELSE hist[p]
    BY <1>2 DEF Takes, TypeOK, DataOK
  <2>2. hist[p] \in Seq(Values)
    BY DEF TypeOK, DataOK
  <2>3. CASE p # q
    BY <2>1, <2>3 DEF RegistersOK
  <2>4. CASE p = q /\ k <= Len(hist[p])
    <3>1. hist'[p][k] = hist[p][k] /\ k \in 1 .. Len(hist[p])
      BY <2>1, <2>2, <2>4
    <3> QED BY <3>1 DEF RegistersOK
  <2>5. CASE p = q /\ k > Len(hist[p])
    <3>1. k = Len(hist[p]) + 1 /\ hist'[p][k] = v
      <4>1. v \in Values BY ValuesAssumption DEF RegisterValues
      <4> QED BY <2>1, <2>2, <2>5, <4>1
    <3> QED BY <2>5, <3>1
  <2> QED BY <2>2, <2>3, <2>4, <2>5
<1> QED
  BY <1>1, <1>2, StepKinds DEF OnlyMoves, RunUpdate, ReadSucceeds, ReadFails, StoreReading,
     SettleState, BuildUpdate, ApplyUpdate

\* The states a poller stores and settles, as functions of the old one.
LEMMA StoredFields ==
    ASSUME NEW s \in PointState, NEW m \in Measurements
    PROVE  /\ StoreValue(s, m).analog_value = m.value
           /\ StoreValue(s, m).ver = m.ver
           /\ MarkFailed(s).analog_value = s.analog_value
           /\ MarkFailed(s).ver = s.ver
           /\ ~MarkFailed(s).connection_status
           /\ TooManyFailures(s) => TooManyFailures(MarkFailed(s))
BY BoundsAssumption DEF PointState, StoreValue, MarkFailed, TooManyFailures

LEMMA SettledFields ==
    ASSUME NEW s \in PointState
    PROVE  /\ MarkConnected(s).analog_value = s.analog_value
           /\ MarkConnected(s).ver = s.ver
           /\ MarkConnected(s).failure_count = 0
           /\ ~TooManyFailures(MarkConnected(s))
           /\ ZeroAfterFailures(s).ver = s.ver
           /\ ZeroAfterFailures(s).connection_status = s.connection_status
           /\ TooManyFailures(ZeroAfterFailures(s)) <=> TooManyFailures(s)
           /\ ZeroAfterFailures(s).analog_value =
                  IF TooManyFailures(s) THEN 0 ELSE s.analog_value
BY BoundsAssumption DEF PointState, MarkConnected, ZeroAfterFailures, TooManyFailures

LEMMA StatesInit == Init => StatesRight
<1> SUFFICES ASSUME Init, NEW p \in Points PROVE ReadRight(p) /\ StateRight(p)
  BY DEF StatesRight
<1>1. read[p] = NoReading /\ state[p] = InitialState
  BY DEF Init
<1>3. pc[p] = "loop"
  BY PointsAssumption DEF Init, Threads
<1>2. Len(hist[p]) \in Nat
  <2>1. DataOK BY DataInit
  <2> QED BY <2>1, SampleType
<1> QED
  BY <1>1, <1>2, <1>3, BoundsAssumption
     DEF ReadRight, StateRight, Settled, NoReading, InitialState, TooManyFailures

\* Positions keep their values, so what was right about them stays right.
LEMMA StatesTake ==
    ASSUME TypeOK, StatesRight, NEW q \in Points, NEW v \in RegisterValues(q), Takes(q, v)
    PROVE  StatesRight'
<1> SUFFICES ASSUME NEW p \in Points PROVE ReadRight(p)' /\ StateRight(p)'
  BY DEF StatesRight
<1>1. /\ Len(hist[p]) \in Nat /\ Len(hist'[p]) \in Nat
      /\ Len(hist[p]) <= Len(hist'[p])
      /\ \A k \in 1 .. Len(hist[p]) : hist'[p][k] = hist[p][k]
  BY Grown DEF TypeOK
<1>2. read' = read /\ state' = state /\ pc'[p] = pc[p]
  BY DEF Takes
<1>3. ReadRight(p) /\ StateRight(p)
  BY DEF StatesRight
<1>4. ReadRight(p)'
  BY <1>1, <1>2, <1>3 DEF ReadRight
<1>5. state[p].ver \in 0 .. Len(hist[p])
  BY <1>3 DEF StateRight
<1>6. ValueAt(p, state[p].ver)' = ValueAt(p, state[p].ver)
  BY <1>1, <1>2, <1>5 DEF ValueAt
<1>7. StateRight(p)'
  BY <1>1, <1>2, <1>3, <1>5, <1>6
     DEF StateRight, Settled, HalfSettled, ValueAt, TooManyFailures
<1> QED BY <1>4, <1>7

LEMMA StatesStep ==
    ASSUME TypeOK, CommandOK, StatesRight, [Next]_vars
    PROVE  StatesRight'
<1>0. ControlOK /\ DataOK
  BY DEF TypeOK
<1>1. CASE OnlyMoves
  <2> SUFFICES ASSUME NEW p \in Points PROVE ReadRight(p)' /\ StateRight(p)'
    BY DEF StatesRight
  <2>1. ReadRight(p) /\ StateRight(p)
    BY DEF StatesRight
  <2> QED
    BY <1>1, <2>1 DEF OnlyMoves, ReadRight, StateRight, Settled, HalfSettled, ValueAt, TooManyFailures
<1>2. CASE RunUpdate
  BY <1>2 DEF RunUpdate, StatesRight, ReadRight, StateRight, Settled, HalfSettled, ValueAt,
     TooManyFailures
<1>3. ASSUME NEW q \in Points, NEW v \in RegisterValues(q), Takes(q, v) PROVE StatesRight'
  BY <1>3, StatesTake
<1>4. ASSUME NEW q \in Points,
             \/ ReadSucceeds(q) \/ ReadFails(q) \/ StoreReading(q)
             \/ SettleState(q) \/ BuildUpdate(q) \/ ApplyUpdate(q)
      PROVE  StatesRight'
  <2> SUFFICES ASSUME NEW p \in Points PROVE ReadRight(p)' /\ StateRight(p)'
    BY DEF StatesRight
  <2>0. /\ ReadRight(p) /\ StateRight(p)
        /\ pc \in [Threads -> Labels] /\ q \in Threads /\ p \in Threads
        /\ hist' = hist
        /\ read \in [Points -> Reading] /\ state \in [Points -> PointState]
    BY <1>0, <1>4 DEF StatesRight, ControlOK, DataOK, Threads, ReadSucceeds, ReadFails,
       StoreReading, SettleState, BuildUpdate, ApplyUpdate
  <2>1. CASE p # q
    <3>1. read'[p] = read[p] /\ state'[p] = state[p] /\ pc'[p] = pc[p]
      BY <1>4, <2>0, <2>1 DEF Go, ReadSucceeds, ReadFails, StoreReading, SettleState, BuildUpdate,
         ApplyUpdate
    <3> QED
      BY <2>0, <3>1 DEF ReadRight, StateRight, Settled, HalfSettled, ValueAt, TooManyFailures
  <2>2. CASE p = q /\ ReadSucceeds(q)
    <3>1. /\ read'[p] = [ok |-> TRUE, m |-> Sample(p)] /\ state' = state
          /\ pc[p] # "settle" /\ pc'[p] # "settle"
      BY <2>0, <2>2 DEF Go, ReadSucceeds
    <3>2. Len(hist[p]) \in Nat \ {0}
      BY <1>0, SampleType
    <3>3. ReadRight(p)'
      BY <2>0, <3>1, <3>2 DEF ReadRight, StateRight, Sample, Current
    <3> QED
      BY <2>0, <3>1, <3>3 DEF StateRight, Settled, ValueAt, TooManyFailures
  <2>3. CASE p = q /\ (ReadFails(q) \/ BuildUpdate(q) \/ ApplyUpdate(q))
    <3>1. /\ ~read'[p].ok \/ read'[p] = read[p]
          /\ state' = state
          /\ pc[p] # "settle" /\ pc'[p] # "settle"
      BY <2>0, <2>3 DEF Go, ReadFails, BuildUpdate, ApplyUpdate, NoReading
    <3> QED
      BY <2>0, <3>1 DEF ReadRight, StateRight, Settled, ValueAt, TooManyFailures
  <2>4. CASE p = q /\ StoreReading(q)
    <3>1. /\ read' = read
          /\ state'[p] = IF read[p].ok THEN StoreValue(state[p], read[p].m) ELSE MarkFailed(state[p])
          /\ pc[p] # "settle" /\ pc'[p] = "settle"
      BY <2>0, <2>4 DEF Go, StoreReading
    <3>2. read[p].m \in Measurements /\ read[p].m.ver \in Nat /\ state[p] \in PointState
      BY <2>0 DEF Reading, Measurements
    <3>3. CASE read[p].ok
      <4>1. state'[p].ver = read[p].m.ver /\ state'[p].analog_value = read[p].m.value
        BY <3>1, <3>2, <3>3, StoredFields
      <4>2. ReadRight(p)'
        BY <2>0, <3>1, <3>2, <3>3, <4>1 DEF ReadRight
      <4>3. state'[p].ver \in 1 .. Len(hist[p]) /\ state'[p].analog_value = hist[p][state'[p].ver]
        BY <2>0, <3>3, <4>1 DEF ReadRight
      <4>4. HalfSettled(p)'
        BY <2>0, <3>1, <3>3, <4>3 DEF HalfSettled, ValueAt
      <4> QED
        BY <2>0, <3>1, <4>2, <4>3, <4>4 DEF StateRight
    <3>4. CASE ~read[p].ok
      <4>1. /\ state'[p].ver = state[p].ver /\ state'[p].analog_value = state[p].analog_value
            /\ ~state'[p].connection_status
            /\ TooManyFailures(state[p]) => TooManyFailures(state'[p])
        BY <3>1, <3>2, <3>4, StoredFields
      <4>2. HalfSettled(p)'
        BY <2>0, <3>1, <3>4, <4>1 DEF HalfSettled, StateRight, Settled, ValueAt, TooManyFailures
      <4> QED
        BY <2>0, <3>1, <3>4, <4>1, <4>2 DEF StateRight, ReadRight
    <3> QED BY <3>3, <3>4
  <2>5. CASE p = q /\ SettleState(q)
    <3>1. /\ read'[p] = NoReading
          /\ state'[p] = IF read[p].ok THEN MarkConnected(state[p]) ELSE ZeroAfterFailures(state[p])
          /\ pc[p] = "settle" /\ pc'[p] # "settle"
      BY <2>0, <2>5 DEF Go, SettleState
    <3>2. state[p] \in PointState
      BY <2>0
    <3>3. CASE read[p].ok
      <4>1. /\ state'[p].ver = state[p].ver /\ state'[p].analog_value = state[p].analog_value
            /\ state'[p].failure_count = 0 /\ ~TooManyFailures(state'[p])
        BY <3>1, <3>2, <3>3, SettledFields
      <4> QED
        BY <2>0, <3>1, <3>3, <4>1
           DEF StateRight, ReadRight, HalfSettled, Settled, ValueAt, NoReading, TooManyFailures
    <3>4. CASE ~read[p].ok
      <4>1. /\ state'[p].ver = state[p].ver
            /\ state'[p].connection_status = state[p].connection_status
            /\ TooManyFailures(state'[p]) <=> TooManyFailures(state[p])
            /\ state'[p].analog_value = IF TooManyFailures(state[p]) THEN 0 ELSE state[p].analog_value
        BY <3>1, <3>2, <3>4, SettledFields
      <4> QED
        BY <2>0, <3>1, <3>4, <4>1
           DEF StateRight, ReadRight, HalfSettled, Settled, ValueAt, NoReading, TooManyFailures
    <3> QED BY <3>3, <3>4
  <2> QED BY <1>4, <2>1, <2>2, <2>3, <2>4, <2>5
<1> QED
  BY <1>1, <1>2, <1>3, <1>4, StepKinds

\* data_mutex keeps the states whole: nobody but the polling thread inside it
\* can meet a value that does not go with its failure count.
THEOREM SettledStatesHold == Spec => []OthersSeeSettledStates
<1> DEFINE Inv == TypeOK /\ CommandOK /\ StatesRight
<1>1. Init => Inv
  BY ControlInit, DataInit, RegistersInit, StatesInit DEF TypeOK
<1>2. Inv /\ [Next]_vars => Inv'
  BY TypeStep, CommandStep, StatesStep
<1>3. Inv /\ MutexesHeldInScope => OthersSeeSettledStates
  <2> SUFFICES ASSUME Inv, MutexesHeldInScope, NEW p \in Points, owner["data"] # p PROVE Settled(p)
    BY DEF OthersSeeSettledStates
  <2>1. pc[p] # "settle"
    BY DEF MutexesHeldInScope, Mutexes, Inside, Threads
  <2> QED BY <2>1 DEF StatesRight, StateRight
<1> QED
  BY <1>1, <1>2, <1>3, ScopesHold, PTL DEF Spec

(***************************************************************************)
(* Updates on their way to the database.                                   *)
(***************************************************************************)
\* A settled state is published as it is, or as zero: the conversion of a binary
\* to a bit loses nothing, since its register is a bit.
LEMMA PublishedGenuine ==
    ASSUME TypeOK, RegistersOK, StatesRight, NEW p \in Points, pc[p] # "settle"
    PROVE  /\ Genuine(p, Published(p, state[p]))
           /\ Published(p, state[p]).ver = state[p].ver
           /\ Published(p, state[p]) \in Measurements
<1>1. state[p] \in PointState /\ hist[p] \in Seq(Values)
  BY DEF TypeOK, DataOK
<1>2. Published(p, state[p]) \in Measurements
  BY <1>1, PublishedType
<1>3. state[p].ver \in 0 .. Len(hist[p]) /\ Settled(p)
  BY DEF StatesRight, StateRight
<1>4. Published(p, state[p]).ver = state[p].ver
  BY DEF Published
<1>5. ~TooManyFailures(state[p]) => state[p].analog_value = ValueAt(p, state[p].ver)
  BY <1>3 DEF Settled, ValueAt
<1>6. p \in Binary => ValueAt(p, state[p].ver) \in {0, 1}
  BY <1>1, <1>3 DEF ValueAt, RegistersOK, RegisterValues
<1>7. \/ Published(p, state[p]).value = 0
      \/ Published(p, state[p]).value = ValueAt(p, state[p].ver)
  BY <1>5, <1>6 DEF Published
<1> QED
  BY <1>2, <1>3, <1>4, <1>7 DEF Genuine

LEMMA InitialUpdate ==
    /\ \A p \in Points : Published(p, InitialState) = Unread
    /\ Unread # Untouched
BY BoundsAssumption DEF Published, InitialState, Unread, Untouched, TooManyFailures

LEMMA UpdatesInit == Init => UpdatesRight
<1> SUFFICES ASSUME Init PROVE UpdatesRight
  OBVIOUS
<1>1. /\ queue = <<[p \in Points |-> Unread]>>
      /\ DOMAIN queue = {1}
  BY InitialUpdate DEF Init
<1>2. ASSUME NEW p \in Points PROVE BuiltRight(p) /\ QueueRight(p) /\ LatestRight(p)
  <2>1. /\ db[p] = Unread /\ state[p] = InitialState
        /\ queue[1][p] = Unread
    BY <1>1 DEF Init
  <2>2. pc[p] = "loop"
    BY PointsAssumption DEF Init, Threads
  <2>3. Pending(p) = {1}
    BY <1>1, <2>1, InitialUpdate DEF Pending, Covers
  <2>4. Len(hist[p]) \in Nat
    BY DataInit, SampleType
  <2>5. Genuine(p, Unread) /\ Unread.ver = 0 /\ state[p].ver = 0
    BY <2>1, <2>4 DEF Genuine, Unread, InitialState
  <2>6. QueueRight(p)
    BY <2>1, <2>3, <2>5 DEF QueueRight
  <2>7. LatestRight(p)
    BY <2>1, <2>3, InitialUpdate DEF LatestRight, Latest
  <2> QED BY <2>2, <2>6, <2>7 DEF BuiltRight
<1> QED
  BY <1>1, <1>2 DEF UpdatesRight, ShapesRight

\* The executor takes the first update of the queue.
LEMMA FirstRuns ==
    ASSUME TypeOK, RunUpdate
    PROVE  /\ Len(queue) \in Nat \ {0} /\ DOMAIN queue = 1 .. Len(queue)
           /\ DOMAIN queue' = 1 .. Len(queue) - 1
           /\ \A i \in 1 .. Len(queue) - 1 : queue'[i] = queue[i + 1]
           /\ \A p \in Points : db'[p] = IF 1 \in Pending(p) THEN queue[1][p] ELSE db[p]
           /\ \A p \in Points : \A i \in Pending(p)' : i + 1 \in Pending(p)
           /\ \A p \in Points : \A i \in Pending(p) : i = 1 \/ i - 1 \in Pending(p)'
<1>1. queue \in Seq(Updates) /\ queue # <<>> /\ queue' = Tail(queue)
  BY DEF TypeOK, DataOK, RunUpdate
<1>2. /\ Len(queue) \in Nat \ {0} /\ DOMAIN queue = 1 .. Len(queue)
      /\ DOMAIN queue' = 1 .. Len(queue) - 1
      /\ \A i \in 1 .. Len(queue) - 1 : queue'[i] = queue[i + 1]
      /\ Head(queue) = queue[1]
  BY <1>1
<1>3. \A p \in Points : db'[p] = IF 1 \in Pending(p) THEN queue[1][p] ELSE db[p]
  BY <1>2 DEF RunUpdate, Pending
<1>4. \A p \in Points : \A i \in Pending(p)' : i + 1 \in Pending(p)
  BY <1>2 DEF Pending, Covers
<1>5. \A p \in Points : \A i \in Pending(p) : i = 1 \/ i - 1 \in Pending(p)'
  BY <1>2 DEF Pending, Covers
<1> QED
  BY <1>2, <1>3, <1>4, <1>5

LEMMA PendingTypes ==
    ASSUME TypeOK, NEW p \in Points
    PROVE  /\ db[p] \in Measurements /\ db[p].ver \in Nat
           /\ state[p].ver \in Nat
           /\ \A i \in Pending(p) : /\ i \in Nat \ {0}
                                    /\ queue[i][p] \in Measurements
                                    /\ queue[i][p].ver \in Nat
<1>1. ASSUME NEW i \in Pending(p) PROVE i \in Nat \ {0} /\ queue[i][p] \in Measurements
  <2>1. i \in 1 .. Len(queue) /\ queue[i] \in Updates
    BY DEF TypeOK, DataOK, Pending
  <2> QED BY <2>1 DEF TypeOK, DataOK, Pending, Covers, Updates
<1> QED
  BY <1>1 DEF TypeOK, DataOK, Measurements, PointState

LEMMA UpdatesRun ==
    ASSUME TypeOK, UpdatesRight, RunUpdate
    PROVE  UpdatesRight'
<1>1. UNCHANGED <<pc, state, update, hist>>
  BY DEF RunUpdate
<1>2. ShapesRight'
  <2>1. \A i \in DOMAIN queue' : i + 1 \in DOMAIN queue /\ queue'[i] = queue[i + 1]
    BY FirstRuns
  <2> QED BY <2>1 DEF UpdatesRight, ShapesRight, Single, Covers
<1>3. ASSUME NEW p \in Points PROVE (BuiltRight(p) /\ QueueRight(p) /\ LatestRight(p))'
  <2>1. BuiltRight(p) /\ QueueRight(p) /\ LatestRight(p)
    BY DEF UpdatesRight
  <2>2. /\ db'[p] = IF 1 \in Pending(p) THEN queue[1][p] ELSE db[p]
        /\ \A i \in Pending(p)' : /\ i \in Nat \ {0} /\ i + 1 \in Pending(p)
                                  /\ queue'[i] = queue[i + 1]
        /\ \A i \in Pending(p) : i = 1 \/ i - 1 \in Pending(p)'
    BY FirstRuns DEF Pending
  <2>3. Genuine(p, db[p])' /\ db'[p].ver <= state'[p].ver
    BY <1>1, <2>1, <2>2 DEF QueueRight, Genuine, ValueAt
  <2>4. ASSUME NEW i \in Pending(p)'
        PROVE  /\ Genuine(p, queue[i][p])'
               /\ db'[p].ver <= queue'[i][p].ver
               /\ queue'[i][p].ver <= state'[p].ver
    <3>1. i + 1 \in Pending(p) /\ queue'[i][p] = queue[i + 1][p] /\ 1 <= i + 1
      BY <2>2
    <3> QED
      BY <1>1, <2>1, <2>2, <3>1 DEF QueueRight, Genuine, ValueAt
  <2>5. \A i, j \in Pending(p)' : i <= j => queue'[i][p].ver <= queue'[j][p].ver
    <3> SUFFICES ASSUME NEW i \in Pending(p)', NEW j \in Pending(p)', i <= j
                 PROVE  queue'[i][p].ver <= queue'[j][p].ver
      OBVIOUS
    <3>1. /\ i + 1 \in Pending(p) /\ queue'[i][p] = queue[i + 1][p]
          /\ j + 1 \in Pending(p) /\ queue'[j][p] = queue[j + 1][p]
          /\ i + 1 <= j + 1
      BY <2>2
    <3> QED BY <2>1, <3>1 DEF QueueRight
  <2>6. QueueRight(p)'
    BY <2>3, <2>4, <2>5 DEF QueueRight
  <2>7. LatestRight(p)'
    <3> SUFFICES ASSUME pc[p] \in Quiet PROVE Latest(p, Published(p, state[p]))'
      BY <1>1 DEF LatestRight
    <3> DEFINE m == Published(p, state[p])
    <3>0. m' = m
      BY <1>1 DEF Published, TooManyFailures
    <3>1. Latest(p, m)
      BY <2>1 DEF LatestRight
    <3> HIDE DEF m
    <3>2. ASSUME Pending(p) = {} /\ db[p] = m PROVE Latest(p, m)'
      BY <2>2, <3>0, <3>2 DEF Latest
    <3>3. ASSUME NEW i \in Pending(p), queue[i][p] = m, \A j \in Pending(p) : j <= i
          PROVE  Latest(p, m)'
      <4>0. i \in Nat \ {0}
        BY PendingTypes
      <4>1. CASE i = 1
        <5>1. Pending(p)' = {}
          BY <2>2, <3>3, <4>1
        <5> QED BY <2>2, <3>0, <3>3, <4>1, <5>1 DEF Latest
      <4>2. CASE i # 1
        <5>1. i - 1 \in Pending(p)' /\ queue'[i - 1][p] = m'
          BY <2>2, <3>0, <3>3, <4>0, <4>2
        <5>2. \A j \in Pending(p)' : j <= i - 1
          BY <2>2, <3>3, <4>0
        <5> QED BY <5>1, <5>2 DEF Latest
      <4> QED BY <4>1, <4>2
    <3> QED BY <3>1, <3>2, <3>3 DEF Latest, m
  <2> QED
    BY <1>1, <2>1, <2>6, <2>7 DEF BuiltRight, Published, TooManyFailures
<1> QED
  BY <1>2, <1>3 DEF UpdatesRight

\* A poller posts the update it has built.
LEMMA UpdatesApply ==
    ASSUME TypeOK, RegistersOK, StatesRight, UpdatesRight, NEW q \in Points, ApplyUpdate(q)
    PROVE  UpdatesRight'
<1> DEFINE m == Published(q, state[q])
           u == [x \in Points |-> IF x = q THEN m ELSE Untouched]
<1>1. /\ UNCHANGED <<state, db, hist>>
      /\ queue' = Append(queue, [x \in Points |-> IF x = q THEN update[q] ELSE Untouched])
      /\ pc[q] = "apply" /\ pc' = [pc EXCEPT ![q] = "loop"]
      /\ \A p \in Points \ {q} : update'[p] = update[p]
  BY DEF ApplyUpdate, Go, TypeOK, DataOK
<1>2. update[q] = m
  BY <1>1 DEF UpdatesRight, BuiltRight
<1>3. m \in Measurements /\ m # Untouched /\ m.ver = state[q].ver /\ Genuine(q, m)
  <2>1. m \in Measurements /\ m.ver = state[q].ver /\ Genuine(q, m)
    BY <1>1, PublishedGenuine
  <2>2. m.ver \in Nat
    BY <2>1 DEF Measurements
  <2> HIDE DEF m
  <2> QED BY <2>1, <2>2 DEF Untouched
<1> HIDE DEF m
<1>4. u \in Updates /\ queue \in Seq(Updates) /\ queue' = Append(queue, u)
  BY <1>1, <1>2, <1>3 DEF TypeOK, DataOK, Updates
<1>5. /\ Len(queue) \in Nat
      /\ DOMAIN queue = 1 .. Len(queue)
      /\ DOMAIN queue' = 1 .. Len(queue) + 1
      /\ \A i \in 1 .. Len(queue) : queue'[i] = queue[i]
      /\ queue'[Len(queue) + 1] = u
  BY <1>4
<1>6. ShapesRight'
  <2>1. Single(u)
    BY DEF Single, Covers
  <2>2. ASSUME NEW i \in DOMAIN queue'
        PROVE  Single(queue'[i]) \/ queue'[i] = [p \in Points |-> Unread]
    <3>1. CASE i \in DOMAIN queue
      BY <1>5, <3>1 DEF UpdatesRight, ShapesRight
    <3>2. CASE i = Len(queue) + 1
      BY <1>5, <2>1, <3>2
    <3> QED BY <1>5, <3>1, <3>2
  <2> QED BY <2>2 DEF ShapesRight, Single, Covers
<1>7. ASSUME NEW p \in Points, p # q PROVE (BuiltRight(p) /\ QueueRight(p) /\ LatestRight(p))'
  <2>1. BuiltRight(p) /\ QueueRight(p) /\ LatestRight(p)
    BY DEF UpdatesRight
  <2>2. Pending(p)' = Pending(p)
    BY <1>5, <1>7 DEF Pending, Covers
  <2>3. \A i \in Pending(p) : queue'[i] = queue[i]
    BY <1>5 DEF Pending
  <2>4. pc'[p] = pc[p]
    BY <1>1, <1>7 DEF TypeOK, ControlOK, Threads
  <2>5. BuiltRight(p)'
    BY <1>1, <1>7, <2>1, <2>4 DEF BuiltRight, Published, TooManyFailures
  <2>6. QueueRight(p)'
    BY <1>1, <2>1, <2>2, <2>3 DEF QueueRight, Genuine, ValueAt
  <2>7. LatestRight(p)'
    BY <1>1, <2>1, <2>2, <2>3, <2>4 DEF LatestRight, Latest, Published, TooManyFailures
  <2> QED BY <2>5, <2>6, <2>7
<1>8. (BuiltRight(q) /\ QueueRight(q) /\ LatestRight(q))'
  <2>1. QueueRight(q)
    BY DEF UpdatesRight
  <2>2. pc'[q] = "loop"
    BY <1>1 DEF TypeOK, ControlOK, Threads
  <2>3. Pending(q)' = Pending(q) \cup {Len(queue) + 1}
    BY <1>3, <1>5 DEF Pending, Covers
  <2>4. /\ \A i \in Pending(q) : queue'[i] = queue[i] /\ i \in Nat /\ i < Len(queue) + 1
        /\ queue'[Len(queue) + 1][q] = m
    BY <1>5 DEF Pending
  <2>5. m' = m
    BY <1>1 DEF m, Published, TooManyFailures
  <2>7. QueueRight(q)'
    <3>1. Genuine(q, db[q])' /\ db'[q].ver <= state'[q].ver
      BY <1>1, <2>1 DEF QueueRight, Genuine, ValueAt
    <3>2. ASSUME NEW i \in Pending(q)'
          PROVE  /\ Genuine(q, queue[i][q])'
                 /\ db'[q].ver <= queue'[i][q].ver
                 /\ queue'[i][q].ver <= state'[q].ver
      <4>1. CASE i \in Pending(q)
        BY <1>1, <2>1, <2>4, <4>1 DEF QueueRight, Genuine, ValueAt
      <4>2. CASE i = Len(queue) + 1
        BY <1>1, <1>3, <2>1, <2>4, <4>2, PendingTypes DEF QueueRight, Genuine, ValueAt
      <4> QED BY <2>3, <4>1, <4>2
    <3>3. ASSUME NEW i \in Pending(q)', NEW j \in Pending(q)', i <= j
          PROVE  queue'[i][q].ver <= queue'[j][q].ver
      <4>1. CASE i \in Pending(q) /\ j \in Pending(q)
        BY <2>1, <2>4, <3>3, <4>1 DEF QueueRight
      <4>2. CASE j = Len(queue) + 1
        BY <1>1, <1>3, <2>4, <3>2, <4>2
      <4>3. CASE i = Len(queue) + 1 /\ j \in Pending(q)
        BY <1>5, <2>4, <3>3, <4>3
      <4> QED BY <2>3, <4>1, <4>2, <4>3
    <3> QED BY <3>1, <3>2, <3>3 DEF QueueRight
  <2>8. Latest(q, m)'
    <3>1. /\ Len(queue) + 1 \in Pending(q)'
          /\ queue'[Len(queue) + 1][q] = m'
          /\ \A j \in Pending(q)' : j <= Len(queue) + 1
      BY <1>5, <2>3, <2>4, <2>5
    <3> QED BY <3>1 DEF Latest
  <2> QED BY <2>2, <2>7, <2>8 DEF BuiltRight, LatestRight, m
<1> QED
  BY <1>6, <1>7, <1>8 DEF UpdatesRight

\* A register takes a value: no position changes its meaning.
LEMMA UpdatesTake ==
    ASSUME TypeOK, UpdatesRight, NEW q \in Points, NEW v \in RegisterValues(q), Takes(q, v)
    PROVE  UpdatesRight'
<1>1. UNCHANGED <<state, update, queue, db>>
  BY DEF Takes
<1>2. ASSUME NEW p \in Points PROVE (BuiltRight(p) /\ QueueRight(p) /\ LatestRight(p))'
  <2>1. BuiltRight(p) /\ QueueRight(p) /\ LatestRight(p)
    BY DEF UpdatesRight
  <2>2. pc'[p] = pc[p] /\ Pending(p)' = Pending(p)
    BY <1>1 DEF Takes, Pending
  <2>3. /\ Len(hist[p]) \in Nat /\ Len(hist'[p]) \in Nat
        /\ Len(hist[p]) <= Len(hist'[p])
        /\ \A k \in 1 .. Len(hist[p]) : hist'[p][k] = hist[p][k]
    BY Grown DEF TypeOK
  <2>4. Genuine(p, db[p])'
    BY <1>1, <2>1, <2>3 DEF QueueRight, Genuine, ValueAt
  <2>5. \A i \in Pending(p) : Genuine(p, queue[i][p])'
    BY <1>1, <2>1, <2>3 DEF QueueRight, Genuine, ValueAt
  <2>6. QueueRight(p)'
    BY <1>1, <2>1, <2>2, <2>4, <2>5 DEF QueueRight
  <2> QED
    BY <1>1, <2>1, <2>2, <2>6 DEF BuiltRight, LatestRight, Latest, Published, TooManyFailures
<1> QED
  BY <1>1, <1>2 DEF UpdatesRight, ShapesRight, Single, Covers

\* The steps of a poller before it posts: positions of its state only grow.
LEMMA UpdatesPoll ==
    ASSUME TypeOK, StatesRight, UpdatesRight, NEW q \in Points,
           ReadSucceeds(q) \/ ReadFails(q) \/ StoreReading(q) \/ SettleState(q) \/ BuildUpdate(q)
    PROVE  UpdatesRight'
<1>0. ControlOK /\ DataOK /\ q \in Threads /\ Points \subseteq Threads
  BY DEF TypeOK, Threads
<1>1. UNCHANGED <<queue, db, hist>>
  BY DEF ReadSucceeds, ReadFails, StoreReading, SettleState, BuildUpdate
<1>2. \A p \in Points \ {q} :
          state'[p] = state[p] /\ pc'[p] = pc[p] /\ update'[p] = update[p]
  BY <1>0 DEF ReadSucceeds, ReadFails, StoreReading, SettleState, BuildUpdate, Go, ControlOK, DataOK
<1>3. state[q].ver <= state'[q].ver
  <2>0. state[q] \in PointState /\ state[q].ver \in Nat /\ read[q].m \in Measurements
    BY <1>0 DEF DataOK, PointState, Reading
  <2>1. CASE StoreReading(q)
    <3>1. state'[q] = IF read[q].ok THEN StoreValue(state[q], read[q].m) ELSE MarkFailed(state[q])
      BY <1>0, <2>1 DEF StoreReading, DataOK
    <3>2. ReadRight(q)
      BY DEF StatesRight
    <3> QED BY <2>0, <3>1, <3>2, StoredFields DEF ReadRight
  <2>2. CASE SettleState(q)
    <3>1. state'[q] = IF read[q].ok THEN MarkConnected(state[q]) ELSE ZeroAfterFailures(state[q])
      BY <1>0, <2>2 DEF SettleState, DataOK
    <3> QED BY <2>0, <3>1, SettledFields
  <2>3. CASE ReadSucceeds(q) \/ ReadFails(q) \/ BuildUpdate(q)
    BY <2>0, <2>3 DEF ReadSucceeds, ReadFails, BuildUpdate
  <2> QED BY <2>1, <2>2, <2>3
<1>4. /\ pc'[q] = "apply" => update'[q] = Published(q, state[q]) /\ state' = state
      /\ pc'[q] \in Quiet => state' = state /\ pc[q] \in Quiet
  BY <1>0 DEF ReadSucceeds, ReadFails, StoreReading, SettleState, BuildUpdate, Go, ControlOK,
     DataOK, Quiet
<1>5. ASSUME NEW p \in Points PROVE (BuiltRight(p) /\ QueueRight(p) /\ LatestRight(p))'
  <2>1. BuiltRight(p) /\ QueueRight(p) /\ LatestRight(p)
    BY DEF UpdatesRight
  <2>2. Pending(p)' = Pending(p)
    BY <1>1 DEF Pending
  <2>3. state[p].ver <= state'[p].ver /\ state[p].ver \in Nat /\ state'[p].ver \in Nat
    <3>1. state[p].ver \in Nat
      BY <1>0 DEF DataOK, PointState
    <3>2. state'[p].ver \in Nat
      <4>1. DataOK' BY DataStep DEF Next, PollPoint
      <4> QED BY <4>1 DEF DataOK, PointState
    <3> QED BY <1>2, <1>3, <3>1, <3>2
  <2>4. QueueRight(p)'
    BY <1>1, <2>1, <2>2, <2>3, PendingTypes DEF QueueRight, Genuine, ValueAt
  <2>5. CASE p # q
    BY <1>1, <1>2, <2>1, <2>2, <2>4, <2>5
       DEF BuiltRight, LatestRight, Latest, Published, TooManyFailures
  <2>6. CASE p = q
    BY <1>1, <1>4, <2>1, <2>2, <2>4, <2>6
       DEF BuiltRight, LatestRight, Latest, Published, TooManyFailures
  <2> QED BY <2>5, <2>6
<1> QED
  BY <1>1, <1>5 DEF UpdatesRight, ShapesRight, Single, Covers

\* The whole invariant.
DataInv == TypeOK /\ CommandOK /\ RegistersOK /\ StatesRight /\ UpdatesRight

LEMMA DataInvInit == Init => DataInv
BY ControlInit, DataInit, RegistersInit, StatesInit, UpdatesInit DEF DataInv, TypeOK

LEMMA DataInvStep == DataInv /\ [Next]_vars => DataInv'
<1> SUFFICES ASSUME DataInv, [Next]_vars PROVE UpdatesRight'
  BY TypeStep, CommandStep, RegistersStep, StatesStep DEF DataInv
<1> USE DEF DataInv
<1>1. CASE OnlyMoves
  <2>1. UNCHANGED <<state, update, queue, db, hist>>
    BY <1>1 DEF OnlyMoves
  <2>2. ASSUME NEW p \in Points PROVE (BuiltRight(p) /\ QueueRight(p) /\ LatestRight(p))'
    <3>1. BuiltRight(p) /\ QueueRight(p) /\ LatestRight(p)
      BY DEF UpdatesRight
    <3>2. Pending(p)' = Pending(p)
      BY <2>1 DEF Pending
    <3>3. (pc'[p] = "apply" => pc[p] = "apply") /\ (pc'[p] \in Quiet => pc[p] \in Quiet)
      BY <1>1 DEF OnlyMoves
    <3> QED
      BY <2>1, <3>1, <3>2, <3>3 DEF BuiltRight, QueueRight, LatestRight, Latest, Genuine, ValueAt,
         Published, TooManyFailures
  <2> QED BY <2>1, <2>2 DEF UpdatesRight, ShapesRight, Single, Covers
<1>2. CASE RunUpdate
  BY <1>2, UpdatesRun
<1>3. ASSUME NEW q \in Points, NEW v \in RegisterValues(q), Takes(q, v) PROVE UpdatesRight'
  BY <1>3, UpdatesTake
<1>4. ASSUME NEW q \in Points,
             ReadSucceeds(q) \/ ReadFails(q) \/ StoreReading(q) \/ SettleState(q) \/ BuildUpdate(q)
      PROVE  UpdatesRight'
  BY <1>4, UpdatesPoll
<1>5. ASSUME NEW q \in Points, ApplyUpdate(q) PROVE UpdatesRight'
  BY <1>5, UpdatesApply
<1> QED
  BY <1>1, <1>2, <1>3, <1>4, <1>5, StepKinds

\* Nothing a poller has stored stays unpublished: outside the stretch from its
\* store to its Apply, the last update posted for a point says what the state says.
THEOREM NothingUnpublishedHolds == Spec => []NothingUnpublished
<1>1. DataInv => NothingUnpublished
  <2> SUFFICES ASSUME DataInv, NEW p \in Points, pc[p] \in Quiet
               PROVE  LastPosted(p) = Published(p, state[p])
    BY DEF NothingUnpublished, Quiet
  <2>1. Latest(p, Published(p, state[p]))
    BY DEF DataInv, UpdatesRight, LatestRight
  <2>2. CASE Pending(p) = {}
    BY <2>1, <2>2 DEF Latest, LastPosted
  <2>3. ASSUME NEW i \in Pending(p), \A j \in Pending(p) : j <= i
        PROVE  LastPosted(p) = queue[i][p]
    <3> DEFINE last == CHOOSE k \in Pending(p) : \A j \in Pending(p) : j <= k
    <3>1. last \in Pending(p) /\ \A j \in Pending(p) : j <= last
      BY <2>3
    <3>2. last = i
      <4>1. \A j \in Pending(p) : j \in Nat
        BY PendingTypes DEF DataInv
      <4> HIDE DEF last
      <4> QED BY <2>3, <3>1, <4>1
    <3> QED BY <2>3, <3>2 DEF LastPosted
  <2> QED BY <2>1, <2>2, <2>3 DEF Latest
<1> QED
  BY <1>1, DataInvInit, DataInvStep, PTL DEF Spec

(***************************************************************************)
(* Gateway implements Mirror.                                              *)
(***************************************************************************)
LEMMA MirrorInit == Init => View!Init
<1> SUFFICES ASSUME Init PROVE View!Init
  OBVIOUS
<1>1. hist \in [Points -> Seq(Values)]
  BY DataInit DEF DataOK
<1>2. ASSUME NEW p \in Points PROVE Len(hist[p]) = 1
  <2>1. PICK v \in StartValues : hist[p] = <<v>>
    BY DEF Init
  <2> QED BY <2>1
<1> QED
  BY <1>1, <1>2 DEF Init, Unread, View!Init

\* An executed update shows its one point a value at least as new as before; the
\* initial update changes nothing.
LEMMA MirrorRun ==
    ASSUME DataInv, RunUpdate
    PROVE  View!Next \/ UNCHANGED <<hist, db>>
<1>0. /\ TypeOK /\ hist' = hist /\ DOMAIN db = Points
      /\ db' = [p \in Points |-> IF 1 \in Pending(p) THEN queue[1][p] ELSE db[p]]
      /\ 1 \in DOMAIN queue
  <2>1. TypeOK BY DEF DataInv
  <2>2. queue \in Seq(Updates) /\ queue # <<>> BY <2>1 DEF TypeOK, DataOK, RunUpdate
  <2>3. Head(queue) = queue[1] /\ 1 \in DOMAIN queue BY <2>2
  <2> QED BY <2>1, <2>3 DEF RunUpdate, Pending, TypeOK, DataOK
<1>1. \A p \in Points : QueueRight(p)
  BY DEF DataInv, UpdatesRight
<1>2. CASE queue[1] = [p \in Points |-> Unread]
  <2>1. ASSUME NEW p \in Points, 1 \in Pending(p) PROVE db[p] = queue[1][p]
    <3>1. db[p].ver <= queue[1][p].ver /\ queue[1][p] = Unread /\ Genuine(p, db[p])
      BY <1>1, <1>2, <2>1 DEF QueueRight
    <3>2. db[p] \in Measurements /\ db[p].ver \in Nat
      BY <1>0, PendingTypes
    <3>3. db[p].ver = 0 /\ db[p].value = 0
      BY <3>1, <3>2 DEF Genuine, ValueAt, Unread
    <3> QED BY <3>1, <3>2, <3>3 DEF Measurements, Unread
  <2>2. db' = db
    <3>1. db \in [Points -> Measurements] BY <1>0 DEF TypeOK, DataOK
    <3> QED BY <1>0, <2>1, <3>1
  <2> QED BY <1>0, <2>2
<1>3. CASE Single(queue[1])
  <2>1. PICK p \in Points : \A q \in Points \ {p} : ~Covers(queue[1], q)
    BY <1>3 DEF Single
  <2>2. \A q \in Points \ {p} : 1 \notin Pending(q)
    BY <2>1 DEF Pending
  <2>d. db \in [Points -> Measurements]
    BY <1>0 DEF TypeOK, DataOK
  <2>3. CASE 1 \notin Pending(p)
    <3>1. db' = db
      BY <1>0, <2>d, <2>2, <2>3
    <3> QED BY <1>0, <3>1
  <2>4. CASE 1 \in Pending(p)
    <3> DEFINE m == queue[1][p]
    <3>1. m \in Measurements /\ m.ver \in Nat /\ db[p].ver \in Nat
      BY <1>0, <2>4, PendingTypes
    <3>2. Genuine(p, m) /\ db[p].ver <= m.ver
      BY <1>1, <2>4 DEF QueueRight
    <3>3. db' = [db EXCEPT ![p] = m]
      BY <1>0, <2>d, <2>2, <2>4
    <3> HIDE DEF m
    <3>4. m = [value |-> m.value, ver |-> m.ver]
      BY <3>1 DEF Measurements
    <3>5. m.ver \in 0 .. Len(hist[p]) /\ m.value \in {0} \cup {hist[p][i] : i \in {m.ver} \ {0}}
      BY <3>1, <3>2 DEF Genuine, ValueAt
    <3>6. View!Show(p, m.ver)
      BY <1>0, <3>1, <3>2, <3>3, <3>4, <3>5 DEF View!Show
    <3> QED BY <3>5, <3>6 DEF View!Next
  <2> QED BY <2>3, <2>4
<1> QED
  BY <1>0, <1>2, <1>3 DEF DataInv, UpdatesRight, ShapesRight

LEMMA MirrorStep == DataInv /\ [Next]_vars => [View!Next]_<<hist, db>>
<1> SUFFICES ASSUME DataInv, [Next]_vars PROVE View!Next \/ UNCHANGED <<hist, db>>
  OBVIOUS
<1>1. ASSUME NEW p \in Points, NEW v \in RegisterValues(p), Takes(p, v) PROVE View!Next
  <2>1. v \in Values
    BY ValuesAssumption DEF RegisterValues
  <2>2. View!RegisterTakes(p, v)
    BY <1>1 DEF Takes, View!RegisterTakes
  <2> QED BY <2>1, <2>2 DEF View!Next
<1>2. CASE OnlyMoves
  BY <1>2 DEF OnlyMoves
<1>3. ASSUME NEW p \in Points, ReadSucceeds(p) \/ ReadFails(p) \/ StoreReading(p)
                               \/ SettleState(p) \/ BuildUpdate(p) \/ ApplyUpdate(p)
      PROVE  UNCHANGED <<hist, db>>
  BY <1>3 DEF ReadSucceeds, ReadFails, StoreReading, SettleState, BuildUpdate, ApplyUpdate
<1> QED
  BY <1>1, <1>2, <1>3, MirrorRun, StepKinds DEF DataInv

\* The gateway implements Mirror: what the master is shown for a point is a value
\* its register has had, or zero, and never an older one after a newer one,
\* however reads, commands and posted updates interleave.
THEOREM ImplementsMirror == Spec => MirrorsRegisters
<1> QED
  BY DataInvInit, DataInvStep, MirrorInit, MirrorStep, PTL DEF Spec, MirrorsRegisters, View!Spec

====

---------------------------- MODULE GatewayProofs ----------------------------
(***************************************************************************)
(* Proofs about Gateway for any number of points, values and bounds.       *)
(***************************************************************************)
EXTENDS Gateway, TLAPS

USE DEF Go, Free, Acquire, Release

(***************************************************************************)
(* Control: which thread is where and who holds what.                      *)
(***************************************************************************)
LEMMA ControlInit == Init => ControlOK
BY PointsAssumption DEF Init, ControlOK, Mutexes, Threads, Labels, PollLabels, ExecLabels,
   HttpLabels, ConsoleLabels

\* Every step moves at most one thread, to a label of its own.
LEMMA ControlStep == ControlOK /\ [Next]_vars => ControlOK'
<1> SUFFICES ASSUME ControlOK, [Next]_vars PROVE ControlOK'
  OBVIOUS
<1> USE PointsAssumption DEF ControlOK, Mutexes, Threads, Labels, PollLabels, ExecLabels,
        HttpLabels, ConsoleLabels
<1>1. ASSUME NEW p \in Points, PollPoint(p) PROVE ControlOK'
  <2>1. CASE PollLoop(p) BY <2>1 DEF PollLoop
  <2>2. CASE ReadLock(p) BY <2>2 DEF ReadLock
  <2>3. CASE ReadSucceeds(p) BY <2>3 DEF ReadSucceeds
  <2>4. CASE ReadFails(p) BY <2>4 DEF ReadFails
  <2>5. CASE ReadFailureLog(p) BY <2>5 DEF ReadFailureLog
  <2>6. CASE StoreLock(p) BY <2>6 DEF StoreLock
  <2>7. CASE StoreReading(p) BY <2>7 DEF StoreReading
  <2>8. CASE SettleState(p) BY <2>8 DEF SettleState
  <2>9. CASE StoreLog(p) BY <2>9 DEF StoreLog
  <2>10. CASE PublishLock(p) BY <2>10 DEF PublishLock
  <2>11. CASE BuildUpdate(p) BY <2>11 DEF BuildUpdate
  <2>12. CASE ApplyUpdate(p) BY <2>12 DEF ApplyUpdate
  <2> QED
    BY <1>1, <2>1, <2>2, <2>3, <2>4, <2>5, <2>6, <2>7, <2>8, <2>9, <2>10, <2>11, <2>12 DEF PollPoint
<1>2. ASSUME NEW p \in Points, RegisterChanges(p) PROVE ControlOK'
  BY <1>2 DEF RegisterChanges
<1>3. CASE RunUpdate BY <1>3 DEF RunUpdate
<1>4. CASE ReceiveOther BY <1>4 DEF ReceiveOther
<1>5. ASSUME NEW w \in Writes, ReceiveOperate(w) PROVE ControlOK'
  BY <1>5 DEF ReceiveOperate
<1>6. CASE LogCommand BY <1>6 DEF LogCommand
<1>7. CASE WriteLock BY <1>7 DEF WriteLock
<1>8. CASE ConnectFails BY <1>8 DEF ConnectFails, EndWrite
<1>9. CASE WriteTaken BY <1>9 DEF WriteTaken
<1>10. CASE WriteLost BY <1>10 DEF WriteLost
<1>11. CASE LogWrite BY <1>11 DEF LogWrite, EndWrite
<1>12. CASE LogResult BY <1>12 DEF LogResult
<1>13. CASE HttpStart BY <1>13 DEF HttpStart
<1>14. CASE HttpAccept BY <1>14 DEF HttpAccept
<1>15. CASE HttpRecv BY <1>15 DEF HttpRecv
<1>16. CASE PageLockData BY <1>16 DEF PageLockData
<1>17. CASE PageLockLog BY <1>17 DEF PageLockLog
<1>18. CASE PageRendered BY <1>18 DEF PageRendered
<1>19. CASE HttpSend BY <1>19 DEF HttpSend
<1>20. CASE ConsoleReport BY <1>20 DEF ConsoleReport
<1>21. CASE ConsoleOther BY <1>21 DEF ConsoleOther
<1>22. CASE ConsoleQuit BY <1>22 DEF ConsoleQuit
<1>23. CASE UNCHANGED vars BY <1>23 DEF vars
<1> QED
  BY <1>1, <1>2, <1>3, <1>4, <1>5, <1>6, <1>7, <1>8, <1>9, <1>10, <1>11, <1>12,
     <1>13, <1>14, <1>15, <1>16, <1>17, <1>18, <1>19, <1>20, <1>21, <1>22, <1>23
     DEF Next, ExecuteCommand, BuildPage

LEMMA ScopeInit == Init => MutexesHeldInScope
BY PointsAssumption DEF Init, MutexesHeldInScope, Mutexes, Threads, Inside

\* A thread enters and leaves the labels inside a mutex by the very steps that
\* make it, or stop making it, the owner.
LEMMA ScopeStep == ControlOK /\ MutexesHeldInScope /\ [Next]_vars => MutexesHeldInScope'
<1> SUFFICES ASSUME ControlOK, MutexesHeldInScope, [Next]_vars PROVE MutexesHeldInScope'
  OBVIOUS
<1> USE PointsAssumption DEF ControlOK, MutexesHeldInScope, Mutexes, Threads, Labels,
        PollLabels, ExecLabels, HttpLabels, ConsoleLabels, Inside
<1>1. ASSUME NEW p \in Points, PollPoint(p) PROVE MutexesHeldInScope'
  <2>1. CASE PollLoop(p) BY <2>1 DEF PollLoop
  <2>2. CASE ReadLock(p) BY <2>2 DEF ReadLock
  <2>3. CASE ReadSucceeds(p) BY <2>3 DEF ReadSucceeds
  <2>4. CASE ReadFails(p) BY <2>4 DEF ReadFails
  <2>5. CASE ReadFailureLog(p) BY <2>5 DEF ReadFailureLog
  <2>6. CASE StoreLock(p) BY <2>6 DEF StoreLock
  <2>7. CASE StoreReading(p) BY <2>7 DEF StoreReading
  <2>8. CASE SettleState(p) BY <2>8 DEF SettleState
  <2>9. CASE StoreLog(p) BY <2>9 DEF StoreLog
  <2>10. CASE PublishLock(p) BY <2>10 DEF PublishLock
  <2>11. CASE BuildUpdate(p) BY <2>11 DEF BuildUpdate
  <2>12. CASE ApplyUpdate(p) BY <2>12 DEF ApplyUpdate
  <2> QED
    BY <1>1, <2>1, <2>2, <2>3, <2>4, <2>5, <2>6, <2>7, <2>8, <2>9, <2>10, <2>11, <2>12 DEF PollPoint
<1>2. ASSUME NEW p \in Points, RegisterChanges(p) PROVE MutexesHeldInScope'
  BY <1>2 DEF RegisterChanges
<1>3. CASE RunUpdate BY <1>3 DEF RunUpdate
<1>4. CASE ReceiveOther BY <1>4 DEF ReceiveOther
<1>5. ASSUME NEW w \in Writes, ReceiveOperate(w) PROVE MutexesHeldInScope'
  BY <1>5 DEF ReceiveOperate
<1>6. CASE LogCommand BY <1>6 DEF LogCommand
<1>7. CASE WriteLock BY <1>7 DEF WriteLock
<1>8. CASE ConnectFails BY <1>8 DEF ConnectFails, EndWrite
<1>9. CASE WriteTaken BY <1>9 DEF WriteTaken
<1>10. CASE WriteLost BY <1>10 DEF WriteLost
<1>11. CASE LogWrite BY <1>11 DEF LogWrite, EndWrite
<1>12. CASE LogResult BY <1>12 DEF LogResult
<1>13. CASE HttpStart BY <1>13 DEF HttpStart
<1>14. CASE HttpAccept BY <1>14 DEF HttpAccept
<1>15. CASE HttpRecv BY <1>15 DEF HttpRecv
<1>16. CASE PageLockData BY <1>16 DEF PageLockData
<1>17. CASE PageLockLog BY <1>17 DEF PageLockLog
<1>18. CASE PageRendered BY <1>18 DEF PageRendered
<1>19. CASE HttpSend BY <1>19 DEF HttpSend
<1>20. CASE ConsoleReport BY <1>20 DEF ConsoleReport
<1>21. CASE ConsoleOther BY <1>21 DEF ConsoleOther
<1>22. CASE ConsoleQuit BY <1>22 DEF ConsoleQuit
<1>23. CASE UNCHANGED vars BY <1>23 DEF vars
<1> QED
  BY <1>1, <1>2, <1>3, <1>4, <1>5, <1>6, <1>7, <1>8, <1>9, <1>10, <1>11, <1>12,
     <1>13, <1>14, <1>15, <1>16, <1>17, <1>18, <1>19, <1>20, <1>21, <1>22, <1>23
     DEF Next, ExecuteCommand, BuildPage

(***************************************************************************)
(* Waiting.                                                                *)
(***************************************************************************)
\* What a thread holds while it waits, label by label.
LEMMA OrderFromScope == ControlOK /\ MutexesHeldInScope => LockOrder
<1> SUFFICES ASSUME ControlOK, MutexesHeldInScope,
                    NEW t \in Threads, NEW m \in Mutexes, NEW n \in Mutexes,
                    pc[t] \in Awaiting(m), owner[n] = t
             PROVE  Rank(n) < Rank(m)
  BY DEF LockOrder
<1>1. pc[t] \in Inside(n)
  BY DEF MutexesHeldInScope
<1> QED
  BY <1>1 DEF Mutexes, Inside, Awaiting, Rank

\* In a circle every thread waits for a mutex that a thread of the circle holds
\* while it waits for one of a higher rank, and there are three ranks.
LEMMA NoCycleFromOrder == ControlOK /\ LockOrder => NoWaitCycle
<1> SUFFICES ASSUME ControlOK, LockOrder, NEW S \in (SUBSET Threads) \ {{}}
             PROVE  \E t \in S : \A m \in Mutexes : pc[t] \in Awaiting(m) => owner[m] \notin S
  BY DEF NoWaitCycle
<1> SUFFICES ASSUME \A t \in S : \E m \in Mutexes : pc[t] \in Awaiting(m) /\ owner[m] \in S
             PROVE  FALSE
  OBVIOUS
<1>1. \A m \in Mutexes : Rank(m) \in 1 .. 3
  BY DEF Mutexes, Rank
<1>2. ASSUME NEW t \in S, NEW m \in Mutexes, pc[t] \in Awaiting(m), owner[m] \in S
      PROVE  \E u \in S, n \in Mutexes :
                 pc[u] \in Awaiting(n) /\ owner[n] \in S /\ Rank(m) < Rank(n)
  BY <1>2 DEF LockOrder
<1>3. PICK t1 \in S, m1 \in Mutexes : pc[t1] \in Awaiting(m1) /\ owner[m1] \in S
  OBVIOUS
<1>4. PICK t2 \in S, m2 \in Mutexes :
          pc[t2] \in Awaiting(m2) /\ owner[m2] \in S /\ Rank(m1) < Rank(m2)
  BY <1>2, <1>3
<1>5. PICK t3 \in S, m3 \in Mutexes :
          pc[t3] \in Awaiting(m3) /\ owner[m3] \in S /\ Rank(m2) < Rank(m3)
  BY <1>2, <1>4
<1>6. PICK t4 \in S, m4 \in Mutexes :
          pc[t4] \in Awaiting(m4) /\ owner[m4] \in S /\ Rank(m3) < Rank(m4)
  BY <1>2, <1>5
<1> QED
  BY <1>1, <1>4, <1>5, <1>6

\* lock_guard scopes: each of the four mutexes is held by the thread that is
\* inside its scope and by no other, on every path of every thread.
THEOREM ScopesHold == Spec => []MutexesHeldInScope
<1>1. Init => ControlOK /\ MutexesHeldInScope
  BY ControlInit, ScopeInit
<1>2. ControlOK /\ MutexesHeldInScope /\ [Next]_vars => (ControlOK /\ MutexesHeldInScope)'
  BY ControlStep, ScopeStep
<1> QED
  BY <1>1, <1>2, PTL DEF Spec

\* The threads take modbus_access_mutex, dnp3_update_mutex, data_mutex and
\* log_mutex in rank order, for any number of polling threads.
THEOREM LockOrderHolds == Spec => []LockOrder
<1>1. Init => ControlOK
  BY ControlInit
<1>2. ControlOK /\ [Next]_vars => ControlOK'
  BY ControlStep
<1> QED
  BY <1>1, <1>2, ScopesHold, OrderFromScope, PTL DEF Spec

\* No group of polling threads, executor, panel and console ever waits in a
\* circle for the mutexes, for any number of polling threads.
THEOREM NoWaitCycleEver == Spec => []NoWaitCycle
<1>1. Init => ControlOK
  BY ControlInit
<1>2. ControlOK /\ [Next]_vars => ControlOK'
  BY ControlStep
<1> QED
  BY <1>1, <1>2, LockOrderHolds, NoCycleFromOrder, PTL DEF Spec

(***************************************************************************)
(* Types of the data.                                                      *)
(***************************************************************************)
LEMMA PublishedType ==
    ASSUME NEW p \in Points, NEW s \in PointState
    PROVE  Published(p, s) \in Measurements
BY ValuesAssumption DEF Published, PointState, Measurements, TooManyFailures

LEMMA StateTypes ==
    ASSUME NEW s \in PointState, NEW m \in Measurements
    PROVE  /\ StoreValue(s, m) \in PointState
           /\ MarkConnected(s) \in PointState
           /\ MarkFailed(s) \in PointState
           /\ ZeroAfterFailures(s) \in PointState
<1> USE ValuesAssumption, BoundsAssumption DEF PointState
<1>1. StoreValue(s, m) \in PointState BY DEF StoreValue, Measurements
<1>2. MarkConnected(s) \in PointState
  <2> DEFINE r == [s EXCEPT !.connection_status = TRUE]
  <2>1. r \in PointState OBVIOUS
  <2>2. MarkConnected(s) = [r EXCEPT !.failure_count = 0] BY DEF MarkConnected
  <2> HIDE DEF r
  <2> QED BY <2>1, <2>2
<1>3. MarkFailed(s) \in PointState
  <2> DEFINE r == [s EXCEPT !.connection_status = FALSE]
             count == IF TooManyFailures(s) THEN s.failure_count ELSE s.failure_count + 1
  <2>1. r \in PointState OBVIOUS
  <2>2. count \in 0 .. MaxFailures BY DEF TooManyFailures
  <2>3. MarkFailed(s) = [r EXCEPT !.failure_count = count] BY DEF MarkFailed
  <2> HIDE DEF r, count
  <2> QED BY <2>1, <2>2, <2>3
<1>4. ZeroAfterFailures(s) \in PointState BY DEF ZeroAfterFailures
<1> QED BY <1>1, <1>2, <1>3, <1>4

LEMMA SampleType ==
    ASSUME DataOK, NEW p \in Points
    PROVE  /\ Len(hist[p]) \in Nat \ {0}
           /\ Current(p) \in Values
           /\ Sample(p) \in Measurements
BY DEF DataOK, Current, Sample, Measurements

\* A register takes one more value.
LEMMA HistoryGrows ==
    ASSUME DataOK, NEW p \in Points, NEW v \in Values,
           hist' = [hist EXCEPT ![p] = Append(@, v)]
    PROVE  /\ hist' \in [Points -> Seq(Values)]
           /\ \A q \in Points : hist'[q] # <<>>
           /\ \A q \in Points : Len(hist[q]) <= Len(hist'[q])
           /\ \A q \in Points : \A k \in 1 .. Len(hist[q]) : hist'[q][k] = hist[q][k]
<1>1. hist[p] \in Seq(Values)
  BY DEF DataOK
<1>2. /\ Append(hist[p], v) \in Seq(Values)
      /\ Append(hist[p], v) # <<>>
      /\ Len(hist[p]) <= Len(Append(hist[p], v))
      /\ \A k \in 1 .. Len(hist[p]) : Append(hist[p], v)[k] = hist[p][k]
  <2>1. Append(hist[p], v) \in Seq(Values) /\ Len(Append(hist[p], v)) = Len(hist[p]) + 1
    BY <1>1
  <2>2. Append(hist[p], v) # <<>>
    BY <1>1, <2>1
  <2>3. \A k \in 1 .. Len(hist[p]) : Append(hist[p], v)[k] = hist[p][k]
    BY <1>1
  <2> QED BY <1>1, <2>1, <2>2, <2>3
<1>3. \A q \in Points : hist'[q] = IF q = p THEN Append(hist[p], v) ELSE hist[q]
  BY DEF DataOK
<1> QED
  BY <1>2, <1>3 DEF DataOK

LEMMA UnreadTypes == Unread \in Measurements /\ NoReading \in Reading /\ InitialState \in PointState
BY ValuesAssumption, BoundsAssumption DEF Unread, NoReading, Reading, Measurements, InitialState,
   PointState

LEMMA DataInit == Init => DataOK /\ WriteOK
<1> SUFFICES ASSUME Init PROVE DataOK /\ WriteOK
  OBVIOUS
<1>1. \A p \in Points : Published(p, InitialState) \in Measurements
  BY PublishedType, UnreadTypes
<1>2. queue \in Seq(Updates)
  BY <1>1 DEF Init, Updates
<1>3. hist \in [Points -> Seq(Values)] /\ \A p \in Points : hist[p] # <<>>
  <2>1. /\ hist \in [Points -> {<<v>> : v \in StartValues}]
        /\ \A v \in StartValues : <<v>> \in Seq(Values) /\ <<v>> # <<>>
    BY ValuesAssumption DEF Init
  <2> QED BY <2>1
<1> QED
  BY <1>2, <1>3, UnreadTypes, PointsAssumption DEF Init, DataOK, WriteOK, Threads

LEMMA DataStep == TypeOK /\ [Next]_vars => DataOK'
<1> SUFFICES ASSUME TypeOK, [Next]_vars PROVE DataOK'
  OBVIOUS
<1>0. ControlOK /\ DataOK /\ WriteOK
  BY DEF TypeOK
<1>1. ASSUME NEW p \in Points, PollPoint(p) PROVE DataOK'
  <2>1. CASE PollLoop(p) BY <2>1, <1>0 DEF PollLoop, DataOK
  <2>2. CASE ReadLock(p) BY <2>2, <1>0 DEF ReadLock, DataOK
  <2>3. CASE ReadSucceeds(p) BY <2>3, <1>0, SampleType DEF ReadSucceeds, DataOK, Reading
  <2>4. CASE ReadFails(p) BY <2>4, <1>0, UnreadTypes DEF ReadFails, DataOK
  <2>5. CASE ReadFailureLog(p) BY <2>5, <1>0 DEF ReadFailureLog, DataOK
  <2>6. CASE StoreLock(p) BY <2>6, <1>0 DEF StoreLock, DataOK
  <2>7. CASE StoreReading(p) BY <2>7, <1>0, StateTypes DEF StoreReading, DataOK, Reading
  <2>8. CASE SettleState(p) BY <2>8, <1>0, StateTypes, UnreadTypes DEF SettleState, DataOK, Reading
  <2>9. CASE StoreLog(p) BY <2>9, <1>0 DEF StoreLog, DataOK
  <2>10. CASE PublishLock(p) BY <2>10, <1>0 DEF PublishLock, DataOK
  <2>11. CASE BuildUpdate(p) BY <2>11, <1>0, PublishedType DEF BuildUpdate, DataOK
  <2>12. CASE ApplyUpdate(p) BY <2>12, <1>0, UnreadTypes DEF ApplyUpdate, DataOK, Updates
  <2> QED
    BY <1>1, <2>1, <2>2, <2>3, <2>4, <2>5, <2>6, <2>7, <2>8, <2>9, <2>10, <2>11, <2>12 DEF PollPoint
<1>2. ASSUME NEW p \in Points, RegisterChanges(p) PROVE DataOK'
  <2>1. PICK v \in Values : hist' = [hist EXCEPT ![p] = Append(@, v)]
    BY <1>2, ValuesAssumption DEF RegisterChanges, RegisterValues
  <2> QED BY <1>0, <1>2, <2>1, HistoryGrows DEF RegisterChanges, DataOK
<1>3. CASE RunUpdate BY <1>0, <1>3 DEF RunUpdate, DataOK, Updates, Covers
<1>4. CASE ReceiveOther BY <1>0, <1>4 DEF ReceiveOther, DataOK
<1>5. ASSUME NEW w \in Writes, ReceiveOperate(w) PROVE DataOK'
  BY <1>0, <1>5 DEF ReceiveOperate, DataOK
<1>6. CASE LogCommand BY <1>0, <1>6 DEF LogCommand, DataOK
<1>7. CASE WriteLock BY <1>0, <1>7 DEF WriteLock, DataOK
<1>8. CASE ConnectFails BY <1>0, <1>8 DEF ConnectFails, EndWrite, DataOK
<1>9. CASE WriteTaken
  <2>1. cmd \in Writes BY <1>0, <1>9 DEF WriteTaken, WriteOK
  <2>2. cmd.pt \in Points /\ cmd.value \in Values BY <2>1, PointsAssumption DEF Writes
  <2> QED BY <1>0, <1>9, <2>2, HistoryGrows DEF WriteTaken, DataOK
<1>10. CASE WriteLost BY <1>0, <1>10 DEF WriteLost, DataOK
<1>11. CASE LogWrite BY <1>0, <1>11 DEF LogWrite, EndWrite, DataOK
<1>12. CASE LogResult BY <1>0, <1>12 DEF LogResult, DataOK
<1>13. CASE HttpStart BY <1>0, <1>13 DEF HttpStart, DataOK
<1>14. CASE HttpAccept BY <1>0, <1>14 DEF HttpAccept, DataOK
<1>15. CASE HttpRecv BY <1>0, <1>15 DEF HttpRecv, DataOK
<1>16. CASE PageLockData BY <1>0, <1>16 DEF PageLockData, DataOK
<1>17. CASE PageLockLog BY <1>0, <1>17 DEF PageLockLog, DataOK
<1>18. CASE PageRendered BY <1>0, <1>18 DEF PageRendered, DataOK
<1>19. CASE HttpSend BY <1>0, <1>19 DEF HttpSend, DataOK
<1>20. CASE ConsoleReport BY <1>0, <1>20 DEF ConsoleReport, DataOK
<1>21. CASE ConsoleOther BY <1>0, <1>21 DEF ConsoleOther, DataOK
<1>22. CASE ConsoleQuit BY <1>0, <1>22 DEF ConsoleQuit, DataOK
<1>23. CASE UNCHANGED vars BY <1>0, <1>23 DEF vars, DataOK
<1> QED
  BY <1>1, <1>2, <1>3, <1>4, <1>5, <1>6, <1>7, <1>8, <1>9, <1>10, <1>11, <1>12,
     <1>13, <1>14, <1>15, <1>16, <1>17, <1>18, <1>19, <1>20, <1>21, <1>22, <1>23
     DEF Next, ExecuteCommand, BuildPage

LEMMA WriteStep == TypeOK /\ [Next]_vars => WriteOK'
<1> SUFFICES ASSUME TypeOK, [Next]_vars PROVE WriteOK'
  OBVIOUS
<1>0. /\ pc \in [Threads -> Labels] /\ "exec" \in Threads /\ "exec" \notin Points
      /\ "http" \in Threads /\ "console" \in Threads /\ Points \subseteq Threads
      /\ DataOK /\ WriteOK
  BY PointsAssumption DEF TypeOK, ControlOK, Threads
<1>1. ASSUME NEW p \in Points, PollPoint(p) PROVE WriteOK'
  <2>1. CASE PollLoop(p) BY <1>0, <2>1 DEF PollLoop, WriteOK
  <2>2. CASE ReadLock(p) BY <1>0, <2>2 DEF ReadLock, WriteOK
  <2>3. CASE ReadSucceeds(p) BY <1>0, <2>3 DEF ReadSucceeds, WriteOK
  <2>4. CASE ReadFails(p) BY <1>0, <2>4 DEF ReadFails, WriteOK
  <2>5. CASE ReadFailureLog(p) BY <1>0, <2>5 DEF ReadFailureLog, WriteOK
  <2>6. CASE StoreLock(p) BY <1>0, <2>6 DEF StoreLock, WriteOK
  <2>7. CASE StoreReading(p) BY <1>0, <2>7 DEF StoreReading, WriteOK
  <2>8. CASE SettleState(p) BY <1>0, <2>8 DEF SettleState, WriteOK
  <2>9. CASE StoreLog(p) BY <1>0, <2>9 DEF StoreLog, WriteOK
  <2>10. CASE PublishLock(p) BY <1>0, <2>10 DEF PublishLock, WriteOK
  <2>11. CASE BuildUpdate(p) BY <1>0, <2>11 DEF BuildUpdate, WriteOK
  <2>12. CASE ApplyUpdate(p) BY <1>0, <2>12 DEF ApplyUpdate, WriteOK
  <2> QED
    BY <1>1, <2>1, <2>2, <2>3, <2>4, <2>5, <2>6, <2>7, <2>8, <2>9, <2>10, <2>11, <2>12 DEF PollPoint
<1>2. ASSUME NEW p \in Points, RegisterChanges(p) PROVE WriteOK'
  BY <1>0, <1>2 DEF RegisterChanges, WriteOK
<1>3. CASE RunUpdate BY <1>0, <1>3 DEF RunUpdate, WriteOK
<1>4. CASE ReceiveOther BY <1>0, <1>4 DEF ReceiveOther, WriteOK
<1>5. ASSUME NEW w \in Writes, ReceiveOperate(w) PROVE WriteOK'
  BY <1>0, <1>5 DEF ReceiveOperate, WriteOK
<1>6. CASE LogCommand BY <1>0, <1>6 DEF LogCommand, WriteOK, DataOK
<1>7. CASE WriteLock BY <1>0, <1>7 DEF WriteLock, WriteOK
<1>8. CASE ConnectFails BY <1>0, <1>8 DEF ConnectFails, EndWrite, WriteOK
<1>9. CASE WriteTaken BY <1>0, <1>9 DEF WriteTaken, WriteOK
<1>10. CASE WriteLost BY <1>0, <1>10 DEF WriteLost, WriteOK
<1>11. CASE LogWrite BY <1>0, <1>11 DEF LogWrite, EndWrite, WriteOK
<1>12. CASE LogResult BY <1>0, <1>12 DEF LogResult, WriteOK
<1>13. CASE HttpStart BY <1>0, <1>13 DEF HttpStart, WriteOK
<1>14. CASE HttpAccept BY <1>0, <1>14 DEF HttpAccept, WriteOK
<1>15. CASE HttpRecv BY <1>0, <1>15 DEF HttpRecv, WriteOK
<1>16. CASE PageLockData BY <1>0, <1>16 DEF PageLockData, WriteOK
<1>17. CASE PageLockLog BY <1>0, <1>17 DEF PageLockLog, WriteOK
<1>18. CASE PageRendered BY <1>0, <1>18 DEF PageRendered, WriteOK
<1>19. CASE HttpSend BY <1>0, <1>19 DEF HttpSend, WriteOK
<1>20. CASE ConsoleReport BY <1>0, <1>20 DEF ConsoleReport, WriteOK
<1>21. CASE ConsoleOther BY <1>0, <1>21 DEF ConsoleOther, WriteOK
<1>22. CASE ConsoleQuit BY <1>0, <1>22 DEF ConsoleQuit, WriteOK
<1>23. CASE UNCHANGED vars BY <1>0, <1>23 DEF vars, WriteOK
<1> QED
  BY <1>1, <1>2, <1>3, <1>4, <1>5, <1>6, <1>7, <1>8, <1>9, <1>10, <1>11, <1>12,
     <1>13, <1>14, <1>15, <1>16, <1>17, <1>18, <1>19, <1>20, <1>21, <1>22, <1>23
     DEF Next, ExecuteCommand, BuildPage

LEMMA TypeStep == TypeOK /\ [Next]_vars => TypeOK'
BY ControlStep, DataStep, WriteStep DEF TypeOK

\* Every variable keeps its type, for any points, values and bounds; in
\* particular the executor is at a label of a command only with a write of a
\* writable point to do.
THEOREM TypeCorrect == Spec => []TypeOK
<1>1. Init => TypeOK
  BY ControlInit, DataInit DEF TypeOK
<1> QED
  BY <1>1, TypeStep, PTL DEF Spec

====

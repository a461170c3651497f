-------------------------- MODULE JobRunnerProofs --------------------------
(***************************************************************************)
(* What JobRunner does for any number of jobs, permits, boots and faults,  *)
(* under the application's lifespan or driven by hand: its types, the      *)
(* accounting of the semaphore's permits, that no job is forgotten, that   *)
(* each is carried once, and that stop() is heard and leaves nothing.      *)
(***************************************************************************)
EXTENDS JobRunner, FiniteSetTheorems, SequenceTheorems, TLAPS

-----------------------------------------------------------------------------
(* The permits and the tasks that hold them.                               *)

\* The holders of the semaphore are finitely many.
LEMMA HoldersFinite == IsFiniteSet(Holders) /\ Cardinality(Holders) \in Nat
<1>1. IsFiniteSet(1 .. Copies)
  BY FS_Interval, ConstantsAssumption
<1>2. IsFiniteSet(Tasks)
  BY <1>1, FS_Product, ConstantsAssumption DEF Tasks
<1>3. Holders \in SUBSET Tasks
  BY DEF Holders
<1> QED
  BY <1>2, <1>3, FS_Subset, FS_CardinalityType

\* A task that leaves gives back the permit it held, and only that one.
LEMMA LeaveGivesBack ==
  ASSUME TypeOK, BoundedConcurrency, NEW t \in Tasks, tpc[t] \in Inside, Leave(t)
  PROVE  /\ BoundedConcurrency'
         /\ permits' \in 0 .. Concurrency
         /\ tpc' \in [Tasks -> Inside \cup {"free", "wait"}]
<1>1. t \in Holders /\ Holders' = Holders \ {t}
  BY DEF Holders, Leave, TypeOK, Inside
<1>2. /\ IsFiniteSet(Holders \ {t})
      /\ Cardinality(Holders \ {t}) = Cardinality(Holders) - 1
      /\ Cardinality(Holders \ {t}) \in Nat
  BY <1>1, HoldersFinite, FS_RemoveElement, FS_CardinalityType
<1>3. permits' = permits + 1
  BY DEF Leave
<1> QED
  BY <1>1, <1>2, <1>3, HoldersFinite, ConstantsAssumption
  DEF BoundedConcurrency, Leave, TypeOK

\* A task that goes from one stretch inside the semaphore to another keeps it.
LEMMA InsideKeeps ==
  ASSUME TypeOK, BoundedConcurrency, NEW t \in Tasks, tpc[t] \in Inside,
         NEW next \in Inside, tpc' = [tpc EXCEPT ![t] = next], permits' = permits
  PROVE  /\ BoundedConcurrency'
         /\ tpc' \in [Tasks -> Inside \cup {"free", "wait"}]
<1>1. Holders' = Holders
  BY DEF Holders, TypeOK
<1> QED
  BY <1>1 DEF BoundedConcurrency, TypeOK

\* A task comes into being, or waits, outside the semaphore.
LEMMA OutsideKeeps ==
  ASSUME TypeOK, BoundedConcurrency, NEW t \in Tasks, tpc[t] = "free",
         tpc' = [tpc EXCEPT ![t] = "wait"], permits' = permits
  PROVE  /\ BoundedConcurrency'
         /\ tpc' \in [Tasks -> Inside \cup {"free", "wait"}]
<1>1. Holders' = Holders
  BY DEF Holders, TypeOK, Inside
<1> QED
  BY <1>1 DEF BoundedConcurrency, TypeOK

\* A task that enters takes one permit.
LEMMA AcquireTakes ==
  ASSUME TypeOK, BoundedConcurrency, NEW t \in Tasks, Acquire(t)
  PROVE  /\ BoundedConcurrency'
         /\ permits' \in 0 .. Concurrency
         /\ tpc' \in [Tasks -> Inside \cup {"free", "wait"}]
<1>1. t \notin Holders /\ Holders' = Holders \cup {t}
  BY DEF Holders, Acquire, TypeOK, Inside
<1>2. Cardinality(Holders \cup {t}) = Cardinality(Holders) + 1
  BY <1>1, HoldersFinite, FS_AddElement
<1>3. Cardinality(Holders') = Cardinality(Holders) + 1
  BY <1>1, <1>2
<1>4. permits' = permits - 1 /\ permits' \in 0 .. Concurrency
  BY ConstantsAssumption DEF Acquire, TypeOK
<1>5. BoundedConcurrency'
  BY <1>3, <1>4, HoldersFinite, ConstantsAssumption DEF BoundedConcurrency, TypeOK
<1> QED
  BY <1>4, <1>5 DEF Acquire, TypeOK, Inside

\* When every task is gone all permits are back.
LEMMA AllGone ==
  ASSUME tpc' = [t \in Tasks |-> "free"], permits' = Concurrency
  PROVE  /\ BoundedConcurrency'
         /\ permits' \in 0 .. Concurrency
         /\ tpc' \in [Tasks -> Inside \cup {"free", "wait"}]
<1>1. Holders' = {}
  BY DEF Holders, Inside
<1>2. Cardinality(Holders') = 0
  BY <1>1, FS_EmptySet
<1> QED
  BY <1>2, ConstantsAssumption DEF BoundedConcurrency

\* A step that touches neither the tasks nor the semaphore.
LEMMA WorkersKept ==
  ASSUME TypeOK, BoundedConcurrency, UNCHANGED workers
  PROVE  /\ BoundedConcurrency'
         /\ permits' \in 0 .. Concurrency
         /\ tpc' \in [Tasks -> Inside \cup {"free", "wait"}]
<1>1. Holders' = Holders
  BY DEF Holders, workers
<1> QED
  BY <1>1 DEF BoundedConcurrency, TypeOK, workers

-----------------------------------------------------------------------------
(* What the recovery query answers.                                        *)

\* A list of all the recoverable jobs.
LEMMA RecoveryList ==
  ASSUME TypeOK, NEW s \in OldestFirst(Recoverable)
  PROVE  /\ s \in Seq(Jobs \cup {STOP})
         /\ Len(s) = Cardinality(Recoverable)
         /\ Len(s) \in Nat
         /\ \A i \in 1 .. Len(s) : s[i] \in Recoverable
         /\ \A j \in Recoverable : \E i \in 1 .. Len(s) : s[i] = j
         /\ \A i, k \in 1 .. Len(s) : i < k => createdAt[s[i]] < createdAt[s[k]]
<1>1. Recoverable \in SUBSET Jobs
  BY DEF Recoverable
<1>2. Cardinality(Recoverable) \in Nat
  BY <1>1, FS_Subset, FS_CardinalityType, ConstantsAssumption
<1>3. s \in [1 .. Cardinality(Recoverable) -> Recoverable]
  BY DEF OldestFirst
<1>4. s \in Seq(Recoverable) /\ Len(s) = Cardinality(Recoverable)
  BY <1>2, <1>3
<1>5. s \in Seq(Jobs \cup {STOP})
  BY <1>1, <1>4, SeqMonotonic
<1> QED
  BY <1>2, <1>3, <1>4, <1>5 DEF OldestFirst

-----------------------------------------------------------------------------
(* Types and permits.                                                      *)

Accounted == TypeOK /\ BoundedConcurrency

\* The first state is typed and all its permits are free.
LEMMA AccountedInit == Init => Accounted
<1> SUFFICES ASSUME Init PROVE Accounted
  OBVIOUS
<1>1. Holders = {}
  BY DEF Init, Holders, Inside
<1>2. Cardinality(Holders) = 0
  BY <1>1, FS_EmptySet
<1>3. BoundedConcurrency
  BY <1>2, ConstantsAssumption DEF BoundedConcurrency, Init
<1>4. TypeOK
  <2>1. <<>> \in Seq(Jobs \cup {STOP})
    BY EmptySeq
  <2>2. permits \in 0 .. Concurrency /\ boots \in 0 .. MaxBoots /\ faults \in 0 .. MaxFaults
    BY ConstantsAssumption DEF Init
  <2> QED
    BY <2>1, <2>2 DEF TypeOK, Init
<1> QED
  BY <1>3, <1>4 DEF Accounted

\* The steps of the process.
LEMMA ProcessAccounted ==
  ASSUME Accounted, Boot \/ Crash \/ Exit \/ BootRaises \/ Stop \/ StopGathers
  PROVE  Accounted'
<1> USE DEF Accounted
<1>1. CASE Boot
  <2>1. UNCHANGED workers
    BY <1>1 DEF Boot
  <2> QED
    BY <1>1, <2>1, WorkersKept, ConstantsAssumption
    DEF Boot, TypeOK, store, runner
<1>2. ASSUME LoseMemory, UNCHANGED store, boots' = boots,
             faults' \in 0 .. MaxFaults
      PROVE  Accounted'
  <2>1. /\ BoundedConcurrency'
        /\ permits' \in 0 .. Concurrency
        /\ tpc' \in [Tasks -> Inside \cup {"free", "wait"}]
    BY <1>2, AllGone DEF LoseMemory
  <2>2. queue' \in Seq(Jobs \cup {STOP})
    BY <1>2, EmptySeq DEF LoseMemory
  <2> QED
    BY <1>2, <2>1, <2>2 DEF LoseMemory, TypeOK, store
<1>3. CASE Crash
  BY <1>2, <1>3 DEF Crash, bounds, TypeOK
<1>4. CASE Exit
  BY <1>2, <1>4 DEF Exit, bounds, TypeOK
<1>5. CASE BootRaises
  BY <1>2, <1>5, ConstantsAssumption DEF BootRaises, TypeOK
<1>6. CASE Stop
  <2>1. UNCHANGED workers
    BY <1>6 DEF Stop
  <2> QED
    BY <1>6, <2>1, WorkersKept DEF Stop, TypeOK, store, bounds
<1>7. CASE StopGathers
  <2>1. /\ BoundedConcurrency'
        /\ permits' \in 0 .. Concurrency
        /\ tpc' \in [Tasks -> Inside \cup {"free", "wait"}]
    BY <1>7, AllGone DEF StopGathers
  <2> QED
    BY <1>7, <2>1 DEF StopGathers, TypeOK, store, bounds
<1> QED
  BY <1>1, <1>3, <1>4, <1>5, <1>6, <1>7

\* The steps of start().
LEMMA StartAccounted ==
  ASSUME Accounted, NEW c \in Jobs \cup {Lifespan},
         StartReturns(c) \/ StartLocks(c) \/ Recover(c)
  PROVE  Accounted'
<1> USE DEF Accounted
<1>1. UNCHANGED workers
  BY DEF StartReturns, StartLocks, Recover
<1>2. /\ BoundedConcurrency'
      /\ permits' \in 0 .. Concurrency
      /\ tpc' \in [Tasks -> Inside \cup {"free", "wait"}]
  BY <1>1, WorkersKept
<1>3. CASE StartReturns(c)
  BY <1>2, <1>3 DEF StartReturns, AfterStart, TypeOK, store, runner, bounds
<1>4. CASE StartLocks(c)
  BY <1>2, <1>4 DEF StartLocks, TypeOK, store, bounds
<1>5. CASE Recover(c)
  <2>1. queue' \in Seq(Jobs \cup {STOP})
    BY <1>5, RecoveryList, ConcatProperties DEF Recover, TypeOK
  <2> QED
    BY <1>2, <1>5, <2>1 DEF Recover, AfterStart, TypeOK, store, bounds
<1> QED
  BY <1>3, <1>4, <1>5

\* The steps of enqueue().
LEMMA CallersAccounted ==
  ASSUME Accounted, NEW j \in Jobs,
         \/ Call(j) \/ RecoverRaises(j) \/ CreateRow(j)
         \/ CreateRaises(j) \/ RefreshRaises(j) \/ PutJob(j)
  PROVE  Accounted'
<1> USE DEF Accounted
<1>1. UNCHANGED workers
  BY DEF Call, RecoverRaises, CreateRow, CreateRaises, RefreshRaises, PutJob
<1>2. /\ BoundedConcurrency'
      /\ permits' \in 0 .. Concurrency
      /\ tpc' \in [Tasks -> Inside \cup {"free", "wait"}]
  BY <1>1, WorkersKept
<1>3. CASE Call(j)
  BY <1>2, <1>3 DEF Call, TypeOK, store, runner, bounds
<1>4. CASE RecoverRaises(j)
  BY <1>2, <1>4, ConstantsAssumption DEF RecoverRaises, TypeOK, store
<1>5. CASE CreateRow(j)
  <2>1. Cardinality({k \in Jobs : row[k] # "absent"}) \in Nat
    BY FS_Subset, FS_CardinalityType, ConstantsAssumption
  <2> QED
    BY <1>2, <1>5, <2>1 DEF CreateRow, TypeOK, Unfinished, runner, bounds
<1>6. CASE CreateRaises(j)
  BY <1>2, <1>6, ConstantsAssumption DEF CreateRaises, TypeOK, store, runner
<1>7. CASE PutJob(j)
  BY <1>2, <1>7 DEF PutJob, TypeOK, store, bounds
<1>8. CASE RefreshRaises(j)
  BY <1>2, <1>8, ConstantsAssumption DEF RefreshRaises, TypeOK, store, runner
<1> QED
  BY <1>3, <1>4, <1>5, <1>6, <1>7, <1>8

\* The steps of the dispatchers.
LEMMA DispatchAccounted ==
  ASSUME Accounted, (\E j \in Jobs : DispatchJob(j)) \/ DispatchStop
  PROVE  Accounted'
<1> USE DEF Accounted
<1>1. ASSUME NEW j \in Jobs, DispatchJob(j) PROVE Accounted'
  <2>1. PICK c \in 1 .. Copies :
          tpc[<<j, c>>] = "free" /\ tpc' = [tpc EXCEPT ![<<j, c>>] = "wait"]
    BY <1>1 DEF DispatchJob
  <2>2. <<j, c>> \in Tasks /\ permits' = permits
    BY <1>1 DEF Tasks, DispatchJob
  <2>3. /\ BoundedConcurrency'
        /\ tpc' \in [Tasks -> Inside \cup {"free", "wait"}]
    BY <2>1, <2>2, OutsideKeeps
  <2>4. queue' \in Seq(Jobs \cup {STOP})
    BY <1>1 DEF DispatchJob, TypeOK
  <2> QED
    BY <1>1, <2>2, <2>3, <2>4 DEF DispatchJob, TypeOK, store, bounds
<1>2. CASE DispatchStop
  <2>1. UNCHANGED workers
    BY <1>2 DEF DispatchStop
  <2>2. queue' \in Seq(Jobs \cup {STOP})
    BY <1>2 DEF DispatchStop, TypeOK
  <2>3. disp' \in BOOLEAN
    BY <1>2, Zenon DEF DispatchStop, TypeOK
  <2>4. leaked' \in Nat
    BY <1>2 DEF DispatchStop, TypeOK
  <2> QED
    BY <1>2, <2>1, <2>2, <2>3, <2>4, WorkersKept DEF DispatchStop, TypeOK, store, bounds
<1> QED
  BY <1>1, <1>2

\* The steps of the tasks.
LEMMA TasksAccounted ==
  ASSUME Accounted, NEW t \in Tasks,
         \/ Acquire(t) \/ GetRow(t) \/ MarkRunning(t) \/ HandlerEnds(t)
         \/ MarkFinished(t) \/ StoreRaises(t)
  PROVE  Accounted'
<1> USE DEF Accounted
<1>1. t[1] \in Jobs
  BY DEF Tasks
<1>2. CASE Acquire(t)
  BY <1>2, AcquireTakes DEF Acquire, TypeOK, store, runner, bounds
<1>3. CASE GetRow(t)
  <2>1. /\ BoundedConcurrency'
        /\ permits' \in 0 .. Concurrency
        /\ tpc' \in [Tasks -> Inside \cup {"free", "wait"}]
    <3>1. tpc[t] \in Inside /\ "mark" \in Inside
      BY <1>3 DEF GetRow, Inside
    <3>2. CASE Leave(t)
      BY <3>1, <3>2, LeaveGivesBack
    <3>3. CASE tpc' = [tpc EXCEPT ![t] = "mark"] /\ UNCHANGED permits
      BY <3>1, <3>3, InsideKeeps DEF TypeOK
    <3> QED
      BY <1>3, <3>2, <3>3 DEF GetRow
  <2> QED
    BY <1>3, <2>1 DEF GetRow, TypeOK, store, runner, bounds
<1>4. CASE MarkRunning(t)
  <2>1. /\ BoundedConcurrency'
        /\ tpc' \in [Tasks -> Inside \cup {"free", "wait"}]
    BY <1>4, InsideKeeps DEF MarkRunning, Inside
  <2> QED
    BY <1>1, <1>4, <2>1 DEF MarkRunning, TypeOK, runner, bounds, Unfinished
<1>5. CASE HandlerEnds(t)
  <2>1. /\ BoundedConcurrency'
        /\ tpc' \in [Tasks -> Inside \cup {"free", "wait"}]
    BY <1>5, InsideKeeps DEF HandlerEnds, Inside
  <2> QED
    BY <1>5, <2>1 DEF HandlerEnds, TypeOK, store, runner, bounds
<1>6. CASE MarkFinished(t)
  <2>1. /\ BoundedConcurrency'
        /\ permits' \in 0 .. Concurrency
        /\ tpc' \in [Tasks -> Inside \cup {"free", "wait"}]
    BY <1>6, LeaveGivesBack DEF MarkFinished, Inside
  <2> QED
    BY <1>1, <1>6, <2>1 DEF MarkFinished, TypeOK, runner, bounds, Finished
<1>7. CASE StoreRaises(t)
  <2>1. /\ BoundedConcurrency'
        /\ permits' \in 0 .. Concurrency
        /\ tpc' \in [Tasks -> Inside \cup {"free", "wait"}]
    BY <1>7, LeaveGivesBack DEF StoreRaises, Inside
  <2> QED
    BY <1>1, <1>7, <2>1, ConstantsAssumption DEF StoreRaises, TypeOK, store, runner
<1> QED
  BY <1>2, <1>3, <1>4, <1>5, <1>6, <1>7

\* No step of the runner loses a type or a permit.
LEMMA AccountedStep == Accounted /\ [Next]_vars => Accounted'
<1> SUFFICES ASSUME Accounted, [Next]_vars PROVE Accounted'
  OBVIOUS
<1>1. CASE UNCHANGED vars
  <2>1. Holders' = Holders
    BY <1>1 DEF vars, Holders
  <2> QED
    BY <1>1, <2>1 DEF vars, Accounted, TypeOK, BoundedConcurrency
<1>2. CASE Boot \/ Crash \/ Exit \/ BootRaises \/ Stop \/ StopGathers
  BY <1>2, ProcessAccounted
<1>3. ASSUME NEW c \in Jobs \cup {Lifespan},
             StartReturns(c) \/ StartLocks(c) \/ Recover(c)
      PROVE  Accounted'
  BY <1>3, StartAccounted
<1>4. ASSUME NEW j \in Jobs,
             \/ Call(j) \/ RecoverRaises(j) \/ CreateRow(j)
             \/ CreateRaises(j) \/ RefreshRaises(j) \/ PutJob(j)
      PROVE  Accounted'
  BY <1>4, CallersAccounted
<1>5. ASSUME NEW t \in Tasks, Acquire(t) \/ TaskStep(t) \/ StoreRaises(t)
      PROVE  Accounted'
  BY <1>5, TasksAccounted DEF TaskStep
<1>6. CASE (\E j \in Jobs : DispatchJob(j)) \/ DispatchStop
  BY <1>6, DispatchAccounted
<1> QED
  BY <1>1, <1>2, <1>3, <1>4, <1>5, <1>6 DEF Next

\* Every variable keeps its type, however many jobs, processes and faults.
THEOREM TypeCorrect == Spec => []TypeOK
<1>1. Init => Accounted
  BY AccountedInit
<1>2. Accounted /\ [Next]_vars => Accounted'
  BY AccountedStep
<1>3. Accounted => TypeOK
  BY DEF Accounted
<1> QED
  BY <1>1, <1>2, <1>3, PTL DEF Spec

\* The semaphore never lets more than Concurrency jobs in, and no path out of
\* _run_job loses a permit or gives one back twice.
THEOREM PermitsAccounted == Spec => []BoundedConcurrency
<1>1. Accounted => BoundedConcurrency
  BY DEF Accounted
<1> QED
  BY <1>1, AccountedInit, AccountedStep, PTL DEF Spec

-----------------------------------------------------------------------------
(* The queue.                                                              *)

\* Taking an item off the queue leaves every other one in it.
LEMMA TailKeeps ==
  ASSUME TypeOK, NEW j \in Jobs \cup {STOP}, queue # <<>>, Head(queue) # j, InQueue(j),
         queue' = Tail(queue)
  PROVE  InQueue(j)'
<1>1. PICK i \in 1 .. Len(queue) : queue[i] = j
  BY DEF InQueue
<1>2. /\ Len(queue) \in Nat /\ Len(Tail(queue)) = Len(queue) - 1
      /\ \A k \in 1 .. Len(Tail(queue)) : Tail(queue)[k] = queue[k + 1]
  BY HeadTailProperties, LenProperties DEF TypeOK
<1>3. i # 1
  BY <1>1 DEF TypeOK
<1>4. i - 1 \in 1 .. Len(Tail(queue)) /\ Tail(queue)[i - 1] = j
  BY <1>1, <1>2, <1>3
<1> QED
  BY <1>4 DEF InQueue

\* Putting an item on the queue keeps the others, and the item is in it.
LEMMA AppendKeeps ==
  ASSUME TypeOK, NEW j \in Jobs \cup {STOP}, NEW item \in Jobs \cup {STOP},
         InQueue(j) \/ item = j, queue' = Append(queue, item)
  PROVE  InQueue(j)'
<1>1. /\ Len(queue) \in Nat /\ Len(Append(queue, item)) = Len(queue) + 1
      /\ \A i \in 1 .. Len(queue) : Append(queue, item)[i] = queue[i]
      /\ Append(queue, item)[Len(queue) + 1] = item
  BY LenProperties DEF TypeOK
<1>2. CASE item = j
  BY <1>1, <1>2 DEF InQueue
<1>3. CASE InQueue(j)
  <2>1. PICK i \in 1 .. Len(queue) : queue[i] = j
    BY <1>3 DEF InQueue
  <2>2. i \in 1 .. Len(Append(queue, item)) /\ Append(queue, item)[i] = j
    BY <1>1, <2>1
  <2> QED
    BY <2>2 DEF InQueue
<1> QED
  BY <1>2, <1>3

\* The recovery puts every recoverable job on the queue.
LEMMA RecoverQueues ==
  ASSUME TypeOK, NEW c, Recover(c), NEW j \in Recoverable
  PROVE  InQueue(j)'
<1>1. PICK s \in OldestFirst(Recoverable) : queue' = queue \o s
  BY DEF Recover
<1>2. PICK i \in 1 .. Len(s) : s[i] = j
  BY RecoveryList
<1>3. /\ Len(queue) \in Nat /\ Len(s) \in Nat
      /\ Len(queue \o s) = Len(queue) + Len(s)
      /\ \A k \in 1 .. Len(queue) + Len(s) :
           (queue \o s)[k] = IF k <= Len(queue) THEN queue[k] ELSE s[k - Len(queue)]
  BY RecoveryList, ConcatProperties, LenProperties DEF TypeOK
<1>4. /\ Len(queue) + i \in 1 .. Len(queue \o s)
      /\ (queue \o s)[Len(queue) + i] = j
  BY <1>2, <1>3
<1> QED
  BY <1>1, <1>4 DEF InQueue

-----------------------------------------------------------------------------
(* No job is forgotten.                                                    *)

\* NoLostJob, of one job.
Kept(j) == started => (row[j] \in Unfinished => Carried(j) \/ j \in stranded)

\* The caller inside the lock is waiting for start(), which has not finished.
LockHeld ==
  starter # NoOne => ~started /\ (starter \in Jobs => call[starter] = "start")

\* The start lock is held by a caller of start() in a runner not yet started.
LEMMA LockStep == Accounted /\ LockHeld /\ [Next]_vars => LockHeld'
<1> SUFFICES ASSUME Accounted, LockHeld, [Next]_vars PROVE LockHeld'
  OBVIOUS
<1> USE DEF LockHeld
<1>1. CASE UNCHANGED vars
  BY <1>1 DEF vars
<1>2. CASE Boot \/ Stop \/ StopGathers \/ DispatchStop
  BY <1>2 DEF Boot, Stop, StopGathers, DispatchStop, runner
<1>3. CASE Crash \/ Exit \/ BootRaises
  BY <1>3 DEF Crash, Exit, BootRaises, LoseMemory
<1>4. ASSUME NEW c \in Jobs \cup {Lifespan},
             StartReturns(c) \/ StartLocks(c) \/ Recover(c)
      PROVE  LockHeld'
  BY <1>4, ConstantsAssumption
  DEF StartReturns, StartLocks, Recover, AfterStart, AtStart, runner, Accounted, TypeOK
<1>5. ASSUME NEW j \in Jobs,
             \/ Call(j) \/ RecoverRaises(j) \/ CreateRow(j) \/ CreateRaises(j)
             \/ RefreshRaises(j) \/ PutJob(j) \/ DispatchJob(j)
      PROVE  LockHeld'
  BY <1>5 DEF Call, RecoverRaises, CreateRow, CreateRaises, RefreshRaises, PutJob, DispatchJob,
              runner, Accounted, TypeOK
<1>6. ASSUME NEW t \in Tasks, Acquire(t) \/ TaskStep(t) \/ StoreRaises(t)
      PROVE  LockHeld'
  BY <1>6 DEF Acquire, TaskStep, GetRow, MarkRunning, HandlerEnds, MarkFinished,
              StoreRaises, runner
<1> QED
  BY <1>1, <1>2, <1>3, <1>4, <1>5, <1>6 DEF Next

\* A step that leaves the job's row, its call and its tasks alone, and does not
\* take it off the queue.
LEMMA StaysKept ==
  ASSUME NEW j \in Jobs, Kept(j), started' => started,
         row'[j] = row[j], call'[j] = call[j], stranded \subseteq stranded',
         InQueue(j) => InQueue(j)', HasTask(j) => HasTask(j)'
  PROVE  Kept(j)'
BY DEF Kept, Carried

\* Boot, crash, exit and stop forget no job of a started runner.
LEMMA ProcessKeeps ==
  ASSUME Accounted, NEW j \in Jobs, Kept(j),
         Boot \/ Crash \/ Exit \/ BootRaises \/ Stop \/ StopGathers
  PROVE  Kept(j)'
<1>1. CASE Boot
  <2>1. UNCHANGED <<row, call, queue, tpc, started, stranded>>
    BY <1>1 DEF Boot, store, runner, workers
  <2> QED
    BY <2>1, StaysKept DEF InQueue, HasTask
<1>2. CASE Stop
  <2>1. UNCHANGED <<row, call, tpc, started, stranded>> /\ queue' = Append(queue, STOP)
    BY <1>2 DEF Stop, store, workers
  <2>2. InQueue(j) => InQueue(j)'
    BY <2>1, AppendKeeps DEF Accounted
  <2> QED
    BY <2>1, <2>2, StaysKept DEF HasTask
<1>3. CASE Crash \/ Exit \/ BootRaises \/ StopGathers
  BY <1>3 DEF Crash, Exit, BootRaises, StopGathers, LoseMemory, Kept
<1> QED
  BY <1>1, <1>2, <1>3

\* start() forgets no job: its recovery queues all unfinished rows at once.
LEMMA StartKeeps ==
  ASSUME Accounted, NEW j \in Jobs, Kept(j), NEW c \in Jobs \cup {Lifespan},
         StartReturns(c) \/ StartLocks(c) \/ Recover(c)
  PROVE  Kept(j)'
<1>1. CASE StartReturns(c)
  <2>1. /\ UNCHANGED <<row, queue, tpc, started, stranded>>
        /\ call[j] = "put" => call'[j] = "put"
    BY <1>1, ConstantsAssumption
    DEF StartReturns, AfterStart, AtStart, Accounted, TypeOK, store, runner, workers
  <2> QED
    BY <2>1 DEF Kept, Carried, InQueue, HasTask
<1>2. CASE StartLocks(c)
  <2>1. UNCHANGED <<row, call, queue, tpc, started, stranded>>
    BY <1>2 DEF StartLocks, store, workers
  <2> QED
    BY <2>1, StaysKept DEF InQueue, HasTask
<1>3. CASE Recover(c)
  <2>1. row'[j] \in Unfinished => InQueue(j)'
    BY <1>3, RecoverQueues DEF Recover, Recoverable, store, Accounted
  <2> QED
    BY <2>1 DEF Kept, Carried
<1> QED
  BY <1>1, <1>2, <1>3

\* enqueue() forgets no job: the row it creates is the next one it queues.
LEMMA CallersKeep ==
  ASSUME Accounted, LockHeld, NEW j \in Jobs, Kept(j), NEW k \in Jobs,
         \/ Call(k) \/ RecoverRaises(k) \/ CreateRow(k)
         \/ CreateRaises(k) \/ RefreshRaises(k) \/ PutJob(k)
  PROVE  Kept(j)'
<1>1. CASE Call(k) \/ CreateRaises(k)
  <2>1. UNCHANGED <<row, queue, tpc, started, stranded>>
    BY <1>1 DEF Call, CreateRaises, store, runner, workers
  <2>2. call[j] = "put" => call'[j] = "put"
    BY <1>1 DEF Call, CreateRaises, Accounted, TypeOK
  <2> QED
    BY <2>1, <2>2 DEF Kept, Carried, InQueue, HasTask
<1>2. CASE RecoverRaises(k)
  <2>1. UNCHANGED <<row, queue, tpc, started, stranded>>
    BY <1>2 DEF RecoverRaises, store, workers
  <2>2. call[j] = "put" => call'[j] = "put"
    BY <1>2, ConstantsAssumption DEF RecoverRaises, LockHeld, Accounted, TypeOK
  <2> QED
    BY <2>1, <2>2 DEF Kept, Carried, InQueue, HasTask
<1>3. CASE CreateRow(k)
  <2>1. UNCHANGED <<queue, tpc, started, stranded>>
    BY <1>3 DEF CreateRow, runner, workers
  <2>2. k = j => call'[j] = "put"
    BY <1>3 DEF CreateRow, Accounted, TypeOK
  <2>3. k # j => row'[j] = row[j] /\ call'[j] = call[j]
    BY <1>3 DEF CreateRow, Accounted, TypeOK
  <2> QED
    BY <2>1, <2>2, <2>3 DEF Kept, Carried, InQueue, HasTask
<1>4. CASE PutJob(k)
  <2>1. UNCHANGED <<row, tpc, started, stranded>> /\ queue' = Append(queue, k)
    BY <1>4 DEF PutJob, store, workers
  <2>2. InQueue(j) \/ k = j => InQueue(j)'
    BY <2>1, AppendKeeps DEF Accounted
  <2>3. k # j => call'[j] = call[j]
    BY <1>4 DEF PutJob, Accounted, TypeOK
  <2> QED
    BY <2>1, <2>2, <2>3 DEF Kept, Carried, HasTask
<1>5. CASE RefreshRaises(k)
  <2>1. UNCHANGED <<row, queue, tpc, started>> /\ stranded' = stranded \cup {k}
    BY <1>5 DEF RefreshRaises, store, runner, workers
  <2>2. k # j => call'[j] = call[j]
    BY <1>5 DEF RefreshRaises, Accounted, TypeOK
  <2> QED
    BY <2>1, <2>2 DEF Kept, Carried, InQueue, HasTask
<1> QED
  BY <1>1, <1>2, <1>3, <1>4, <1>5

\* The dispatchers forget no job: what leaves the queue gets a task.
LEMMA DispatchKeeps ==
  ASSUME Accounted, NEW j \in Jobs, Kept(j),
         (\E k \in Jobs : DispatchJob(k)) \/ DispatchStop
  PROVE  Kept(j)'
<1>1. ASSUME NEW k \in Jobs, DispatchJob(k) PROVE Kept(j)'
  <2>1. /\ UNCHANGED <<row, call, started, stranded>>
        /\ queue # <<>> /\ Head(queue) = k /\ queue' = Tail(queue)
    BY <1>1 DEF DispatchJob, store
  <2>2. PICK c \in 1 .. Copies :
          tpc[<<k, c>>] = "free" /\ tpc' = [tpc EXCEPT ![<<k, c>>] = "wait"]
    BY <1>1 DEF DispatchJob
  <2>3. HasTask(j) => HasTask(j)'
    BY <2>2 DEF HasTask, Accounted, TypeOK, Tasks
  <2>4. k = j => HasTask(j)'
    BY <2>2 DEF HasTask, Accounted, TypeOK, Tasks
  <2>5. k # j => (InQueue(j) => InQueue(j)')
    BY <2>1, TailKeeps DEF Accounted
  <2> QED
    BY <2>1, <2>3, <2>4, <2>5 DEF Kept, Carried
<1>2. CASE DispatchStop
  <2>1. /\ UNCHANGED <<row, call, tpc, started, stranded>>
        /\ queue # <<>> /\ Head(queue) = STOP /\ queue' = Tail(queue)
    BY <1>2 DEF DispatchStop, store, workers
  <2>2. InQueue(j) => InQueue(j)'
    BY <2>1, TailKeeps, ConstantsAssumption DEF Accounted
  <2> QED
    BY <2>1, <2>2, StaysKept DEF HasTask
<1> QED
  BY <1>1, <1>2

\* A task that leaves an unfinished row behind has been stranded.
LEMMA TasksKeep ==
  ASSUME Accounted, NEW j \in Jobs, Kept(j), NEW t \in Tasks,
         \/ Acquire(t) \/ GetRow(t) \/ MarkRunning(t) \/ HandlerEnds(t)
         \/ MarkFinished(t) \/ StoreRaises(t)
  PROVE  Kept(j)'
<1>1. /\ UNCHANGED <<call, queue, started>> /\ stranded \subseteq stranded'
      /\ InQueue(j) => InQueue(j)'
  BY DEF Acquire, GetRow, MarkRunning, HandlerEnds, MarkFinished, StoreRaises,
         runner, InQueue
<1>2. /\ t[1] \in Jobs /\ t[2] \in 1 .. Copies /\ t = <<t[1], t[2]>>
      /\ \A u \in Tasks : u # t => tpc'[u] = tpc[u]
  BY DEF Tasks, Acquire, GetRow, MarkRunning, HandlerEnds, MarkFinished,
         StoreRaises, Leave, Accounted, TypeOK
<1>3. CASE t[1] # j
  <2>1. row'[j] = row[j]
    BY <1>3 DEF Acquire, GetRow, MarkRunning, HandlerEnds, MarkFinished,
                StoreRaises, store, Accounted, TypeOK
  <2>2. HasTask(j) => HasTask(j)'
    BY <1>2, <1>3 DEF HasTask, Tasks
  <2> QED
    BY <1>1, <2>1, <2>2, StaysKept
<1>4. CASE t[1] = j /\ (Acquire(t) \/ MarkRunning(t) \/ HandlerEnds(t))
  <2>1. tpc'[t] # "free"
    BY <1>4 DEF Acquire, MarkRunning, HandlerEnds, Accounted, TypeOK
  <2> QED
    BY <1>2, <1>4, <2>1 DEF Kept, Carried, HasTask
<1>5. CASE t[1] = j /\ GetRow(t)
  <2>1. CASE tpc' = [tpc EXCEPT ![t] = "mark"]
    <3>1. tpc'[t] # "free"
      BY <2>1 DEF Accounted, TypeOK
    <3> QED
      BY <1>2, <1>5, <3>1 DEF Kept, Carried, HasTask
  <2>2. CASE row[t[1]] \in {"absent", "completed"}
    BY <1>5, <2>2 DEF GetRow, Kept, store, Unfinished
  <2> QED
    BY <1>5, <2>1, <2>2 DEF GetRow
<1>6. CASE t[1] = j /\ MarkFinished(t)
  BY <1>6 DEF MarkFinished, Kept, Unfinished, Accounted, TypeOK
<1>7. CASE t[1] = j /\ StoreRaises(t)
  BY <1>7 DEF StoreRaises, Kept
<1> QED
  BY <1>3, <1>4, <1>5, <1>6, <1>7

\* While the runner is started every unfinished row is on its way to the queue,
\* on it, with a task, or known to be stranded in this process.
THEOREM NothingLost == Spec => []NoLostJob
<1> DEFINE IInv == Accounted /\ LockHeld /\ \A j \in Jobs : Kept(j)
<1>1. Init => IInv
  BY AccountedInit DEF Init, Kept, LockHeld
<1>2. IInv /\ [Next]_vars => IInv'
  <2> SUFFICES ASSUME Accounted, LockHeld, [Next]_vars, NEW j \in Jobs, Kept(j)
               PROVE  Kept(j)'
    BY AccountedStep, LockStep
  <2>1. CASE UNCHANGED vars
    BY <2>1 DEF vars, Kept, Carried, InQueue, HasTask
  <2>2. CASE Boot \/ Crash \/ Exit \/ BootRaises \/ Stop \/ StopGathers
    BY <2>2, ProcessKeeps
  <2>3. CASE \E c \in Jobs \cup {Lifespan} : StartReturns(c) \/ StartLocks(c) \/ Recover(c)
    BY <2>3, StartKeeps
  <2>4. CASE \E k \in Jobs : \/ Call(k) \/ RecoverRaises(k) \/ CreateRow(k)
                             \/ CreateRaises(k) \/ RefreshRaises(k) \/ PutJob(k)
    BY <2>4, CallersKeep
  <2>5. CASE (\E k \in Jobs : DispatchJob(k)) \/ DispatchStop
    BY <2>5, DispatchKeeps
  <2>6. CASE \E t \in Tasks : Acquire(t) \/ TaskStep(t) \/ StoreRaises(t)
    BY <2>6, TasksKeep DEF TaskStep
  <2> QED
    BY <2>1, <2>2, <2>3, <2>4, <2>5, <2>6 DEF Next
<1>3. IInv => NoLostJob
  BY DEF Kept, NoLostJob
<1> QED
  BY <1>1, <1>2, <1>3, PTL DEF Spec

-----------------------------------------------------------------------------
(***************************************************************************)
(* What JobRunner does once and only once, in a process under the          *)
(* application's lifespan or with no lifespan at all (~Harness: nobody     *)
(* restarts a stopped runner): a job is in one place, is attempted once    *)
(* per process, and its row follows JobLifecycle.                          *)
(***************************************************************************)

-----------------------------------------------------------------------------
(* The invariant.                                                          *)

\* A process whose runner has not been started, or none.
Fresh == ~started /\ phase \in {"down", "starting", "bare"}

\* How the phase, the start lock and `_started` go together.
Phases ==
  /\ phase \in {"down", "starting"} => ~started
  /\ phase = "down" => starter = NoOne
  /\ phase \in {"serving", "stopping"} => started
  /\ starter \in Jobs => phase = "bare"
  /\ starter = Lifespan => phase = "starting"
  /\ phase # "down" => boots > 0

HasTaskIn(j, places) == \E c \in 1 .. Copies : tpc[<<j, c>>] \in places

\* The job will be marked running without a further look at attempts.
Ready(j) == call[j] = "put" \/ InQueue(j) \/ HasTaskIn(j, {"wait", "get", "mark"})

\* SingleCarrier, of one job.
QueuedOnce(j) ==
  \A i, k \in 1 .. Len(queue) : queue[i] = j /\ queue[k] = j => i = k
Single(j) ==
  /\ QueuedOnce(j)
  /\ \A c, d \in 1 .. Copies :
       tpc[<<j, c>>] # "free" /\ tpc[<<j, d>>] # "free" => c = d
  /\ InQueue(j) => call[j] # "put" /\ ~HasTask(j)
  /\ HasTask(j) => call[j] # "put"

\* Where a job is, and what its row then says.
Placed(j) ==
  /\ Single(j)
  /\ Fresh => ~Carried(j) /\ call[j] # "create"
  /\ call[j] \in {"idle", "start", "create"} => row[j] = "absent"
  /\ Carried(j) => row[j] \in Unfinished
  /\ HasTaskIn(j, {"handle", "complete", "fail"}) => row[j] = "running"

\* How often it has been attempted.
Counted(j) ==
  /\ row[j] = "absent" => attempts[j] = 0
  /\ attempts[j] <= boots
  /\ (Fresh /\ phase # "down") \/ Ready(j) => attempts[j] < boots

\* What all steps preserve.
Base == Accounted /\ LockHeld /\ Phases /\ ~Harness

-----------------------------------------------------------------------------
(* The phases.                                                             *)

\* The steps keep phase, lock and `_started` together.
LEMMA PhasesStep == Base /\ [Next]_vars => Phases'
<1> SUFFICES ASSUME Base, [Next]_vars PROVE Phases'
  OBVIOUS
<1> USE ConstantsAssumption DEF Base, Phases, Accounted
<1>1. CASE UNCHANGED vars
  BY <1>1 DEF vars
<1>2. CASE Boot \/ Stop \/ StopGathers
  BY <1>2 DEF Boot, Stop, StopGathers, runner, bounds, LockHeld, TypeOK
<1>3. CASE Crash \/ Exit \/ BootRaises
  BY <1>3 DEF Crash, Exit, BootRaises, LoseMemory, bounds
<1>4. ASSUME NEW c \in Jobs \cup {Lifespan},
             StartReturns(c) \/ StartLocks(c) \/ Recover(c)
      PROVE  Phases'
  BY <1>4 DEF StartReturns, StartLocks, Recover, AfterStart, AtStart, CallersRun,
              runner, bounds, LockHeld, TypeOK
<1>5. ASSUME NEW j \in Jobs,
             \/ Call(j) \/ RecoverRaises(j) \/ CreateRow(j) \/ CreateRaises(j)
             \/ RefreshRaises(j) \/ PutJob(j) \/ DispatchJob(j)
      PROVE  Phases'
  BY <1>5 DEF Call, RecoverRaises, CreateRow, CreateRaises, RefreshRaises, PutJob, DispatchJob,
              runner, bounds
<1>6. CASE DispatchStop
  BY <1>6 DEF DispatchStop, bounds
<1>7. ASSUME NEW t \in Tasks, Acquire(t) \/ TaskStep(t) \/ StoreRaises(t)
      PROVE  Phases'
  BY <1>7 DEF Acquire, TaskStep, GetRow, MarkRunning, HandlerEnds, MarkFinished,
              StoreRaises, runner, bounds
<1> QED
  BY <1>1, <1>2, <1>3, <1>4, <1>5, <1>6, <1>7 DEF Next

-----------------------------------------------------------------------------
(* The queue.                                                              *)

\* What is taken off the queue is gone from it, and nothing comes to it.
LEMMA TailPlaces ==
  ASSUME TypeOK, NEW j \in Jobs \cup {STOP}, queue # <<>>, queue' = Tail(queue), QueuedOnce(j)
  PROVE  /\ QueuedOnce(j)'
         /\ InQueue(j)' => InQueue(j)
         /\ Head(queue) = j => InQueue(j) /\ ~InQueue(j)'
<1>1. /\ Len(queue) \in Nat \ {0} /\ Len(Tail(queue)) = Len(queue) - 1
      /\ \A k \in 1 .. Len(Tail(queue)) : Tail(queue)[k] = queue[k + 1]
      /\ Head(queue) = queue[1]
  BY HeadTailProperties, LenProperties, EmptySeq DEF TypeOK
<1>2. \A k \in 1 .. Len(Tail(queue)) : k + 1 \in 1 .. Len(queue) /\ k + 1 # 1
  BY <1>1
<1>3. 1 \in 1 .. Len(queue)
  BY <1>1
<1>4. QueuedOnce(j)'
  <2> SUFFICES ASSUME NEW i \in 1 .. Len(Tail(queue)), NEW k \in 1 .. Len(Tail(queue)),
                      Tail(queue)[i] = j, Tail(queue)[k] = j
               PROVE  i = k
    BY DEF QueuedOnce
  <2>1. i + 1 = k + 1
    BY <1>1, <1>2 DEF QueuedOnce
  <2> QED
    BY <1>1, <2>1
<1>5. InQueue(j)' => InQueue(j)
  BY <1>1, <1>2 DEF InQueue
<1>6. Head(queue) = j => InQueue(j) /\ ~InQueue(j)'
  BY <1>1, <1>2, <1>3 DEF InQueue, QueuedOnce
<1> QED
  BY <1>4, <1>5, <1>6

\* A job put on a queue it is not in is in it once.
LEMMA AppendPlaces ==
  ASSUME TypeOK, NEW j \in Jobs \cup {STOP}, NEW item \in Jobs \cup {STOP},
         queue' = Append(queue, item), QueuedOnce(j), item = j => ~InQueue(j)
  PROVE  /\ QueuedOnce(j)'
         /\ InQueue(j)' => InQueue(j) \/ item = j
<1>1. /\ Len(queue) \in Nat /\ Len(Append(queue, item)) = Len(queue) + 1
      /\ \A i \in 1 .. Len(queue) : Append(queue, item)[i] = queue[i]
      /\ Append(queue, item)[Len(queue) + 1] = item
  BY LenProperties DEF TypeOK
<1>2. \A i \in 1 .. Len(Append(queue, item)) :
        i \in 1 .. Len(queue) \/ i = Len(queue) + 1
  BY <1>1
<1> QED
  BY <1>1, <1>2 DEF QueuedOnce, InQueue

\* The recovery puts a job on a queue it is not in at most once: no two rows
\* have the same place in the order of creation.
LEMMA RecoverPlaces ==
  ASSUME TypeOK, NEW c, Recover(c), NEW j \in Jobs \cup {STOP}, ~InQueue(j)
  PROVE  /\ QueuedOnce(j)'
         /\ InQueue(j)' => j \in Recoverable
<1>1. PICK s \in OldestFirst(Recoverable) : queue' = queue \o s
  BY DEF Recover
<1>2. /\ Len(queue) \in Nat /\ Len(s) \in Nat
      /\ Len(queue \o s) = Len(queue) + Len(s)
      /\ \A k \in 1 .. Len(queue) + Len(s) :
           (queue \o s)[k] = IF k <= Len(queue) THEN queue[k] ELSE s[k - Len(queue)]
  BY <1>1, RecoveryList, ConcatProperties, LenProperties DEF TypeOK
<1>3. \A i, k \in 1 .. Len(s) : s[i] = j /\ s[k] = j => i = k
  <2> SUFFICES ASSUME NEW i \in 1 .. Len(s), NEW k \in 1 .. Len(s), s[i] = j, s[k] = j
               PROVE  i = k
    OBVIOUS
  <2>1. ~(i < k) /\ ~(k < i)
    <3>1. createdAt[s[i]] \in Nat
      BY <1>1, RecoveryList DEF Recoverable, TypeOK
    <3>2. /\ i < k => createdAt[s[i]] < createdAt[s[k]]
          /\ k < i => createdAt[s[k]] < createdAt[s[i]]
      BY <1>1, RecoveryList
    <3> QED
      BY <3>1, <3>2
  <2> QED
    BY <1>2, <2>1
<1>4. \A k \in 1 .. Len(queue \o s) : (queue \o s)[k] = j =>
        k - Len(queue) \in 1 .. Len(s) /\ s[k - Len(queue)] = j
  BY <1>2 DEF InQueue
<1>5. QueuedOnce(j)'
  <2> SUFFICES ASSUME NEW i \in 1 .. Len(queue \o s), NEW k \in 1 .. Len(queue \o s),
                      (queue \o s)[i] = j, (queue \o s)[k] = j
               PROVE  i = k
    BY <1>1 DEF QueuedOnce
  <2>1. i - Len(queue) = k - Len(queue)
    BY <1>3, <1>4
  <2> QED
    BY <1>2, <2>1
<1>6. InQueue(j)' => j \in Recoverable
  BY <1>1, <1>4, RecoveryList DEF InQueue
<1> QED
  BY <1>5, <1>6

-----------------------------------------------------------------------------
(* Steps that do not carry a job from one place to another.                *)

\* Nothing the job's place depends on changes, or it is only lost.
LEMMA StaysPlaced ==
  ASSUME NEW j \in Jobs, Placed(j), UNCHANGED <<queue, tpc>>,
         row'[j] = row[j], call'[j] = call[j], Fresh' => Fresh
  PROVE  Placed(j)'
BY DEF Placed, Single, QueuedOnce, Carried, InQueue, HasTask, HasTaskIn

\* A job whose place, row, attempts and process a step leaves alone is counted as before.
LEMMA StaysCounted ==
  ASSUME NEW j \in Jobs, Counted(j), row'[j] = row[j], attempts'[j] = attempts[j],
         boots' = boots, Fresh' /\ phase' # "down" => Fresh /\ phase # "down",
         Ready(j)' => Ready(j)
  PROVE  Counted(j)'
BY DEF Counted

\* A process that loses its memory carries nothing.
LEMMA LostPlaced ==
  ASSUME Base, NEW j \in Jobs, Placed(j), Counted(j), LoseMemory,
         UNCHANGED store, boots' = boots
  PROVE  Placed(j)' /\ Counted(j)'
<1>1. /\ queue' = <<>> /\ tpc' = [t \in Tasks |-> "free"] /\ phase' = "down"
      /\ row' = row /\ attempts' = attempts
  BY DEF LoseMemory, store
<1>2. call'[j] \notin {"start", "create", "put"}
      /\ (call'[j] = "idle" => call[j] = "idle")
  BY DEF LoseMemory
<1>3. ~InQueue(j)'
  BY <1>1 DEF InQueue
<1>4. \A c \in 1 .. Copies : tpc'[<<j, c>>] = "free"
  BY <1>1 DEF Tasks
<1>5. ~HasTask(j)' /\ ~Carried(j)' /\ Single(j)'
  <2>1. ~HasTask(j)'
    BY <1>4 DEF HasTask
  <2>2. \A i \in 1 .. Len(queue') : queue'[i] # j
    BY <1>3 DEF InQueue
  <2> QED
    BY <1>2, <1>3, <1>4, <2>1, <2>2 DEF Carried, Single, QueuedOnce
<1>6. ~Ready(j)'
  BY <1>2, <1>3, <1>4 DEF Ready, HasTaskIn
<1>7. ~HasTaskIn(j, {"handle", "complete", "fail"})'
  BY <1>4 DEF HasTaskIn
<1>8. Placed(j)'
  BY <1>1, <1>2, <1>5, <1>7 DEF Placed
<1> QED
  BY <1>1, <1>6, <1>8 DEF Counted

\* Boot, crash, exit and stop.
LEMMA ProcessOnce ==
  ASSUME Base, NEW j \in Jobs, Placed(j), Counted(j),
         Boot \/ Crash \/ Exit \/ BootRaises \/ Stop \/ StopGathers
  PROVE  Placed(j)' /\ Counted(j)'
<1>1. CASE Boot
  <2>1. /\ UNCHANGED <<row, attempts, call, queue, tpc, started>>
        /\ Fresh /\ boots' = boots + 1 /\ boots \in Nat /\ attempts[j] \in Nat
    BY <1>1, ConstantsAssumption
    DEF Boot, store, runner, workers, Fresh, Base, Phases, Accounted, TypeOK
  <2>2. Placed(j)'
    BY <2>1, StaysPlaced
  <2> QED
    BY <2>1, <2>2 DEF Counted
<1>2. CASE Crash \/ Exit \/ BootRaises
  BY <1>2, LostPlaced DEF Crash, Exit, BootRaises, bounds
<1>3. CASE Stop
  <2>1. /\ UNCHANGED <<row, attempts, call, tpc, boots>>
        /\ queue' = Append(queue, STOP) /\ ~Fresh' /\ STOP # j
    BY <1>3, ConstantsAssumption DEF Stop, store, workers, bounds, Fresh
  <2>2. QueuedOnce(j)' /\ (InQueue(j)' => InQueue(j))
    BY <2>1, AppendPlaces DEF Base, Accounted, Placed, Single
  <2>3. Placed(j)'
    BY <2>1, <2>2 DEF Placed, Single, Carried, HasTask, HasTaskIn
  <2> QED
    BY <2>1, <2>2, <2>3, StaysCounted DEF Ready, HasTaskIn
<1>4. CASE StopGathers
  <2>1. /\ UNCHANGED <<row, attempts, call, queue, boots>> /\ ~Fresh'
        /\ \A c \in 1 .. Copies : tpc'[<<j, c>>] = "free"
    BY <1>4 DEF StopGathers, store, bounds, Fresh, Tasks
  <2>2. /\ ~HasTask(j)' /\ (InQueue(j)' <=> InQueue(j))
        /\ ~HasTaskIn(j, {"wait", "get", "mark"})'
        /\ ~HasTaskIn(j, {"handle", "complete", "fail"})'
    BY <2>1 DEF HasTask, HasTaskIn, InQueue
  <2>3. Placed(j)'
    BY <2>1, <2>2 DEF Placed, Single, QueuedOnce, Carried
  <2> QED
    BY <2>1, <2>2, <2>3, StaysCounted DEF Ready
<1> QED
  BY <1>1, <1>2, <1>3, <1>4

\* start(): the recovery hands out what nothing in memory carries yet.
LEMMA StartOnce ==
  ASSUME Base, NEW j \in Jobs, Placed(j), Counted(j), NEW c \in Jobs \cup {Lifespan},
         StartReturns(c) \/ StartLocks(c) \/ Recover(c)
  PROVE  Placed(j)' /\ Counted(j)'
<1>1. CASE StartReturns(c)
  <2>1. /\ UNCHANGED <<row, attempts, queue, tpc, boots>>
        /\ c # Lifespan /\ started /\ started'
        /\ call' = [call EXCEPT ![c] = "create"] /\ call[c] = "start"
    BY <1>1 DEF StartReturns, AtStart, AfterStart, store, runner, workers, bounds,
                Base, Phases
  <2>2. \/ call'[j] = call[j]
        \/ call[j] = "start" /\ call'[j] = "create"
    BY <2>1 DEF Base, Accounted, TypeOK
  <2>3. Placed(j)'
    BY <2>1, <2>2 DEF Placed, Single, QueuedOnce, Carried, InQueue, HasTask, HasTaskIn, Fresh
  <2>4. (Ready(j)' => Ready(j)) /\ ~Fresh'
    BY <2>1, <2>2 DEF Ready, InQueue, HasTaskIn, Fresh
  <2> QED
    BY <2>1, <2>3, <2>4, StaysCounted
<1>2. CASE StartLocks(c)
  <2>1. UNCHANGED <<row, attempts, call, queue, tpc, boots, phase, started>>
    BY <1>2 DEF StartLocks, store, workers, bounds
  <2>2. Placed(j)'
    BY <2>1, StaysPlaced DEF Fresh
  <2> QED
    BY <2>1, <2>2, StaysCounted DEF Fresh, Ready, InQueue, HasTaskIn
<1>3. CASE Recover(c)
  <2>1. Fresh /\ phase # "down"
    BY <1>3, ConstantsAssumption DEF Recover, Base, LockHeld, Phases, Fresh
  <2>2. /\ UNCHANGED <<row, attempts, tpc, boots>> /\ ~Fresh'
        /\ call'[j] = call[j] \/ call'[j] = "create"
        /\ call'[j] # call[j] => c = j
    BY <1>3 DEF Recover, AfterStart, store, workers, bounds, Fresh, Base, Accounted, TypeOK
  <2>3. ~Carried(j) /\ attempts[j] < boots
    BY <2>1 DEF Placed, Counted
  <2>4. QueuedOnce(j)' /\ (InQueue(j)' => row[j] \in Unfinished)
    BY <1>3, <2>3, RecoverPlaces DEF Base, Accounted, Carried, Recoverable
  <2>5. call'[j] # call[j] => row[j] = "absent"
    BY <1>3, <2>2, ConstantsAssumption DEF Recover, Base, LockHeld, Placed
  <2>6. ~HasTask(j)' /\ call'[j] # "put"
    BY <2>2, <2>3 DEF Carried, HasTask
  <2>7. Placed(j)'
    <3>1. ~HasTaskIn(j, {"handle", "complete", "fail"})'
      BY <2>6 DEF HasTask, HasTaskIn
    <3>2. \A d \in 1 .. Copies : tpc'[<<j, d>>] = "free"
      BY <2>6 DEF HasTask
    <3>3. Single(j)'
      BY <2>4, <2>6, <3>2 DEF Single
    <3> QED
      BY <2>2, <2>4, <2>5, <2>6, <3>1, <3>3 DEF Placed, Carried, Unfinished
  <2> QED
    BY <2>2, <2>3, <2>7 DEF Counted
<1> QED
  BY <1>1, <1>2, <1>3

\* enqueue(): a job's row is created once, by the call that then queues it.
LEMMA CallersOnce ==
  ASSUME Base, NEW j \in Jobs, Placed(j), Counted(j), NEW k \in Jobs,
         \/ Call(k) \/ RecoverRaises(k) \/ CreateRow(k)
         \/ CreateRaises(k) \/ RefreshRaises(k) \/ PutJob(k)
  PROVE  Placed(j)' /\ Counted(j)'
<1>1. CASE Call(k) \/ RecoverRaises(k) \/ CreateRaises(k) \/ RefreshRaises(k)
  <2>1. UNCHANGED <<row, attempts, queue, tpc, boots, phase, started>>
    BY <1>1 DEF Call, RecoverRaises, CreateRaises, RefreshRaises, store, runner, workers, bounds
  <2>2. \/ call'[j] = call[j]
        \/ call[j] = "idle" /\ call'[j] = "start"
        \/ call[j] \in {"start", "create", "put"} /\ call'[j] = "raised"
    BY <1>1, ConstantsAssumption
    DEF Call, RecoverRaises, CreateRaises, RefreshRaises, Base, LockHeld, Accounted, TypeOK
  <2>3. Placed(j)'
    BY <2>1, <2>2 DEF Placed, Single, QueuedOnce, Carried, InQueue, HasTask, HasTaskIn, Fresh
  <2>4. Ready(j)' => Ready(j)
    BY <2>1, <2>2 DEF Ready, InQueue, HasTaskIn
  <2> QED
    BY <2>1, <2>3, <2>4, StaysCounted DEF Fresh
<1>2. CASE CreateRow(k)
  <2>1. /\ UNCHANGED <<attempts, queue, tpc, boots, phase, started>>
        /\ phase # "down" /\ call[k] = "create"
    BY <1>2 DEF CreateRow, CallersRun, runner, workers, bounds, Base
  <2>2. CASE k # j
    <3>1. row'[j] = row[j] /\ call'[j] = call[j]
      BY <1>2, <2>2 DEF CreateRow, Base, Accounted, TypeOK
    <3>2. Placed(j)'
      BY <2>1, <3>1, StaysPlaced DEF Fresh
    <3> QED
      BY <2>1, <3>1, <3>2, StaysCounted DEF Fresh, Ready, InQueue, HasTaskIn
  <2>3. CASE k = j
    <3>1. row'[j] = "pending" /\ call'[j] = "put"
      BY <1>2, <2>3 DEF CreateRow, Base, Accounted, TypeOK
    <3>2. ~Carried(j) /\ ~Fresh /\ attempts[j] = 0
      BY <2>1, <2>3 DEF Placed, Counted, Unfinished
    <3>3. ~InQueue(j)' /\ ~HasTask(j)' /\ ~Fresh'
      BY <2>1, <3>2 DEF Carried, InQueue, HasTask, Fresh
    <3>4. ~HasTaskIn(j, {"handle", "complete", "fail"})'
      BY <3>3 DEF HasTask, HasTaskIn
    <3>5. Single(j)'
      BY <2>1, <3>1, <3>3 DEF Placed, Single, QueuedOnce
    <3>6. Placed(j)'
      BY <3>1, <3>3, <3>4, <3>5 DEF Placed, Unfinished
    <3>7. attempts'[j] <= boots' /\ attempts'[j] < boots'
      BY <2>1, <3>2, ConstantsAssumption DEF Base, Phases, Accounted, TypeOK
    <3> QED
      BY <3>1, <3>6, <3>7 DEF Counted
  <2> QED
    BY <2>2, <2>3
<1>3. CASE PutJob(k)
  <2>1. /\ UNCHANGED <<row, attempts, tpc, boots, phase, started>>
        /\ queue' = Append(queue, k) /\ call[k] = "put"
    BY <1>3 DEF PutJob, store, workers, bounds
  <2>2. call'[j] = IF k = j THEN "returned" ELSE call[j]
    BY <1>3 DEF PutJob, Base, Accounted, TypeOK
  <2>3. k = j => ~InQueue(j) /\ ~HasTask(j)
    BY <2>1 DEF Placed, Single
  <2>4. QueuedOnce(j)' /\ (InQueue(j)' => InQueue(j) \/ k = j)
    BY <2>1, <2>3, AppendPlaces DEF Base, Accounted, Placed, Single
  <2>5. Placed(j)'
    BY <2>1, <2>2, <2>3, <2>4 DEF Placed, Single, Carried, HasTask, HasTaskIn, Fresh
  <2>6. Ready(j)' => Ready(j)
    BY <2>1, <2>2, <2>4 DEF Ready, HasTaskIn
  <2> QED
    BY <2>1, <2>5, <2>6, StaysCounted DEF Fresh
<1> QED
  BY <1>1, <1>2, <1>3

\* The dispatchers: what leaves the queue gets one task.
LEMMA DispatchOnce ==
  ASSUME Base, NEW j \in Jobs, Placed(j), Counted(j),
         (\E k \in Jobs : DispatchJob(k)) \/ DispatchStop
  PROVE  Placed(j)' /\ Counted(j)'
<1>1. /\ UNCHANGED <<row, attempts, call, boots, phase, started>>
      /\ queue # <<>> /\ queue' = Tail(queue)
  BY DEF DispatchJob, DispatchStop, store, bounds
<1>2. /\ QueuedOnce(j)'
      /\ InQueue(j)' => InQueue(j)
      /\ Head(queue) = j => InQueue(j) /\ ~InQueue(j)'
  BY <1>1, TailPlaces DEF Base, Accounted, Placed, Single
<1>3. CASE \A c \in 1 .. Copies : tpc'[<<j, c>>] = tpc[<<j, c>>]
  <2>1. Placed(j)'
    BY <1>1, <1>2, <1>3 DEF Placed, Single, Carried, HasTask, HasTaskIn, Fresh
  <2>2. Ready(j)' => Ready(j)
    BY <1>1, <1>2, <1>3 DEF Ready, HasTaskIn
  <2> QED
    BY <1>1, <2>1, <2>2, StaysCounted DEF Fresh
<1>4. CASE Head(queue) = j /\ \E c \in 1 .. Copies :
             tpc[<<j, c>>] = "free" /\ tpc' = [tpc EXCEPT ![<<j, c>>] = "wait"]
  <2>1. PICK c \in 1 .. Copies :
          tpc[<<j, c>>] = "free" /\ tpc' = [tpc EXCEPT ![<<j, c>>] = "wait"]
    BY <1>4
  <2>2. InQueue(j) /\ ~InQueue(j)' /\ call[j] # "put" /\ ~HasTask(j) /\ ~Fresh
    BY <1>2, <1>4 DEF Placed, Single, Carried
  <2>3. /\ tpc'[<<j, c>>] = "wait"
        /\ \A d \in 1 .. Copies : d # c => tpc'[<<j, d>>] = "free"
    BY <2>1, <2>2 DEF HasTask, Base, Accounted, TypeOK, Tasks
  <2>4. Single(j)'
    BY <1>1, <1>2, <2>2, <2>3 DEF Single
  <2>5. ~HasTaskIn(j, {"handle", "complete", "fail"})'
    BY <2>3 DEF HasTaskIn
  <2>6. Placed(j)'
    BY <1>1, <2>2, <2>4, <2>5 DEF Placed, Carried, Fresh
  <2> QED
    BY <1>1, <2>2, <2>6, StaysCounted DEF Ready, Fresh
<1>5. ASSUME NEW k \in Jobs, DispatchJob(k), k # j
      PROVE  \A c \in 1 .. Copies : tpc'[<<j, c>>] = tpc[<<j, c>>]
  BY <1>5 DEF DispatchJob, Base, Accounted, TypeOK, Tasks
<1>6. ASSUME DispatchJob(j)
      PROVE  Head(queue) = j /\ \E c \in 1 .. Copies :
               tpc[<<j, c>>] = "free" /\ tpc' = [tpc EXCEPT ![<<j, c>>] = "wait"]
  BY <1>6 DEF DispatchJob
<1>7. DispatchStop => \A c \in 1 .. Copies : tpc'[<<j, c>>] = tpc[<<j, c>>]
  BY DEF DispatchStop, workers
<1> QED
  BY <1>3, <1>4, <1>5, <1>6, <1>7

\* The tasks: a task that marks its job running is the job's only one.
LEMMA TasksOnce ==
  ASSUME Base, NEW j \in Jobs, Placed(j), Counted(j), NEW t \in Tasks,
         \/ Acquire(t) \/ GetRow(t) \/ MarkRunning(t) \/ HandlerEnds(t)
         \/ MarkFinished(t) \/ StoreRaises(t)
  PROVE  Placed(j)' /\ Counted(j)'
<1>1. /\ UNCHANGED <<call, queue, boots, phase, started>>
      /\ t[1] \in Jobs /\ t[2] \in 1 .. Copies /\ t = <<t[1], t[2]>>
  BY DEF Tasks, Acquire, GetRow, MarkRunning, HandlerEnds, MarkFinished, StoreRaises,
         runner, bounds
<1>2. \A u \in Tasks : u # t => tpc'[u] = tpc[u]
  BY DEF Acquire, GetRow, MarkRunning, HandlerEnds, MarkFinished, StoreRaises, Leave,
         Base, Accounted, TypeOK
<1>3. CASE t[1] # j
  <2>1. row'[j] = row[j] /\ attempts'[j] = attempts[j]
    BY <1>1, <1>3 DEF Acquire, GetRow, MarkRunning, HandlerEnds, MarkFinished,
                      StoreRaises, store, Base, Accounted, TypeOK
  <2>2. \A c \in 1 .. Copies : tpc'[<<j, c>>] = tpc[<<j, c>>]
    BY <1>2, <1>3 DEF Tasks
  <2>3. Placed(j)'
    BY <1>1, <2>1, <2>2
    DEF Placed, Single, QueuedOnce, Carried, InQueue, HasTask, HasTaskIn, Fresh
  <2> QED
    BY <1>1, <2>1, <2>2, <2>3, StaysCounted DEF Ready, InQueue, HasTaskIn, Fresh
<1>4. CASE t[1] = j
  <2> DEFINE c == t[2]
  <2>1. c \in 1 .. Copies /\ t = <<j, c>> /\ tpc[t] # "free"
    BY <1>1, <1>4 DEF Acquire, GetRow, MarkRunning, HandlerEnds, MarkFinished, StoreRaises
  <2>2. \A d \in 1 .. Copies : d # c => tpc[<<j, d>>] = "free" /\ tpc'[<<j, d>>] = "free"
    BY <1>2, <2>1 DEF Placed, Single, Tasks
  <2>3. HasTask(j) /\ ~InQueue(j) /\ call[j] # "put" /\ ~Fresh
    BY <2>1 DEF HasTask, Placed, Single, Carried
  <2>4. /\ ~InQueue(j)' /\ call'[j] # "put" /\ ~Fresh'
        /\ call[j] \notin {"idle", "start", "create"} /\ row[j] \in Unfinished
    BY <1>1, <2>3 DEF InQueue, Fresh, Placed, Carried, Unfinished
  <2>5. Single(j)'
    BY <1>1, <2>2, <2>4 DEF Single, QueuedOnce, InQueue
  <2>6. HasTask(j)' <=> tpc'[t] # "free"
    BY <2>1, <2>2 DEF HasTask
  <2>7. /\ HasTaskIn(j, {"handle", "complete", "fail"})' <=>
             tpc'[t] \in {"handle", "complete", "fail"}
        /\ HasTaskIn(j, {"wait", "get", "mark"})' <=> tpc'[t] \in {"wait", "get", "mark"}
    BY <2>1, <2>2 DEF HasTaskIn
  <2>8. /\ HasTaskIn(j, {"handle", "complete", "fail"}) <=>
             tpc[t] \in {"handle", "complete", "fail"}
        /\ HasTaskIn(j, {"wait", "get", "mark"}) <=> tpc[t] \in {"wait", "get", "mark"}
    BY <2>1, <2>2 DEF HasTaskIn
  <2>9. CASE MarkRunning(t)
    <3>1. /\ row'[j] = "running" /\ attempts'[j] = attempts[j] + 1
          /\ tpc'[t] = "handle" /\ tpc[t] = "mark"
      BY <2>9, <1>4 DEF MarkRunning, Base, Accounted, TypeOK
    <3>2. Placed(j)'
      BY <1>1, <2>4, <2>5, <3>1 DEF Placed, Unfinished
    <3>3. attempts[j] < boots /\ attempts[j] \in Nat /\ boots \in Nat
      BY <2>8, <3>1, ConstantsAssumption DEF Counted, Ready, Base, Accounted, TypeOK
    <3>4. attempts'[j] <= boots'
      BY <1>1, <3>1, <3>3
    <3>5. ~Ready(j)'
      BY <2>4, <2>7, <3>1 DEF Ready
    <3> QED
      BY <2>4, <3>1, <3>2, <3>4, <3>5 DEF Counted
  <2>10. CASE MarkFinished(t)
    <3>1. /\ row'[j] \in Finished /\ attempts' = attempts /\ tpc'[t] = "free"
      BY <2>10, <1>4 DEF MarkFinished, Leave, Finished, Base, Accounted, TypeOK
    <3>2. ~Ready(j)' /\ ~Carried(j)'
      BY <2>4, <2>6, <2>7, <3>1 DEF Ready, Carried
    <3>3. Placed(j)'
      BY <1>1, <2>4, <2>5, <2>7, <3>1, <3>2 DEF Placed
    <3> QED
      BY <1>1, <2>4, <3>1, <3>2, <3>3 DEF Counted, Finished
  <2>11. CASE Acquire(t) \/ GetRow(t) \/ HandlerEnds(t) \/ StoreRaises(t)
    <3>1. UNCHANGED <<row, attempts>>
      BY <2>11 DEF Acquire, GetRow, HandlerEnds, StoreRaises, store
    <3>2. \/ tpc'[t] = "free"
          \/ tpc[t] \in {"wait", "get"} /\ tpc'[t] \in {"get", "mark"}
          \/ tpc[t] = "handle" /\ tpc'[t] \in {"complete", "fail"}
      BY <2>11 DEF Acquire, GetRow, HandlerEnds, StoreRaises, Leave, Base, Accounted, TypeOK
    <3>3. Placed(j)'
      BY <1>1, <2>4, <2>5, <2>7, <2>8, <3>1, <3>2 DEF Placed
    <3>4. Ready(j)' => Ready(j)
      BY <2>4, <2>7, <2>8, <3>2 DEF Ready
    <3> QED
      BY <1>1, <2>4, <3>1, <3>3, <3>4, StaysCounted
  <2> QED
    BY <2>9, <2>10, <2>11
<1> QED
  BY <1>3, <1>4

-----------------------------------------------------------------------------
(* The theorems.                                                           *)

OnceInv == Base /\ \A j \in Jobs : Placed(j) /\ Counted(j)

\* Nothing has happened to any job in the first state.
LEMMA OnceInit == Init /\ ~Harness => OnceInv
<1> SUFFICES ASSUME Init, ~Harness PROVE OnceInv
  OBVIOUS
<1>1. Base
  BY AccountedInit, ConstantsAssumption DEF Init, Base, LockHeld, Phases
<1>2. ASSUME NEW j \in Jobs PROVE Placed(j) /\ Counted(j)
  <2>1. \A c \in 1 .. Copies : tpc[<<j, c>>] = "free"
    BY <1>2 DEF Init, Tasks
  <2>2. ~InQueue(j) /\ ~HasTask(j) /\ QueuedOnce(j)
    <3>1. 1 .. Len(queue) = {}
      BY DEF Init
    <3>2. ~InQueue(j) /\ QueuedOnce(j)
      BY <3>1, Zenon DEF InQueue, QueuedOnce
    <3> QED
      BY <2>1, <3>2 DEF HasTask
  <2>3. ~HasTaskIn(j, {"wait", "get", "mark"}) /\ ~HasTaskIn(j, {"handle", "complete", "fail"})
    BY <2>1 DEF HasTaskIn
  <2>4. row[j] = "absent" /\ attempts[j] = 0 /\ call[j] = "idle" /\ phase = "down" /\ boots = 0
    BY <1>2 DEF Init
  <2>5. Placed(j)
    BY <2>1, <2>2, <2>3, <2>4 DEF Placed, Single, Carried
  <2> QED
    BY <2>2, <2>3, <2>4, <2>5 DEF Counted, Ready
<1> QED
  BY <1>1, <1>2 DEF OnceInv

\* No step of the runner puts a job in a second place.
LEMMA OnceStep == OnceInv /\ [Next]_vars => OnceInv'
<1> SUFFICES ASSUME OnceInv, [Next]_vars PROVE OnceInv'
  OBVIOUS
<1>1. Base /\ Base'
  BY AccountedStep, LockStep, PhasesStep DEF OnceInv, Base
<1>2. ASSUME NEW j \in Jobs PROVE Placed(j)' /\ Counted(j)'
  <2>1. Placed(j) /\ Counted(j)
    BY <1>2 DEF OnceInv
  <2>2. CASE UNCHANGED vars
    BY <2>1, <2>2, StaysPlaced, StaysCounted
    DEF vars, Fresh, Ready, InQueue, HasTaskIn
  <2>3. CASE Boot \/ Crash \/ Exit \/ BootRaises \/ Stop \/ StopGathers
    BY <1>1, <1>2, <2>1, <2>3, ProcessOnce
  <2>4. CASE \E c \in Jobs \cup {Lifespan} : StartReturns(c) \/ StartLocks(c) \/ Recover(c)
    BY <1>1, <1>2, <2>1, <2>4, StartOnce
  <2>5. CASE \E k \in Jobs : \/ Call(k) \/ RecoverRaises(k) \/ CreateRow(k)
                             \/ CreateRaises(k) \/ RefreshRaises(k) \/ PutJob(k)
    BY <1>1, <1>2, <2>1, <2>5, CallersOnce
  <2>6. CASE (\E k \in Jobs : DispatchJob(k)) \/ DispatchStop
    BY <1>1, <1>2, <2>1, <2>6, DispatchOnce
  <2>7. CASE \E t \in Tasks : Acquire(t) \/ TaskStep(t) \/ StoreRaises(t)
    BY <1>1, <1>2, <2>1, <2>7, TasksOnce DEF TaskStep
  <2> QED
    BY <2>2, <2>3, <2>4, <2>5, <2>6, <2>7 DEF Next
<1> QED
  BY <1>1, <1>2 DEF OnceInv

\* Recovery and enqueue() never hand a job out twice, in any interleaving of
\* first calls, crashes, stops and store errors.
THEOREM CarriedOnce == Spec /\ ~Harness => []SingleCarrier
<1>1. OnceInv => SingleCarrier
  BY DEF OnceInv, Placed, Single, QueuedOnce, SingleCarrier
<1> QED
  BY <1>1, OnceInit, OnceStep, PTL DEF Spec

\* Within one process a job is attempted at most once: only a restart makes
\* another attempt.
THEOREM AttemptedOncePerBoot == Spec /\ ~Harness => []OneAttemptPerBoot
<1>1. OnceInv => OneAttemptPerBoot
  BY DEF OnceInv, Counted, OneAttemptPerBoot
<1> QED
  BY <1>1, OnceInit, OnceStep, PTL DEF Spec

\* Under the invariant a step changes the table as JobLifecycle says.
LEMMA StepFollowsLifecycle == OnceInv /\ [Next]_vars => [Lifecycle!Next]_<<row, attempts>>
<1> SUFFICES ASSUME OnceInv, [Next]_vars PROVE [Lifecycle!Next]_<<row, attempts>>
  OBVIOUS
<1>1. ASSUME NEW j \in Jobs, CreateRow(j) PROVE Lifecycle!Submit(j)
  <2>1. row[j] = "absent"
    BY <1>1 DEF CreateRow, OnceInv, Placed
  <2> QED
    BY <1>1, <2>1 DEF CreateRow, Lifecycle!Submit
<1>2. ASSUME NEW t \in Tasks, MarkRunning(t) PROVE Lifecycle!Attempt(t[1])
  <2>1. t[1] \in Jobs /\ t[2] \in 1 .. Copies /\ t = <<t[1], t[2]>>
    BY DEF Tasks
  <2>2. HasTask(t[1])
    BY <1>2, <2>1 DEF MarkRunning, HasTask
  <2>3. row[t[1]] \in Unfinished
    BY <2>1, <2>2 DEF OnceInv, Placed, Carried
  <2> QED
    BY <1>2, <2>3 DEF MarkRunning, Unfinished, Lifecycle!Attempt, Lifecycle!Unfinished
<1>3. ASSUME NEW t \in Tasks, MarkFinished(t) PROVE Lifecycle!Finish(t[1])
  <2>1. t[1] \in Jobs /\ t[2] \in 1 .. Copies /\ t = <<t[1], t[2]>>
    BY DEF Tasks
  <2>2. HasTaskIn(t[1], {"handle", "complete", "fail"})
    BY <1>3, <2>1 DEF MarkFinished, HasTaskIn
  <2>3. row[t[1]] = "running"
    BY <2>1, <2>2 DEF OnceInv, Placed
  <2> QED
    BY <1>3, <2>3 DEF MarkFinished, Lifecycle!Finish, Lifecycle!Finished
<1>4. \A t \in Tasks : t[1] \in Jobs
  BY DEF Tasks
<1>5. \/ UNCHANGED <<row, attempts>>
      \/ \E j \in Jobs : CreateRow(j)
      \/ \E t \in Tasks : MarkRunning(t) \/ MarkFinished(t)
  BY DEF Next, vars, Boot, Crash, Exit, BootRaises, Stop, StopGathers, DispatchStop,
         StartReturns, StartLocks, Recover, Call, RecoverRaises, CreateRaises, RefreshRaises, PutJob,
         DispatchJob, Acquire, TaskStep, GetRow, HandlerEnds, StoreRaises, store
<1> QED
  BY <1>1, <1>2, <1>3, <1>4, <1>5 DEF Lifecycle!Next

\* JobRunner implements JobLifecycle: a row is created once, attempted while it
\* is unfinished, and a finished job is never touched again.
THEOREM RunnerImplementsLifecycle == Spec /\ ~Harness => ImplementsLifecycle
<1>1. Init => Lifecycle!Init
  BY DEF Init, Lifecycle!Init
<1> QED
  BY <1>1, OnceInit, OnceStep, StepFollowsLifecycle, PTL
  DEF Spec, ImplementsLifecycle, Lifecycle!Spec, Lifecycle!jobVars

-----------------------------------------------------------------------------
(***************************************************************************)
(* What stop() meets and what it leaves (~Harness).                        *)
(***************************************************************************)

\* Under a lifespan one dispatcher runs, from the recovery until stop() has its
\* sentinel read; a bare process may collect more of them but is never stopped.  The
\* sentinel is on the queue once, while stop() waits for the dispatcher and not else.
Hearing ==
  /\ phase # "bare" => leaked = 0
  /\ disp => phase \notin {"down", "stopped"}
  /\ phase = "starting" => (disp <=> starter = Lifespan)
  /\ phase = "serving" => disp
  /\ InQueue(STOP) <=> phase = "stopping" /\ disp
  /\ QueuedOnce(STOP)
  /\ phase \in {"down", "starting", "stopped"} => \A t \in Tasks : tpc[t] = "free"

\* A step that leaves the phase, the lock and the dispatchers as they are, and the
\* sentinel where it is.
LEMMA StaysHearing ==
  ASSUME Hearing, UNCHANGED <<phase, starter, disp>>, phase # "bare" => leaked' = leaked,
         InQueue(STOP)' <=> InQueue(STOP), QueuedOnce(STOP)',
         phase \in {"down", "starting", "stopped"} => UNCHANGED tpc
  PROVE  Hearing'
BY DEF Hearing

\* The process.
LEMMA ProcessHearing ==
  ASSUME Base, Hearing, Boot \/ Crash \/ Exit \/ BootRaises \/ Stop \/ StopGathers
  PROVE  Hearing'
<1>1. CASE Boot
  <2>1. /\ UNCHANGED <<started, starter, queue, disp, leaked, tpc>>
        /\ phase = "down" /\ phase' \in {"starting", "bare"}
    BY <1>1 DEF Boot, runner, workers
  <2>2. ~ disp /\ starter = NoOne /\ starter # Lifespan
    BY <2>1, ConstantsAssumption DEF Hearing, Base, Phases
  <2> QED
    BY <2>1, <2>2 DEF Hearing, InQueue, QueuedOnce
<1>2. CASE Crash \/ Exit \/ BootRaises
  <2>1. LoseMemory
    BY <1>2 DEF Crash, Exit, BootRaises
  <2>2. /\ phase' = "down" /\ ~ disp' /\ leaked' = 0
        /\ 1 .. Len(queue') = {} /\ \A t \in Tasks : tpc'[t] = "free"
    BY <2>1 DEF LoseMemory
  <2>3. ~ InQueue(STOP)' /\ QueuedOnce(STOP)'
    BY <2>2, Zenon DEF InQueue, QueuedOnce
  <2> QED
    BY <2>2, <2>3 DEF Hearing
<1>3. CASE Stop
  <2>1. /\ phase = "serving" /\ phase' = "stopping" /\ queue' = Append(queue, STOP)
        /\ UNCHANGED <<disp, leaked, starter>>
    BY <1>3 DEF Stop, Base
  <2>2. ~ InQueue(STOP) /\ QueuedOnce(STOP) /\ disp
    BY <2>1 DEF Hearing
  <2>3. QueuedOnce(STOP)'
    BY <2>1, <2>2, AppendPlaces DEF Base, Accounted
  <2>4. InQueue(STOP)'
    BY <2>1, AppendKeeps DEF Base, Accounted
  <2> QED
    BY <2>1, <2>2, <2>3, <2>4 DEF Hearing
<1>4. CASE StopGathers
  <2>1. /\ phase = "stopping" /\ phase' = "stopped" /\ ~ disp
        /\ UNCHANGED <<queue, disp, leaked>> /\ tpc' = [t \in Tasks |-> "free"]
    BY <1>4 DEF StopGathers
  <2> QED
    BY <2>1 DEF Hearing, InQueue, QueuedOnce
<1> QED
  BY <1>1, <1>2, <1>3, <1>4

\* start(): the lifespan's creates the dispatcher, and only a bare process's can
\* create one beside another.
LEMMA StartHearing ==
  ASSUME Base, Hearing, NEW c \in Jobs \cup {Lifespan},
         StartReturns(c) \/ StartLocks(c) \/ Recover(c)
  PROVE  Hearing'
<1>1. CASE StartReturns(c)
  <2>1. c # Lifespan /\ UNCHANGED <<queue, tpc, starter, disp, leaked>>
    BY <1>1 DEF StartReturns, AtStart, runner, workers, Base, Phases
  <2>2. UNCHANGED phase
    BY <1>1, <2>1 DEF StartReturns, AfterStart
  <2> QED
    BY <2>1, <2>2, StaysHearing DEF Hearing, InQueue, QueuedOnce
<1>2. CASE StartLocks(c)
  <2>1. /\ UNCHANGED <<phase, queue, tpc>> /\ ~ started /\ starter = NoOne /\ starter' = c
        /\ disp' = TRUE /\ leaked' = IF disp THEN leaked + 1 ELSE leaked
    BY <1>2 DEF StartLocks, workers
  <2>2. \/ phase = "bare"
        \/ phase = "starting" /\ c = Lifespan
    BY <1>2, <2>1 DEF StartLocks, AtStart, CallersRun, Base, Phases
  <2>3. NoOne # Lifespan
    BY ConstantsAssumption
  <2>4. phase = "starting" => ~ disp
    BY <2>1, <2>3 DEF Hearing
  <2>5. (InQueue(STOP)' <=> InQueue(STOP)) /\ (QueuedOnce(STOP)' <=> QueuedOnce(STOP))
    BY <2>1 DEF InQueue, QueuedOnce
  <2> QED
    BY <2>1, <2>2, <2>4, <2>5 DEF Hearing
<1>3. CASE Recover(c)
  <2>1. starter = c /\ starter' = NoOne /\ UNCHANGED <<tpc, disp, leaked>>
    BY <1>3 DEF Recover, workers
  <2>2. \/ c = Lifespan /\ phase = "starting" /\ phase' = "serving"
        \/ c # Lifespan /\ phase = "bare" /\ phase' = "bare"
    BY <1>3, <2>1, ConstantsAssumption DEF Recover, AfterStart, Base, Phases
  <2>3. ~ InQueue(STOP)
    BY <2>2 DEF Hearing
  <2>4. STOP \notin Recoverable
    BY ConstantsAssumption DEF Recoverable
  <2>5. QueuedOnce(STOP)' /\ ~ InQueue(STOP)'
    BY <1>3, <2>3, <2>4, RecoverPlaces DEF Base, Accounted
  <2> QED
    BY <2>1, <2>2, <2>5 DEF Hearing
<1> QED
  BY <1>1, <1>2, <1>3

\* The dispatchers: the one that takes the sentinel is the one stop() waits for.
LEMMA DispatchHearing ==
  ASSUME OnceInv, Hearing, (\E j \in Jobs : DispatchJob(j)) \/ DispatchStop
  PROVE  Hearing'
<1>1. /\ UNCHANGED <<phase, starter>> /\ queue # <<>> /\ queue' = Tail(queue)
  BY DEF DispatchJob, DispatchStop
<1>2. /\ QueuedOnce(STOP)'
      /\ InQueue(STOP)' => InQueue(STOP)
      /\ Head(queue) = STOP => InQueue(STOP) /\ ~ InQueue(STOP)'
  BY <1>1, TailPlaces DEF OnceInv, Base, Accounted, Hearing
<1>3. ASSUME NEW j \in Jobs, DispatchJob(j) PROVE Hearing'
  <2>1. UNCHANGED <<disp, leaked>> /\ (disp \/ leaked > 0) /\ Head(queue) # STOP
    BY <1>3, ConstantsAssumption DEF DispatchJob
  <2>2. InQueue(STOP)' <=> InQueue(STOP)
    BY <1>1, <1>2, <2>1, TailKeeps DEF OnceInv, Base, Accounted
  <2>3. phase \notin {"down", "stopped"}
    BY <2>1 DEF Hearing
  <2>4. phase # "starting"
    <3>1. QueuedOnce(j) /\ (Fresh => ~ InQueue(j))
      BY <1>3 DEF OnceInv, Placed, Single, Carried
    <3>2. Head(queue) = j
      BY <1>3 DEF DispatchJob
    <3>3. InQueue(j)
      BY <1>1, <3>1, <3>2, TailPlaces DEF OnceInv, Base, Accounted
    <3> QED
      BY <3>1, <3>3 DEF Fresh, OnceInv, Base, Phases
  <2> QED
    BY <1>1, <1>2, <2>1, <2>2, <2>3, <2>4, StaysHearing
<1>4. CASE DispatchStop
  <2>1. Head(queue) = STOP /\ UNCHANGED tpc
    BY <1>4 DEF DispatchStop, workers
  <2>2. phase = "stopping" /\ disp /\ leaked = 0
    BY <1>2, <2>1 DEF Hearing
  <2>3. ~ disp' /\ leaked' = leaked
    BY <1>4, <2>2 DEF DispatchStop
  <2> QED
    BY <1>1, <1>2, <2>1, <2>2, <2>3 DEF Hearing
<1> QED
  BY <1>3, <1>4

\* enqueue() and the tasks put no sentinel on the queue and touch no dispatcher.
LEMMA OthersHearing ==
  ASSUME Base, Hearing,
         \/ \E j \in Jobs : \/ Call(j) \/ RecoverRaises(j) \/ CreateRow(j)
                           \/ CreateRaises(j) \/ RefreshRaises(j) \/ PutJob(j)
         \/ \E t \in Tasks : Acquire(t) \/ TaskStep(t) \/ StoreRaises(t)
  PROVE  Hearing'
<1>1. ASSUME NEW j \in Jobs,
             Call(j) \/ CreateRow(j) \/ CreateRaises(j) \/ RefreshRaises(j)
      PROVE  Hearing'
  <2>1. UNCHANGED <<phase, starter, queue, disp, leaked, tpc>>
    BY <1>1 DEF Call, CreateRow, CreateRaises, RefreshRaises, runner, workers
  <2> QED
    BY <2>1, StaysHearing DEF Hearing, InQueue, QueuedOnce
<1>2. ASSUME NEW j \in Jobs, RecoverRaises(j) PROVE Hearing'
  <2>1. UNCHANGED <<phase, queue, disp, leaked, tpc>> /\ phase = "bare"
    BY <1>2 DEF RecoverRaises, workers, Base, Phases
  <2> QED
    BY <2>1 DEF Hearing, InQueue, QueuedOnce
<1>3. ASSUME NEW j \in Jobs, PutJob(j) PROVE Hearing'
  <2>1. UNCHANGED <<phase, starter, disp, leaked, tpc>> /\ queue' = Append(queue, j) /\ j # STOP
    BY <1>3, ConstantsAssumption DEF PutJob, workers
  <2>2. QueuedOnce(STOP)' /\ (InQueue(STOP)' => InQueue(STOP))
    BY <2>1, AppendPlaces DEF Base, Accounted, Hearing
  <2>3. InQueue(STOP) => InQueue(STOP)'
    BY <2>1, AppendKeeps DEF Base, Accounted
  <2> QED
    BY <2>1, <2>2, <2>3, StaysHearing
<1>4. ASSUME NEW t \in Tasks, Acquire(t) \/ TaskStep(t) \/ StoreRaises(t) PROVE Hearing'
  <2>1. UNCHANGED <<phase, starter, queue, disp, leaked>> /\ tpc[t] # "free"
    BY <1>4 DEF Acquire, TaskStep, GetRow, MarkRunning, HandlerEnds, MarkFinished,
                StoreRaises, runner
  <2>2. phase \notin {"down", "starting", "stopped"}
    BY <2>1 DEF Hearing
  <2> QED
    BY <2>1, <2>2, StaysHearing DEF Hearing, InQueue, QueuedOnce
<1> QED
  BY <1>1, <1>2, <1>3, <1>4

\* With a lifespan, what stop() relies on holds throughout.
LEMMA HearingHolds == Spec /\ ~Harness => [](OnceInv /\ Hearing)
<1>1. Init /\ ~Harness => Hearing
  <2> SUFFICES ASSUME Init PROVE Hearing
    OBVIOUS
  <2>1. 1 .. Len(queue) = {}
    BY DEF Init
  <2>2. ~ InQueue(STOP) /\ QueuedOnce(STOP)
    BY <2>1, Zenon DEF InQueue, QueuedOnce
  <2> QED
    BY <2>2 DEF Init, Hearing
<1>2. OnceInv /\ Hearing /\ [Next]_vars => Hearing'
  <2> SUFFICES ASSUME OnceInv, Hearing, [Next]_vars PROVE Hearing'
    OBVIOUS
  <2>1. Base
    BY DEF OnceInv
  <2>2. CASE UNCHANGED vars
    BY <2>2 DEF vars, Hearing, InQueue, QueuedOnce
  <2>3. CASE Boot \/ Crash \/ Exit \/ BootRaises \/ Stop \/ StopGathers
    BY <2>1, <2>3, ProcessHearing
  <2>4. CASE \E c \in Jobs \cup {Lifespan} : StartReturns(c) \/ StartLocks(c) \/ Recover(c)
    BY <2>1, <2>4, StartHearing
  <2>5. CASE (\E j \in Jobs : DispatchJob(j)) \/ DispatchStop
    BY <2>5, DispatchHearing
  <2>6. CASE \/ \E j \in Jobs : \/ Call(j) \/ RecoverRaises(j) \/ CreateRow(j)
                                \/ CreateRaises(j) \/ RefreshRaises(j) \/ PutJob(j)
             \/ \E t \in Tasks : Acquire(t) \/ TaskStep(t) \/ StoreRaises(t)
    BY <2>1, <2>6, OthersHearing
  <2> QED
    BY <2>2, <2>3, <2>4, <2>5, <2>6 DEF Next
<1> QED
  BY <1>1, <1>2, OnceInit, OnceStep, PTL DEF Spec

\* What stop() waits for comes: until the dispatcher it refers to has returned, that
\* one is alive, no other dispatcher can take the sentinel from it, and the sentinel is
\* in the queue.  With no stop() under way no sentinel is left to end a later loop.
StopIsOnItsWay ==
  /\ phase = "stopping" /\ disp => leaked = 0 /\ InQueue(STOP)
  /\ InQueue(STOP) => phase = "stopping"

\* While stop() waits its sentinel is in the queue and no leaked dispatcher can take it.
THEOREM StopReachesItsDispatcher == Spec /\ ~Harness => []StopIsOnItsWay
<1>1. Hearing => StopIsOnItsWay
  BY DEF Hearing, StopIsOnItsWay
<1> QED
  BY <1>1, HearingHolds, PTL

\* Once stop() has returned nothing of the runner is left that could touch the store
\* the lifespan now disposes: no dispatcher, no task, no permit out.
StoppedIsQuiet ==
  phase = "stopped" =>
    ~ disp /\ leaked = 0 /\ (\A t \in Tasks : tpc[t] = "free") /\ permits = Concurrency

\* When stop() has returned, the runner has come to rest.
THEOREM StopLeavesNothing == Spec /\ ~Harness => []StoppedIsQuiet
<1>1. ASSUME OnceInv, Hearing, phase = "stopped"
      PROVE  ~ disp /\ leaked = 0 /\ (\A t \in Tasks : tpc[t] = "free") /\ permits = Concurrency
  <2>1. ~ disp /\ leaked = 0 /\ \A t \in Tasks : tpc[t] = "free"
    BY <1>1 DEF Hearing
  <2>2. Holders = {}
    BY <2>1 DEF Holders, Inside
  <2>3. permits + Cardinality({}) = Concurrency /\ permits \in Nat
    BY <1>1, <2>2, ConstantsAssumption DEF OnceInv, Base, Accounted, BoundedConcurrency, TypeOK
  <2> QED
    BY <2>1, <2>3, FS_EmptySet
<1>2. OnceInv /\ Hearing => StoppedIsQuiet
  BY <1>1 DEF StoppedIsQuiet
<1> QED
  BY <1>2, HearingHolds, PTL

=============================================================================

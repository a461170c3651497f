----------------------------- MODULE JobRunner -----------------------------
(***************************************************************************)
(* backend/app/services/job_runner.py: JobRunner over the durable `jobs`   *)
(* table, one API process at a time, with the calls of app/main.py's       *)
(* lifespan (start, stop) and of api/research.py (enqueue).                *)
(*                                                                         *)
(* One action per stretch of code between two awaits that can suspend: the *)
(* store's operations (each its own transaction), the queue's get, the     *)
(* start lock and the semaphore.  `put` on the unbounded queue never       *)
(* suspends, so it belongs to the action before it.                        *)
(***************************************************************************)
EXTENDS Naturals, Sequences, FiniteSets

CONSTANTS
  Jobs,           \* one enqueue() call, and the row it creates, per member
  Concurrency,    \* max(1, concurrency): the permits of the semaphore
  Copies,         \* 1..Copies tasks may exist for one job id
  Harness,        \* is the runner driven by hand, as the tests drive it: stop()
                  \* with no lifespan, enqueue() again after stop()?
  MaxBoots,       \* bound on the processes of one behaviour
  MaxFaults,      \* bound on the store operations that raise
  Lifespan,       \* the caller of start() that is not an enqueue()
  NoOne,          \* nobody holds the start lock
  STOP            \* job_runner._STOP

ASSUME ConstantsAssumption ==
  /\ IsFiniteSet(Jobs)
  /\ Concurrency \in Nat \ {0}
  /\ Copies \in Nat \ {0}
  /\ Harness \in BOOLEAN
  /\ MaxBoots \in Nat
  /\ MaxFaults \in Nat
  /\ Lifespan \notin Jobs
  /\ NoOne \notin Jobs \cup {Lifespan}
  /\ STOP \notin Jobs

VARIABLES
  row,            \* durable: JobORM.status
  attempts,       \* durable: JobORM.attempts
  createdAt,      \* durable: JobORM.created_at, as a rank; 0 before the insert
  phase,          \* where the process and app.main.lifespan are
  call,           \* where each enqueue() call is
  started,        \* _started
  starter,        \* the caller inside `async with self._start_lock`
  queue,          \* _queue
  disp,           \* _dispatcher_task is alive
  leaked,         \* earlier _dispatch_loop tasks that are still alive
  tpc,            \* where each _run_job task is
  permits,        \* the value of _semaphore
  boots,          \* processes booted so far (bounded by MaxBoots)
  faults,         \* store operations that raised (bounded by MaxFaults)
  stranded        \* jobs a store error left to the next process: a task
                  \* died of it, or an enqueue() after its row's commit

store   == <<row, attempts, createdAt>>
runner  == <<started, starter, queue, disp, leaked>>
workers == <<tpc, permits>>
bounds  == <<boots, faults>>
vars    == <<row, attempts, createdAt, phase, call, started, starter, queue,
             disp, leaked, tpc, permits, boots, faults, stranded>>

Tasks      == Jobs \X (1 .. Copies)
Unfinished == {"pending", "running"}
Finished   == {"completed", "failed"}

\* The stretches of _run_job that hold the semaphore.
Inside == {"get", "mark", "handle", "fail", "complete"}

TypeOK ==
  /\ row       \in [Jobs -> Unfinished \cup Finished \cup {"absent"}]
  /\ attempts  \in [Jobs -> Nat]
  /\ createdAt \in [Jobs -> Nat]
  /\ phase     \in {"down", "starting", "serving", "bare", "stopping", "stopped"}
  /\ call      \in [Jobs -> {"idle", "start", "create", "put", "returned", "raised"}]
  /\ started   \in BOOLEAN
  /\ starter   \in Jobs \cup {Lifespan, NoOne}
  /\ queue     \in Seq(Jobs \cup {STOP})
  /\ disp      \in BOOLEAN
  /\ leaked    \in Nat
  /\ tpc       \in [Tasks -> Inside \cup {"free", "wait"}]
  /\ permits   \in 0 .. Concurrency
  /\ boots     \in 0 .. MaxBoots
  /\ faults    \in 0 .. MaxFaults
  /\ stranded  \in SUBSET Jobs

-----------------------------------------------------------------------------
(* The process: boot, shutdown, crash.                                     *)

Init ==
  /\ row       = [j \in Jobs |-> "absent"]
  /\ attempts  = [j \in Jobs |-> 0]
  /\ createdAt = [j \in Jobs |-> 0]
  /\ phase     = "down"
  /\ call      = [j \in Jobs |-> "idle"]
  /\ started   = FALSE
  /\ starter   = NoOne
  /\ queue     = <<>>
  /\ disp      = FALSE
  /\ leaked    = 0
  /\ tpc       = [t \in Tasks |-> "free"]
  /\ permits   = Concurrency
  /\ boots     = 0
  /\ faults    = 0
  /\ stranded  = {}

\* create_app() builds a fresh runner.  Under a server the lifespan awaits
\* start() first; a bare ASGI test transport drives no lifespan at all.
Boot ==
  /\ phase = "down"
  /\ boots < MaxBoots
  /\ boots' = boots + 1
  /\ phase' \in {"starting", "bare"}
  /\ UNCHANGED <<store, call, runner, workers, faults, stranded>>

\* Everything in memory is gone; the calls in flight are cut off.
LoseMemory ==
  /\ phase'    = "down"
  /\ call'     = [j \in Jobs |-> IF call[j] \in {"start", "create", "put"}
                                 THEN "raised" ELSE call[j]]
  /\ started'  = FALSE
  /\ starter'  = NoOne
  /\ queue'    = <<>>
  /\ disp'     = FALSE
  /\ leaked'   = 0
  /\ tpc'      = [t \in Tasks |-> "free"]
  /\ permits'  = Concurrency
  /\ stranded' = {}

\* The process dies between any two steps (guarded so that one more can boot).
Crash ==
  /\ phase # "down"
  /\ boots < MaxBoots
  /\ LoseMemory
  /\ UNCHANGED <<store, bounds>>

\* After stop() the lifespan disposes the engine and the process exits.
Exit ==
  /\ phase = "stopped"
  /\ LoseMemory
  /\ UNCHANGED <<store, bounds>>

-----------------------------------------------------------------------------
(* start() and enqueue().                                                  *)

CallersRun ==
  \/ phase \in {"serving", "bare", "stopping"}
  \/ Harness /\ phase = "stopped"

\* POST /research reaches enqueue().
Call(j) ==
  /\ phase \in {"serving", "bare"} \/ (Harness /\ phase = "stopped")
  /\ call[j] = "idle"
  /\ call' = [call EXCEPT ![j] = "start"]
  /\ UNCHANGED <<store, phase, runner, workers, bounds, stranded>>

AtStart(c) ==
  IF c = Lifespan THEN phase = "starting" ELSE CallersRun /\ call[c] = "start"

\* What c goes on to when start() returns.
AfterStart(c) ==
  /\ call'  = IF c = Lifespan THEN call ELSE [call EXCEPT ![c] = "create"]
  /\ phase' = IF c = Lifespan THEN "serving" ELSE phase

\* start() finds _started set, before or after waiting for the lock.
StartReturns(c) ==
  /\ AtStart(c)
  /\ started
  /\ AfterStart(c)
  /\ UNCHANGED <<store, runner, workers, bounds, stranded>>

\* Broken variant: _started is set before the recovery query, not after it.
StartLocksTooEarly(c) ==
  /\ AtStart(c)
  /\ ~started
  /\ starter = NoOne
  /\ starter' = c
  /\ started' = TRUE
  /\ disp'    = TRUE
  /\ UNCHANGED <<store, phase, call, queue, leaked, workers, bounds, stranded>>

\* start() takes the lock, creates the dispatcher and awaits the recovery
\* query.  A dispatcher left by a recovery that raised lives on, reads the
\* same queue and is no longer referred to.
StartLocks(c) ==
  /\ AtStart(c)
  /\ ~started
  /\ starter = NoOne
  /\ starter' = c
  /\ leaked'  = IF disp THEN leaked + 1 ELSE leaked
  /\ disp'    = TRUE
  /\ UNCHANGED <<store, phase, call, started, queue, workers, bounds, stranded>>

\* Broken variants: a `running` row is taken for one somebody is running; a
\* failed job is retried at the next boot.
RecoverablePendingOnly == {j \in Jobs : row[j] = "pending"}
RecoverableFailed      == {j \in Jobs : row[j] \in Unfinished \cup {"failed"}}

\* list_recoverable(): the unfinished rows, by created_at.
Recoverable == {j \in Jobs : row[j] \in Unfinished}

OldestFirst(S) ==
  {s \in [1 .. Cardinality(S) -> S] :
     /\ \A j \in S : \E i \in 1 .. Cardinality(S) : s[i] = j
     /\ \A i, k \in 1 .. Cardinality(S) :
          i < k => createdAt[s[i]] < createdAt[s[k]]}

\* The recovery query answers: requeue every row, set _started, release.
Recover(c) ==
  /\ starter = c
  /\ \E s \in OldestFirst(Recoverable) : queue' = queue \o s
  /\ started'  = TRUE
  /\ starter'  = NoOne
  /\ stranded' = {}
  /\ AfterStart(c)
  /\ UNCHANGED <<store, disp, leaked, workers, bounds>>

\* The recovery query raises in an enqueue(): the lock is released, the
\* caller sees the error and the dispatcher is left running.
RecoverRaises(j) ==
  /\ starter = j
  /\ faults < MaxFaults
  /\ faults'  = faults + 1
  /\ starter' = NoOne
  /\ call'    = [call EXCEPT ![j] = "raised"]
  /\ UNCHANGED <<store, phase, started, queue, disp, leaked, workers, boots,
                 stranded>>

\* The recovery query raises in the lifespan: the server gives up.
BootRaises ==
  /\ starter = Lifespan
  /\ faults < MaxFaults
  /\ boots < MaxBoots
  /\ faults' = faults + 1
  /\ LoseMemory
  /\ UNCHANGED <<store, boots>>

\* store.create(): the row is committed; the refresh that follows suspends.  An
\* insert or a commit that raises leaves no row.
CreateRow(j) ==
  /\ CallersRun
  /\ call[j] = "create"
  /\ row'       = [row EXCEPT ![j] = "pending"]
  /\ createdAt' = [createdAt EXCEPT ![j] =
                     1 + Cardinality({k \in Jobs : row[k] # "absent"})]
  /\ call'      = [call EXCEPT ![j] = "put"]
  /\ UNCHANGED <<attempts, phase, runner, workers, bounds, stranded>>

CreateRaises(j) ==
  /\ CallersRun
  /\ call[j] = "create"
  /\ faults < MaxFaults
  /\ faults' = faults + 1
  /\ call'   = [call EXCEPT ![j] = "raised"]
  /\ UNCHANGED <<store, phase, runner, workers, boots, stranded>>

\* The refresh after the commit raises: the caller sees the error, the row stays
\* and nothing in this process carries it.
RefreshRaises(j) ==
  /\ CallersRun
  /\ call[j] = "put"
  /\ faults < MaxFaults
  /\ faults'   = faults + 1
  /\ call'     = [call EXCEPT ![j] = "raised"]
  /\ stranded' = stranded \cup {j}
  /\ UNCHANGED <<store, phase, runner, workers, boots>>

PutJob(j) ==
  /\ CallersRun
  /\ call[j] = "put"
  /\ queue' = Append(queue, j)
  /\ call'  = [call EXCEPT ![j] = "returned"]
  /\ UNCHANGED <<store, phase, started, starter, disp, leaked, workers, bounds,
                 stranded>>

-----------------------------------------------------------------------------
(* stop().                                                                 *)

Stop ==
  /\ phase = "serving" \/ (Harness /\ phase = "bare")
  /\ started
  /\ boots < MaxBoots
  /\ phase' = "stopping"
  /\ queue' = Append(queue, STOP)
  /\ UNCHANGED <<store, call, started, starter, disp, leaked, workers, bounds,
                 stranded>>

\* _dispatcher_task has returned: cancel every task and gather them.  A task is
\* cancelled at the await it is suspended in, so its row keeps the status the
\* last committed update gave it.
StopGathers ==
  /\ phase = "stopping"
  /\ ~disp
  /\ tpc'     = [t \in Tasks |-> "free"]
  /\ permits' = Concurrency
  /\ started' = FALSE
  /\ phase'   = "stopped"
  /\ UNCHANGED <<store, call, starter, queue, disp, leaked, bounds, stranded>>

-----------------------------------------------------------------------------
(* _dispatch_loop(): any of the dispatchers alive takes the next item.     *)

DispatchJob(j) ==
  /\ disp \/ leaked > 0
  /\ queue # <<>>
  /\ Head(queue) = j
  /\ queue' = Tail(queue)
  /\ \E c \in 1 .. Copies :
       /\ tpc[<<j, c>>] = "free"
       /\ \A d \in 1 .. c - 1 : tpc[<<j, d>>] # "free"
       /\ tpc' = [tpc EXCEPT ![<<j, c>>] = "wait"]
  /\ UNCHANGED <<store, phase, call, started, starter, disp, leaked, permits,
                 bounds, stranded>>

\* Broken variant: the dispatcher goes on reading after the sentinel.
DispatchStopGoesOn ==
  /\ disp
  /\ queue # <<>>
  /\ Head(queue) = STOP
  /\ queue' = Tail(queue)
  /\ UNCHANGED <<store, phase, call, started, starter, disp, leaked, workers,
                 bounds, stranded>>

DispatchStop ==
  /\ queue # <<>>
  /\ Head(queue) = STOP
  /\ queue' = Tail(queue)
  /\ \/ /\ disp
        /\ disp' = FALSE
        /\ UNCHANGED leaked
     \/ /\ leaked > 0
        /\ leaked' = leaked - 1
        /\ UNCHANGED disp
  /\ UNCHANGED <<store, phase, call, started, starter, workers, bounds, stranded>>

-----------------------------------------------------------------------------
(* _run_job().                                                             *)

\* Broken variant: the semaphore lets everybody in.
AcquireUnchecked(t) ==
  /\ tpc[t] = "wait"
  /\ permits' = permits - 1
  /\ tpc'     = [tpc EXCEPT ![t] = "get"]
  /\ UNCHANGED <<store, phase, call, runner, bounds, stranded>>

Acquire(t) ==
  /\ tpc[t] = "wait"
  /\ permits > 0
  /\ permits' = permits - 1
  /\ tpc'     = [tpc EXCEPT ![t] = "get"]
  /\ UNCHANGED <<store, phase, call, runner, bounds, stranded>>

\* Leaving `async with self._semaphore`, on whatever path.
Leave(t) ==
  /\ tpc'     = [tpc EXCEPT ![t] = "free"]
  /\ permits' = permits + 1

GetRow(t) ==
  /\ tpc[t] = "get"
  /\ \/ /\ row[t[1]] \in {"absent", "completed"}
        /\ Leave(t)
     \/ /\ row[t[1]] \notin {"absent", "completed"}
        /\ tpc' = [tpc EXCEPT ![t] = "mark"]
        /\ UNCHANGED permits
  /\ UNCHANGED <<store, phase, call, runner, bounds, stranded>>

MarkRunning(t) ==
  /\ tpc[t] = "mark"
  /\ row'      = [row EXCEPT ![t[1]] = "running"]
  /\ attempts' = [attempts EXCEPT ![t[1]] = @ + 1]
  /\ tpc'      = [tpc EXCEPT ![t] = "handle"]
  /\ UNCHANGED <<createdAt, phase, call, runner, permits, bounds, stranded>>

\* Broken variants: a failed handler is retried at once; its exception is not
\* recorded.
HandlerRetried(t) ==
  /\ tpc[t] = "handle"
  /\ \E next \in {"complete", "mark"} : tpc' = [tpc EXCEPT ![t] = next]
  /\ UNCHANGED <<store, phase, call, runner, permits, bounds, stranded>>
HandlerEscapes(t) ==
  /\ tpc[t] = "handle"
  /\ \/ tpc' = [tpc EXCEPT ![t] = "complete"] /\ UNCHANGED permits
     \/ Leave(t)
  /\ UNCHANGED <<store, phase, call, runner, bounds, stranded>>

\* The handler returns, or raises an Exception that _run_job records.
HandlerEnds(t) ==
  /\ tpc[t] = "handle"
  /\ \E next \in {"complete", "fail"} : tpc' = [tpc EXCEPT ![t] = next]
  /\ UNCHANGED <<store, phase, call, runner, permits, bounds, stranded>>

MarkFinished(t) ==
  /\ \/ /\ tpc[t] = "complete"
        /\ row' = [row EXCEPT ![t[1]] = "completed"]
     \/ /\ tpc[t] = "fail"
        /\ row' = [row EXCEPT ![t[1]] = "failed"]
  /\ Leave(t)
  /\ UNCHANGED <<attempts, createdAt, phase, call, runner, bounds, stranded>>

\* Broken variant: the permit is given back on the normal paths only.
StoreRaisesKeepsPermit(t) ==
  /\ tpc[t] \in {"get", "mark", "complete", "fail"}
  /\ faults < MaxFaults
  /\ faults'   = faults + 1
  /\ stranded' = stranded \cup {t[1]}
  /\ tpc'      = [tpc EXCEPT ![t] = "free"]
  /\ UNCHANGED <<store, phase, call, runner, permits, boots>>

\* get(), mark_running(), mark_completed() or mark_failed() raises: nothing
\* catches it, so the task ends and the row stays as it was.
StoreRaises(t) ==
  /\ tpc[t] \in {"get", "mark", "complete", "fail"}
  /\ faults < MaxFaults
  /\ faults'   = faults + 1
  /\ stranded' = stranded \cup {t[1]}
  /\ Leave(t)
  /\ UNCHANGED <<store, phase, call, runner, boots>>

TaskStep(t) == GetRow(t) \/ MarkRunning(t) \/ HandlerEnds(t) \/ MarkFinished(t)

-----------------------------------------------------------------------------

Next ==
  \/ Boot \/ Crash \/ Exit \/ BootRaises \/ Stop \/ StopGathers \/ DispatchStop
  \/ \E c \in Jobs \cup {Lifespan} : StartReturns(c) \/ StartLocks(c) \/ Recover(c)
  \/ \E j \in Jobs : \/ Call(j) \/ RecoverRaises(j) \/ CreateRow(j)
                     \/ CreateRaises(j) \/ RefreshRaises(j) \/ PutJob(j)
                     \/ DispatchJob(j)
  \/ \E t \in Tasks : Acquire(t) \/ TaskStep(t) \/ StoreRaises(t)

Spec == Init /\ [][Next]_vars

\* The event loop runs every coroutine that can proceed and asyncio's
\* semaphore serves its waiters first come first served (hence SF).  A handler
\* ends, and a process that exits or dies is booted again.
Fairness ==
  /\ WF_vars(Boot) /\ WF_vars(Exit) /\ WF_vars(StopGathers) /\ WF_vars(DispatchStop)
  /\ \A c \in Jobs \cup {Lifespan} :
       WF_vars(StartReturns(c)) /\ WF_vars(StartLocks(c)) /\ WF_vars(Recover(c))
  /\ \A j \in Jobs : WF_vars(CreateRow(j)) /\ WF_vars(PutJob(j)) /\ WF_vars(DispatchJob(j))
  /\ \A t \in Tasks : SF_vars(Acquire(t)) /\ WF_vars(TaskStep(t))

FairSpec == Spec /\ Fairness

-----------------------------------------------------------------------------
(* Properties.                                                             *)

Holders == {t \in Tasks : tpc[t] \in Inside}

\* At most `concurrency` jobs are between get() and the end of _run_job, and
\* every exit path of _run_job, a store error and a cancellation included,
\* gives its permit back: none is lost, none is given back twice.
BoundedConcurrency == permits + Cardinality(Holders) = Concurrency

InQueue(j) == \E i \in 1 .. Len(queue) : queue[i] = j
HasTask(j) == \E c \in 1 .. Copies : tpc[<<j, c>>] # "free"
Carried(j) == call[j] = "put" \/ InQueue(j) \/ HasTask(j)

\* While the runner is started no accepted job is forgotten: an unfinished
\* row is about to be queued, queued, or held by a task -- unless a store error
\* killed its task, or its enqueue() after the row's commit, in this very
\* process (the next boot recovers it).
NoLostJob ==
  started => \A j \in Jobs : row[j] \in Unfinished => Carried(j) \/ j \in stranded

\* Recovery and enqueue() never hand the same job out twice: one place in
\* memory holds it, so no job runs twice at the same time.
SingleCarrier ==
  \A j \in Jobs :
    /\ \A i, k \in 1 .. Len(queue) : queue[i] = j /\ queue[k] = j => i = k
    /\ \A c, d \in 1 .. Copies :
         tpc[<<j, c>>] # "free" /\ tpc[<<j, d>>] # "free" => c = d
    /\ InQueue(j) => call[j] # "put" /\ ~HasTask(j)
    /\ HasTask(j) => call[j] # "put"

\* A job is attempted at most once in the life of a process: only a restart
\* makes another attempt.
OneAttemptPerBoot == \A j \in Jobs : attempts[j] <= boots

\* The runner implements the promise made about the table's rows; above all,
\* a finished job is never run again and never changes its outcome.
Lifecycle == INSTANCE JobLifecycle
ImplementsLifecycle == Lifecycle!Spec

\* Every accepted job ends, whatever crashes in between, unless a store error
\* stranded it in a process that lives on, or the process that came back has no
\* lifespan and nobody has called enqueue() in it yet.
EveryJobEnds ==
  \A j \in Jobs : row[j] \in Unfinished ~>
    row[j] \in Finished \/ j \in stranded \/ (phase = "bare" /\ ~started)

\* stop() returns: the sentinel gets through whatever is queued before it.
StopReturns == phase = "stopping" ~> phase \in {"stopped", "down"}

=============================================================================

--------------------------- MODULE ResearchSession ---------------------------
(***************************************************************************)
(* One research session from POST /research to its last status: the        *)
(* create and cancel endpoints (backend/app/api/research.py), the job      *)
(* handler (main.py), ResearchService.run (services/research_service.py)   *)
(* and the session row (services/session_repository.py).  The job that     *)
(* carries a session is a JobLifecycle row, which is what JobRunner        *)
(* implements; the graph run is one step that succeeds or raises.          *)
(*                                                                         *)
(* One action per await: each repository call is a transaction of its own  *)
(* and anything may happen between two of them.  update() is a SELECT and  *)
(* a flush that writes only the columns that differ from what it selected; *)
(* on PostgreSQL another transaction may commit in between, on sqlite the  *)
(* repository's lock keeps the two together.  The split is modelled where  *)
(* it can be seen, in the cancel endpoint: every write of a run changes    *)
(* both the status and the snapshot, whatever it selected.  The columns    *)
(* `error` and `completed_at` follow these two and are left out.           *)
(***************************************************************************)
EXTENDS Naturals

CONSTANTS
  Sessions,       \* research ids; the job of a session has the same name
  Keys,           \* result-cache keys
  KeyOf,          \* KeyOf[s] is _result_cache_key of the request of s
  Cancels,        \* the POST /cancel requests that may be under way together
  CancelOf,       \* CancelOf[c] is the session in the path of c
  MaxCrashes,     \* bound on the process crashes
  MaxFaults       \* bound on the store and cache operations that raise

ASSUME SessionAssumption ==
  /\ KeyOf \in [Sessions -> Keys]
  /\ CancelOf \in [Cancels -> Sessions]
  /\ MaxCrashes \in Nat
  /\ MaxFaults \in Nat

VARIABLES
  job, attempts,  \* durable: the jobs table (see JobLifecycle)
  status,         \* durable: ResearchSessionORM.status, "none" before create
  snap,           \* durable: state_snapshot, as the status inside it (a final
                  \* report is there when that is "completed") and the attempt
                  \* that wrote it (two attempts start at different times)
  audited,        \* durable: has log_run written all its rows for the session?
  cache,          \* result cache: is there a live entry under the key?
  post,           \* where POST /research is
  worker,         \* where the job's handler is; "idle" when no task runs it
  stranded,       \* sessions whose job a job-store error has left to the next
                  \* process (JobRunner's `stranded`)
  cancel,         \* where each POST /cancel is; "idle" before and after
  copy,           \* the snapshot its get() has read
  seen,           \* the row the SELECT of its update() has read
  crashes, faults

vars == <<job, attempts, status, snap, audited, cache, post, worker, stranded,
          cancel, copy, seen, crashes, faults>>
jobs    == <<job, attempts>>
session == <<status, snap>>
cancels == <<cancel, copy, seen>>
bounds  == <<crashes, faults>>

Jobs == INSTANCE JobLifecycle WITH Jobs <- Sessions, row <- job

Live    == {"pending", "running"}
Settled == {"completed", "failed", "cancelled"}

\* No snapshot says "cancelled": the cancel endpoint keeps the one it read.
Snapshots == [says : {"none", "pending", "running", "completed", "failed"}, run : Nat]
Rows      == [status : Live \cup Settled \cup {"none"}, snap : Snapshots]
NoSnap    == [says |-> "none", run |-> 0]
NoRow     == [status |-> "none", snap |-> NoSnap]

\* The awaits of the handler outside the `try` of run(), and those inside it.
Unguarded == {"load", "begin", "lookup", "hitCheck", "hitWrite", "hitAudit", "rescue"}
Guarded   == {"graph", "check", "write", "audit", "put"}

TypeOK ==
  /\ job      \in [Sessions -> Jobs!Status]
  /\ attempts \in [Sessions -> Nat]
  /\ status   \in [Sessions -> Live \cup Settled \cup {"none"}]
  /\ snap     \in [Sessions -> Snapshots]
  /\ audited  \in [Sessions -> BOOLEAN]
  /\ cache    \in [Keys -> BOOLEAN]
  /\ post     \in [Sessions -> {"idle", "created", "answered", "lost"}]
  /\ worker   \in [Sessions -> Unguarded \cup Guarded \cup {"idle", "return", "raise"}]
  /\ stranded \in SUBSET Sessions
  /\ cancel   \in [Cancels -> {"idle", "read", "selected"}]
  /\ copy     \in [Cancels -> Snapshots]
  /\ seen     \in [Cancels -> Rows]
  /\ crashes  \in 0 .. MaxCrashes
  /\ faults   \in 0 .. MaxFaults

\* The cache holds whatever earlier sessions have left in it.
Init ==
  /\ Jobs!Init
  /\ status  = [s \in Sessions |-> "none"]
  /\ snap    = [s \in Sessions |-> NoSnap]
  /\ audited = [s \in Sessions |-> FALSE]
  /\ cache   \in [Keys -> BOOLEAN]
  /\ post    = [s \in Sessions |-> "idle"]
  /\ worker  = [s \in Sessions |-> "idle"]
  /\ stranded = {}
  /\ cancel  = [c \in Cancels |-> "idle"]
  /\ copy    = [c \in Cancels |-> NoSnap]
  /\ seen    = [c \in Cancels |-> NoRow]
  /\ crashes = 0
  /\ faults  = 0

-----------------------------------------------------------------------------
(* SessionRepository.                                                      *)

\* A run's update(): status and snapshot are replaced, whatever was there.
Update(s, new) ==
  /\ status' = [status EXCEPT ![s] = new]
  /\ snap'   = [snap EXCEPT ![s] = [says |-> new, run |-> attempts[s]]]

\* Broken variant: a plain update, as every other write of the service.
MarkRunningUnchecked(s) == Update(s, "running")

\* mark_running_unless_cancelled(): the check and the write are atomic.
MarkRunningUnlessCancelled(s) ==
  IF status[s] = "cancelled" THEN UNCHANGED session
                             ELSE Update(s, "running")

-----------------------------------------------------------------------------
(* POST /research: the session row first, then the job row.                *)

CreateSession(s) ==
  /\ post[s] = "idle"
  /\ Update(s, "pending")
  /\ post' = [post EXCEPT ![s] = "created"]
  /\ UNCHANGED <<jobs, audited, cache, worker, stranded, cancels, bounds>>

Enqueue(s) ==
  /\ post[s] = "created"
  /\ Jobs!Submit(s)
  /\ post' = [post EXCEPT ![s] = "answered"]
  /\ UNCHANGED <<session, audited, cache, worker, stranded, cancels, bounds>>

\* enqueue() raises and the client gets a 500: the session row stays, with no job,
\* or with one that was committed and that nothing in this process carries.
EnqueueRaises(s) ==
  /\ post[s] = "created"
  /\ faults < MaxFaults
  /\ faults' = faults + 1
  /\ post'   = [post EXCEPT ![s] = "lost"]
  /\ \/ UNCHANGED <<jobs, stranded>>
     \/ Jobs!Submit(s) /\ stranded' = stranded \cup {s}
  /\ UNCHANGED <<session, audited, cache, worker, cancels, crashes>>

-----------------------------------------------------------------------------
(* POST /research/{id}/cancel: read and check, then update().  Any number  *)
(* of requests for one session may be under way together.                  *)

CancelRead(c) ==
  /\ cancel[c] = "idle"
  /\ status[CancelOf[c]] \in Live
  /\ cancel' = [cancel EXCEPT ![c] = "read"]
  /\ copy'   = [copy EXCEPT ![c] = snap[CancelOf[c]]]
  /\ UNCHANGED <<jobs, session, audited, cache, post, worker, stranded, seen, bounds>>

\* update() selects the row without a lock.
CancelLoad(c) ==
  /\ cancel[c] = "read"
  /\ cancel' = [cancel EXCEPT ![c] = "selected"]
  /\ seen'   = [seen EXCEPT ![c] =
                  [status |-> status[CancelOf[c]], snap |-> snap[CancelOf[c]]]]
  /\ UNCHANGED <<jobs, session, audited, cache, post, worker, stranded, copy, bounds>>

\* The request is answered.
CancelEnds(c) ==
  /\ cancel' = [cancel EXCEPT ![c] = "idle"]
  /\ copy'   = [copy EXCEPT ![c] = NoSnap]
  /\ seen'   = [seen EXCEPT ![c] = NoRow]

\* The flush: a column equal to the selected one is not written.
CancelWrite(c) ==
  LET s == CancelOf[c] IN
  /\ cancel[c] = "selected"
  /\ status' = [status EXCEPT ![s] = IF seen[c].status = "cancelled" THEN @ ELSE "cancelled"]
  /\ snap'   = [snap EXCEPT ![s] = IF seen[c].snap = copy[c] THEN @ ELSE copy[c]]
  /\ CancelEnds(c)
  /\ UNCHANGED <<jobs, audited, cache, post, worker, stranded, bounds>>

\* get() or update() raises: the transaction is rolled back.
CancelRaises(c) ==
  /\ cancel[c] # "idle"
  /\ faults < MaxFaults
  /\ faults' = faults + 1
  /\ CancelEnds(c)
  /\ UNCHANGED <<jobs, session, audited, cache, post, worker, stranded, crashes>>

-----------------------------------------------------------------------------
(* The job's handler, one attempt.                                         *)

Goto(s, from, to) == worker[s] = from /\ worker' = [worker EXCEPT ![s] = to]

\* Broken variant: the runner hands a job out without looking at its row.
StartUnchecked(s) ==
  /\ Goto(s, "idle", "load")
  /\ job[s] # "absent"
  /\ UNCHANGED <<jobs, session, audited, cache, post, stranded, cancels, bounds>>

\* JobRunner marks the row running and calls the handler.
StartAttempt(s) ==
  /\ Goto(s, "idle", "load")
  /\ s \notin stranded
  /\ Jobs!Attempt(s)
  /\ UNCHANGED <<session, audited, cache, post, stranded, cancels, bounds>>

\* handle_research_job reads the request from the session row.  The row was
\* created before the job, so the RuntimeError for a missing one cannot occur.
Load(s) ==
  /\ Goto(s, "load", "begin")
  /\ UNCHANGED <<jobs, session, audited, cache, post, stranded, cancels, bounds>>

Begin(s) ==
  /\ Goto(s, "begin", IF status[s] = "cancelled" THEN "return" ELSE "lookup")
  /\ MarkRunningUnlessCancelled(s)
  /\ UNCHANGED <<jobs, audited, cache, post, stranded, cancels, bounds>>

Lookup(s) ==
  /\ Goto(s, "lookup", IF cache[KeyOf[s]] THEN "hitCheck" ELSE "graph")
  /\ UNCHANGED <<jobs, session, audited, cache, post, stranded, cancels, bounds>>

\* get() before the completed write, on a hit and after a graph run.
CheckCancelled(s) ==
  /\ \/ Goto(s, "hitCheck", IF status[s] = "cancelled" THEN "return" ELSE "hitWrite")
     \/ Goto(s, "check", IF status[s] = "cancelled" THEN "return" ELSE "write")
  /\ UNCHANGED <<jobs, session, audited, cache, post, stranded, cancels, bounds>>

\* Broken variant: a cached answer is not audited.
WriteCompletedSkipsAudit(s) ==
  /\ \/ Goto(s, "hitWrite", "return")
     \/ Goto(s, "write", "audit")
  /\ Update(s, "completed")
  /\ UNCHANGED <<jobs, audited, cache, post, stranded, cancels, bounds>>

WriteCompleted(s) ==
  /\ \/ Goto(s, "hitWrite", "hitAudit")
     \/ Goto(s, "write", "audit")
  /\ Update(s, "completed")
  /\ UNCHANGED <<jobs, audited, cache, post, stranded, cancels, bounds>>

\* audit_service.log_run: the last of its rows is committed.
LogRun(s) ==
  /\ \/ Goto(s, "hitAudit", "return")
     \/ Goto(s, "audit", "put")
  /\ audited' = [audited EXCEPT ![s] = TRUE]
  /\ UNCHANGED <<jobs, session, cache, post, stranded, cancels, bounds>>

\* Broken variant: a graph that raises is logged and nothing else.
GraphErrorSwallowed(s) ==
  /\ \/ Goto(s, "graph", "check")
     \/ Goto(s, "graph", "return")
  /\ UNCHANGED <<jobs, session, audited, cache, post, stranded, cancels, bounds>>

\* run_research_graph returns a state with its final report, or raises.
GraphEnds(s) ==
  /\ \/ Goto(s, "graph", "check")
     \/ Goto(s, "graph", "rescue")
  /\ UNCHANGED <<jobs, session, audited, cache, post, stranded, cancels, bounds>>

PutCache(s) ==
  /\ Goto(s, "put", "return")
  /\ cache' = [cache EXCEPT ![KeyOf[s]] = TRUE]
  /\ UNCHANGED <<jobs, session, audited, post, stranded, cancels, bounds>>

\* Broken variant: the failed status is written over the snapshot at hand.
WriteFailedKeepsReport(s) ==
  /\ Goto(s, "rescue", "return")
  /\ status' = [status EXCEPT ![s] = "failed"]
  /\ UNCHANGED <<jobs, snap, audited, cache, post, stranded, cancels, bounds>>

\* The `except Exception` of run(): written without looking at the row.
WriteFailed(s) ==
  /\ Goto(s, "rescue", "return")
  /\ Update(s, "failed")
  /\ UNCHANGED <<jobs, audited, cache, post, stranded, cancels, bounds>>

\* Broken variant: the handler swallows what the service raises.
OperationErrorSwallowed(s) ==
  /\ faults < MaxFaults
  /\ \/ worker[s] \in Guarded \ {"graph"} /\ worker' = [worker EXCEPT ![s] = "rescue"]
     \/ worker[s] \in Unguarded /\ worker' = [worker EXCEPT ![s] = "return"]
  /\ faults' = faults + 1
  /\ UNCHANGED <<jobs, session, audited, cache, post, stranded, cancels, crashes>>

\* A repository or cache operation raises: inside the `try` it leads to
\* WriteFailed, anywhere else out of the handler.
OperationRaises(s) ==
  /\ faults < MaxFaults
  /\ \/ worker[s] \in Guarded \ {"graph"} /\ worker' = [worker EXCEPT ![s] = "rescue"]
     \/ worker[s] \in Unguarded /\ worker' = [worker EXCEPT ![s] = "raise"]
  /\ faults' = faults + 1
  /\ UNCHANGED <<jobs, session, audited, cache, post, stranded, cancels, crashes>>

\* Broken variant: the job row takes over the session's last status.
JobEndsAsSession(s) ==
  /\ \/ Goto(s, "return", "idle") /\ job' = [job EXCEPT ![s] = status[s]]
     \/ Goto(s, "raise", "idle") /\ job' = [job EXCEPT ![s] = "failed"]
  /\ UNCHANGED <<attempts, session, audited, cache, post, stranded, cancels, bounds>>

\* JobRunner records how the handler ended.
JobEnds(s) ==
  /\ \/ Goto(s, "return", "idle") /\ job' = [job EXCEPT ![s] = "completed"]
     \/ Goto(s, "raise", "idle") /\ job' = [job EXCEPT ![s] = "failed"]
  /\ UNCHANGED <<attempts, session, audited, cache, post, stranded, cancels, bounds>>

\* A job-store operation of _run_job raises, before the handler (the row's get and
\* mark_running) or after it: the task ends and the job's row stays as it was.
JobStoreRaises(s) ==
  /\ faults < MaxFaults
  /\ faults' = faults + 1
  /\ \/ worker[s] = "idle" /\ job[s] \in Jobs!Unfinished /\ s \notin stranded
     \/ worker[s] \in {"return", "raise"}
  /\ worker'   = [worker EXCEPT ![s] = "idle"]
  /\ stranded' = stranded \cup {s}
  /\ UNCHANGED <<jobs, session, audited, cache, post, cancels, crashes>>

-----------------------------------------------------------------------------
(* The environment.                                                        *)

\* A cached result outlives its TTL.
CacheExpires(k) ==
  /\ cache[k]
  /\ cache' = [cache EXCEPT ![k] = FALSE]
  /\ UNCHANGED <<jobs, session, audited, post, worker, stranded, cancels, bounds>>

\* The process dies and is booted again: the requests and tasks in flight are
\* gone, and so is the cache unless it lives in Redis.
Crash ==
  /\ crashes < MaxCrashes
  /\ crashes' = crashes + 1
  /\ worker'  = [s \in Sessions |-> "idle"]
  /\ stranded' = {}
  /\ cancel'  = [c \in Cancels |-> "idle"]
  /\ copy'    = [c \in Cancels |-> NoSnap]
  /\ seen'    = [c \in Cancels |-> NoRow]
  /\ post'    = [s \in Sessions |-> IF post[s] = "created" THEN "lost" ELSE post[s]]
  /\ cache' \in {cache, [k \in Keys |-> FALSE]}
  /\ UNCHANGED <<jobs, session, audited, faults>>

-----------------------------------------------------------------------------

HandlerStep(s) ==
  \/ StartAttempt(s) \/ Load(s) \/ Begin(s) \/ Lookup(s) \/ CheckCancelled(s)
  \/ WriteCompleted(s) \/ LogRun(s) \/ GraphEnds(s) \/ PutCache(s)
  \/ WriteFailed(s) \/ JobEnds(s)

Next ==
  \/ \E s \in Sessions :
       \/ CreateSession(s) \/ Enqueue(s) \/ EnqueueRaises(s)
       \/ HandlerStep(s) \/ OperationRaises(s) \/ JobStoreRaises(s)
  \/ \E c \in Cancels :
       CancelRead(c) \/ CancelLoad(c) \/ CancelWrite(c) \/ CancelRaises(c)
  \/ \E k \in Keys : CacheExpires(k)
  \/ Crash

Spec == Init /\ [][Next]_vars

\* The event loop runs every coroutine and every graph run ends (VerificationLoop).
\* The runner starts every unfinished job that no job-store error has stranded, in a
\* server whose lifespan has started it (JobRunner's EveryJobEnds).  That no
\* operation raises for ever is not assumed: one that raises ends the attempt.
Fairness ==
  /\ \A s \in Sessions : WF_vars(Enqueue(s)) /\ WF_vars(HandlerStep(s))
  /\ \A c \in Cancels : WF_vars(CancelLoad(c)) /\ WF_vars(CancelWrite(c))

FairSpec == Spec /\ Fairness

-----------------------------------------------------------------------------
(* Properties.                                                             *)

\* The two columns of the row: unless a user cancelled it, the snapshot a client is
\* served is the one its status announces, or the older, unfinished one a cancel
\* that was overtaken by another wrote back -- never a report or a failure left over
\* from an earlier attempt, nor one the status does not announce yet.
SnapshotAgrees ==
  \A s \in Sessions :
    status[s] # "cancelled" => snap[s].says = status[s] \/ snap[s].says \in Live

\* When the job row says completed the session has an outcome, and keeps one:
\* nothing still running can bring it back to pending or running.
CompletedJobSettles ==
  \A s \in Sessions : job[s] = "completed" => status[s] \in Settled

\* A completed session whose job has ended well has its audit trail, whatever
\* crashed or was repeated on the way.
CompletedIsAudited ==
  \A s \in Sessions :
    job[s] = "completed" /\ status[s] = "completed" => audited[s]

\* A user's cancel that is committed before the run begins keeps the session
\* from ever starting, crash and second attempt included: the session leaves
\* `cancelled` only through a handler that had begun before the cancel.
Begun(s) == worker[s] \in (Guarded \cup Unguarded) \ {"load", "begin"}
CancelledNeverStarts ==
  [][\A s \in Sessions :
       status[s] = "cancelled" /\ ~Begun(s) => status'[s] = "cancelled"]_vars

\* Once its job is finished a session goes back to running in no way at all.
FinishedJobIsOver ==
  [][\A s \in Sessions :
       job[s] \in Jobs!Finished /\ status[s] \in Settled
         => status'[s] \in Settled]_vars

\* Every session that was created reaches an outcome, unless its handler raised, a
\* job-store error left its job to the next process, or enqueue() never got through
\* (it raised, or the process died between the two commits of POST /research).
CreatedSessionEnds ==
  \A s \in Sessions :
    status[s] = "pending" ~>
      status[s] \in Settled \/ job[s] = "failed" \/ s \in stranded \/ post[s] = "lost"

-----------------------------------------------------------------------------
(* What the code's comments say and the code does not do.                  *)

\* research_service.py:121-127: a run's result must never clobber a user's
\* explicit cancel; that status is the final one.
CancelIsFinal ==
  [][\A s \in Sessions : status[s] = "cancelled" => status'[s] = "cancelled"]_vars

\* docs/api.md:74: a session serves its report only once it is completed.
ReportOnlyWhenCompleted ==
  \A s \in Sessions : snap[s].says = "completed" => status[s] = "completed"

\* research_service.py:144: an exception is surfaced via the session status, so
\* no session shows `running` for ever.
RunningSessionEnds ==
  \A s \in Sessions : status[s] = "running" ~> status[s] \in Settled

=============================================================================

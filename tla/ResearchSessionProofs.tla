----------------------- MODULE ResearchSessionProofs -----------------------
(***************************************************************************)
(* Theorems about ResearchSession, for any set of sessions, of cache keys  *)
(* and of cancel requests under way together, and any number of crashes    *)
(* and failing operations.                                                 *)
(***************************************************************************)
EXTENDS ResearchSession, TLAPS

----------------------------------------------------------------------------
(* The inductive invariant. *)

\* Where a session, its job and its handler stand together: nothing is there before
\* it is created, only a running job has a handler, a run that has written its
\* result finds it again unless a user cancelled, and a handler that returns leaves
\* an outcome, audited if it is a completed one.
Stage(s) ==
  /\ post[s] = "idle" => status[s] = "none" /\ job[s] = "absent"
  /\ post[s] = "created" => job[s] = "absent"
  /\ worker[s] # "idle" => job[s] = "running"
  /\ worker[s] \in {"hitAudit", "audit", "put"} => status[s] \in {"completed", "cancelled"}
  /\ worker[s] = "put" => audited[s]
  /\ worker[s] = "return" \/ job[s] = "completed" =>
       status[s] \in Settled /\ (status[s] = "completed" => audited[s])
  /\ status[s] # "cancelled" => snap[s].says = status[s] \/ snap[s].says \in Live

\* A cancel under way was asked of a session that exists, and holds the snapshot of
\* one that had no outcome.
Asked(c) ==
  cancel[c] # "idle" => post[CancelOf[c]] # "idle" /\ copy[c].says \in Live

Inv == TypeOK /\ (\A s \in Sessions : Stage(s)) /\ (\A c \in Cancels : Asked(c))

\* A step that concerns one session leaves the others' rows and tasks alone.
Others(s) ==
  \A t \in Sessions \ {s} :
    /\ job'[t] = job[t] /\ status'[t] = status[t] /\ snap'[t] = snap[t]
    /\ audited'[t] = audited[t] /\ post'[t] = post[t] /\ worker'[t] = worker[t]

\* A step that keeps its own session in order, and the requests, keeps the invariant.
LEMMA OneSession ==
  ASSUME Inv, NEW s \in Sessions, Others(s), TypeOK', Stage(s)', \A c \in Cancels : Asked(c)'
  PROVE  Inv'
<1>1. ASSUME NEW t \in Sessions \ {s} PROVE Stage(t)'
  BY <1>1 DEF Others, Stage, Inv
<1> QED
  BY <1>1 DEF Inv

\* A step of POST /research or of the handler leaves the requests as they are.
LEMMA NotAsked ==
  ASSUME Inv, UNCHANGED cancels, \A s \in Sessions : post[s] # "idle" => post'[s] # "idle"
  PROVE  \A c \in Cancels : Asked(c)'
BY SessionAssumption DEF Inv, Asked, cancels

USE DEF Live, Settled, Snapshots, Unguarded, Guarded, Jobs!Status, Jobs!Finished, Jobs!Unfinished

\* The state before anything was asked.
LEMMA InitInv == Init => Inv
<1> SUFFICES ASSUME Init PROVE Inv
  OBVIOUS
<1>1. NoSnap \in Snapshots
  BY DEF NoSnap, Snapshots
<1>2. NoRow \in Rows
  BY <1>1 DEF NoRow, Rows
<1>3. TypeOK
  BY <1>1, <1>2, SessionAssumption DEF Init, TypeOK, Jobs!Init
<1> QED
  BY <1>3 DEF Init, Inv, Stage, Asked, Jobs!Init, NoSnap

\* What a run writes is a row.
LEMMA UpdateTypes ==
  ASSUME Inv, NEW s \in Sessions, NEW new \in {"pending", "running", "completed", "failed"},
         Update(s, new)
  PROVE  /\ status' \in [Sessions -> Live \cup Settled \cup {"none"}]
         /\ snap' \in [Sessions -> Snapshots]
         /\ status'[s] = new /\ snap'[s].says = new
         /\ \A t \in Sessions \ {s} : status'[t] = status[t] /\ snap'[t] = snap[t]
<1>1. /\ status \in [Sessions -> Live \cup Settled \cup {"none"}]
      /\ snap \in [Sessions -> Snapshots] /\ attempts[s] \in Nat
  BY DEF Inv, TypeOK
<1> DEFINE written == [says |-> new, run |-> attempts[s]]
<1>2. written \in Snapshots /\ written.says = new
  BY <1>1 DEF Snapshots
<1>3. status' = [status EXCEPT ![s] = new] /\ snap' = [snap EXCEPT ![s] = written]
  BY DEF Update
<1> HIDE DEF written
<1> QED
  BY <1>1, <1>2, <1>3

\* POST /research.
LEMMA CreateKeeps ==
  ASSUME Inv, NEW s \in Sessions, CreateSession(s) \/ Enqueue(s) \/ EnqueueRaises(s)
  PROVE  Inv'
<1>0. \A c \in Cancels : Asked(c)'
  <2>1. UNCHANGED cancels /\ \A t \in Sessions : post[t] # "idle" => post'[t] # "idle"
    BY DEF CreateSession, Enqueue, EnqueueRaises, Inv, TypeOK
  <2> QED
    BY <2>1, NotAsked
<1>1. CASE CreateSession(s)
  <2>1. /\ status' \in [Sessions -> Live \cup Settled \cup {"none"}]
        /\ snap' \in [Sessions -> Snapshots]
        /\ status'[s] = "pending" /\ snap'[s].says = "pending"
        /\ \A t \in Sessions \ {s} : status'[t] = status[t] /\ snap'[t] = snap[t]
    BY <1>1, UpdateTypes DEF CreateSession
  <2>2. TypeOK'
    BY <1>1, <2>1 DEF CreateSession, jobs, cancels, bounds, Inv, TypeOK
  <2>3. Others(s) /\ Stage(s)'
    BY <1>1, <2>1 DEF CreateSession, jobs, cancels, bounds, Inv, TypeOK, Others, Stage
  <2> QED
    BY <1>0, <2>2, <2>3, OneSession
<1>2. CASE Enqueue(s)
  <2>1. TypeOK'
    BY <1>2 DEF Enqueue, Jobs!Submit, session, cancels, bounds, Inv, TypeOK
  <2>2. Others(s) /\ Stage(s)'
    BY <1>2 DEF Enqueue, Jobs!Submit, session, cancels, bounds, Inv, TypeOK, Others, Stage
  <2> QED
    BY <1>0, <2>1, <2>2, OneSession
<1>3. CASE EnqueueRaises(s)
  <2>1. TypeOK'
    <3>1. faults' \in 0 .. MaxFaults
      BY <1>3, SessionAssumption DEF EnqueueRaises, Inv, TypeOK
    <3> QED
      BY <1>3, <3>1 DEF EnqueueRaises, Jobs!Submit, jobs, session, cancels, Inv, TypeOK
  <2>2. Others(s) /\ Stage(s)'
    BY <1>3 DEF EnqueueRaises, Jobs!Submit, jobs, session, cancels, Inv, TypeOK, Others, Stage
  <2> QED
    BY <1>0, <2>1, <2>2, OneSession
<1> QED
  BY <1>1, <1>2, <1>3

\* POST /research/{id}/cancel.
LEMMA CancelKeeps ==
  ASSUME Inv, NEW c \in Cancels,
         CancelRead(c) \/ CancelLoad(c) \/ CancelWrite(c) \/ CancelRaises(c)
  PROVE  Inv'
<1> DEFINE s == CancelOf[c]
<1>0. /\ s \in Sessions /\ snap[s] \in Snapshots /\ copy[c] \in Snapshots
      /\ NoSnap \in Snapshots /\ NoRow \in Rows
      /\ [status |-> status[s], snap |-> snap[s]] \in Rows
  BY SessionAssumption DEF Inv, TypeOK, NoSnap, NoRow, Rows, Snapshots
<1>1. CASE CancelRead(c)
  <2>1. TypeOK'
    BY <1>0, <1>1 DEF CancelRead, jobs, session, bounds, Inv, TypeOK
  <2>2. UNCHANGED <<job, status, snap, audited, post, worker>> /\ status[s] \in Live
    BY <1>1 DEF CancelRead, jobs, session
  <2>3. snap[s].says \in Live /\ post[s] # "idle"
    BY <1>0, <2>2 DEF Inv, Stage
  <2>4. /\ copy'[c] = snap[s]
        /\ \A d \in Cancels \ {c} : cancel'[d] = cancel[d] /\ copy'[d] = copy[d]
    BY <1>1 DEF CancelRead, Inv, TypeOK
  <2>5. \A d \in Cancels : Asked(d)'
    BY <2>2, <2>3, <2>4 DEF Inv, Asked
  <2> QED
    BY <2>1, <2>2, <2>5 DEF Inv, Stage
<1>2. CASE CancelLoad(c)
  <2>1. TypeOK'
    BY <1>0, <1>2 DEF CancelLoad, jobs, session, bounds, Inv, TypeOK
  <2>2. UNCHANGED <<job, status, snap, audited, post, worker, copy>>
    BY <1>2 DEF CancelLoad, jobs, session
  <2>3. \A d \in Cancels : Asked(d)'
    BY <1>2, <2>2 DEF CancelLoad, Inv, TypeOK, Asked
  <2> QED
    BY <2>1, <2>2, <2>3 DEF Inv, Stage
<1>3. CASE CancelWrite(c)
  <2>1. copy[c].says \in Live /\ post[s] # "idle"
    BY <1>3 DEF CancelWrite, Inv, Asked
  <2>2. /\ \/ status'[s] = "cancelled"
           \/ status'[s] = status[s]
        /\ snap'[s] \in {snap[s], copy[c]}
        /\ \A t \in Sessions \ {s} : status'[t] = status[t] /\ snap'[t] = snap[t]
        /\ status' \in [Sessions -> Live \cup Settled \cup {"none"}]
        /\ snap' \in [Sessions -> Snapshots]
    BY <1>0, <1>3 DEF CancelWrite, Inv, TypeOK
  <2>3. TypeOK'
    BY <1>0, <1>3, <2>2 DEF CancelWrite, CancelEnds, jobs, bounds, Inv, TypeOK
  <2>4. UNCHANGED <<job, audited, post, worker>>
    BY <1>3 DEF CancelWrite, jobs
  <2>5. Others(s) /\ Stage(s)'
    BY <1>0, <2>1, <2>2, <2>4 DEF Inv, Others, Stage
  <2>6. \A d \in Cancels : Asked(d)'
    BY <1>3, <2>4 DEF CancelWrite, CancelEnds, Inv, TypeOK, Asked
  <2> QED
    BY <1>0, <2>3, <2>5, <2>6, OneSession
<1>4. CASE CancelRaises(c)
  <2>1. faults' \in 0 .. MaxFaults
    BY <1>4, SessionAssumption DEF CancelRaises, Inv, TypeOK
  <2>2. TypeOK'
    BY <1>0, <1>4, <2>1 DEF CancelRaises, CancelEnds, jobs, session, Inv, TypeOK
  <2>3. UNCHANGED <<job, status, snap, audited, post, worker>>
    BY <1>4 DEF CancelRaises, jobs, session
  <2>4. \A d \in Cancels : Asked(d)'
    BY <1>4, <2>3 DEF CancelRaises, CancelEnds, Inv, TypeOK, Asked
  <2> QED
    BY <2>2, <2>3, <2>4 DEF Inv, Stage
<1> QED
  BY <1>1, <1>2, <1>3, <1>4

\* The handler, one attempt.
LEMMA HandlerKeeps ==
  ASSUME Inv, NEW s \in Sessions, HandlerStep(s) \/ OperationRaises(s) \/ JobStoreRaises(s)
  PROVE  Inv'
<1> USE DEF Goto
<1>0. \A c \in Cancels : Asked(c)'
  <2>1. UNCHANGED <<post, cancels>>
    BY DEF HandlerStep, OperationRaises, JobStoreRaises, StartAttempt, Load, Begin, Lookup,
           CheckCancelled, WriteCompleted, LogRun, GraphEnds, PutCache, WriteFailed, JobEnds
  <2> QED
    BY <2>1, NotAsked
<1>1. CASE StartAttempt(s)
  <2>1. TypeOK'
    BY <1>1 DEF StartAttempt, Jobs!Attempt, session, cancels, bounds, Inv, TypeOK
  <2>2. Others(s) /\ Stage(s)'
    BY <1>1 DEF StartAttempt, Jobs!Attempt, session, cancels, bounds, Inv, TypeOK, Others, Stage
  <2> QED
    BY <2>1, <2>2, OneSession, <1>0
<1>2. CASE Load(s) \/ Lookup(s) \/ CheckCancelled(s) \/ GraphEnds(s)
  <2>1. UNCHANGED <<job, attempts, status, snap, audited, cache, post, stranded, cancel, copy, seen, crashes, faults>>
    BY <1>2 DEF Load, Lookup, CheckCancelled, GraphEnds, jobs, session, cancels, bounds
  <2>2. PICK to \in (Unguarded \cup Guarded \cup {"return"}) \ {"hitAudit", "audit", "put"} :
          /\ worker[s] # "idle" /\ worker' = [worker EXCEPT ![s] = to]
          /\ to = "return" => status[s] = "cancelled"
    BY <1>2 DEF Load, Lookup, CheckCancelled, GraphEnds
  <2>3. TypeOK'
    BY <2>1, <2>2 DEF Inv, TypeOK
  <2>4. Others(s) /\ Stage(s)'
    BY <2>1, <2>2 DEF Inv, TypeOK, Others, Stage
  <2> QED
    BY <2>3, <2>4, OneSession, <1>0
<1>3. CASE Begin(s)
  <2>1. CASE status[s] = "cancelled"
    <3>1. /\ worker[s] = "begin" /\ worker' = [worker EXCEPT ![s] = "return"]
          /\ UNCHANGED <<job, attempts, status, snap, audited, cache, post, stranded,
                         cancel, copy, seen, crashes, faults>>
      BY <1>3, <2>1 DEF Begin, MarkRunningUnlessCancelled, jobs, session, cancels, bounds
    <3>2. TypeOK'
      BY <3>1 DEF Inv, TypeOK
    <3>3. Others(s) /\ Stage(s)'
      BY <2>1, <3>1 DEF Inv, TypeOK, Others, Stage
    <3> QED
      BY <1>0, <3>2, <3>3, OneSession
  <2>2. CASE status[s] # "cancelled"
    <3>1. /\ worker[s] = "begin" /\ worker' = [worker EXCEPT ![s] = "lookup"]
          /\ Update(s, "running")
          /\ UNCHANGED <<job, attempts, audited, cache, post, stranded,
                         cancel, copy, seen, crashes, faults>>
      BY <1>3, <2>2 DEF Begin, MarkRunningUnlessCancelled, jobs, cancels, bounds
    <3>2. /\ status' \in [Sessions -> Live \cup Settled \cup {"none"}]
          /\ snap' \in [Sessions -> Snapshots]
          /\ status'[s] = "running" /\ snap'[s].says = "running"
          /\ \A t \in Sessions \ {s} : status'[t] = status[t] /\ snap'[t] = snap[t]
      BY <3>1, UpdateTypes
    <3>3. TypeOK'
      BY <3>1, <3>2 DEF Inv, TypeOK
    <3>4. Others(s) /\ Stage(s)'
      BY <3>1, <3>2 DEF Inv, TypeOK, Others, Stage
    <3> QED
      BY <1>0, <3>3, <3>4, OneSession
  <2> QED
    BY <2>1, <2>2
<1>4. CASE WriteCompleted(s)
  <2>1. PICK to \in {"hitAudit", "audit"} :
          worker[s] # "idle" /\ worker' = [worker EXCEPT ![s] = to]
    BY <1>4 DEF WriteCompleted
  <2>2. /\ Update(s, "completed")
        /\ UNCHANGED <<job, attempts, audited, cache, post, stranded, cancel, copy, seen,
                       crashes, faults>>
    BY <1>4 DEF WriteCompleted, jobs, cancels, bounds
  <2>3. /\ status' \in [Sessions -> Live \cup Settled \cup {"none"}]
        /\ snap' \in [Sessions -> Snapshots]
        /\ status'[s] = "completed" /\ snap'[s].says = "completed"
        /\ \A t \in Sessions \ {s} : status'[t] = status[t] /\ snap'[t] = snap[t]
    BY <2>2, UpdateTypes
  <2>4. TypeOK'
    BY <2>1, <2>2, <2>3 DEF Inv, TypeOK
  <2>5. Others(s) /\ Stage(s)'
    BY <2>1, <2>2, <2>3 DEF Inv, TypeOK, Others, Stage
  <2> QED
    BY <2>4, <2>5, OneSession, <1>0
<1>5. CASE LogRun(s)
  <2>1. PICK to \in {"return", "put"} :
          worker[s] \in {"hitAudit", "audit"} /\ worker' = [worker EXCEPT ![s] = to]
    BY <1>5 DEF LogRun
  <2>2. /\ audited' = [audited EXCEPT ![s] = TRUE]
        /\ UNCHANGED <<job, attempts, status, snap, cache, post, stranded, cancel, copy, seen, crashes, faults>>
    BY <1>5 DEF LogRun, jobs, session, cancels, bounds
  <2>3. TypeOK'
    BY <2>1, <2>2 DEF Inv, TypeOK
  <2>4. Others(s) /\ Stage(s)'
    BY <2>1, <2>2 DEF Inv, TypeOK, Others, Stage
  <2> QED
    BY <2>3, <2>4, OneSession, <1>0
<1>6. CASE PutCache(s)
  <2>1. TypeOK'
    BY <1>6, SessionAssumption DEF PutCache, jobs, session, cancels, bounds, Inv, TypeOK
  <2>2. Others(s) /\ Stage(s)'
    BY <1>6 DEF PutCache, jobs, session, cancels, bounds, Inv, TypeOK, Others, Stage
  <2> QED
    BY <2>1, <2>2, OneSession, <1>0
<1>7. CASE WriteFailed(s)
  <2>1. /\ worker[s] = "rescue" /\ worker' = [worker EXCEPT ![s] = "return"]
        /\ Update(s, "failed")
        /\ UNCHANGED <<job, attempts, audited, cache, post, stranded, cancel, copy, seen,
                       crashes, faults>>
    BY <1>7 DEF WriteFailed, jobs, cancels, bounds
  <2>2. /\ status' \in [Sessions -> Live \cup Settled \cup {"none"}]
        /\ snap' \in [Sessions -> Snapshots]
        /\ status'[s] = "failed" /\ snap'[s].says = "failed"
        /\ \A t \in Sessions \ {s} : status'[t] = status[t] /\ snap'[t] = snap[t]
    BY <2>1, UpdateTypes
  <2>3. TypeOK'
    BY <2>1, <2>2 DEF Inv, TypeOK
  <2>4. Others(s) /\ Stage(s)'
    BY <2>1, <2>2 DEF Inv, TypeOK, Others, Stage
  <2> QED
    BY <2>3, <2>4, OneSession, <1>0
<1>8. CASE JobEnds(s)
  <2>1. TypeOK'
    BY <1>8 DEF JobEnds, session, cancels, bounds, Inv, TypeOK
  <2>2. Others(s) /\ Stage(s)'
    BY <1>8 DEF JobEnds, session, cancels, bounds, Inv, TypeOK, Others, Stage
  <2> QED
    BY <2>1, <2>2, OneSession, <1>0
<1>9. CASE OperationRaises(s)
  <2>1. PICK to \in {"rescue", "raise"} :
          worker[s] # "idle" /\ worker' = [worker EXCEPT ![s] = to]
    BY <1>9 DEF OperationRaises
  <2>2. /\ UNCHANGED <<job, attempts, status, snap, audited, cache, post, stranded, cancel, copy, seen, crashes>>
        /\ faults' \in 0 .. MaxFaults
    BY <1>9, SessionAssumption DEF OperationRaises, jobs, session, cancels, Inv, TypeOK
  <2>3. TypeOK'
    BY <2>1, <2>2 DEF Inv, TypeOK
  <2>4. Others(s) /\ Stage(s)'
    BY <2>1, <2>2 DEF Inv, TypeOK, Others, Stage
  <2> QED
    BY <2>3, <2>4, OneSession, <1>0
<1>10. CASE JobStoreRaises(s)
  <2>1. /\ worker' = [worker EXCEPT ![s] = "idle"] /\ stranded' = stranded \cup {s}
        /\ UNCHANGED <<job, attempts, status, snap, audited, cache, post, cancel, copy, seen,
                       crashes>>
        /\ faults' \in 0 .. MaxFaults
    BY <1>10, SessionAssumption DEF JobStoreRaises, jobs, session, cancels, Inv, TypeOK
  <2>2. TypeOK'
    BY <2>1 DEF Inv, TypeOK
  <2>3. Others(s) /\ Stage(s)'
    BY <2>1 DEF Inv, TypeOK, Others, Stage
  <2> QED
    BY <2>2, <2>3, OneSession, <1>0
<1> QED
  BY <1>1, <1>2, <1>3, <1>4, <1>5, <1>6, <1>7, <1>8, <1>9, <1>10 DEF HandlerStep

\* A crash takes the tasks and requests and leaves the rows.
LEMMA EnvironmentKeeps ==
  ASSUME Inv, (\E k \in Keys : CacheExpires(k)) \/ Crash \/ UNCHANGED vars
  PROVE  Inv'
<1>1. CASE \E k \in Keys : CacheExpires(k)
  BY <1>1 DEF CacheExpires, jobs, session, cancels, bounds, Inv, TypeOK, Stage, Asked
<1>2. CASE Crash
  <2>1. NoSnap \in Snapshots /\ NoRow \in Rows
    BY DEF NoSnap, NoRow, Rows, Snapshots
  <2>2. TypeOK'
    <3>1. crashes' \in 0 .. MaxCrashes
      BY <1>2, SessionAssumption DEF Crash, Inv, TypeOK
    <3>2. cache' \in [Keys -> BOOLEAN]
      <4>1. cache \in [Keys -> BOOLEAN]
        BY DEF Inv, TypeOK
      <4>2. [k \in Keys |-> FALSE] \in [Keys -> BOOLEAN]
        OBVIOUS
      <4>3. cache' = cache \/ cache' = [k \in Keys |-> FALSE]
        BY <1>2, Zenon DEF Crash
      <4> QED
        BY <4>1, <4>2, <4>3, Zenon
    <3>3. worker' \in [Sessions -> Unguarded \cup Guarded \cup {"idle", "return", "raise"}]
      BY <1>2 DEF Crash
    <3>4. post' \in [Sessions -> {"idle", "created", "answered", "lost"}]
      BY <1>2 DEF Crash, Inv, TypeOK
    <3>5. UNCHANGED <<job, attempts, status, snap, audited, faults>> /\ stranded' = {}
      BY <1>2 DEF Crash, jobs, session
    <3>6. /\ cancel' \in [Cancels -> {"idle", "read", "selected"}]
          /\ copy' \in [Cancels -> Snapshots] /\ seen' \in [Cancels -> Rows]
      BY <1>2, <2>1 DEF Crash
    <3>7. /\ job' \in [Sessions -> Jobs!Status] /\ attempts' \in [Sessions -> Nat]
          /\ status' \in [Sessions -> Live \cup Settled \cup {"none"}]
          /\ snap' \in [Sessions -> Snapshots] /\ audited' \in [Sessions -> BOOLEAN]
          /\ faults' \in 0 .. MaxFaults /\ stranded' \in SUBSET Sessions
      BY <3>5 DEF Inv, TypeOK
    <3> QED
      BY <3>1, <3>2, <3>3, <3>4, <3>6, <3>7 DEF TypeOK
  <2>3. ASSUME NEW s \in Sessions PROVE Stage(s)'
    BY <1>2 DEF Crash, jobs, session, Inv, TypeOK, Stage
  <2>4. ASSUME NEW c \in Cancels PROVE Asked(c)'
    BY <1>2 DEF Crash, Asked
  <2> QED
    BY <2>2, <2>3, <2>4 DEF Inv
<1>3. CASE UNCHANGED vars
  BY <1>3 DEF vars, Inv, TypeOK, Stage, Asked
<1> QED
  BY <1>1, <1>2, <1>3

\* The invariant holds throughout.
LEMMA InvHolds == Spec => []Inv
<1>1. Inv /\ [Next]_vars => Inv'
  BY CreateKeeps, CancelKeeps, HandlerKeeps, EnvironmentKeeps DEF Next
<1> QED
  BY <1>1, InitInv, PTL DEF Spec

----------------------------------------------------------------------------

\* Every reachable state is well typed.
THEOREM SessionTypeCorrect == Spec => []TypeOK
<1>1. Inv => TypeOK
  BY DEF Inv
<1> QED
  BY <1>1, InvHolds, PTL

\* However many cancels, crashes and errors meet: unless a user cancelled it, the
\* snapshot of a session is the one its status announces or an older, unfinished one.
THEOREM ColumnsAgree == Spec => []SnapshotAgrees
<1>1. Inv => SnapshotAgrees
  BY DEF Inv, Stage, SnapshotAgrees
<1> QED
  BY <1>1, InvHolds, PTL

\* A job that is marked completed leaves its session with an outcome.
THEOREM CompletedJobsSettle == Spec => []CompletedJobSettles
<1>1. Inv => CompletedJobSettles
  BY DEF Inv, Stage, CompletedJobSettles
<1> QED
  BY <1>1, InvHolds, PTL

\* A completed session whose job ended well has its audit trail.
THEOREM CompletedAreAudited == Spec => []CompletedIsAudited
<1>1. Inv => CompletedIsAudited
  BY DEF Inv, Stage, CompletedIsAudited
<1> QED
  BY <1>1, InvHolds, PTL

\* How a session's status can change: by its creation, by a cancel, by a run that
\* begins with no cancel in the row, and by one that has begun.
LEMMA StatusSteps ==
  ASSUME Inv, [Next]_vars, NEW s \in Sessions, status'[s] # status[s]
  PROVE  \/ post[s] = "idle"
         \/ status'[s] = "cancelled"
         \/ worker[s] = "begin" /\ status[s] # "cancelled"
         \/ worker[s] \in {"hitWrite", "write", "rescue"}
<1>0. status \in [Sessions -> Live \cup Settled \cup {"none"}]
  BY DEF Inv, TypeOK
<1>1. CASE \E t \in Sessions : CreateSession(t) \/ Enqueue(t) \/ EnqueueRaises(t)
  BY <1>0, <1>1 DEF CreateSession, Enqueue, EnqueueRaises, Update, session
<1>2. CASE \E c \in Cancels :
             CancelRead(c) \/ CancelLoad(c) \/ CancelWrite(c) \/ CancelRaises(c)
  BY <1>0, <1>2, SessionAssumption DEF CancelRead, CancelLoad, CancelWrite, CancelRaises, session
<1>3. CASE \E t \in Sessions : HandlerStep(t) \/ OperationRaises(t) \/ JobStoreRaises(t)
  <2>1. PICK t \in Sessions : HandlerStep(t) \/ OperationRaises(t) \/ JobStoreRaises(t)
    BY <1>3
  <2>2. CASE StartAttempt(t) \/ Load(t) \/ Lookup(t) \/ CheckCancelled(t) \/ LogRun(t)
             \/ GraphEnds(t) \/ PutCache(t) \/ JobEnds(t) \/ OperationRaises(t)
             \/ JobStoreRaises(t)
    BY <2>2 DEF StartAttempt, Load, Lookup, CheckCancelled, LogRun, GraphEnds, PutCache,
                JobEnds, OperationRaises, JobStoreRaises, session
  <2>3. CASE Begin(t) \/ WriteCompleted(t) \/ WriteFailed(t)
    BY <1>0, <2>3 DEF Begin, MarkRunningUnlessCancelled, WriteCompleted, WriteFailed, Update,
                      Goto, session
  <2> QED
    BY <2>1, <2>2, <2>3 DEF HandlerStep
<1>4. CASE (\E k \in Keys : CacheExpires(k)) \/ Crash \/ UNCHANGED vars
  BY <1>4 DEF CacheExpires, Crash, session, vars
<1> QED
  BY <1>1, <1>2, <1>3, <1>4 DEF Next

\* A cancel committed before the run begins is never lost, whatever crashes and
\* however often the job is attempted.
THEOREM CancelledStayCancelled == Spec => CancelledNeverStarts
<1>1. ASSUME Inv, [Next]_vars, NEW s \in Sessions, status[s] = "cancelled", ~ Begun(s)
      PROVE  status'[s] = "cancelled"
  BY <1>1, StatusSteps DEF Begun, Inv, Stage
<1>2. Inv /\ [Next]_vars =>
        [\A s \in Sessions :
           status[s] = "cancelled" /\ ~ Begun(s) => status'[s] = "cancelled"]_vars
  BY <1>1
<1> QED
  BY <1>2, InvHolds, PTL DEF Spec, CancelledNeverStarts

\* A session with an outcome whose job is finished keeps an outcome.
THEOREM FinishedJobsAreOver == Spec => FinishedJobIsOver
<1>1. ASSUME Inv, [Next]_vars, NEW s \in Sessions, job[s] \in Jobs!Finished, status[s] \in Settled
      PROVE  status'[s] \in Settled
  BY <1>1, StatusSteps DEF Inv, Stage
<1>2. Inv /\ [Next]_vars =>
        [\A s \in Sessions :
           job[s] \in Jobs!Finished /\ status[s] \in Settled => status'[s] \in Settled]_vars
  BY <1>1
<1> QED
  BY <1>2, InvHolds, PTL DEF Spec, FinishedJobIsOver
----------------------------------------------------------------------------
(* One cancel at a time. *)

\* No two requests cancel the same session.
OneCancelEach == \A c, d \in Cancels : CancelOf[c] = CancelOf[d] => c = d

\* A cancel under way has not seen its session cancelled: nobody else could have.
SeesNoCancel(c) ==
  /\ cancel[c] = "read" => status[CancelOf[c]] # "cancelled"
  /\ cancel[c] = "selected" => seen[c].status # "cancelled"

\* The columns of a session that is not cancelled say the same.
Exact(s) == status[s] # "cancelled" => snap[s].says = status[s]

\* A cancel that overtakes no other replaces the status, whatever it does to the snapshot.
LEMMA ExactStep ==
  ASSUME Inv, OneCancelEach, \A s \in Sessions : Exact(s), \A c \in Cancels : SeesNoCancel(c),
         [Next]_vars
  PROVE  (\A s \in Sessions : Exact(s)') /\ (\A c \in Cancels : SeesNoCancel(c)')
<1>0. status \in [Sessions -> Live \cup Settled \cup {"none"}]
  BY DEF Inv, TypeOK
<1>1. ASSUME NEW s \in Sessions, NEW new \in {"pending", "running", "completed", "failed"},
             Update(s, new), UNCHANGED cancels
      PROVE  (\A t \in Sessions : Exact(t)') /\ (\A c \in Cancels : SeesNoCancel(c)')
  <2>1. /\ status'[s] = new /\ snap'[s].says = new /\ new # "cancelled"
        /\ \A t \in Sessions \ {s} : status'[t] = status[t] /\ snap'[t] = snap[t]
    BY <1>1, UpdateTypes
  <2>2. ASSUME NEW t \in Sessions PROVE Exact(t)'
    <3>1. CASE t = s
      BY <2>1, <3>1 DEF Exact
    <3>2. CASE t # s
      <4>1. Exact(t) /\ status'[t] = status[t] /\ snap'[t] = snap[t]
        BY <2>1, <3>2
      <4> QED
        BY <4>1 DEF Exact
    <3> QED
      BY <3>1, <3>2
  <2>3. ASSUME NEW c \in Cancels PROVE SeesNoCancel(c)'
    <3>1. CancelOf[c] \in Sessions /\ cancel' = cancel /\ seen' = seen /\ SeesNoCancel(c)
      BY <1>1, SessionAssumption DEF cancels
    <3>2. status'[CancelOf[c]] \in {new, status[CancelOf[c]]}
      BY <2>1, <3>1
    <3> QED
      BY <2>1, <3>1, <3>2 DEF SeesNoCancel
  <2> QED
    BY <2>2, <2>3
<1>2. ASSUME UNCHANGED <<status, snap, cancels>>
      PROVE  (\A t \in Sessions : Exact(t)') /\ (\A c \in Cancels : SeesNoCancel(c)')
  BY <1>2 DEF Exact, SeesNoCancel, cancels
<1>3. ASSUME NEW s \in Sessions, CreateSession(s) \/ Enqueue(s) \/ EnqueueRaises(s)
      PROVE  (\A t \in Sessions : Exact(t)') /\ (\A c \in Cancels : SeesNoCancel(c)')
  BY <1>1, <1>2, <1>3 DEF CreateSession, Enqueue, EnqueueRaises, session
<1>4. ASSUME NEW s \in Sessions, HandlerStep(s) \/ OperationRaises(s) \/ JobStoreRaises(s)
      PROVE  (\A t \in Sessions : Exact(t)') /\ (\A c \in Cancels : SeesNoCancel(c)')
  <2>1. CASE Begin(s) \/ WriteCompleted(s) \/ WriteFailed(s)
    BY <1>1, <1>2, <2>1 DEF Begin, MarkRunningUnlessCancelled, WriteCompleted, WriteFailed, session
  <2>2. CASE StartAttempt(s) \/ Load(s) \/ Lookup(s) \/ CheckCancelled(s) \/ LogRun(s)
             \/ GraphEnds(s) \/ PutCache(s) \/ JobEnds(s) \/ OperationRaises(s)
             \/ JobStoreRaises(s)
    BY <1>2, <2>2 DEF StartAttempt, Load, Lookup, CheckCancelled, LogRun, GraphEnds, PutCache,
                      JobEnds, OperationRaises, JobStoreRaises, session
  <2> QED
    BY <1>4, <2>1, <2>2 DEF HandlerStep
<1>5. ASSUME NEW c \in Cancels, CancelRead(c) \/ CancelLoad(c) \/ CancelRaises(c)
      PROVE  (\A t \in Sessions : Exact(t)') /\ (\A d \in Cancels : SeesNoCancel(d)')
  <2>1. UNCHANGED <<status, snap>>
    BY <1>5 DEF CancelRead, CancelLoad, CancelRaises, session
  <2>2. ASSUME NEW d \in Cancels PROVE SeesNoCancel(d)'
    BY <1>5, <2>1 DEF CancelRead, CancelLoad, CancelRaises, CancelEnds, SeesNoCancel, Inv, TypeOK
  <2> QED
    BY <2>1, <2>2 DEF Exact
<1>6. ASSUME NEW c \in Cancels, CancelWrite(c)
      PROVE  (\A t \in Sessions : Exact(t)') /\ (\A d \in Cancels : SeesNoCancel(d)')
  <2>1. CancelOf[c] \in Sessions /\ seen[c].status # "cancelled"
    BY <1>6, SessionAssumption DEF CancelWrite, SeesNoCancel
  <2>2. /\ status' = [status EXCEPT ![CancelOf[c]] = "cancelled"]
        /\ \A t \in Sessions \ {CancelOf[c]} : snap'[t] = snap[t]
    BY <1>6, <2>1 DEF CancelWrite, Inv, TypeOK
  <2>3. /\ cancel'[c] = "idle"
        /\ \A d \in Cancels \ {c} : cancel'[d] = cancel[d] /\ seen'[d] = seen[d]
    BY <1>6 DEF CancelWrite, CancelEnds, Inv, TypeOK
  <2>4. \A d \in Cancels \ {c} : CancelOf[d] # CancelOf[c] /\ CancelOf[d] \in Sessions
    BY SessionAssumption DEF OneCancelEach
  <2> QED
    BY <1>0, <2>1, <2>2, <2>3, <2>4 DEF Exact, SeesNoCancel
<1>7. ASSUME (\E k \in Keys : CacheExpires(k)) \/ UNCHANGED vars
      PROVE  (\A t \in Sessions : Exact(t)') /\ (\A d \in Cancels : SeesNoCancel(d)')
  BY <1>2, <1>7 DEF CacheExpires, session, vars, cancels
<1>8. ASSUME Crash
      PROVE  (\A t \in Sessions : Exact(t)') /\ (\A d \in Cancels : SeesNoCancel(d)')
  BY <1>8 DEF Crash, session, Exact, SeesNoCancel
<1> QED
  BY <1>3, <1>4, <1>5, <1>6, <1>7, <1>8 DEF Next

\* The two columns of every session that is not cancelled say the same.
ColumnsEqual == \A s \in Sessions : Exact(s)

\* Where no two cancels of a session are under way together its snapshot is exactly the
\* one its status announces: only a cancel that overtakes another leaves an older one.
THEOREM ColumnsEqualWithoutOvertaking == Spec /\ OneCancelEach => []ColumnsEqual
<1> DEFINE Alone == /\ OneCancelEach
                    /\ \A s \in Sessions : Exact(s)
                    /\ \A c \in Cancels : SeesNoCancel(c)
<1>1. Init /\ OneCancelEach => Alone
  BY DEF Init, Exact, SeesNoCancel, NoSnap
<1>2. Inv /\ Alone /\ [Next]_vars => Alone'
  BY ExactStep DEF OneCancelEach
<1>3. Alone => ColumnsEqual
  BY DEF ColumnsEqual
<1> QED
  BY <1>1, <1>2, <1>3, InvHolds, PTL DEF Spec

----------------------------------------------------------------------------
(* The session keeps the job runner's contract. *)

\* What a step of the session does to the job that carries it: POST /research
\* submits it, a handler that starts is an attempt, the runner's last write finishes
\* it, and nothing else writes its row -- a handler exists only under a running row,
\* so a finished job is never finished again.
LEMMA JobSteps ==
  ASSUME Inv, [Next]_vars
  PROVE  [Jobs!Next]_<<job, attempts>>
<1>1. ASSUME NEW s \in Sessions, Enqueue(s) PROVE Jobs!Next
  BY <1>1 DEF Enqueue, Jobs!Next
<1>2. ASSUME NEW s \in Sessions, StartAttempt(s) PROVE Jobs!Next
  BY <1>2 DEF StartAttempt, Jobs!Next
<1>3. ASSUME NEW s \in Sessions, JobEnds(s) PROVE Jobs!Next
  <2>1. job[s] = "running" /\ UNCHANGED attempts
    BY <1>3 DEF JobEnds, Goto, Inv, Stage
  <2>2. \E outcome \in Jobs!Finished : job' = [job EXCEPT ![s] = outcome]
    BY <1>3 DEF JobEnds
  <2> QED
    BY <2>1, <2>2 DEF Jobs!Next, Jobs!Finish
<1>4. ASSUME NEW s \in Sessions, EnqueueRaises(s) PROVE [Jobs!Next]_<<job, attempts>>
  BY <1>4 DEF EnqueueRaises, jobs, Jobs!Next
<1>7. ASSUME \/ \E s \in Sessions : CreateSession(s) \/ OperationRaises(s) \/ JobStoreRaises(s)
             \/ \E c \in Cancels :
                  CancelRead(c) \/ CancelLoad(c) \/ CancelWrite(c) \/ CancelRaises(c)
      PROVE  UNCHANGED <<job, attempts>>
  BY <1>7 DEF CreateSession, CancelRead, CancelLoad, CancelWrite, CancelRaises,
              OperationRaises, JobStoreRaises, jobs
<1>5. ASSUME NEW s \in Sessions,
             \/ Load(s) \/ Begin(s) \/ Lookup(s) \/ CheckCancelled(s) \/ WriteCompleted(s)
             \/ LogRun(s) \/ GraphEnds(s) \/ PutCache(s) \/ WriteFailed(s)
      PROVE  UNCHANGED <<job, attempts>>
  BY <1>5 DEF Load, Begin, Lookup, CheckCancelled, WriteCompleted, LogRun, GraphEnds,
              PutCache, WriteFailed, jobs
<1>6. ASSUME (\E k \in Keys : CacheExpires(k)) \/ Crash \/ UNCHANGED vars
      PROVE  UNCHANGED <<job, attempts>>
  BY <1>6 DEF CacheExpires, Crash, jobs, vars
<1> QED
  BY <1>1, <1>2, <1>3, <1>4, <1>5, <1>6, <1>7 DEF Next, HandlerStep

\* The job of a session lives as JobLifecycle promises, crashes and failing store and
\* cache operations included: what a session relies on is no more than JobRunner
\* implements, and what it does to the row is no more than the lifecycle allows.
THEOREM SessionImplementsLifecycle == Spec => Jobs!Spec
<1>1. Init => Jobs!Init
  BY DEF Init
<1>2. Inv /\ [Next]_vars => [Jobs!Next]_<<job, attempts>>
  BY JobSteps
<1>3. [Next]_vars /\ Inv => [Jobs!Next]_(Jobs!jobVars)
  BY <1>2 DEF Jobs!jobVars
<1> QED
  BY <1>1, <1>3, InvHolds, PTL DEF Spec, Jobs!Spec
============================================================================

# Verification of the Multi-Agent Research & Decision System

TLA+ models of the backend (`src/backend/app`) and of the web client's polling, the
TLC configurations that check them on small instances, and TLAPS proofs for every value of the constants.
File and line references below are relative to `src/backend/app` unless they say
otherwise.

Contents: 1 inventory, 2 plan, 3 modules and their code, 4 runs and bounds,
5 fairness, 6 proofs, 7 findings, 8 assumptions and what is left out.

## 1. Inventory

A client posts a research request; the API writes a *session* row and a *job*
row; a runner inside the same process picks the job up and drives a fixed graph of
language-model agents; the result goes back into the session row. PostgreSQL (or
sqlite, or memory) keeps sessions, jobs and audit rows; Redis (or memory) keeps
caches and rate limits. One process serves everything.

| Component | State | Operations | Talks to | What is hard | What makes it correct |
|---|---|---|---|---|---|
| **Job runner** `services/job_runner.py` | table `jobs` (status, attempts, created_at); in memory `_started`, the start lock, the queue, the dispatcher task, the worker tasks, the semaphore | `start` (with recovery), `enqueue`, `stop`, `_dispatch_loop`, `_run_job`, the store's six operations | lifespan, create endpoint, job handler | crashes, concurrent first calls, a store error on any path, shutdown behind a backlog | no job lost, none carried twice, permits balance, finished is final, every job ends, `stop` returns |
| **Wiring** `main.py` | — | lifespan start/stop, `handle_research_job` | runner, service | start failing, stop with work in flight | covered with the runner |
| **Research service** `services/research_service.py`, `audit_service.py` | session row, audit rows, result cache | `run` (begin, cache lookup, graph, cancel checks, writes, audit, cache fill, exception path) | repository, graph, cache | a cancel between any two awaits; a failure after the completed write; re-run after a crash | row and snapshot agree; every created session ends, or its job is left to the next process; a cancel before the run holds |
| **Research endpoints** `api/research.py` | session and job rows | create (two commits), cancel (read, check, write), reads | repository, runner | crash between the two commits; stale copy written back | as above |
| **Session repository** `services/session_repository.py`, `models/orm.py` | sessions with `state_snapshot`; child rows: sources, claims, evidence (shared), contradictions, risks, assumptions (replaced), plan, scores, agent runs, report (minted keys) | create, get, update, mark_running_unless_cancelled, list | database | check-then-write without a row lock; foreign keys and the order of statements; primary keys minted by agents; deadlocks | no lost update; rows agree with the snapshot; a write fails for a collision only |
| **Accounts** `api/auth.py`, users of the repository | users | register, login's lookup | database | two registrations of one address in two spellings | one reachable account per address |
| **Agents' graph** `orchestration/graph.py`, `verification/` | `GraphState`, verification cycle | 12 nodes, fan-out and join of researchers, gate, routing | agents, providers | join with failing branches, loop with cap and recursion limit, lists that are appended to on each retry | bounded, always ends, the report hides nothing |
| **Agents** `agents/*.py` | none of their own | one `run` each: prompt, parse, ground, default | model and search providers | free answers that must be grounded in the state | no invented id gets through |
| **Decision arithmetic** `agents/decision_analyst.py`, `decision/` | none | weights, totals, recommendation, sensitivity, severity | decision and risk analysts | zero and negative weights, ties, only the ends of a swing tried | no dominated alternative recommended; "not sensitive" means it |
| **Provider resilience** `tools/resilience.py`, `llm_provider.py`, `search_provider.py` | breaker (state, failures, opened_at), one per provider instance | `before_call`, `record_success/failure`, `with_retry`, `complete` | agents | half-open with concurrent callers, late answers, breaker checked once per retry loop, retries inside rounds | an open breaker sees few attempts, rejections end, every call returns |
| **Caches** `services/cache_service.py` | exact entries with expiry, semantic list per namespace | get, set, get_semantic, set_semantic, prune | service, retriever | read-modify-write of the list in Redis; push and trim are two commands | old answers disappear, the list returns to its cap |
| **Rate limit** `security/rate_limit.py` | tokens and refill time per key | `allow` | create endpoint | requests that overtake each other set the time back; expiry of the key | admissions bounded over every window, refusals brief |
| **Retrieval** `retrieval/`, `scripts/ingest_documents.py` | shared vector store, keyword index per process | ingest, index, search, rerank | researcher | re-ingestion in other words, failure between the two writes, restarts | document frequencies exact, indexed chunks stored |
| **Frontend** `src/frontend/src/hooks` | status and list shown, timers, requests under way | poll, mount, unmount | status and list endpoints | late and overtaking answers, timers that outlive a visit | pages catch up, polling stops |
| **Tokens, guardrails, headers, URL checks** `security/` | — | checks on strings | endpoints | nothing between two calls | not modelled |
| **Configuration, schemas** | — | declarations | all | unbounded `verification_max_cycles` against a literal recursion limit | see section 8 |
| **Observability**, **evaluation**, **migrations** | log lines, offline scores, schema versions | — | — | nothing the system reads back | not modelled |

`PROJECT.json` lists the same components with their status, and under `hazards`
the places in the code that are hard to test, each with the properties that watch
it or, for one of them, the reason why none does.

## 2. Plan

Done, in this order because everything a user sees depends on it:

1. `JobLifecycle` (abstract) and `JobRunner` (detailed) with `JobRunnerProofs`.
2. `ResearchSession`, built on the actions of `JobLifecycle`, with `MCResearchSession`.
3. `VerificationLoop` (abstract) and `ResearchGraph` (detailed) with `ResearchGraphProofs`.

```
  JobLifecycle  <-- implemented by --  JobRunner  <-- JobRunnerProofs
       ^
       | Jobs!Submit, Jobs!Attempt
  ResearchSession  --  one graph run is one step  -->  VerificationLoop
                                                            ^ implemented by
                                                       ResearchGraph  <-- ResearchGraphProofs
```

4. `ProviderCalls` with `ProviderCallsProofs`.
5. The parts around a run, `SessionStore`, `SemanticCache`, `TokenBucket` with
   `TokenBucketProofs`, `KnowledgeBase`, `Accounts`, `DecisionAnalysis` with
   `DecisionAnalysisProofs`, `StatusPage`, and `SupportServices`, which runs them, with
   `SupportServicesProofs`.
   (`X` and `XProofs` are a module and the proofs about it.)

```
  ProviderCalls  <-- ProviderCallsProofs

  SessionStore  SemanticCache  TokenBucket  KnowledgeBase  Accounts  DecisionAnalysis  StatusPage
        \_____________\____________\____________|____________/____________/_______________/
                                      SupportServices  <--  MCSupportServices
                                             ^
                                             |-- SupportServicesProofs
```

6. Proofs of all safety properties of `ResearchSession` (`ResearchSessionProofs`) and
   of `SessionStore` (`SessionStoreProofs`).

7. Proofs of what counts and sums: `DocFreqExact` (`SupportServicesProofs`) and the two
   properties of `DecisionAnalysis`, by induction over intervals.

8. Proofs of what the liveness properties rest on besides fairness: that nothing is
   stuck, and that what is left to do gets less.

Left:

9. The spans of `chunk_text` against a reference definition.

## 3. Modules and the code they model

### JobLifecycle
The promise of `job_runner.py` about a row of `jobs`: submitted once, attempted
while unfinished, finished for good. Three actions: `Submit`, `Attempt`, `Finish`.

### JobRunner
One API process at a time over a durable table. An action is a stretch of code
between two awaits that can suspend.

| State | Code |
|---|---|
| `row`, `attempts`, `createdAt` | `JobORM` columns; `createdAt` is the rank of the insert |
| `phase` | lifespan: `starting`, `serving`, `stopping`, `stopped`; `bare` is an app whose transport drives no lifespan (see the comment at `main.py:28`); `down` is no process |
| `started`, `starter`, `queue`, `disp`, `permits` | `_started`, holder of `_start_lock`, `_queue`, `_dispatcher_task`, `_semaphore` |
| `leaked` | dispatchers a failed `start()` left behind, which nothing refers to |
| `tpc` | where each `_run_job` task is: `wait` (semaphore), `get`, `mark`, `handle`, `complete`/`fail` |
| `call` | where each `enqueue()` is: `start`, `create`, `put` |
| `stranded` | jobs whose task, or whose `create()` after its commit, died of a store error in this process; bookkeeping for the properties |

`start()` is `StartReturns`, `StartLocks`, `Recover`, `RecoverRaises` (in an
enqueue) and `BootRaises` (in the lifespan); `enqueue()` is `Call`, then `start()`,
`CreateRow`/`CreateRaises`, `RefreshRaises` (the row is committed, its refresh raises,
and nothing in this process carries it), `PutJob`; `stop()` is `Stop` and `StopGathers`; the
dispatcher is `DispatchJob`, `DispatchStop`; `_run_job` is `Acquire`, `GetRow`,
`MarkRunning`, `HandlerEnds`, `MarkFinished`, `StoreRaises`. `Crash` and `Exit` drop
everything but the table; `Boot` builds a new runner.

### ResearchSession
The session from POST to its last status. `job` and `attempts` move by the actions
of `JobLifecycle`, which is what `JobRunner` is shown to implement, so the runner's
internals are not repeated. `worker[s]` is the await `ResearchService.run` is
suspended in; `Guarded` awaits lie inside its `try`, `Unguarded` ones outside.
`status` and `snap` are the two columns the writes set: the status, and of
`state_snapshot` the status inside it, which also says whether it carries a report, and
the attempt that wrote it, which tells two snapshots apart. Any number of cancel
requests may be under way for one session: `CancelRead` is the endpoint's `get()`
(`copy`), `CancelLoad` the SELECT of `update()` (`seen`), `CancelWrite` the flush, which
writes a column only if it differs from the selected one. `OperationRaises` lets any
repository or cache operation raise at any await, `JobStoreRaises` those of `_run_job`
before and after the handler, which leave the job to the next process (`stranded`), and
`EnqueueRaises` those of POST, before or after the job row's commit; `Crash` may happen
between any two steps.

### VerificationLoop
The promise of the retry loop: at most `MaxCycles` judgements, accepted, sent back,
or shipped with defects after the last one only; over stays over.

### ResearchGraph
One action per node of `build_graph`. The super-step of the researchers is one
action per branch, and the branch that finishes last takes the join's edge. Claims,
sources and evidence items have one identity, `<<question, index>>`, because each
result brings exactly one of each. What a model answers is chosen among what the
agent's code lets through: a verdict for every claim, contradictions between two
different known claims only, a report whose lists are the state's. `verified` is the
sequence of rounds of verdicts, because the reducer appends; the synthesizer's dictionary
(`synthesizer.py:80`) keeps the last verdict per claim (`LatestVerdicts`), the gate's
loop sees them all. The gate computes
`FailedChecks` from claims, contradictions and confidence; citations cannot fail, the
synthesizer copies them from the state. `ModelRaises` ends a run at any node
that calls a model with something to ask.

### ProviderCalls
One provider object and the tasks that share it. `breaker` is `_state`,
`_consecutive_failures` and what is left of the reset timeout; `Read` is the property
`state`, whose reading turns open into half-open. `Enter` is `with_retry` up to its
first attempt, the only look at the breaker; `Answer`, `InvalidAnswer`, `Fail` and
`Retry` are what lies between two awaits after that. An answer that does not fit the
schema goes into the next round's `with_retry` in the same step, as the code has no
await in between. `Cancel` is a sibling's failure; it records nothing. `hits` is a
history: the attempts started while the breaker was open.

### SessionStore
`_upsert_session` as a transaction, beside others. A *writer* is a session's run, which
writes a state when it begins (`Begin`, under FOR UPDATE), one when it has completed
(`Complete`) and one when it has failed (`FailRun`), or one call of cancel (`GetToCancel`,
`SelectToCancel`). Then come the statements in the code's order: `Flush` (the UPDATE of
the columns that differed from the SELECT, and none, with no lock, if none did),
`DropScores`, `PutPlan`, `ReadShared`, `PutShared` (a row a step, in any order),
`Replace`, `PutScores` (and the report), `Commit`. The variables are the committed
tables; what an open transaction has done is told by the keys it has `locked`, and
`Committed` is its effect. A statement on a key that another transaction holds waits,
`BreakDeadlock` is the database aborting one of those that wait for each other, `Abort`
leaves the tables as they were, and `Crash` ends every transaction and starts the runs
anew. A write carries nothing (a run that begins or has failed, and what a cancel has
read of either) or a whole run with some of the ids agents mint, which are the same in
every session. The look at the status before the completed write is left out: a cancel
may commit right after it. This is PostgreSQL under READ COMMITTED; on sqlite the
repository's lock runs the transactions one after the other. The three replaced tables
are one, and a write takes its keys in them at once: their ids carry ascending numbers,
so any two writers take them in the same order.

### SemanticCache
Searches over the Redis list of one namespace, a command a step: `Lookup` (LRANGE and
the scan), `Prune` (MULTI of DEL and RPUSH of what was read), `SearchUncached`, `Push`,
`Trim`, `Serve`. An entry is its query, the version of the knowledge base it answers
from, and the ticks it has left; copies held by a search age as well.

### TokenBucket
`Ask` takes the time in the API process, `Take` is the Lua script with that time, in
any order. Units are the refill of a tick, a token is `Cost` of them. `window` and
`since` are histories for the two properties. The in-memory limiter is the case where
`Take` follows its `Ask` at once.

### KnowledgeBase
`ingest_document` as `StartIngest`, `Embed`, `Upsert` (whose answer may be lost) and
`Add`, which removes and adds chunk after chunk as `KeywordIndex.add` does; `Restart`
loses a process's index. A chunk is named by its place in the document.

### Accounts
`register` as `Check` and `CreateUser` with the unique index between them. An address
is a mailbox and a spelling; what is stored and looked up is in lower case.

### DecisionAnalysis
Totals, recommendation and sensitivity over a common denominator, so that they are
exact integers: shares are parts of the sum of positive weights, a swing is in tenths.
`Analyse` is one run of the analyst with any judgments, clamped or neutral.

### StatusPage
`useResearchStatus` as chains of request, answer and timer, with the page left and
entered again; `useResearchList` with overlapping requests. `lastTimer` is `timerRef`,
the one timer a cleanup clears. `server` moves as the session's status does, which is not
only forward: a completed session becomes failed when the audit raises, running when its
job runs again after a crash, and cancelled when a cancel was under way; a cancelled one
becomes completed or failed by a run that had begun.

### SupportServices
Extends the seven modules above. They share no variable and no code path carries a
value from one to the other within a step, so a behaviour chooses a `part` and the
others stay as they begin; interleaving them would multiply states and show nothing.

## 4. Runs

| Run | Instance | Shows |
|---|---|---|
| `job_runner` | 2 jobs, 1 permit, 3 processes, 2 store errors; 36,723 states | types, permits, `NoLostJob`, `SingleCarrier`, `OneAttemptPerBoot`, refinement of `JobLifecycle`, every job ends, `stop` returns |
| `stop_is_heard` | the runner by hand: 2 processes, 1 error | violation: see 7 |
| `research_session` | 1 session, 2 cancels at a time, 2 crashes, 2 failing operations; 128,319 states | the snapshot is the status's or an older, unfinished one, completed jobs leave settled and audited sessions, cancelled before begin never starts, finished is over, created sessions end |
| `cancel_is_final`, `running_session_ends`, `report_only_when_completed` | 1 session, 1 cancel at a time, 1 error | violations: see 7 |
| `research_graph` | 2 questions with 0 or 1 result, one retry; about 121,000 states | honest report, limits, written from the latest verdicts, refinement of `VerificationLoop`, every run ends |
| `refuted_claims_acknowledged`, `reverified_claims_pass` | as above | violations: see 7 |
| `provider_calls` | 3 tasks, threshold 4, 2 ticks of cooldown, 2 attempts, 2 rounds; about 167,000 states | types, stragglers, answered calls go on, rejections cease, every call returns |
| `support_services` | see below; about 209,000 states | fourteen properties of the seven parts |
| `rows_populated` | 2 sessions, 1 id | violation: see 7 |

Why the bounds are enough:

- *Two jobs on one permit* make one wait for the other and give the queue, and the
  recovery list, an order; a second copy of a task is possible (`Copies = 2`), so
  a job handed out twice would be seen. *Three boots* allow a crash, a stop and a
  recovery of what the recovery left. *Two errors* let an error hit the recovery
  and, later, a task.
- *One session.* Sessions meet in the result cache only, each otherwise touches its own
  rows; the cache begins with anything in it and may lose it at any moment, which is all
  that a second session could do. *Two cancels at a time* are the least that overtake each
  other, and each may be asked again. *Two crashes and two errors* reach a third attempt
  and an error in a repetition. The proofs have no such bounds.
- *Two questions with at most one result* give no claim, one claim, two claims and a
  contradiction; `MaxCycles = 2` has a judgement that may send back and a last one.
  The proofs remove these bounds for all safety properties of the graph.

- *Three tasks, threshold 4, two attempts.* One call's failures do not open the
  breaker and two calls' do, with the third at any stage: asleep, in flight, in a second
  round, or of an earlier open period. Two ticks let one half of the wait pass.
- *`support_services`:* the runs of two sessions and two cancels of one of them, with the
  same two ids: writes collide, deadlock and overtake each other. `MaxDisturbances = 2`
  allows both cancels or one restart in a behaviour; the proofs, any number. Two searches with two queries, a cap of one and one ingestion
  give a trim during a prune and an entry for an answer that is outdated. Two
  requests, two tokens of two units, a clock of four and an expiry of four
  (= a full refill) let a request come four ticks late and the key expire. Two
  processes ingest versions of one, two and no chunks that share terms. Three
  registrations of two mailboxes in two spellings. Two alternatives, three criteria,
  weights with none, one, two and all positive, scores inside and above the scale and
  missing. Two visits of a page with
  two lost requests, two list requests at once, and three changes of the status, enough for
  one that ends, is shown, and then changes again.

Each property of a passing run has a broken variant of a definition next to the
original (marked "Broken variant") under which TLC finds it violated; `PROJECT.json`
pairs them under `mutants`.

`CHECK_DEADLOCK FALSE` is set where the system really stops: after the last boot with
all jobs done, when all sessions have an outcome, when a run is over, when a part of
`SupportServices` has used up its writes, registrations or time.

## 5. Fairness

Safety properties assume none. For liveness:

- `JobRunner.FairSpec`: weak fairness for each coroutine that can go on, because the
  event loop runs all that are ready; strong fairness for `Acquire`, because asyncio's
  semaphore serves its waiters first come first served, while another task may take
  the permit many times in between; weak fairness for `Boot`, since a deployment
  restarts its process. Errors, crashes, calls and `Stop` are never forced. That
  a handler ends comes from the graph's own liveness and from timeouts in the providers.
- `ResearchSession.FairSpec`: the handler of an unfinished job goes on
  (`EveryJobEnds` of the runner, which excepts a job that a store error has stranded, and
  so does this: `StartAttempt` needs one that is not), the request goes on to its enqueue,
  a cancel request under way goes on. `CreatedSessionEnds` begins with the session row.
- `ResearchGraph.FairSpec`: some agent step is taken while one can be: model calls
  and searches have timeouts and a bounded number of attempts.

- `ProviderCalls.FairSpec`: weak fairness of each call once under way (clients have
  timeouts, tenacity's sleeps end) and of the clock. Nobody has to call.
  `RejectionsCease` assumes in its premise that failures stop.
- `SupportServices.Fairness`: a statement that need not wait is executed and a
  deadlock is broken by the database; time passes; a search under way goes on; a
  request that was sent is answered or lost and a timer fires. No one has to
  write, search, ingest or open a page, and no run has to end.

## 6. Proofs

For every value of the constants that meets the named `ASSUME`:

**JobRunnerProofs** (`ConstantsAssumption`: finitely many jobs, at least one permit;
no bound on boots, errors or copies; both with and without `Harness`).

- `TypeCorrect`, `PermitsAccounted`: `Accounted == TypeOK /\ BoundedConcurrency` is
  inductive. A step moves at most one task in or out of the semaphore and one permit
  the other way (`LeaveGivesBack`, `AcquireTakes`, `InsideKeeps`, `OutsideKeeps`), or
  drops all tasks and restores all permits (`AllGone`).
- `NothingLost`: `NoLostJob` alone is not inductive: it is about what `start()` left
  behind, so one must know that nothing else can set `started` while a recovery is
  under way. `LockHeld` says that the holder of the start lock found the runner not
  started and that it still is not. The inductive invariant is `Accounted`, `LockHeld`
  and, for each job, `Kept`, which is `NoLostJob` for that job. `Recover` establishes
  it from the answer of the query; every other step keeps a job carried or finishes it.

The rest of **JobRunnerProofs** assumes `~Harness` as well: nobody restarts a stopped
runner, which is how the application uses it.

- The invariant `OnceInv` adds to `Accounted` and `LockHeld`: `Phases` (a process is
  `starting` until its runner has started, serves only after that, and an enqueue
  holds the start lock only without a lifespan), and for each job `Placed` (it is in
  one place; a runner that has not started carries none, which is why the recovery
  cannot queue a job twice; a call before its insert has no row; what is carried is
  unfinished; what is past `mark_running` is running) and `Counted` (attempts are at
  most the boots, and fewer while the job may still be marked running in this process).
- `CarriedOnce`, `AttemptedOncePerBoot` and `RunnerImplementsLifecycle` follow.
- `Hearing` adds what `stop()` relies on: under a lifespan no dispatcher leaks, one
  serves until it is stopped, and the one sentinel is in the queue exactly while
  `stop()` waits for it. A leaked dispatcher (finding 1) needs a recovery that fails
  in an enqueue, which under a lifespan comes only after `start()` has succeeded.
  `StopReachesItsDispatcher` and `StopLeavesNothing` follow.

**ResearchGraphProofs** (`GraphAssumption`: finitely many questions, a cap of at
least 1, and `4 + 8 * MaxCycles` super-steps, see 8).

- The invariant `Inv` adds to the types: `OnBudget` (at each node, an upper bound of
  the super-steps taken, as its place in the cycle plus 8 for each cycle), `Unjudged`
  (before the first fact check there are no verdicts and no contradictions), `Drafted`
  (a draft exists after the synthesizer and was written from the latest verdicts),
  `DraftIsHonest` (what the draft says was true of the state it was written from, and
  still is at the gate), `ThinIsKnown`, `Unfinished` (no final report before the end).
  `WithinLimits`, `WrittenFromLatestVerdicts` and `HonestReport` follow.
- `GraphTypeCorrect`, `LimitsHold`, `LatestVerdictsUsed`, `ReportIsHonest`, and
  `GraphImplementsLoop`: each step of the graph is a judgement of `VerificationLoop`,
  a failure for good, or a stutter.
- `RunsAreNotStuck` and `EveryStepCounts`: `Left` is the super-steps up to
  `4 + 8 * MaxCycles`, each worth a branch per question and one more, plus the branches
  under way. `OnBudget` keeps it from running out and every step lowers it. `Joined`
  says that branches are under way in the researchers' super-step and in no other.

**ProviderCallsProofs** (`CallsAssumption`: threshold, cooldown, attempts and rounds
are positive).

- `Inv` adds `Budget` to the types: a sleeping call has an attempt left, a call in
  flight has started at most all but its first attempt while the breaker was open,
  and while it is not open there is nothing to count. The first part is needed for
  the types already: nothing in `Retry` looks at the number of attempts.
- `CallsTypeCorrect`, `FewStragglers`, `AnsweredGoOn`.
- `EveryStepShortens`: `CallLeft` weighs the attempts left, of this round and of those to
  come. A round that begins brings back fewer attempts than it costs, a failure leads
  to a sleep, a sleep to one attempt less; no other task's step changes it.

**TokenBucketProofs** (`BucketAssumption`: at least one token, a token costs at least
a tick, and the key does not expire before the bucket is full; no bound on time).

- A bucket's `Worth` is its level and the time since its stamp. `Covered` says that what
  is spent in the window plus what could be spent at once, a full bucket or less, is
  covered by the bound; a request that sets the stamp back raises the worth by at most
  its own lateness, which is what the bound allows it. `Aging` is needed for the
  expiry: an untouched bucket is worth at least its idle time. `Gaining` says that the
  time since the last admission is in the bucket.
- `AdmissionsAreBounded`, `RefusalsAreBrief`.

**DecisionAnalysisProofs** (`DecisionAssumption`: alternatives and criteria are numbered
from 1; any integers as weights and scores, any number of either).

- `SumOf` is recursive, and the library's induction theorems take an operator, which the
  provers cannot instantiate. The first section states induction over `0 .. n` for a set
  (`IntervalInduction`, from the least element of a set of naturals) and shows that a
  recursive function exists (`IntervalRecursion`); from these follow `SumMonotone`,
  `SumLinear`, `SumOfOne` and `SumOfShares`.
- `DecisionInvariant`: what was decided is what the recorded weights and scores give.
  `NormalizedShares` and `PerturbedShares` say that weights never count backwards and
  are never all zero, with which `DominatedNotRecommended` is monotonicity of the sum.
- `TotalAffine`: every total is an affine function of the swung weight, whether the
  others share the rest or have nothing to share, and the swung weight moves with the
  swing even where it is clipped (`SwungBounds`). Between two numbers such functions
  keep their order (`AffineBetween`), strictly where the tie rule needs it:
  `StableWithinSwings`, and, because the unswung weights lie between the swings,
  `SwingsAgree`.

**SupportServicesProofs** (`LowerAssumption`, `TextsAssumption`: a version is a sequence
of sets of terms; and the assumptions of the other parts).

- `AccountsReachable`: addresses in the table differ and are in lower case.
- `IndexedAreStored`: an ingestion that has come to `add` has all its chunks stored,
  and writes never take one away.
- `CountsAreExact`: `Exact` adds to `DocFreqExact` that an index has finitely many
  chunks, without which a cardinality says nothing. `AddedOneExact` is one record of
  `KeywordIndex.add`, `AddedExact` the records of a document one after the other.
- `ServicesAreSafe`: every safety property the run of `SupportServices` checks holds of
  its specification. It follows from the theorems about the parts, because a behaviour
  of `SupportServices` is one of each part (`PartsFollowTheirOwn`).

**ResearchSessionProofs** (`SessionAssumption`; any number of cancels under way
together, no bound on crashes or errors).

- `Inv` adds `Stage` to the types, per session: nothing is there before the session
  is created, only a running job has a handler, a handler past its completed write
  finds the session completed or cancelled, and one that returns leaves an outcome,
  audited if it is a completed one. The audit before the cache fill and the early
  returns of a cancelled run are what makes the last part hold. `Asked` says that a
  cancel under way holds the snapshot of a session that had no outcome, so what it
  writes back is at worst an older, unfinished one.
- `SessionTypeCorrect`, `ColumnsAgree`, `CompletedJobsSettle`, `CompletedAreAudited`
  follow. `StatusSteps` lists the only ways a status can change; with it `Inv`
  gives the action properties `CancelledStayCancelled` and `FinishedJobsAreOver`.
- `ColumnsEqualWithoutOvertaking`: if no two cancels of one session are under way
  together, status and snapshot say exactly the same unless the session is cancelled.
- `SessionImplementsLifecycle`: `JobSteps` lists the ways a job row changes, each of them
  a step of `JobLifecycle`. With `RunnerImplementsLifecycle` the two detailed
  specifications meet in one contract.

**SessionStoreProofs** (`OwnerAssumption`: no session is called `None`;
`MintedAssumption`, `CancelAssumption`: runs mint ids, cancels name a session; any number
of sessions, cancels, ids and restarts).

- `StoreInv` adds three parts to the types. `Exclusive`: no two transactions hold a key.
  `Progress`, per writer: its keys are taken in the order of its statements, a run that
  writes holds its row, and so does a cancel that writes a column; the scores and the
  replaceable rows of its session are its own once it is past them; a shared row it needs
  is committed, or is one it inserts. `Rows`, per session: what is committed follows the
  stored state, exactly so until a cancel is written.
- The hard step is `CommitKeeps` for a cancel: it may have selected the row long ago,
  changed one column or none, and commits its deletes into whatever state is there now.
  It carries nothing, so what it leaves is a part of what the state names.
- `WritesFailForIdsOnly`, `RowsFollowSnapshot`, `StoredIdsExclusive`.
- `WritesNeverStuck`: `SomeWriteMoves` speaks of `Ready`, which is when a write's next
  statement need not wait; that it is ENABLED of `WriteStep` is TLC's word, as ENABLED is
  out of the prover's reach.

**Model-checked only**: the liveness properties themselves, which are out of the
prover's reach. Of four of them the part that is not fairness is proved, for every
instance: `EveryRunEnds`, `EveryCallReturns` (the number of steps left gets less),
`StopReturns` and `EveryWriteEnds` (what is waited for can go on). What `SemanticCache` promises is liveness throughout, and what its searches
read is a `SelectSeq`, of which the prover knows nothing. Every safety invariant and
action property of a passing run has a theorem.

## 7. Findings

Where the code and what its comments, documentation or tests say of it differ. Each
is a run that TLC refutes, with the trace it prints; `PROJECT.json` quotes the lines.

1. `StopReturns` by hand: a recovery query that raises leaves its dispatcher running;
   it can take the sentinel of a later `stop()`, which then waits for ever. Under
   the lifespan the same error ends the boot, and `StopReturns` holds in `job_runner`.
2. `CancelIsFinal`: the exception path of `run` writes `failed` over a cancel. (The
   code's own check before the completed write leaves a window of one await, too.)
3. `RunningSessionEnds`: the cache lookup lies outside the `try`; if it raises, the
   session shows `running` for ever.
4. `ReportOnlyWhenCompleted`: a cancel that selected the row before the completed
   commit writes the status only; a cancelled session then serves a report.
   (PostgreSQL; on sqlite the repository's lock keeps select and flush together.)
5. `RefutedClaimsAcknowledged`: an empty explanation is a substring of any limitations.
6. `ReverifiedClaimsPass`: the gate reads the verdicts of every round, so a claim
   verified on the retry fails with its old verdict until the cap.
7. `RowsPopulated`: risks, assumptions and contradictions are inserted under primary
   keys that agents mint alike in every session. The second session with such an id
   cannot write its rows, and the transaction takes its snapshot and its completed status with it.

Seen while modelling, not stated as runs:

- A page open at a run that is cancelled polls for ever: `TERMINAL_STATUSES`
  (`useResearchStatus.ts:7`) lacks `cancelled`, against its own comment at line 19.
  `PollingStopsAfterRun` is about the other two.
- It stops at `completed` or `failed` (`useResearchStatus.ts:45`) though the row may
  still change: a page can show `completed` for ever for a session that the audit's error
  has made failed, or a cancel cancelled. `PagesCatchUp` excepts exactly that.
- A cancel that selected the row while the run was in it and flushes after the completed
  commit deletes that commit's scores, contradictions, risks and assumptions
  (`session_repository.py:234`, `374`, `391`, `410`). If it found a difference in the
  status only, the session keeps the full snapshot; if another cancel had been written in
  between it changes no column and takes no row lock, and a *completed* session is
  left with its snapshot and without those rows. `RowsMatchSnapshot` says what remains true.
- Of two cancels one may find the status already cancelled and write back its old
  snapshot alone, into a session that has completed since: status `completed`, and a
  snapshot without a report. `SnapshotAgrees` says "or an older, unfinished one" for it.
- A refresh that raises after the commit of a job row (`job_runner.py:137`) leaves a job
  that runs only in the next process, while the client was told that its request failed.
- The semantic cache's "hard cap" (`cache_service.py:219`) is exceeded for a while by
  pushes before their trims and by prunes that write back a longer list.
- A write without a report leaves the report of an earlier write in the table
  (`session_repository.py:246`); snapshot and table then differ, after a failure past
  the completed write, a second run or a late cancel; `RowsMatchSnapshot` asks for a report where there is a run.
- Shared rows (`sources`, `claims`, `evidence`) keep the session that inserted them,
  so another session's claims with the same ids are listed under the first.
- A shorter version of a document leaves the last chunks of a longer one in the
  store and the index; there is no delete.
- `scripts/ingest_documents.py` fills a keyword index of its own process, so what it
  writes is found by vectors only in the application, not "identically" (line 14).
- `sensitivity_weight_perturbation` (`settings.py:122`) is passed to nobody.

Also: the cap's text always speaks of 3 cycles; the
comment above the recursion limit counts 4 nodes per retry where there are 8; the
result-cache key leaves out constraints and hints; `docs/api.md` says that the graph
halts on cancel, where it runs on and its result is dropped.

## 8. Assumptions and what is left out

- *Recursion limit.* The literal 100 of `graph.py:410` covers 12 super-steps for the
  first pass and 8 per retry, hence `4 + 8 * MaxCycles <= RecursionLimit`: a
  `verification_max_cycles` up to 12. The setting itself has no upper bound.
- *Question ids* of one plan are distinct (`Claims` is built from them).
- *One process at a time*, as the deployment runs it; a second one would recover jobs
  the first still holds.
- *The durable store.* The in-memory stores of tests are not durable, so `Crash` is
  about the database-backed ones. A commit is atomic; a commit whose answer is lost
  is not modelled.
- *A failed job* queued behind the sentinel could be run again by restarting a stopped
  runner object; only a `Harness` instance can, and `SingleCarrier`,
  `OneAttemptPerBoot` and `ImplementsLifecycle` are checked and proved without it.
- *A deadlock victim or a collision* ends the write with an exception; what the
  service does with it is `OperationRaises` of `ResearchSession`.
- *Floating point.* Totals are floats in the code; two totals that are equal here may
  differ there in the last digit, and a tie may go to the later alternative.
- *The in-memory limiter* runs without an await, so each of its calls is one of the
  sequences modelled, and so is each `get` and `set` of the in-memory cache. Its semantic
  cache (`cache_service.py:116-138`) has no cap and no trim and is not modelled.
  *Expiry* in Redis is on time.
- *A Redis error or a cancellation between two commands* of one search, RPUSH and LTRIM
  above all, is not modelled: the list then stays over its cap until the next push.
- *Repeated audit rows.* `audited` says that the trail is complete; that a re-run
  writes it a second time is not told apart.
- *Not modelled in a part that is*: embeddings, BM25 and reranking scores, chunk
  boundaries, the severity table, `list_recent`, rendering and forms of the client.
- *Abstracted*: texts, scores, prompts, timestamps except their order, log lines,
  spans, ownership checks. *Not modelled*:
  observability and the evaluation harness, which nothing in a run reads back;
  migrations and configuration, which are declarations; tokens, guardrails, headers and
  URL checks, which keep no state between calls.

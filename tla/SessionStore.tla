---------------------------- MODULE SessionStore ----------------------------
(***************************************************************************)
(* How SessionRepository._upsert_session (services/session_repository.py)  *)
(* writes a session's row and its research into the normalised tables: one *)
(* transaction of statements in a fixed order, beside the transactions of  *)
(* other sessions and of the cancels of the same one.                      *)
(*                                                                         *)
(* The tables differ in how a write treats them:                           *)
(*   shared    sources, claims, evidence: a row is inserted when its id is *)
(*             not there yet, whichever session put it, and never deleted; *)
(*   replaced  contradictions, risks, assumptions: the session's own rows  *)
(*             are deleted and those of the written state inserted;        *)
(*   minted    documents, agent runs, alternatives, criteria, scores, the  *)
(*             report: the database mints their keys.                      *)
(* The agents mint the ids of the first two kinds, and two sessions mint   *)
(* the same ones (claim-rq-1-0, risk-0-cost, assumption-0).                *)
(*                                                                         *)
(* PostgreSQL as the code uses it, READ COMMITTED: a statement sees what   *)
(* is committed and what its own transaction did; one that writes a row    *)
(* waits for the open transaction that touched its key.  The variables are *)
(* what is committed; what a transaction did is told by the keys it has    *)
(* locked, and takes effect when it commits.  With sqlite the repository's *)
(* lock runs the transactions one after the other, one of the orders here. *)
(***************************************************************************)
EXTENDS Naturals

CONSTANTS
  Sessions,
  Cancels,          \* calls of POST /cancel: <<session, which one of its calls>>
  Ids,              \* ids the agents mint, the same in every session
  Minted,           \* the sets of them that a run may end with
  MaxDisturbances,  \* bounds the cancels, and the restarts, which count for two
  None              \* no owner

ASSUME OwnerAssumption == None \notin Sessions
ASSUME MintedAssumption == Minted \subseteq SUBSET Ids
ASSUME CancelAssumption == Cancels \subseteq Sessions \X Nat /\ Cancels \cap Sessions = {}

\* A session's run writes one state after the other, and every cancel one.
Writers == Sessions \cup Cancels
Of(w)   == IF w \in Sessions THEN w ELSE w[1]

VARIABLES
  sharedBy,         \* id -> the session_id of the shared row, or None
  replaced,         \* id -> the session_id of the replaced row, or None
  plan,             \* session -> has it alternatives and criteria?
  scores,           \* session -> has it scores, which refer to those?
  report,           \* session -> has it a report?
  status,           \* session -> the status in its row
  snapshot,         \* session -> the state in its row
  pc,               \* writer -> the statement it is at, or where it is between writes
  want,             \* writer -> the status it writes, if it does
  content,          \* writer -> the state it writes, or wrote last
  columns,          \* writer -> the columns of the row it changes
  todo,             \* writer -> shared ids its SELECTs did not find and it inserts
  pending,          \* writer -> shared ids it has still to write
  locked,           \* writer -> keys its open transaction has touched
  outcome,          \* writer -> how its last write ended
  disturbed         \* by cancels and restarts so far

tables == <<sharedBy, replaced, plan, scores, report, status, snapshot>>
mine   == <<want, content, columns>>
storeVars == <<tables, mine, pc, todo, pending, locked, outcome, disturbed>>

\* What a write carries: nothing yet (a run that begins, one that failed, and what
\* a cancel has read of either), or a whole run, with a plan, scores and a report.
\* The ids stand for those of the shared and of the replaced tables alike.
Nothing  == [rows |-> {}, ran |-> FALSE]
Results  == {[rows |-> r, ran |-> TRUE] : r \in Minted}
Contents == {Nothing} \cup Results

RowKey(s)      == <<"row", s>>
ScoresKey(s)   == <<"scores", s>>
SharedKey(i)   == <<"shared", i>>
ReplacedKey(i) == <<"replaced", i>>

Statements ==
  {"flush", "dropScores", "putPlan", "readShared", "putShared", "replace", "putScores",
   "commit"}
Open(w) == pc[w] \in Statements
OwnRows(s) == {i \in Ids : replaced[i] = s}

\* A statement that writes key k must wait for another open transaction.
Waits(w, k) == \E v \in Writers \ {w} : k \in locked[v]

Goto(w, label)  == pc' = [pc EXCEPT ![w] = label]
Lock(w, keys)   == locked' = [locked EXCEPT ![w] = @ \cup keys]

----------------------------------------------------------------------------

StoreInit ==
  /\ sharedBy = [i \in Ids |-> None]
  /\ replaced = [i \in Ids |-> None]
  /\ plan = [s \in Sessions |-> FALSE]
  /\ scores = [s \in Sessions |-> FALSE]
  /\ report = [s \in Sessions |-> FALSE]
  /\ status = [s \in Sessions |-> "pending"]
  /\ snapshot = [s \in Sessions |-> Nothing]
  /\ pc = [w \in Writers |-> "new"]
  /\ want = [w \in Writers |-> "none"]
  /\ content = [w \in Writers |-> Nothing]
  /\ columns = [w \in Writers |-> {}]
  /\ todo = [w \in Writers |-> {}]
  /\ pending = [w \in Writers |-> {}]
  /\ locked = [w \in Writers |-> {}]
  /\ outcome = [w \in Writers |-> "none"]
  /\ disturbed = 0

\* A cancel or a restart, of which there are only so many.
Disturb(n) == disturbed + n <= MaxDisturbances /\ disturbed' = disturbed + n

\* Writer w has what it will write: status st, state c, in the row the columns cols.
Writes(w, st, c, cols) ==
  /\ want' = [want EXCEPT ![w] = st]
  /\ content' = [content EXCEPT ![w] = c]
  /\ columns' = [columns EXCEPT ![w] = cols]

\* mark_running_unless_cancelled: SELECT ... FOR UPDATE, so the row is locked before
\* it is looked at.  Its dates make the state it writes another one.
Begin(s) ==
  /\ pc[s] = "new"
  /\ ~ Waits(s, RowKey(s))
  /\ status[s] # "cancelled"
  /\ Writes(s, "running", Nothing, {"status", "snapshot"})
  /\ Lock(s, {RowKey(s)})
  /\ Goto(s, "dropScores")
  /\ UNCHANGED <<tables, todo, pending, outcome, disturbed>>

\* update() of a run that has ended, up to the SELECT of its row.  The look at the
\* status before it is left out: a cancel may be written right after that look.
Complete(s, c) ==
  /\ pc[s] = "running"
  /\ Writes(s, "completed", c, {"status", "snapshot"})
  /\ Goto(s, "flush")
  /\ UNCHANGED <<tables, todo, pending, locked, outcome, disturbed>>

\* The except path: the graph, the completed write or what follows it has failed.
FailRun(s) ==
  /\ pc[s] \in {"running", "tried"}
  /\ Writes(s, "failed", Nothing, {"status", "snapshot"})
  /\ Goto(s, "flush")
  /\ UNCHANGED <<tables, todo, pending, locked, outcome, disturbed>>

\* A cancel gets the session, which has not ended and so carries nothing yet.
GetToCancel(k) ==
  /\ pc[k] = "new"
  /\ status[Of(k)] \in {"pending", "running"}
  /\ Disturb(1)
  /\ Goto(k, "read")
  /\ UNCHANGED <<tables, mine, todo, pending, locked, outcome>>

\* Its update(), up to the SELECT of the row: a column is written later if what was
\* selected differs.  Two states that carry nothing may differ, in their dates.
SelectToCancel(k) ==
  /\ pc[k] = "read"
  /\ \E state \in {{}, {"snapshot"}} :
       /\ snapshot[Of(k)] # Nothing => state = {"snapshot"}
       /\ Writes(k, "cancelled", Nothing,
                 state \cup (IF status[Of(k)] = "cancelled" THEN {} ELSE {"status"}))
  /\ Goto(k, "flush")
  /\ UNCHANGED <<tables, todo, pending, locked, outcome, disturbed>>

\* The UPDATE of the row, of the columns that differed, and none if none did.
Flush(w) ==
  /\ pc[w] = "flush"
  /\ IF columns[w] = {} THEN UNCHANGED locked
     ELSE ~ Waits(w, RowKey(Of(w))) /\ Lock(w, {RowKey(Of(w))})
  /\ Goto(w, "dropScores")
  /\ UNCHANGED <<tables, mine, todo, pending, outcome, disturbed>>

\* Where a writer is when its transaction has ended: a run goes on after its first
\* write, and after its completed one may still fail.
Rest(w) ==
  CASE want[w] = "running" /\ pc[w] = "commit" -> "running"
    [] want[w] = "completed" -> "tried"
    [] OTHER -> "over"

\* The transaction of w ends, with an outcome.
Ends(w, how) ==
  /\ outcome' = [outcome EXCEPT ![w] = how]
  /\ locked' = [locked EXCEPT ![w] = {}]
  /\ todo' = [todo EXCEPT ![w] = {}]
  /\ pending' = [pending EXCEPT ![w] = {}]
  /\ Goto(w, Rest(w))
  /\ want' = [want EXCEPT ![w] = "none"]
  /\ columns' = [columns EXCEPT ![w] = {}]
  /\ UNCHANGED <<content, disturbed>>

\* The transaction of w fails and takes all it did with it.
Abort(w, why) == Ends(w, why) /\ UNCHANGED tables

\* Broken variant: the old scores stay.
DropScoresLater(w) ==
  /\ pc[w] = "dropScores"
  /\ Goto(w, IF content[w].ran THEN "putPlan" ELSE "replace")
  /\ UNCHANGED <<tables, mine, todo, pending, locked, outcome, disturbed>>

\* Old scores refer to the alternatives the next statement deletes.
DropScores(w) ==
  /\ pc[w] = "dropScores"
  /\ ~ Waits(w, ScoresKey(Of(w)))
  /\ Lock(w, IF scores[Of(w)] THEN {ScoresKey(Of(w))} ELSE {})
  /\ Goto(w, IF content[w].ran THEN "putPlan" ELSE "replace")
  /\ UNCHANGED <<tables, mine, todo, pending, outcome, disturbed>>

\* The plan is created, or its alternatives and criteria deleted and recreated,
\* which scores that are still there forbid.
PutPlan(w) ==
  /\ pc[w] = "putPlan"
  /\ IF plan[Of(w)] /\ scores[Of(w)] /\ ScoresKey(Of(w)) \notin locked[w]
     THEN Abort(w, "reference")
     ELSE /\ Goto(w, "readShared")
          /\ UNCHANGED <<tables, mine, todo, pending, locked, outcome, disturbed>>

\* The SELECT per source, claim and item of evidence: rows that are committed.
\* Those that are there are written again if a score, a title or a verdict differs.
ReadShared(w) ==
  /\ pc[w] = "readShared"
  /\ LET missing == {i \in content[w].rows : sharedBy[i] = None}
     IN  \E differing \in {{}, content[w].rows \ missing} :
           /\ todo' = [todo EXCEPT ![w] = missing]
           /\ pending' = [pending EXCEPT ![w] = missing \cup differing]
           /\ Goto(w, IF missing \cup differing = {} THEN "replace" ELSE "putShared")
  /\ UNCHANGED <<tables, mine, locked, outcome, disturbed>>

\* The flush writes them one after the other, in the order of the state's lists,
\* which the models decide: any order.
PutShared(w) ==
  /\ pc[w] = "putShared"
  /\ \E i \in pending[w] :
       /\ ~ Waits(w, SharedKey(i))
       /\ IF i \in todo[w] /\ sharedBy[i] # None
          THEN Abort(w, "taken")
          ELSE /\ Lock(w, {SharedKey(i)})
               /\ pending' = [pending EXCEPT ![w] = @ \ {i}]
               /\ Goto(w, IF pending[w] = {i} THEN "replace" ELSE "putShared")
               /\ UNCHANGED <<tables, mine, todo, outcome, disturbed>>

\* Transactions that wait for each other only: the database aborts one of them.
BreakDeadlock(w) ==
  /\ \E D \in SUBSET Writers :
       /\ w \in D
       /\ \A v \in D :
            /\ pc[v] = "putShared"
            /\ \A i \in pending[v] : \E u \in D \ {v} : SharedKey(i) \in locked[u]
  /\ Abort(w, "deadlock")

\* Broken variant: the session's old rows are left in place.
ReplaceAppends(w) ==
  /\ pc[w] = "replace"
  /\ \A i \in content[w].rows : ~ Waits(w, ReplacedKey(i))
  /\ IF \E i \in content[w].rows : replaced[i] # None
     THEN Abort(w, "taken")
     ELSE /\ Lock(w, {ReplacedKey(i) : i \in content[w].rows})
          /\ Goto(w, IF content[w].ran THEN "putScores" ELSE "commit")
          /\ UNCHANGED <<tables, mine, todo, pending, outcome, disturbed>>

\* The session's contradictions, risks and assumptions are deleted and those of
\* the written state inserted.
Replace(w) ==
  LET keys == {ReplacedKey(i) : i \in content[w].rows \cup OwnRows(Of(w))}
  IN  /\ pc[w] = "replace"
      /\ \A k \in keys : ~ Waits(w, k)
      /\ IF \E i \in content[w].rows : replaced[i] \notin {None, Of(w)}
         THEN Abort(w, "taken")
         ELSE /\ Lock(w, keys)
              /\ Goto(w, IF content[w].ran THEN "putScores" ELSE "commit")
              /\ UNCHANGED <<tables, mine, todo, pending, outcome, disturbed>>

\* The scores, which refer to the plan's rows by name, and the report with its
\* citations: rows under keys that nobody else has, there when w commits.  A write
\* without a report leaves the old one.
PutScores(w) ==
  /\ pc[w] = "putScores"
  /\ Goto(w, "commit")
  /\ UNCHANGED <<tables, mine, todo, pending, locked, outcome, disturbed>>

\* What w did to the tables, committed.
Committed(w) ==
  LET s == Of(w)
      ran == content[w].ran
  IN  /\ sharedBy' = [i \in Ids |->
           IF i \in todo[w] /\ SharedKey(i) \in locked[w] THEN s ELSE sharedBy[i]]
      /\ replaced' = [i \in Ids |->
           IF i \in content[w].rows THEN s
           ELSE IF ReplacedKey(i) \in locked[w] THEN None ELSE replaced[i]]
      /\ plan' = [plan EXCEPT ![s] = @ \/ ran]
      /\ scores' = [scores EXCEPT ![s] = ran \/ (@ /\ ScoresKey(s) \notin locked[w])]
      /\ report' = [report EXCEPT ![s] = @ \/ ran]
      /\ status' = [status EXCEPT ![s] = IF "status" \in columns[w] THEN want[w] ELSE @]
      /\ snapshot' = [snapshot EXCEPT ![s] =
           IF "snapshot" \in columns[w] THEN content[w] ELSE @]

\* Broken variant: the connection is kept, and its locks.
CommitHolds(w) ==
  /\ pc[w] = "commit"
  /\ Committed(w)
  /\ outcome' = [outcome EXCEPT ![w] = "committed"]
  /\ Goto(w, Rest(w))
  /\ UNCHANGED <<mine, todo, pending, locked, disturbed>>

Commit(w) ==
  /\ pc[w] = "commit"
  /\ Committed(w)
  /\ Ends(w, "committed")

\* _upsert_session once its transaction is open.
WriteStep(w) ==
  \/ Flush(w) \/ DropScores(w) \/ PutPlan(w) \/ ReadShared(w) \/ PutShared(w)
  \/ BreakDeadlock(w) \/ Replace(w) \/ PutScores(w) \/ Commit(w)

\* The process dies: the database rolls back what was open, the cancels under way
\* are gone, and the runs begin anew.
Crash ==
  /\ Disturb(2)
  /\ pc' = [w \in Writers |-> IF w \in Sessions \/ pc[w] = "new" THEN "new" ELSE "over"]
  /\ locked' = [w \in Writers |-> {}]
  /\ todo' = [w \in Writers |-> {}]
  /\ pending' = [w \in Writers |-> {}]
  /\ want' = [w \in Writers |-> "none"]
  /\ columns' = [w \in Writers |-> {}]
  /\ UNCHANGED <<tables, content, outcome>>

StoreNext ==
  \/ \E s \in Sessions : Begin(s) \/ FailRun(s) \/ \E c \in Results : Complete(s, c)
  \/ \E k \in Cancels : GetToCancel(k) \/ SelectToCancel(k)
  \/ \E w \in Writers : WriteStep(w)
  \/ Crash

StoreSpec == StoreInit /\ [][StoreNext]_storeVars

\* A statement that need not wait is executed.
FairStoreSpec == StoreSpec /\ \A w \in Writers : WF_storeVars(WriteStep(w))

----------------------------------------------------------------------------
(* Properties *)

\* A write fails for one reason only, an id that another session writes: never
\* for a row of its own that it should have deleted, never for a reference
\* whose target comes later or goes earlier (session_repository.py:227).
OnlyCollisionsAbort ==
  \A w \in Writers : outcome[w] \in {"none", "committed", "taken", "deadlock"}

\* No cancel of session s has been written.
Uncancelled(s) == \A k \in Cancels : Of(k) = s => outcome[k] # "committed"

\* A session has no replaceable row and no scores but those its stored state names,
\* whoever wrote last, committed or not.  It has them all, unless a cancel was
\* written: one that selected the row while the run was in it deletes the results
\* of the completed write it overtook, and may leave the state that names them
\* (session_repository.py:203 and 225).
RowsMatchSnapshot ==
  \A s \in Sessions :
    /\ OwnRows(s) \subseteq snapshot[s].rows
    /\ scores[s] => snapshot[s].ran
    /\ snapshot[s].ran => plan[s] /\ report[s]
    /\ \A i \in snapshot[s].rows : sharedBy[i] # None
    /\ Uncancelled(s) => OwnRows(s) = snapshot[s].rows /\ (snapshot[s].ran => scores[s])

\* Writers that meet in the same keys wait for each other for a while and never
\* for good: past the shared rows the statements take their keys in one order, and
\* among those the database finds the cycles.  Every write ends, committed or not.
EveryWriteEnds == \A w \in Writers : Open(w) ~> ~ Open(w)

\* models/orm.py:24: "the normalized tables below are still fully populated on
\* every write".  What a run wrote last is in the tables, as its own.
RowsPopulated ==
  \A s \in Sessions : ~ Open(s) =>
    /\ \A i \in content[s].rows : sharedBy[i] = s
    /\ OwnRows(s) = content[s].rows
============================================================================

------------------------- MODULE SessionStoreProofs -------------------------
(***************************************************************************)
(* Theorems about SessionStore, for any sets of sessions, cancels and ids  *)
(* and any number of restarts.                                             *)
(***************************************************************************)
EXTENDS SessionStore, TLAPS

SharedKeys == {SharedKey(i) : i \in Ids}

AllKeys == {RowKey(s) : s \in Sessions} \cup {ScoresKey(s) : s \in Sessions}
             \cup SharedKeys \cup {ReplacedKey(i) : i \in Ids}

Outcomes == {"none", "committed", "taken", "deadlock"}
States   == {"none", "pending", "running", "completed", "failed", "cancelled"}
Columns  == {"status", "snapshot"}
Rests    == {"new", "read", "running", "tried", "over"}

StoreTypeOK ==
  /\ sharedBy \in [Ids -> Sessions \cup {None}]
  /\ replaced \in [Ids -> Sessions \cup {None}]
  /\ plan \in [Sessions -> BOOLEAN]
  /\ scores \in [Sessions -> BOOLEAN]
  /\ report \in [Sessions -> BOOLEAN]
  /\ status \in [Sessions -> States]
  /\ snapshot \in [Sessions -> Contents]
  /\ pc \in [Writers -> Statements \cup Rests]
  /\ want \in [Writers -> States]
  /\ content \in [Writers -> Contents]
  /\ columns \in [Writers -> SUBSET Columns]
  /\ todo \in [Writers -> SUBSET Ids]
  /\ pending \in [Writers -> SUBSET Ids]
  /\ locked \in [Writers -> SUBSET AllKeys]
  /\ outcome \in [Writers -> Outcomes]
  /\ disturbed \in Nat

----------------------------------------------------------------------------
(* The inductive invariant. *)

\* Two open transactions have locked no key in common.
Exclusive == \A v, w \in Writers : v # w => locked[v] \cap locked[w] = {}

\* The statements by when they come.
NotYet    == Rests \cup {"flush"}
Past      == Statements \ {"flush", "dropScores"}
Late     == {"putScores", "commit"}

\* A transaction takes its keys in the order of its statements.
KeysInOrder(w) ==
  /\ pc[w] \in NotYet => locked[w] = {}
  /\ pc[w] = "dropScores" => locked[w] \subseteq {RowKey(Of(w))}
  /\ pc[w] \in {"putPlan", "readShared"} => locked[w] \subseteq {RowKey(Of(w)), ScoresKey(Of(w))}
  /\ pc[w] \in {"putShared", "replace"} =>
        locked[w] \subseteq {RowKey(Of(w)), ScoresKey(Of(w))} \cup SharedKeys

\* A run writes the whole row of its session; who writes any of it holds it; a cancel
\* carries nothing, and is written once.
Carries(w) ==
  /\ w \in Sessions /\ Open(w) => columns[w] = Columns
  /\ Open(w) /\ pc[w] # "flush" /\ columns[w] # {} => RowKey(Of(w)) \in locked[w]
  /\ w \in Cancels => /\ content[w] = Nothing
                      /\ want[w] \in {"none", "cancelled"}
                      /\ outcome[w] # "none" => pc[w] = "over"
  /\ pc[w] \in {"putPlan", "readShared", "putShared", "putScores"} => content[w].ran

\* The scores of a session are its row's holder's once it has come past them.
HoldsScores(w) ==
  pc[w] \in Past /\ RowKey(Of(w)) \in locked[w] /\ scores[Of(w)] =>
    ScoresKey(Of(w)) \in locked[w]

\* So are its replaceable rows, and the ids of those it puts are nobody else's.
HoldsRows(w) ==
  /\ pc[w] \in Late => \A i \in content[w].rows : ReplacedKey(i) \in locked[w]
  /\ pc[w] \in Late /\ RowKey(Of(w)) \in locked[w] =>
        \A i \in Ids : replaced[i] = Of(w) => ReplacedKey(i) \in locked[w]
  /\ \A i \in Ids : ReplacedKey(i) \in locked[w] => replaced[i] \in {None, Of(w)}

\* A shared row that w needs is committed, or w has inserted it or still will.
HasShared(w) ==
  /\ pc[w] # "putShared" => pending[w] = {}
  /\ pc[w] \in {"putShared", "replace"} \cup Late =>
        \A i \in content[w].rows :
           \/ sharedBy[i] # None
           \/ i \in todo[w] /\ (i \in pending[w] \/ SharedKey(i) \in locked[w])

\* How far a transaction has come.
Progress(w) == KeysInOrder(w) /\ Carries(w) /\ HoldsScores(w) /\ HoldsRows(w) /\ HasShared(w)

\* What is committed of session s.
Rows(s) ==
  /\ \A i \in Ids : replaced[i] = s => i \in snapshot[s].rows
  /\ scores[s] => snapshot[s].ran
  /\ snapshot[s].ran => plan[s] /\ report[s]
  /\ \A i \in snapshot[s].rows : sharedBy[i] # None
  /\ Uncancelled(s) => /\ \A i \in snapshot[s].rows : replaced[i] = s
                       /\ snapshot[s].ran => scores[s]

StoreInv ==
  /\ StoreTypeOK
  /\ Exclusive
  /\ \A w \in Writers : Progress(w)
  /\ \A s \in Sessions : Rows(s)

----------------------------------------------------------------------------
(* Facts about keys, contents and writers. *)

\* Keys of different rows are different keys.
LEMMA KeysDiffer ==
  /\ \A i, j \in Ids : SharedKey(i) = SharedKey(j) => i = j
  /\ \A i, j \in Ids : ReplacedKey(i) = ReplacedKey(j) => i = j
  /\ \A s, t \in Sessions : RowKey(s) = RowKey(t) => s = t
  /\ \A s, t \in Sessions : RowKey(s) # ScoresKey(t)
  /\ \A s \in Sessions : \A i \in Ids :
       /\ RowKey(s) # SharedKey(i) /\ RowKey(s) # ReplacedKey(i)
       /\ ScoresKey(s) # SharedKey(i) /\ ScoresKey(s) # ReplacedKey(i)
  /\ \A i, j \in Ids : SharedKey(i) # ReplacedKey(j)
  /\ \A i \in Ids : SharedKey(i) \in AllKeys /\ ReplacedKey(i) \in AllKeys
  /\ \A s \in Sessions : RowKey(s) \in AllKeys /\ ScoresKey(s) \in AllKeys
  BY DEF SharedKey, ReplacedKey, RowKey, ScoresKey, AllKeys, SharedKeys

\* What a content names, and when it names anything.
LEMMA ContentFacts ==
  /\ Nothing \in Contents /\ Nothing.rows = {} /\ Nothing.ran = FALSE
  /\ \A c \in Contents : c.rows \in SUBSET Ids /\ c.ran \in BOOLEAN /\ (c.ran \/ c = Nothing)
  /\ \A c \in Results : c \in Contents /\ c.ran
<1>1. Nothing \in Contents /\ Nothing.rows = {} /\ Nothing.ran = FALSE
  BY DEF Contents, Nothing
<1>2. ASSUME NEW c \in Results PROVE c \in Contents /\ c.ran /\ c.rows \in SUBSET Ids /\ c.ran \in BOOLEAN
  <2>1. PICK r \in Minted : c = [rows |-> r, ran |-> TRUE]
    BY <1>2 DEF Results
  <2> QED
    BY <1>2, <2>1, MintedAssumption DEF Contents
<1> QED
  BY <1>1, <1>2 DEF Contents

\* A writer is a session's run or one of its cancels, and not both.
LEMMA OfFacts ==
  /\ \A w \in Writers : Of(w) \in Sessions /\ Of(w) # None
  /\ \A s \in Sessions : s \in Writers /\ Of(s) = s /\ s \notin Cancels
  /\ \A k \in Cancels : k \in Writers /\ k \notin Sessions
<1>1. ASSUME NEW k \in Cancels PROVE k \notin Sessions /\ k[1] \in Sessions
  BY CancelAssumption
<1> QED
  BY <1>1, OwnerAssumption, CancelAssumption DEF Of, Writers

\* Nothing is written yet.
LEMMA StoreInitInv == StoreInit => StoreInv
<1> SUFFICES ASSUME StoreInit PROVE StoreInv
  OBVIOUS
<1>1. StoreTypeOK
  BY ContentFacts DEF StoreInit, StoreTypeOK, Outcomes, States, Rests, Columns
<1>2. Exclusive
  BY DEF StoreInit, Exclusive
<1>3. ASSUME NEW w \in Writers PROVE Progress(w)
  BY ContentFacts
  DEF StoreInit, Progress, KeysInOrder, Carries, HoldsScores, HoldsRows, HasShared, Open,
      Statements, Past, Late
<1>4. ASSUME NEW s \in Sessions PROVE Rows(s)
  BY ContentFacts, OwnerAssumption DEF StoreInit, Rows
<1> QED
  BY <1>1, <1>2, <1>3, <1>4 DEF StoreInv

----------------------------------------------------------------------------
(* The steps before the commit. *)

\* A step of w that leaves the tables and the other writers, and locks no key that
\* another has, is judged by what it does to w.
LEMMA LocalKeeps ==
  ASSUME StoreInv, NEW w \in Writers, StoreTypeOK', Progress(w)', UNCHANGED tables,
         \A v \in Writers \ {w} :
            /\ pc'[v] = pc[v] /\ content'[v] = content[v] /\ columns'[v] = columns[v]
            /\ want'[v] = want[v]
            /\ todo'[v] = todo[v] /\ pending'[v] = pending[v] /\ locked'[v] = locked[v]
            /\ outcome'[v] = outcome[v],
         \A k \in locked'[w] : k \in locked[w] \/ ~ Waits(w, k),
         w \in Cancels => (outcome'[w] = "committed" <=> outcome[w] = "committed")
  PROVE  StoreInv'
<1>1. Exclusive'
  BY DEF StoreInv, Exclusive, Waits
<1>2. ASSUME NEW v \in Writers PROVE Progress(v)'
  <2>1. CASE v = w
    BY <2>1
  <2>2. CASE v # w
    <3>1. Progress(v)
      BY DEF StoreInv
    <3> QED
      BY <2>2, <3>1
      DEF Progress, KeysInOrder, Carries, HoldsScores, HoldsRows, HasShared, Open, tables
  <2> QED
    BY <2>1, <2>2
<1>3. ASSUME NEW s \in Sessions PROVE Rows(s)'
  <2>1. Rows(s)
    BY DEF StoreInv
  <2>2. Uncancelled(s)' => Uncancelled(s)
    BY OfFacts DEF Uncancelled
  <2> QED
    BY <2>1, <2>2 DEF Rows, tables
<1> QED
  BY <1>1, <1>2, <1>3 DEF StoreInv

\* A run that is not over opens a transaction.
LEMMA RunStarts ==
  ASSUME StoreInv, NEW s \in Sessions,
         \/ Begin(s) \/ FailRun(s) \/ \E c \in Results : Complete(s, c)
  PROVE  StoreInv'
<1>0. s \in Writers /\ Of(s) = s /\ s \notin Cancels
  BY OfFacts
<1>1. StoreTypeOK /\ Progress(s)
  BY <1>0 DEF StoreInv
<1>2. ASSUME Begin(s) PROVE StoreInv'
  <2>1. StoreTypeOK'
    BY <1>0, <1>1, <1>2, ContentFacts, KeysDiffer
    DEF StoreTypeOK, Begin, Writes, Lock, Goto, tables, States, Columns, Statements
  <2>2. Progress(s)'
    BY <1>0, <1>1, <1>2, ContentFacts, KeysDiffer
    DEF StoreTypeOK, Begin, Writes, Lock, Goto, tables, Columns, Statements, Progress,
        KeysInOrder, NotYet, Rests, Carries, HoldsScores, HoldsRows, HasShared, Open, Past, Late
  <2> QED
    BY <1>0, <1>1, <1>2, <2>1, <2>2, LocalKeeps DEF Begin, Writes, Lock, Goto, StoreTypeOK
<1>3. ASSUME NEW st \in States, NEW c \in Contents, Writes(s, st, c, Columns), Goto(s, "flush"),
             pc[s] \in {"running", "tried"},
             UNCHANGED <<tables, todo, pending, locked, outcome, disturbed>>
      PROVE StoreInv'
  <2>1. StoreTypeOK'
    BY <1>0, <1>1, <1>3 DEF StoreTypeOK, Writes, Goto, tables, Columns, Statements
  <2>2. Progress(s)'
    BY <1>0, <1>1, <1>3, KeysDiffer
    DEF StoreTypeOK, Writes, Goto, tables, Columns, Statements, Progress,
        KeysInOrder, NotYet, Rests, Carries, HoldsScores, HoldsRows, HasShared, Open, Past, Late
  <2> QED
    BY <1>0, <1>1, <1>3, <2>1, <2>2, LocalKeeps DEF Writes, Goto, StoreTypeOK
<1>4. ASSUME FailRun(s) PROVE StoreInv'
  BY <1>4, <1>3, ContentFacts DEF FailRun, States, Columns
<1>5. ASSUME NEW c \in Results, Complete(s, c) PROVE StoreInv'
  BY <1>5, <1>3, ContentFacts DEF Complete, States, Columns
<1> QED
  BY <1>2, <1>4, <1>5

\* A cancel reads the session and opens its transaction.
LEMMA CancelStarts ==
  ASSUME StoreInv, NEW k \in Cancels, GetToCancel(k) \/ SelectToCancel(k)
  PROVE  StoreInv'
<1>0. k \in Writers /\ k \notin Sessions /\ Of(k) \in Sessions
  BY OfFacts
<1>1. StoreTypeOK /\ Progress(k)
  BY <1>0 DEF StoreInv
<1>2. ASSUME GetToCancel(k) PROVE StoreInv'
  <2>1. StoreTypeOK'
    BY <1>0, <1>1, <1>2 DEF StoreTypeOK, GetToCancel, Disturb, Goto, tables, mine, Rests
  <2>2. Progress(k)'
    BY <1>0, <1>1, <1>2
    DEF StoreTypeOK, GetToCancel, Goto, tables, mine, Statements, Progress,
        KeysInOrder, NotYet, Rests, Carries, HoldsScores, HoldsRows, HasShared, Open, Past, Late
  <2> QED
    BY <1>0, <1>1, <1>2, <2>1, <2>2, LocalKeeps DEF GetToCancel, Goto, mine, StoreTypeOK
<1>3. ASSUME SelectToCancel(k) PROVE StoreInv'
  <2>1. PICK cols \in SUBSET Columns : Writes(k, "cancelled", Nothing, cols)
    BY <1>3 DEF SelectToCancel, Columns
  <2>2. StoreTypeOK'
    BY <1>0, <1>1, <1>3, <2>1, ContentFacts
    DEF StoreTypeOK, SelectToCancel, Writes, Goto, tables, States, Statements
  <2>3. Progress(k)'
    BY <1>0, <1>1, <1>3, <2>1, ContentFacts
    DEF StoreTypeOK, SelectToCancel, Writes, Goto, tables, Statements, Progress,
        KeysInOrder, NotYet, Rests, Carries, HoldsScores, HoldsRows, HasShared, Open, Past, Late
  <2> QED
    BY <1>0, <1>1, <1>3, <2>1, <2>2, <2>3, LocalKeeps
    DEF SelectToCancel, Writes, Goto, StoreTypeOK
<1> QED
  BY <1>2, <1>3

\* The UPDATE of the session's row.
LEMMA FlushKeeps ==
  ASSUME StoreInv, NEW w \in Writers, Flush(w) PROVE StoreInv'
<1>0. Of(w) \in Sessions
  BY OfFacts
<1>1. StoreTypeOK /\ Progress(w)
  BY DEF StoreInv
<1>2. PICK keys \in SUBSET {RowKey(Of(w))} :
        /\ locked' = [locked EXCEPT ![w] = @ \cup keys]
        /\ columns[w] # {} => keys = {RowKey(Of(w))}
        /\ \A k \in keys : ~ Waits(w, k)
  <2>1. CASE columns[w] = {}
    <3>1. locked' = [locked EXCEPT ![w] = @ \cup {}]
      BY <1>1, <2>1 DEF Flush, StoreTypeOK
    <3> QED
      BY <2>1, <3>1
  <2>2. CASE columns[w] # {}
    <3>1. locked' = [locked EXCEPT ![w] = @ \cup {RowKey(Of(w))}] /\ ~ Waits(w, RowKey(Of(w)))
      BY <2>2 DEF Flush, Lock
    <3> DEFINE keys == {RowKey(Of(w))}
    <3>2. keys \in SUBSET {RowKey(Of(w))} /\ \A k \in keys : ~ Waits(w, k)
      BY <3>1
    <3>3. locked' = [locked EXCEPT ![w] = @ \cup keys] /\ (columns[w] # {} => keys = {RowKey(Of(w))})
      BY <3>1
    <3> HIDE DEF keys
    <3> QED
      BY <3>2, <3>3
  <2> QED
    BY <2>1, <2>2
<1>3. StoreTypeOK'
  BY <1>0, <1>1, <1>2, KeysDiffer
  DEF StoreTypeOK, Flush, Goto, tables, mine, Statements
<1>4. Progress(w)'
  BY <1>0, <1>1, <1>2, KeysDiffer, ContentFacts
  DEF StoreTypeOK, Flush, Goto, tables, mine, Statements, Progress,
      KeysInOrder, NotYet, Rests, Carries, HoldsScores, HoldsRows, HasShared, Open, Past, Late
<1> QED
  BY <1>1, <1>2, <1>3, <1>4, LocalKeeps DEF Flush, Goto, mine, StoreTypeOK

\* The session's scores are deleted.
LEMMA DropScoresKeeps ==
  ASSUME StoreInv, NEW w \in Writers, DropScores(w) PROVE StoreInv'
<1>0. Of(w) \in Sessions
  BY OfFacts
<1>1. StoreTypeOK /\ Progress(w)
  BY DEF StoreInv
<1>2. PICK keys \in SUBSET {ScoresKey(Of(w))} :
        /\ locked' = [locked EXCEPT ![w] = @ \cup keys]
        /\ scores[Of(w)] => ScoresKey(Of(w)) \in keys
  BY DEF DropScores, Lock
<1>3. StoreTypeOK'
  BY <1>0, <1>1, <1>2, KeysDiffer
  DEF StoreTypeOK, DropScores, Goto, tables, mine, Statements
<1>4. content[w] \in Contents /\ (content[w].ran \/ content[w].rows = {})
  BY <1>1, ContentFacts DEF StoreTypeOK
<1>5. Progress(w)'
  BY <1>0, <1>1, <1>2, <1>4, KeysDiffer
  DEF StoreTypeOK, DropScores, Goto, tables, mine, Statements, Progress,
      KeysInOrder, NotYet, Rests, Carries, HoldsScores, HoldsRows, HasShared, Open, Past, Late
<1> QED
  BY <1>1, <1>2, <1>3, <1>5, LocalKeeps DEF DropScores, Goto, mine, StoreTypeOK

\* A transaction that fails leaves what was committed.
LEMMA AbortKeeps ==
  ASSUME StoreInv, NEW w \in Writers, Open(w), NEW why \in {"taken", "deadlock"}, Abort(w, why)
  PROVE  StoreInv'
<1>1. StoreTypeOK /\ Progress(w)
  BY DEF StoreInv
<1>2. /\ outcome' = [outcome EXCEPT ![w] = why] /\ locked' = [locked EXCEPT ![w] = {}]
      /\ todo' = [todo EXCEPT ![w] = {}] /\ pending' = [pending EXCEPT ![w] = {}]
      /\ want' = [want EXCEPT ![w] = "none"] /\ columns' = [columns EXCEPT ![w] = {}]
      /\ UNCHANGED tables /\ content' = content /\ disturbed' = disturbed
  BY DEF Abort, Ends
<1>3. pc' = [pc EXCEPT ![w] = Rest(w)] /\ Rest(w) \in Rests /\ (w \in Cancels => Rest(w) = "over")
  <2>1. pc' = [pc EXCEPT ![w] = Rest(w)]
    BY DEF Abort, Ends, Goto
  <2>2. Rest(w) \in {"running", "tried", "over"}
    BY DEF Rest
  <2>3. w \in Cancels => want[w] \in {"none", "cancelled"}
    BY <1>1 DEF Progress, Carries
  <2> QED
    BY <2>1, <2>2, <2>3 DEF Rests, Rest
<1>4. StoreTypeOK'
  BY <1>1, <1>2, <1>3 DEF StoreTypeOK, tables, Outcomes, States
<1>5. Progress(w)'
  BY <1>1, <1>2, <1>3, ContentFacts
  DEF StoreTypeOK, tables, Progress, KeysInOrder, NotYet, Rests, Carries, HoldsScores,
      HoldsRows, HasShared, Open, Past, Late, Statements
<1>6. w \in Cancels => (outcome'[w] = "committed" <=> outcome[w] = "committed")
  BY <1>1, <1>2 DEF Progress, Carries, Open, Statements, StoreTypeOK
<1> QED
  BY <1>1, <1>2, <1>3, <1>4, <1>5, <1>6, LocalKeeps DEF StoreTypeOK

\* The alternatives and criteria.  No scores are left that refer to them: whoever has
\* a plan to write holds the session's row, and has deleted them.
LEMMA PutPlanKeeps ==
  ASSUME StoreInv, NEW w \in Writers, PutPlan(w) PROVE StoreInv'
<1>0. Of(w) \in Sessions
  BY OfFacts
<1>1. StoreTypeOK /\ Progress(w)
  BY DEF StoreInv
<1>2. w \in Sessions
  BY <1>1, ContentFacts DEF PutPlan, Progress, Carries, Writers
<1>3. scores[Of(w)] => ScoresKey(Of(w)) \in locked[w]
  BY <1>1, <1>2 DEF PutPlan, Progress, Carries, HoldsScores, Open, Statements, Past, Columns
<1>4. /\ pc[w] = "putPlan" /\ pc' = [pc EXCEPT ![w] = "readShared"]
      /\ UNCHANGED <<tables, mine, todo, pending, locked, outcome, disturbed>>
  BY <1>3 DEF PutPlan, Goto
<1>5. StoreTypeOK'
  BY <1>1, <1>4 DEF StoreTypeOK, tables, mine, Statements
<1>6. Progress(w)'
  BY <1>0, <1>1, <1>4
  DEF StoreTypeOK, tables, mine, Statements, Progress, KeysInOrder, NotYet, Rests, Carries,
      HoldsScores, HoldsRows, HasShared, Open, Past, Late
<1> QED
  BY <1>1, <1>4, <1>5, <1>6, LocalKeeps DEF mine, StoreTypeOK

\* The SELECTs of the shared rows.
LEMMA ReadSharedKeeps ==
  ASSUME StoreInv, NEW w \in Writers, ReadShared(w) PROVE StoreInv'
<1>0. Of(w) \in Sessions
  BY OfFacts
<1>1. StoreTypeOK /\ Progress(w) /\ pc[w] = "readShared"
  BY DEF StoreInv, ReadShared
<1> DEFINE missing == {i \in content[w].rows : sharedBy[i] = None}
<1>2. content[w].rows \in SUBSET Ids
  BY <1>1, ContentFacts DEF StoreTypeOK
<1>3. PICK differing \in SUBSET Ids :
        /\ todo' = [todo EXCEPT ![w] = missing]
        /\ pending' = [pending EXCEPT ![w] = missing \cup differing]
        /\ pc' = [pc EXCEPT ![w] = IF missing \cup differing = {} THEN "replace" ELSE "putShared"]
  BY <1>2 DEF ReadShared, Goto
<1>4. UNCHANGED <<tables, mine, locked, outcome, disturbed>>
  BY DEF ReadShared
<1>5. missing \in SUBSET Ids /\ \A i \in content[w].rows : sharedBy[i] # None \/ i \in missing
  BY <1>2
<1> HIDE DEF missing
<1>6. StoreTypeOK'
  BY <1>1, <1>3, <1>4, <1>5 DEF StoreTypeOK, tables, mine, Statements
<1>7. Progress(w)'
  <2>1. KeysInOrder(w)' /\ Carries(w)' /\ HoldsScores(w)' /\ HoldsRows(w)'
    BY <1>0, <1>1, <1>3, <1>4
    DEF StoreTypeOK, tables, mine, Statements, Progress, KeysInOrder, NotYet, Rests, Carries,
        HoldsScores, HoldsRows, Open, Past, Late
  <2>2. HasShared(w)'
    BY <1>1, <1>3, <1>4, <1>5 DEF StoreTypeOK, tables, mine, HasShared, Late
  <2> QED
    BY <2>1, <2>2 DEF Progress
<1> QED
  BY <1>1, <1>3, <1>4, <1>6, <1>7, LocalKeeps DEF mine, StoreTypeOK

\* The writes of the shared rows.
LEMMA PutSharedKeeps ==
  ASSUME StoreInv, NEW w \in Writers, PutShared(w) PROVE StoreInv'
<1>0. Of(w) \in Sessions
  BY OfFacts
<1>1. StoreTypeOK /\ Progress(w) /\ pc[w] = "putShared"
  BY DEF StoreInv, PutShared
<1>2. PICK i \in pending[w] :
        /\ ~ Waits(w, SharedKey(i))
        /\ \/ Abort(w, "taken")
           \/ /\ locked' = [locked EXCEPT ![w] = @ \cup {SharedKey(i)}]
              /\ pending' = [pending EXCEPT ![w] = @ \ {i}]
              /\ pc' = [pc EXCEPT ![w] = IF pending[w] = {i} THEN "replace" ELSE "putShared"]
              /\ UNCHANGED <<tables, mine, todo, outcome, disturbed>>
  BY DEF PutShared, Lock, Goto
<1>3. CASE Abort(w, "taken")
  BY <1>1, <1>3, AbortKeeps DEF Open, Statements
<1>4. CASE /\ locked' = [locked EXCEPT ![w] = @ \cup {SharedKey(i)}]
           /\ pending' = [pending EXCEPT ![w] = @ \ {i}]
           /\ pc' = [pc EXCEPT ![w] = IF pending[w] = {i} THEN "replace" ELSE "putShared"]
           /\ UNCHANGED <<tables, mine, todo, outcome, disturbed>>
  <2>1. i \in Ids
    BY <1>1 DEF StoreTypeOK
  <2>2. StoreTypeOK'
    BY <1>1, <1>4, <2>1, KeysDiffer DEF StoreTypeOK, tables, mine, Statements
  <2>3. KeysInOrder(w)' /\ Carries(w)'
    BY <1>0, <1>1, <1>4, <2>1
    DEF StoreTypeOK, mine, Statements, Progress, KeysInOrder, NotYet, Rests, Carries, Open,
        SharedKeys
  <2>4. HoldsScores(w)' /\ HoldsRows(w)'
    BY <1>0, <1>1, <1>4, <2>1, KeysDiffer
    DEF StoreTypeOK, tables, mine, Progress, HoldsScores, HoldsRows, Past, Late, Statements
  <2>5. HasShared(w)'
    BY <1>1, <1>4, <2>1 DEF StoreTypeOK, tables, mine, Progress, HasShared, Late
  <2>6. Progress(w)'
    BY <2>3, <2>4, <2>5 DEF Progress
  <2> QED
    BY <1>1, <1>2, <1>4, <2>2, <2>6, LocalKeeps DEF mine, StoreTypeOK
<1> QED
  BY <1>2, <1>3, <1>4

\* The session's replaceable rows.
LEMMA ReplaceKeeps ==
  ASSUME StoreInv, NEW w \in Writers, Replace(w) PROVE StoreInv'
<1>0. Of(w) \in Sessions
  BY OfFacts
<1>1. StoreTypeOK /\ Progress(w) /\ pc[w] = "replace"
  BY DEF StoreInv, Replace
<1> DEFINE ids  == content[w].rows \cup OwnRows(Of(w))
           keys == {ReplacedKey(i) : i \in ids}
<1>2. content[w].rows \in SUBSET Ids /\ (content[w].ran \/ content[w].rows = {})
  BY <1>1, ContentFacts DEF StoreTypeOK
<1>3. ids \in SUBSET Ids /\ \A i \in Ids : replaced[i] = Of(w) => i \in ids
  BY <1>2 DEF OwnRows
<1>4. CASE \E i \in content[w].rows : replaced[i] \notin {None, Of(w)}
  <2>1. Abort(w, "taken")
    BY <1>4 DEF Replace
  <2> QED
    BY <1>1, <2>1, AbortKeeps DEF Open, Statements
<1>5. CASE \A i \in content[w].rows : replaced[i] \in {None, Of(w)}
  <2>1. /\ locked' = [locked EXCEPT ![w] = @ \cup keys]
        /\ pc' = [pc EXCEPT ![w] = IF content[w].ran THEN "putScores" ELSE "commit"]
        /\ UNCHANGED <<tables, mine, todo, pending, outcome, disturbed>>
    BY <1>5 DEF Replace, Lock, Goto
  <2>2. \A k \in keys : ~ Waits(w, k)
    BY DEF Replace
  <2>3. keys \in SUBSET AllKeys
    BY <1>3, KeysDiffer
  <2>4. \A i \in Ids : ReplacedKey(i) \in keys <=> i \in ids
    BY <1>3, KeysDiffer
  <2>5. \A i \in ids : replaced[i] \in {None, Of(w)}
    BY <1>5 DEF OwnRows
  <2>6. /\ \A i \in content[w].rows : i \in ids
        /\ RowKey(Of(w)) \notin keys /\ ScoresKey(Of(w)) \notin keys
        /\ \A i \in Ids : SharedKey(i) \notin keys
    BY <1>0, <1>3, KeysDiffer
  <2> HIDE DEF keys, ids
  <2>7. StoreTypeOK'
    BY <1>1, <2>1, <2>3 DEF StoreTypeOK, tables, mine, Statements
  <2>8. KeysInOrder(w)' /\ Carries(w)'
    BY <1>1, <2>1, <2>6
    DEF StoreTypeOK, mine, Statements, Progress, KeysInOrder, NotYet, Rests, Carries, Open
  <2>9. HoldsScores(w)'
    BY <1>1, <2>1, <2>6 DEF StoreTypeOK, tables, mine, Progress, HoldsScores, Past, Statements
  <2>10. HoldsRows(w)'
    BY <1>1, <1>2, <1>3, <2>1, <2>4, <2>5, <2>6
    DEF StoreTypeOK, tables, mine, Progress, HoldsRows, Late
  <2>11. HasShared(w)'
    BY <1>1, <2>1, <2>6 DEF StoreTypeOK, tables, mine, Progress, HasShared, Late
  <2>12. Progress(w)'
    BY <2>8, <2>9, <2>10, <2>11 DEF Progress
  <2> QED
    BY <1>1, <2>1, <2>2, <2>7, <2>12, LocalKeeps DEF mine, StoreTypeOK
<1> QED
  BY <1>4, <1>5

\* The scores and the report.
LEMMA PutScoresKeeps ==
  ASSUME StoreInv, NEW w \in Writers, PutScores(w) PROVE StoreInv'
<1>0. Of(w) \in Sessions
  BY OfFacts
<1>1. StoreTypeOK /\ Progress(w) /\ pc[w] = "putScores"
  BY DEF StoreInv, PutScores
<1>3. /\ pc' = [pc EXCEPT ![w] = "commit"]
      /\ UNCHANGED <<tables, mine, todo, pending, locked, outcome, disturbed>>
  BY DEF PutScores, Goto
<1>4. StoreTypeOK'
  BY <1>1, <1>3 DEF StoreTypeOK, tables, mine, Statements
<1>5. Progress(w)'
  BY <1>0, <1>1, <1>3
  DEF StoreTypeOK, tables, mine, Statements, Progress, KeysInOrder, NotYet, Rests, Carries,
      HoldsScores, HoldsRows, HasShared, Open, Past, Late
<1> QED
  BY <1>1, <1>3, <1>4, <1>5, LocalKeeps DEF mine, StoreTypeOK

\* The database aborts one of a cycle.
LEMMA DeadlockKeeps ==
  ASSUME StoreInv, NEW w \in Writers, BreakDeadlock(w) PROVE StoreInv'
<1>1. pc[w] = "putShared" /\ Abort(w, "deadlock")
  BY DEF BreakDeadlock
<1> QED
  BY <1>1, AbortKeeps DEF Open, Statements

----------------------------------------------------------------------------
(* The commit. *)

\* What a commit changes in the tables: shared rows are added only, a replaceable row
\* changes hands only if its key was locked, and a session's rows and scores grow
\* only by the hand of who holds its row.
LEMMA CommitFacts ==
  ASSUME StoreInv, NEW w \in Writers, Commit(w)
  PROVE  /\ \A i \in Ids : sharedBy[i] # None => sharedBy'[i] # None
         /\ \A i \in content[w].rows : sharedBy'[i] # None
         /\ \A t \in Sessions \ {Of(w)} : \A i \in Ids : replaced'[i] = t <=> replaced[i] = t
         /\ \A i \in Ids : ReplacedKey(i) \notin locked[w] => replaced'[i] = replaced[i]
         /\ RowKey(Of(w)) \in locked[w] =>
               /\ \A i \in Ids : replaced'[i] = Of(w) <=> i \in content[w].rows
               /\ scores'[Of(w)] <=> content[w].ran
         /\ RowKey(Of(w)) \notin locked[w] =>
               /\ w \in Cancels /\ columns[w] = {}
               /\ \A i \in Ids : replaced'[i] = Of(w) => replaced[i] = Of(w)
               /\ scores'[Of(w)] => scores[Of(w)]
<1>0. Of(w) \in Sessions /\ Of(w) # None
  BY OfFacts
<1>1. StoreTypeOK /\ Progress(w) /\ pc[w] = "commit"
  BY DEF StoreInv, Commit
<1>2. content[w].rows \in SUBSET Ids /\ content[w].ran \in BOOLEAN
  BY <1>1, ContentFacts DEF StoreTypeOK
<1>3. /\ sharedBy' = [i \in Ids |->
            IF i \in todo[w] /\ SharedKey(i) \in locked[w] THEN Of(w) ELSE sharedBy[i]]
      /\ replaced' = [i \in Ids |->
            IF i \in content[w].rows THEN Of(w)
            ELSE IF ReplacedKey(i) \in locked[w] THEN None ELSE replaced[i]]
      /\ scores' = [scores EXCEPT ![Of(w)] =
            content[w].ran \/ (@ /\ ScoresKey(Of(w)) \notin locked[w])]
  BY DEF Commit, Committed
<1>4. /\ \A i \in content[w].rows : ReplacedKey(i) \in locked[w]
      /\ \A i \in Ids : ReplacedKey(i) \in locked[w] => replaced[i] \in {None, Of(w)}
      /\ RowKey(Of(w)) \in locked[w] =>
            /\ \A i \in Ids : replaced[i] = Of(w) => ReplacedKey(i) \in locked[w]
            /\ scores[Of(w)] => ScoresKey(Of(w)) \in locked[w]
  BY <1>1 DEF Progress, HoldsRows, HoldsScores, Late, Past, Statements
<1>5. \A i \in content[w].rows :
         sharedBy[i] # None \/ (i \in todo[w] /\ SharedKey(i) \in locked[w])
  BY <1>1 DEF Progress, HasShared, Late
<1>6. scores'[Of(w)] <=> content[w].ran \/ (scores[Of(w)] /\ ScoresKey(Of(w)) \notin locked[w])
  BY <1>0, <1>1, <1>3 DEF StoreTypeOK
<1>7. (\A i \in Ids : sharedBy[i] # None => sharedBy'[i] # None)
      /\ (\A i \in content[w].rows : sharedBy'[i] # None)
  BY <1>0, <1>2, <1>3, <1>5
<1>8. \A t \in Sessions \ {Of(w)} : \A i \in Ids : replaced'[i] = t <=> replaced[i] = t
  BY <1>3, <1>4, OwnerAssumption
<1>9. \A i \in Ids : ReplacedKey(i) \notin locked[w] => replaced'[i] = replaced[i]
  BY <1>3, <1>4
<1>10. ASSUME RowKey(Of(w)) \in locked[w]
       PROVE  /\ \A i \in Ids : replaced'[i] = Of(w) <=> i \in content[w].rows
              /\ scores'[Of(w)] <=> content[w].ran
  BY <1>0, <1>3, <1>4, <1>6, <1>10
<1>11. ASSUME RowKey(Of(w)) \notin locked[w]
       PROVE  /\ w \in Cancels /\ columns[w] = {}
              /\ \A i \in Ids : replaced'[i] = Of(w) => replaced[i] = Of(w)
              /\ scores'[Of(w)] => scores[Of(w)]
  <2>1. columns[w] = {}
    BY <1>1, <1>11 DEF Progress, Carries, Open, Statements
  <2>2. w \in Cancels
    BY <1>1, <2>1 DEF Progress, Carries, Open, Statements, Columns, Writers
  <2>3. content[w].rows = {} /\ content[w].ran = FALSE
    BY <1>1, <2>2, ContentFacts DEF Progress, Carries
  <2> QED
    BY <1>0, <1>3, <1>6, <2>1, <2>2, <2>3
<1> QED
  BY <1>7, <1>8, <1>9, <1>10, <1>11

\* A transaction that commits keeps the invariant.
LEMMA CommitKeeps ==
  ASSUME StoreInv, NEW w \in Writers, Commit(w) PROVE StoreInv'
<1>0. Of(w) \in Sessions
  BY OfFacts
<1>1. StoreTypeOK /\ Progress(w) /\ pc[w] = "commit"
  BY DEF StoreInv, Commit
<1>2. /\ outcome' = [outcome EXCEPT ![w] = "committed"] /\ locked' = [locked EXCEPT ![w] = {}]
      /\ todo' = [todo EXCEPT ![w] = {}] /\ pending' = [pending EXCEPT ![w] = {}]
      /\ want' = [want EXCEPT ![w] = "none"] /\ columns' = [columns EXCEPT ![w] = {}]
      /\ pc' = [pc EXCEPT ![w] = Rest(w)]
      /\ content' = content /\ disturbed' = disturbed
  BY DEF Commit, Ends, Goto
<1>3. Rest(w) \in Rests /\ (w \in Cancels => Rest(w) = "over")
  <2>1. Rest(w) \in {"running", "tried", "over"}
    BY DEF Rest
  <2>2. w \in Cancels => want[w] \in {"none", "cancelled"}
    BY <1>1 DEF Progress, Carries
  <2> QED
    BY <2>1, <2>2 DEF Rests, Rest
<1>4. /\ plan' = [plan EXCEPT ![Of(w)] = @ \/ content[w].ran]
      /\ report' = [report EXCEPT ![Of(w)] = @ \/ content[w].ran]
      /\ snapshot' = [snapshot EXCEPT ![Of(w)] =
                        IF "snapshot" \in columns[w] THEN content[w] ELSE @]
      /\ \A t \in Sessions \ {Of(w)} : scores'[t] = scores[t]
  BY <1>1 DEF Commit, Committed, StoreTypeOK
<1>5. content[w] \in Contents /\ content[w].rows \in SUBSET Ids /\ content[w].ran \in BOOLEAN
  BY <1>1, ContentFacts DEF StoreTypeOK
<1>6. StoreTypeOK'
  <2>1. sharedBy' \in [Ids -> Sessions \cup {None}] /\ replaced' \in [Ids -> Sessions \cup {None}]
    BY <1>0, <1>1 DEF Commit, Committed, StoreTypeOK
  <2>2. scores' \in [Sessions -> BOOLEAN] /\ status' \in [Sessions -> States]
    BY <1>0, <1>1, <1>5 DEF Commit, Committed, StoreTypeOK
  <2>3. plan' \in [Sessions -> BOOLEAN] /\ report' \in [Sessions -> BOOLEAN]
        /\ snapshot' \in [Sessions -> Contents]
    BY <1>0, <1>1, <1>4, <1>5 DEF StoreTypeOK
  <2> QED
    BY <1>1, <1>2, <1>3, <2>1, <2>2, <2>3 DEF StoreTypeOK, Outcomes, States
<1>7. Exclusive'
  BY <1>1, <1>2 DEF StoreInv, StoreTypeOK, Exclusive
<1>8. Progress(w)'
  BY <1>1, <1>2, <1>3, ContentFacts
  DEF StoreTypeOK, Progress, KeysInOrder, NotYet, Rests, Carries, HoldsScores,
      HoldsRows, HasShared, Open, Past, Late, Statements
<1>9. ASSUME NEW v \in Writers, v # w PROVE Progress(v)'
  <2>0. Progress(v) /\ Of(v) \in Sessions
    BY OfFacts DEF StoreInv
  <2>1. /\ pc'[v] = pc[v] /\ content'[v] = content[v] /\ columns'[v] = columns[v]
        /\ want'[v] = want[v] /\ todo'[v] = todo[v] /\ pending'[v] = pending[v]
        /\ locked'[v] = locked[v] /\ outcome'[v] = outcome[v]
    BY <1>1, <1>2, <1>9 DEF StoreTypeOK
  <2>2. locked[v] \cap locked[w] = {}
    BY <1>9 DEF StoreInv, Exclusive
  <2>3. KeysInOrder(v)' /\ Carries(v)'
    BY <2>0, <2>1 DEF Progress, KeysInOrder, Carries, Open
  <2>4. RowKey(Of(v)) \in locked[v] =>
          /\ scores'[Of(v)] => scores[Of(v)]
          /\ \A i \in Ids : replaced'[i] = Of(v) => replaced[i] = Of(v)
    <3>1. CASE Of(v) = Of(w)
      BY <2>2, <3>1, CommitFacts
    <3>2. CASE Of(v) # Of(w)
      BY <1>4, <2>0, <3>2, CommitFacts
    <3> QED
      BY <3>1, <3>2
  <2>5. HoldsScores(v)'
    BY <2>0, <2>1, <2>4 DEF Progress, HoldsScores
  <2>6. \A i \in Ids : ReplacedKey(i) \in locked[v] => replaced'[i] = replaced[i]
    BY <2>2, CommitFacts
  <2>7. HoldsRows(v)'
    BY <2>0, <2>1, <2>4, <2>6 DEF Progress, HoldsRows
  <2>8. content[v].rows \in SUBSET Ids
    BY <1>1, ContentFacts DEF StoreTypeOK
  <2>9. HasShared(v)'
    BY <2>0, <2>1, <2>8, CommitFacts DEF Progress, HasShared
  <2> QED
    BY <2>3, <2>5, <2>7, <2>9 DEF Progress
<1>10. ASSUME NEW t \in Sessions, t # Of(w) PROVE Rows(t)'
  <2>1. Rows(t) /\ snapshot[t].rows \in SUBSET Ids
    BY <1>1, ContentFacts DEF StoreInv, StoreTypeOK
  <2>2. snapshot'[t] = snapshot[t] /\ scores'[t] = scores[t] /\ plan'[t] = plan[t]
        /\ report'[t] = report[t]
    BY <1>1, <1>4, <1>10 DEF StoreTypeOK
  <2>3. Uncancelled(t)' => Uncancelled(t)
    BY <1>1, <1>2, <1>10, OfFacts DEF Uncancelled, StoreTypeOK
  <2>4. /\ \A i \in Ids : sharedBy[i] # None => sharedBy'[i] # None
        /\ \A i \in Ids : replaced'[i] = t <=> replaced[i] = t
    BY <1>10, CommitFacts
  <2> QED
    BY <2>1, <2>2, <2>3, <2>4 DEF Rows
<1>11. Rows(Of(w))'
  <2> DEFINE s == Of(w)
  <2>0. s \in Sessions /\ Rows(s) /\ snapshot[s].rows \in SUBSET Ids /\ snapshot[s] \in Contents
    BY <1>0, <1>1, ContentFacts DEF StoreInv, StoreTypeOK
  <2>1. /\ snapshot'[s] = IF "snapshot" \in columns[w] THEN content[w] ELSE snapshot[s]
        /\ plan'[s] <=> plan[s] \/ content[w].ran
        /\ report'[s] <=> report[s] \/ content[w].ran
    BY <1>0, <1>1, <1>4 DEF StoreTypeOK
  <2>2. /\ \A i \in Ids : sharedBy[i] # None => sharedBy'[i] # None
        /\ \A i \in content[w].rows : sharedBy'[i] # None
    BY CommitFacts
  <2>3. CASE w \in Sessions
    <3>1. columns[w] = Columns
      BY <1>1, <2>3 DEF Progress, Carries, Open, Statements
    <3>2. RowKey(s) \in locked[w]
      BY <2>3, CommitFacts, OfFacts
    <3>3. snapshot'[s] = content[w]
      BY <2>1, <3>1 DEF Columns
    <3>4. /\ \A i \in Ids : replaced'[i] = s <=> i \in content[w].rows
          /\ scores'[s] <=> content[w].ran
      BY <3>2, CommitFacts
    <3> HIDE DEF s
    <3>5. Rows(s)'
      BY <1>5, <2>1, <2>2, <3>3, <3>4 DEF Rows
    <3> QED
      BY <3>5 DEF s
  <2>4. CASE w \in Cancels
    <3>1. content[w] = Nothing
      BY <1>1, <2>4 DEF Progress, Carries
    <3>2. ~ Uncancelled(s)'
      BY <1>1, <1>2, <2>4 DEF Uncancelled, StoreTypeOK
    <3>3. /\ \A i \in Ids : replaced'[i] = s => replaced[i] = s
          /\ scores'[s] => scores[s]
      BY <3>1, ContentFacts, CommitFacts
    <3>4. "snapshot" \in columns[w] =>
             (\A i \in Ids : replaced'[i] # s) /\ ~ scores'[s]
      <4>1. "snapshot" \in columns[w] => RowKey(s) \in locked[w]
        BY CommitFacts
      <4> QED
        BY <3>1, <4>1, ContentFacts, CommitFacts
    <3>5. CASE "snapshot" \in columns[w]
      <4>1. snapshot'[s] = Nothing
        BY <2>1, <3>1, <3>5
      <4> HIDE DEF s
      <4>2. Rows(s)'
        BY <3>2, <3>4, <3>5, <4>1, ContentFacts DEF Rows
      <4> QED
        BY <4>2 DEF s
    <3>6. CASE "snapshot" \notin columns[w]
      <4>1. snapshot'[s] = snapshot[s]
        BY <2>1, <3>6
      <4> HIDE DEF s
      <4>2. Rows(s)'
        BY <2>0, <2>1, <2>2, <3>2, <3>3, <4>1 DEF Rows
      <4> QED
        BY <4>2 DEF s
    <3> QED
      BY <3>5, <3>6
  <2> QED
    BY <2>3, <2>4 DEF Writers
<1> QED
  BY <1>6, <1>7, <1>8, <1>9, <1>10, <1>11 DEF StoreInv

----------------------------------------------------------------------------
(* The invariant holds throughout. *)

\* A restart ends every transaction and takes nothing that was committed.
LEMMA CrashKeeps ==
  ASSUME StoreInv, Crash PROVE StoreInv'
<1>1. /\ pc' = [w \in Writers |-> IF w \in Sessions \/ pc[w] = "new" THEN "new" ELSE "over"]
      /\ locked' = [w \in Writers |-> {}] /\ todo' = [w \in Writers |-> {}]
      /\ pending' = [w \in Writers |-> {}] /\ want' = [w \in Writers |-> "none"]
      /\ columns' = [w \in Writers |-> {}] /\ disturbed' = disturbed + 2
      /\ UNCHANGED <<tables, content, outcome>>
  BY DEF Crash, Disturb
<1>2. StoreTypeOK
  BY DEF StoreInv
<1>3. StoreTypeOK'
  <2>1. pc' \in [Writers -> Statements \cup Rests]
    BY <1>1 DEF Rests
  <2> QED
    BY <1>1, <1>2, <2>1 DEF StoreTypeOK, tables, States
<1>4. Exclusive'
  BY <1>1 DEF Exclusive
<1>5. ASSUME NEW w \in Writers PROVE Progress(w)'
  <2>1. Progress(w)
    BY DEF StoreInv
  <2>2. pc'[w] \in {"new", "over"} /\ (w \in Cancels /\ pc[w] = "over" => pc'[w] = "over")
    BY <1>1, OfFacts
  <2> QED
    BY <1>1, <2>1, <2>2
    DEF Progress, KeysInOrder, Carries, HoldsScores, HoldsRows, HasShared, Open,
        Statements, Past, Late
<1>6. ASSUME NEW s \in Sessions PROVE Rows(s)'
  <2>1. Rows(s)
    BY DEF StoreInv
  <2> QED
    BY <1>1, <2>1 DEF Rows, Uncancelled, tables
<1> QED
  BY <1>3, <1>4, <1>5, <1>6 DEF StoreInv

\* Every step keeps the invariant.
LEMMA StepKeeps == StoreInv /\ [StoreNext]_storeVars => StoreInv'
<1> SUFFICES ASSUME StoreInv, [StoreNext]_storeVars PROVE StoreInv'
  OBVIOUS
<1>1. ASSUME NEW w \in Writers, WriteStep(w) PROVE StoreInv'
  <2>1. CASE Flush(w)
    BY <2>1, FlushKeeps
  <2>2. CASE DropScores(w)
    BY <2>2, DropScoresKeeps
  <2>3. CASE PutPlan(w)
    BY <2>3, PutPlanKeeps
  <2>4. CASE ReadShared(w)
    BY <2>4, ReadSharedKeeps
  <2>5. CASE PutShared(w)
    BY <2>5, PutSharedKeeps
  <2>6. CASE BreakDeadlock(w)
    BY <2>6, DeadlockKeeps
  <2>7. CASE Replace(w)
    BY <2>7, ReplaceKeeps
  <2>8. CASE PutScores(w)
    BY <2>8, PutScoresKeeps
  <2>9. CASE Commit(w)
    BY <2>9, CommitKeeps
  <2> QED
    BY <1>1, <2>1, <2>2, <2>3, <2>4, <2>5, <2>6, <2>7, <2>8, <2>9 DEF WriteStep
<1>2. ASSUME NEW s \in Sessions, Begin(s) \/ FailRun(s) \/ \E c \in Results : Complete(s, c)
      PROVE  StoreInv'
  BY <1>2, RunStarts
<1>3. ASSUME NEW k \in Cancels, GetToCancel(k) \/ SelectToCancel(k) PROVE StoreInv'
  BY <1>3, CancelStarts
<1>4. CASE UNCHANGED storeVars
  <2>1. StoreTypeOK' /\ Exclusive'
    BY <1>4 DEF StoreInv, StoreTypeOK, Exclusive, storeVars, tables, mine
  <2>2. ASSUME NEW w \in Writers PROVE Progress(w)'
    BY <1>4
    DEF StoreInv, storeVars, tables, mine, Progress, KeysInOrder, Carries, HoldsScores,
        HoldsRows, HasShared, Open
  <2>3. ASSUME NEW s \in Sessions PROVE Rows(s)'
    BY <1>4 DEF StoreInv, storeVars, tables, Rows, Uncancelled
  <2> QED
    BY <2>1, <2>2, <2>3 DEF StoreInv
<1> QED
  BY <1>1, <1>2, <1>3, <1>4, CrashKeeps DEF StoreNext

\* The invariant holds throughout.
LEMMA StoreInvHolds == StoreSpec => []StoreInv
  BY StoreInitInv, StepKeeps, PTL DEF StoreSpec

----------------------------------------------------------------------------
(* What fails, and what the tables hold. *)

\* A write fails for an id that another session writes, and for nothing else.
THEOREM WritesFailForIdsOnly == StoreSpec => []OnlyCollisionsAbort
<1>1. StoreInv => OnlyCollisionsAbort
  BY DEF StoreInv, StoreTypeOK, Outcomes, OnlyCollisionsAbort
<1> QED
  BY <1>1, StoreInvHolds, PTL

\* Whatever runs, cancels, neighbours and restarts do, a session has no rows but
\* those its stored state names, and if no cancel was written it has them all.
THEOREM RowsFollowSnapshot == StoreSpec => []RowsMatchSnapshot
<1>1. ASSUME StoreInv, NEW s \in Sessions
      PROVE  /\ OwnRows(s) \subseteq snapshot[s].rows
             /\ scores[s] => snapshot[s].ran
             /\ snapshot[s].ran => plan[s] /\ report[s]
             /\ \A i \in snapshot[s].rows : sharedBy[i] # None
             /\ Uncancelled(s) =>
                  OwnRows(s) = snapshot[s].rows /\ (snapshot[s].ran => scores[s])
  <2>1. Rows(s) /\ snapshot[s].rows \in SUBSET Ids
    BY <1>1, ContentFacts DEF StoreInv, StoreTypeOK
  <2> QED
    BY <2>1 DEF Rows, OwnRows
<1>2. StoreInv => RowsMatchSnapshot
  BY <1>1 DEF RowsMatchSnapshot
<1> QED
  BY <1>2, StoreInvHolds, PTL

\* Of two sessions no cancel was written for, whose runs minted one and the same id
\* of a replaceable row, at most one has its state stored.
IdsExclusive ==
  \A s, t \in Sessions :
    s # t /\ Uncancelled(s) /\ Uncancelled(t) => snapshot[s].rows \cap snapshot[t].rows = {}

\* Whatever writes are under way, no replaceable id is stored for two such sessions.
THEOREM StoredIdsExclusive == StoreSpec => []IdsExclusive
<1>1. ASSUME StoreInv, NEW s \in Sessions, NEW t \in Sessions, s # t,
             Uncancelled(s), Uncancelled(t), NEW i \in snapshot[s].rows, i \in snapshot[t].rows
      PROVE  FALSE
  <2>1. Rows(s) /\ Rows(t)
    BY <1>1 DEF StoreInv
  <2>2. replaced[i] = s /\ replaced[i] = t
    BY <1>1, <2>1 DEF Rows
  <2> QED
    BY <1>1, <2>2
<1>2. StoreInv => IdsExclusive
  BY <1>1 DEF IdsExclusive
<1> QED
  BY <1>2, StoreInvHolds, PTL

----------------------------------------------------------------------------
(* No write is stuck. *)

\* Transactions that wait for each other's shared keys only.
Cycle(D) ==
  \A v \in D :
    /\ pc[v] = "putShared"
    /\ \A i \in pending[v] : \E u \in D \ {v} : SharedKey(i) \in locked[u]

\* The write of w can go on, or be rolled back by the database: one of its
\* statements is enabled.
Ready(w) ==
  \/ pc[w] \in {"putPlan", "readShared"} \cup Late
  \/ pc[w] = "flush" /\ (columns[w] = {} \/ ~ Waits(w, RowKey(Of(w))))
  \/ pc[w] = "dropScores" /\ ~ Waits(w, ScoresKey(Of(w)))
  \/ pc[w] = "putShared" /\ \E i \in pending[w] : ~ Waits(w, SharedKey(i))
  \/ pc[w] = "replace" /\ \A i \in content[w].rows \cup OwnRows(Of(w)) : ~ Waits(w, ReplacedKey(i))
  \/ \E D \in SUBSET Writers : w \in D /\ Cycle(D)

\* While a write is under way, some write can take a step: who waits for a session's
\* row, its scores or a replaceable row waits for one that is further on, and if all
\* wait for shared rows they are a cycle, which the database breaks.
SomeWriteMoves ==
  (\E w \in Writers : Open(w)) => \E w \in Writers : Ready(w)

\* Writes never all wait: the part of EveryWriteEnds that is not fairness.
THEOREM WritesNeverStuck == StoreSpec => []SomeWriteMoves
<1>1. ASSUME StoreInv, NEW w \in Writers, Open(w), ~ \E v \in Writers : Ready(v)
      PROVE  FALSE
  <2>0. StoreTypeOK /\ \A v \in Writers : KeysInOrder(v) /\ Of(v) \in Sessions
    BY <1>1, OfFacts DEF StoreInv, Progress
  <2>1. \A v \in Writers : pc[v] \in Rests \cup {"flush", "dropScores", "putShared", "replace"}
    BY <1>1, <2>0 DEF Ready, Late, Statements, StoreTypeOK
  <2>2. \A v \in Writers, i \in Ids : ReplacedKey(i) \notin locked[v]
    BY <2>0, <2>1, KeysDiffer DEF KeysInOrder, NotYet, SharedKeys
  <2>3. \A v \in Writers : pc[v] # "replace"
    <3>1. ASSUME NEW v \in Writers, pc[v] = "replace" PROVE Ready(v)
      <4>1. content[v].rows \cup OwnRows(Of(v)) \in SUBSET Ids
        BY <2>0, ContentFacts DEF StoreTypeOK, OwnRows
      <4> QED
        BY <3>1, <4>1, <2>2 DEF Ready, Waits
    <3> QED
      BY <1>1, <3>1
  <2>4. ASSUME NEW v \in Writers, NEW i \in Ids, SharedKey(i) \in locked[v] PROVE pc[v] = "putShared"
    BY <2>0, <2>1, <2>3, <2>4, KeysDiffer DEF KeysInOrder, NotYet
  <2>5. ASSUME NEW v \in Writers, NEW s \in Sessions, ScoresKey(s) \in locked[v]
        PROVE  pc[v] = "putShared"
    BY <2>0, <2>1, <2>3, <2>5, KeysDiffer DEF KeysInOrder, NotYet
  <2>6. \E v \in Writers : pc[v] = "putShared"
    <3>1. ASSUME NEW v \in Writers, pc[v] = "dropScores" PROVE \E u \in Writers : pc[u] = "putShared"
      BY <1>1, <2>0, <2>5, <3>1 DEF Ready, Waits
    <3>2. ASSUME NEW v \in Writers, pc[v] = "flush" PROVE \E u \in Writers : pc[u] = "putShared"
      <4>1. PICK u \in Writers : RowKey(Of(v)) \in locked[u]
        BY <1>1, <3>2 DEF Ready, Waits
      <4>2. pc[u] \in {"dropScores", "putShared"}
        BY <2>0, <2>1, <2>3, <4>1 DEF KeysInOrder, NotYet
      <4> QED
        BY <3>1, <4>2
    <3> QED
      BY <1>1, <2>1, <2>3, <3>1, <3>2 DEF Open, Statements, Rests
  <2> DEFINE D == {v \in Writers : pc[v] = "putShared"}
  <2>7. Cycle(D)
    <3> SUFFICES ASSUME NEW v \in D, NEW i \in pending[v]
                 PROVE  \E u \in D \ {v} : SharedKey(i) \in locked[u]
      BY DEF Cycle
    <3>1. i \in Ids
      BY <2>0 DEF StoreTypeOK
    <3>2. Waits(v, SharedKey(i))
      BY <1>1 DEF Ready
    <3> QED
      BY <3>1, <3>2, <2>4 DEF Waits
  <2>8. D \in SUBSET Writers
    OBVIOUS
  <2> QED
    BY <1>1, <2>6, <2>7, <2>8 DEF Ready
<1>2. StoreInv => SomeWriteMoves
  BY <1>1 DEF SomeWriteMoves
<1> QED
  BY <1>2, StoreInvHolds, PTL
=============================================================================

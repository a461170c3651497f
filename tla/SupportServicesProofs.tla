----------------------- MODULE SupportServicesProofs -----------------------
(***************************************************************************)
(* Theorems about what the durable stores keep (the users of Accounts, the *)
(* chunks of KnowledgeBase and the counts of its keyword index), for any   *)
(* number of registrations, processes, documents and versions; and that    *)
(* the safety properties a run of SupportServices checks hold of it, for   *)
(* every value of its constants.                                           *)
(***************************************************************************)
EXTENDS SupportServices, SessionStoreProofs, TokenBucketProofs, DecisionAnalysisProofs

----------------------------------------------------------------------------
(* Accounts. *)

\* Stored addresses are in lower case and differ, and who was told "created" has a
\* row with the address it gave.
Registered ==
  /\ registering \in [Registrants -> Addresses \cup {NoAddress}]
  /\ answer \in [Registrants -> {"none", "checked", "created", "conflict"}]
  /\ users \subseteq [email : Addresses, by : Registrants]
  /\ \A r \in Registrants : answer[r] # "none" => registering[r] \in Addresses
  /\ \A u, v \in users : u.email = v.email => u = v
  /\ \A r \in Registrants : answer[r] = "created" =>
        \E u \in users : u.by = r /\ u.email = Lowered(registering[r])

\* Whoever registers, checks or loses the race at the index, a created account is
\* found by its address in any spelling, and it alone.
THEOREM AccountsReachable == AccountsSpec => []EveryAccountReachable
<1>1. AccountsInit => Registered
  BY DEF AccountsInit, Registered
<1>2. Registered /\ [AccountsNext]_accountVars => Registered'
  <2> SUFFICES ASSUME Registered, [AccountsNext]_accountVars PROVE Registered'
    OBVIOUS
  <2>1. ASSUME NEW r \in Registrants, NEW a \in Addresses, Check(r, a) PROVE Registered'
    <3>1. PICK x \in {"checked", "conflict"} : answer' = [answer EXCEPT ![r] = x]
      BY <2>1 DEF Check
    <3>2. registering' = [registering EXCEPT ![r] = a] /\ users' = users /\ answer[r] = "none"
      BY <2>1 DEF Check
    <3>3. \A q \in Registrants : answer'[q] = "created" =>
             answer[q] = "created" /\ registering'[q] = registering[q]
      BY <3>1, <3>2 DEF Registered
    <3>4. \A q \in Registrants : answer'[q] = "created" =>
             \E u \in users' : u.by = q /\ u.email = Lowered(registering'[q])
      BY <3>2, <3>3 DEF Registered
    <3> QED
      BY <3>1, <3>2, <3>4 DEF Registered
  <2>2. ASSUME NEW r \in Registrants, CreateUser(r) PROVE Registered'
    <3> DEFINE mail == Lowered(registering[r])
               new == [email |-> mail, by |-> r]
    <3>1. registering[r] \in Addresses /\ registering' = registering
      BY <2>2 DEF CreateUser, Registered
    <3>2. mail \in Addresses
      BY <3>1, LowerAssumption DEF Lowered, Addresses
    <3>3. CASE \E u \in users : u.email = mail
      <4>1. users' = users /\ answer' = [answer EXCEPT ![r] = "conflict"]
        BY <2>2, <3>3 DEF CreateUser, StoredEmail
      <4> QED
        BY <3>1, <4>1 DEF Registered
    <3>4. CASE ~ \E u \in users : u.email = mail
      <4>1. users' = users \cup {new} /\ answer' = [answer EXCEPT ![r] = "created"]
        BY <2>2, <3>4 DEF CreateUser, StoredEmail
      <4>2. \A u, v \in users' : u.email = v.email => u = v
        BY <3>4, <4>1 DEF Registered
      <4>3. \A q \in Registrants : answer'[q] = "created" =>
               \E u \in users' : u.by = q /\ u.email = Lowered(registering'[q])
        <5>1. ASSUME NEW q \in Registrants, q # r, answer'[q] = "created"
              PROVE  \E u \in users' : u.by = q /\ u.email = Lowered(registering'[q])
          <6>1. answer[q] = "created"
            BY <4>1, <5>1 DEF Registered
          <6> QED
            BY <3>1, <4>1, <6>1 DEF Registered
        <5>2. new \in users' /\ new.by = r /\ new.email = Lowered(registering'[r])
          BY <3>1, <4>1
        <5> QED
          BY <5>1, <5>2
      <4>4. users' \subseteq [email : Addresses, by : Registrants]
        BY <3>2, <4>1 DEF Registered
      <4> QED
        BY <3>1, <4>1, <4>2, <4>3, <4>4 DEF Registered
    <3> QED
      BY <3>3, <3>4
  <2>3. CASE UNCHANGED accountVars
    BY <2>3 DEF accountVars, Registered
  <2> QED
    BY <2>1, <2>2, <2>3 DEF AccountsNext
<1>3. Registered => EveryAccountReachable
  <2> SUFFICES ASSUME Registered, NEW r \in Registrants, answer[r] = "created", NEW s \in Spellings
               PROVE \E u \in users : u.by = r /\ UsersByEmail(<<registering[r][1], s>>) = {u}
    BY DEF EveryAccountReachable
  <2>1. PICK u \in users : u.by = r /\ u.email = Lowered(registering[r])
    BY DEF Registered
  <2>2. Lowered(<<registering[r][1], s>>) = Lowered(registering[r])
    BY DEF Lowered
  <2>3. UsersByEmail(<<registering[r][1], s>>) = {u}
    BY <2>1, <2>2 DEF UsersByEmail, Registered
  <2> QED
    BY <2>1, <2>3
<1> QED
  BY <1>1, <1>2, <1>3, PTL DEF AccountsSpec

----------------------------------------------------------------------------
(* The knowledge base. *)

Ingests == [at : {"none", "embed", "upsert", "add"}, document : Documents \cup {NoVersion},
            version : Versions \cup {NoVersion}]

\* What an ingestion is about to add to the index, and what the index has, is stored.
StoredFirst ==
  /\ stored \in [Chunks -> Versions \cup {NoVersion}]
  /\ indexed \in [Processes -> [Chunks -> Versions \cup {NoVersion}]]
  /\ ingesting \in [Processes -> Ingests]
  /\ \A p \in Processes : ingesting[p].at # "none" =>
        ingesting[p].document \in Documents /\ ingesting[p].version \in Versions
  /\ \A p \in Processes : ingesting[p].at = "add" =>
        \A i \in DOMAIN Texts[ingesting[p].version] :
           stored[<<ingesting[p].document, i>>] # NoVersion
  /\ IndexedIsStored

\* Writing chunks replaces or adds versions and takes none away.
LEMMA WrittenKept ==
  ASSUME NEW f \in [Chunks -> Versions \cup {NoVersion}], NEW d, NEW v \in Versions
  PROVE  /\ Written(f, d, v) \in [Chunks -> Versions \cup {NoVersion}]
         /\ \A c \in Chunks : f[c] # NoVersion => Written(f, d, v)[c] # NoVersion
         /\ \A c \in Chunks : Written(f, d, v)[c] # f[c] => c[1] = d /\ c[2] \in DOMAIN Texts[v]
         /\ d \in Documents => \A i \in DOMAIN Texts[v] : Written(f, d, v)[<<d, i>>] # NoVersion
<1>1. v # NoVersion
  BY TextsAssumption DEF Versions, NoVersion
<1>2. ASSUME d \in Documents, NEW i \in DOMAIN Texts[v]
      PROVE  <<d, i>> \in Chunks
  <2>1. i \in Places
    BY DEF Places
  <2> QED
    BY <1>2, <2>1 DEF Chunks
<1> QED
  BY <1>1, <1>2 DEF Written

\* The invariant holds throughout.
LEMMA StoredFirstHolds == KBSpec => []StoredFirst
<1>1. KBInit => StoredFirst
  BY DEF KBInit, StoredFirst, EmptyIndex, NoIngest, Ingests, IndexedIsStored
<1>2. StoredFirst /\ [KBNext]_kbVars => StoredFirst'
  <2> SUFFICES ASSUME StoredFirst, [KBNext]_kbVars PROVE StoredFirst'
    OBVIOUS
  <2>1. ASSUME NEW p \in Processes, NEW d \in Documents, NEW v \in Versions, StartIngest(p, d, v)
        PROVE  StoredFirst'
    BY <2>1 DEF StartIngest, StoredFirst, Ingests, IndexedIsStored
  <2>2. ASSUME NEW p \in Processes, Embed(p) PROVE StoredFirst'
    BY <2>2 DEF Embed, StoredFirst, Ingests, IndexedIsStored
  <2>3. ASSUME NEW p \in Processes, NEW answered \in BOOLEAN, Upsert(p, answered) PROVE StoredFirst'
    <3> DEFINE d == ingesting[p].document
               v == ingesting[p].version
    <3>1. d \in Documents /\ v \in Versions
      BY <2>3 DEF Upsert, StoredFirst
    <3>2. stored' = Written(stored, d, v) /\ indexed' = indexed
      BY <2>3 DEF Upsert
    <3>3. /\ stored' \in [Chunks -> Versions \cup {NoVersion}]
          /\ \A c \in Chunks : stored[c] # NoVersion => stored'[c] # NoVersion
          /\ \A i \in DOMAIN Texts[v] : stored'[<<d, i>>] # NoVersion
      BY <3>1, <3>2, WrittenKept DEF StoredFirst
    <3>4. /\ ingesting' \in [Processes -> Ingests]
          /\ \A q \in Processes : ingesting'[q].at # "none" =>
               /\ ingesting'[q].document = ingesting[q].document
               /\ ingesting'[q].version = ingesting[q].version
               /\ ingesting[q].at # "none"
               /\ q # p => ingesting'[q].at = ingesting[q].at
      BY <2>3 DEF Upsert, StoredFirst, Ingests, NoIngest
    <3>5. \A q \in Processes : ingesting'[q].at = "add" =>
            \A i \in DOMAIN Texts[ingesting'[q].version] :
               stored'[<<ingesting'[q].document, i>>] # NoVersion
      <4> SUFFICES ASSUME NEW q \in Processes, ingesting'[q].at = "add",
                          NEW i \in DOMAIN Texts[ingesting[q].version]
                   PROVE  stored'[<<ingesting[q].document, i>>] # NoVersion
        BY <3>4
      <4>1. CASE q = p
        BY <3>3, <4>1
      <4>2. CASE q # p
        <5>1. /\ stored[<<ingesting[q].document, i>>] # NoVersion
              /\ ingesting[q].document \in Documents /\ ingesting[q].version \in Versions
          BY <3>4, <4>2 DEF StoredFirst
        <5>2. <<ingesting[q].document, i>> \in Chunks
          BY <5>1 DEF Chunks, Places
        <5> QED
          BY <3>3, <5>1, <5>2
      <4> QED
        BY <4>1, <4>2
    <3>6. IndexedIsStored'
      BY <3>2, <3>3 DEF StoredFirst, IndexedIsStored
    <3> QED
      BY <3>2, <3>3, <3>4, <3>5, <3>6 DEF StoredFirst
  <2>4. ASSUME NEW p \in Processes, Add(p) PROVE StoredFirst'
    <3> DEFINE d == ingesting[p].document
               v == ingesting[p].version
    <3>1. /\ d \in Documents /\ v \in Versions
          /\ \A i \in DOMAIN Texts[v] : stored[<<d, i>>] # NoVersion
      BY <2>4 DEF Add, StoredFirst
    <3>2. /\ indexed' = [indexed EXCEPT ![p] = Written(indexed[p], d, v)]
          /\ stored' = stored
          /\ ingesting' = [ingesting EXCEPT ![p] = NoIngest]
      BY <2>4 DEF Add
    <3>3. /\ Written(indexed[p], d, v) \in [Chunks -> Versions \cup {NoVersion}]
          /\ \A c \in Chunks : Written(indexed[p], d, v)[c] # indexed[p][c] =>
               c[1] = d /\ c[2] \in DOMAIN Texts[v]
      BY <3>1, WrittenKept DEF StoredFirst
    <3>4. ASSUME NEW c \in Chunks, Written(indexed[p], d, v)[c] # NoVersion
          PROVE  stored[c] # NoVersion
      <4>1. CASE Written(indexed[p], d, v)[c] = indexed[p][c]
        BY <3>4, <4>1 DEF StoredFirst, IndexedIsStored
      <4>2. CASE Written(indexed[p], d, v)[c] # indexed[p][c]
        <5>1. c = <<d, c[2]>> /\ c[2] \in DOMAIN Texts[v]
          BY <3>3, <4>2 DEF Chunks
        <5> QED
          BY <3>1, <5>1
      <4> QED
        BY <4>1, <4>2
    <3>5. IndexedIsStored'
      BY <3>2, <3>4 DEF StoredFirst, IndexedIsStored
    <3> QED
      BY <3>2, <3>3, <3>5 DEF StoredFirst, NoIngest, Ingests
  <2>5. ASSUME NEW p \in Processes, IngestFails(p) PROVE StoredFirst'
    BY <2>5 DEF IngestFails, StoredFirst, Ingests, NoIngest, IndexedIsStored
  <2>6. ASSUME NEW p \in Processes, Restart(p) PROVE StoredFirst'
    BY <2>6 DEF Restart, StoredFirst, Ingests, NoIngest, EmptyIndex, IndexedIsStored
  <2>7. CASE UNCHANGED kbVars
    BY <2>7 DEF kbVars, StoredFirst, IndexedIsStored
  <2> QED
    BY <2>1, <2>2, <2>3, <2>4, <2>5, <2>6, <2>7 DEF KBNext
<1> QED
  BY <1>1, <1>2, PTL DEF KBSpec

\* Wherever ingestions fail and processes stop, what lexical search finds is stored.
THEOREM IndexedAreStored == KBSpec => []IndexedIsStored
<1>1. StoredFirst => IndexedIsStored
  BY DEF StoredFirst
<1> QED
  BY <1>1, StoredFirstHolds, PTL

----------------------------------------------------------------------------
(* The counts of the keyword index. *)

Indices == [Chunks -> Versions \cup {NoVersion}]
Frequencies == [Terms -> Int]

\* The chunks of an index with a term.
Having(ix, t) == {c \in Chunks : t \in TermsOf(c, ix[c])}

\* DocFreqExact, of one index, and why there is a count at all.
Exact(freq, ix) ==
  /\ freq \in Frequencies
  /\ IsFiniteSet({c \in Chunks : ix[c] # NoVersion})
  /\ \A t \in Terms : freq[t] = Cardinality(Having(ix, t))

\* An index has finitely many chunks with a term.
LEMMA HavingFinite ==
  ASSUME NEW ix \in Indices, IsFiniteSet({c \in Chunks : ix[c] # NoVersion}), NEW t
  PROVE  IsFiniteSet(Having(ix, t)) /\ Cardinality(Having(ix, t)) \in Nat
<1>1. Having(ix, t) \subseteq {c \in Chunks : ix[c] # NoVersion}
  BY DEF Having, TermsOf
<1> QED
  BY <1>1, FS_Subset, FS_CardinalityType

\* KeywordIndex.add of one record keeps the counts exact.
LEMMA AddedOneExact ==
  ASSUME NEW ix \in Indices, NEW freq, Exact(freq, ix),
         NEW c \in Chunks, NEW v \in Versions
  PROVE  Exact(AddedOne(freq, c, ix[c], v), [ix EXCEPT ![c] = v])
<1> DEFINE after == [ix EXCEPT ![c] = v]
           sum == AddedOne(freq, c, ix[c], v)
<1>1. after \in Indices /\ after[c] = v /\ \A e \in Chunks \ {c} : after[e] = ix[e]
  BY DEF Indices
<1>2. freq \in Frequencies
  BY DEF Exact
<1>3. sum = [t \in Terms |->
               IF t \in TermsOf(c, v) THEN Without(freq, c, ix[c])[t] + 1
               ELSE Without(freq, c, ix[c])[t]]
  BY DEF AddedOne, With
<1>4. \A t \in Terms : Without(freq, c, ix[c])[t] =
                         IF t \in TermsOf(c, ix[c]) THEN freq[t] - 1 ELSE freq[t]
  BY DEF Without
<1>5. sum \in Frequencies
  BY <1>2, <1>3, <1>4 DEF Frequencies
<1> HIDE DEF after, sum
<1>6. IsFiniteSet({e \in Chunks : after[e] # NoVersion})
  <2>1. {e \in Chunks : after[e] # NoVersion} \subseteq {e \in Chunks : ix[e] # NoVersion} \cup {c}
    BY <1>1
  <2>2. IsFiniteSet({e \in Chunks : ix[e] # NoVersion} \cup {c})
    BY FS_AddElement DEF Exact
  <2> QED
    BY <2>1, <2>2, FS_Subset
<1>7. ASSUME NEW t \in Terms PROVE sum[t] = Cardinality(Having(after, t))
  <2> DEFINE H == Having(ix, t)
             K == H \ {c}
  <2>1. IsFiniteSet(H) /\ Cardinality(H) \in Nat /\ freq[t] = Cardinality(H)
    BY HavingFinite DEF Exact
  <2>2. c \in H <=> t \in TermsOf(c, ix[c])
    BY DEF Having
  <2>3. Having(after, t) = IF t \in TermsOf(c, v) THEN K \cup {c} ELSE K
    BY <1>1 DEF Having
  <2> HIDE DEF H
  <2>4. /\ IsFiniteSet(K) /\ Cardinality(K) \in Nat
        /\ Cardinality(K) = IF c \in H THEN Cardinality(H) - 1 ELSE Cardinality(H)
    BY <2>1, FS_RemoveElement, FS_CardinalityType
  <2>5. Cardinality(K \cup {c}) = Cardinality(K) + 1
    BY <2>4, FS_AddElement
  <2>6. Cardinality(K) = Without(freq, c, ix[c])[t]
    BY <1>4, <2>1, <2>2, <2>4
  <2> QED
    BY <1>3, <2>3, <2>5, <2>6
<1> QED
  BY <1>5, <1>6, <1>7 DEF Exact, after, sum

\* The counts while the records of a document are added.
IsCountUpTo(g, p, d, v) ==
  /\ g \in [0 .. Len(Texts[v]) -> Frequencies]
  /\ g[0] = docFreq[p]
  /\ \A n \in 1 .. Len(Texts[v]) :
        g[n] = AddedOne(g[n - 1], <<d, n>>, indexed[p][<<d, n>>], v)

\* Counts are integers, even while a version has gone and none has come.
LEMMA AddedOneType ==
  ASSUME NEW freq \in Frequencies, NEW c, NEW old, NEW new
  PROVE  AddedOne(freq, c, old, new) \in Frequencies
BY DEF AddedOne, With, Without, Frequencies

\* There are such counts, and the last ones are what add leaves.
LEMMA CountUpTo ==
  ASSUME NEW p \in Processes, NEW d \in Documents, NEW v \in Versions,
         docFreq[p] \in Frequencies
  PROVE  \E g : IsCountUpTo(g, p, d, v) /\ Added(p, d, v) = g[Len(Texts[v])]
<1> DEFINE last == Len(Texts[v])
           Next1(n, f) == AddedOne(f, <<d, n>>, indexed[p][<<d, n>>], v)
           upTo == CHOOSE g : g = [n \in 0 .. last |-> IF n = 0 THEN docFreq[p] ELSE Next1(n, g[n - 1])]
           F == [x \in (1 .. last) \X Frequencies |-> Next1(x[1], x[2])]
<1>0. \A n, f : f \in Frequencies => Next1(n, f) \in Frequencies
  BY AddedOneType, Zenon
<1>1. Added(p, d, v) = upTo[last]
  BY DEF Added
<1>2. last \in Nat
  BY TextsAssumption DEF Versions
<1>3. F \in [(1 .. last) \X Frequencies -> Frequencies]
  <2> HIDE DEF Next1
  <2> QED
    BY <1>0
<1>4. PICK g : IsIteration(g, last, Frequencies, docFreq[p], F)
  <2> HIDE DEF F, last
  <2> QED
    BY <1>2, <1>3, IntervalRecursion, Zenon
<1>5. ASSUME NEW n \in 1 .. last PROVE F[<<n, g[n - 1]>>] = Next1(n, g[n - 1])
  <2>1. g[n - 1] \in Frequencies
    BY <1>2, <1>4 DEF IsIteration
  <2> QED
    BY <2>1
<1> HIDE DEF F
<1>6. g = [n \in 0 .. last |-> IF n = 0 THEN docFreq[p] ELSE Next1(n, g[n - 1])]
  <2>1. /\ g \in [0 .. last -> Frequencies] /\ g[0] = docFreq[p]
        /\ \A n \in 1 .. last : g[n] = Next1(n, g[n - 1])
    BY <1>4, <1>5 DEF IsIteration
  <2> HIDE DEF Next1
  <2>2. ASSUME NEW n \in 0 .. last
        PROVE  g[n] = IF n = 0 THEN docFreq[p] ELSE Next1(n, g[n - 1])
    BY <1>2, <2>1
  <2> QED
    BY <2>1, <2>2
<1>7. upTo = [n \in 0 .. last |-> IF n = 0 THEN docFreq[p] ELSE Next1(n, upTo[n - 1])]
  BY <1>6
<1> HIDE DEF upTo
<1>8. upTo[0] = docFreq[p] /\ \A n \in 1 .. last : upTo[n] = Next1(n, upTo[n - 1])
  <2> HIDE DEF Next1
  <2>1. ASSUME NEW h, h = [n \in 0 .. last |-> IF n = 0 THEN docFreq[p] ELSE Next1(n, h[n - 1])]
        PROVE  h[0] = docFreq[p] /\ \A n \in 1 .. last : h[n] = Next1(n, h[n - 1])
    BY <1>2, <2>1
  <2> QED
    BY <1>7, <2>1
<1>9. upTo \in [0 .. last -> Frequencies]
  <2> DEFINE P == {n \in 0 .. last : upTo[n] \in Frequencies}
  <2>1. 0 \in P
    BY <1>2, <1>8
  <2>2. ASSUME NEW n \in 1 .. last, n - 1 \in P PROVE n \in P
    <3>1. n - 1 \in 0 .. last /\ n \in 0 .. last /\ upTo[n - 1] \in Frequencies
      BY <1>2, <2>2
    <3>2. upTo[n] = Next1(n, upTo[n - 1])
      BY <1>8
    <3> HIDE DEF Next1
    <3> QED
      BY <1>0, <3>1, <3>2
  <2> HIDE DEF P
  <2>3. P = 0 .. last
    BY <1>2, <2>1, <2>2, IntervalInduction DEF P
  <2>4. \A n \in 0 .. last : upTo[n] \in Frequencies
    BY <2>3 DEF P
  <2>5. upTo = [n \in 0 .. last |-> upTo[n]]
    BY <1>7
  <2> QED
    BY <2>4, <2>5
<1> QED
  BY <1>1, <1>8, <1>9 DEF IsCountUpTo

\* KeywordIndex.add of a document keeps the counts exact.
LEMMA AddedExact ==
  ASSUME NEW p \in Processes, NEW d \in Documents, NEW v \in Versions,
         indexed[p] \in Indices, Exact(docFreq[p], indexed[p])
  PROVE  Exact(Added(p, d, v), Written(indexed[p], d, v))
<1> DEFINE last == Len(Texts[v])
           ix(n) == [c \in Chunks |-> IF c[1] = d /\ c[2] \in 1 .. n THEN v ELSE indexed[p][c]]
<1>1. last \in Nat /\ DOMAIN Texts[v] = 1 .. last
  BY TextsAssumption DEF Versions
<1>2. PICK g : IsCountUpTo(g, p, d, v) /\ Added(p, d, v) = g[last]
  BY CountUpTo DEF Exact
<1>3. \A n \in 1 .. last : <<d, n>> \in Chunks
  BY <1>1 DEF Chunks, Places
<1>4. \A n : ix(n) \in Indices
  BY DEF Indices
<1>5. ix(0) = indexed[p]
  BY DEF Indices
<1>6. ix(last) = Written(indexed[p], d, v)
  BY <1>1 DEF Written
<1>7. ASSUME NEW n \in 1 .. last
      PROVE  /\ ix(n) = [ix(n - 1) EXCEPT ![<<d, n>>] = v]
             /\ ix(n - 1)[<<d, n>>] = indexed[p][<<d, n>>]
  <2>1. <<d, n>> \in Chunks /\ n \in 1 .. n /\ n \notin 1 .. n - 1
    BY <1>1, <1>3
  <2>2. ix(n - 1)[<<d, n>>] = indexed[p][<<d, n>>]
    BY <2>1
  <2>3. ASSUME NEW c \in Chunks
        PROVE  ix(n)[c] = [ix(n - 1) EXCEPT ![<<d, n>>] = v][c]
    <3>1. CASE c = <<d, n>>
      BY <2>1, <3>1
    <3>2. CASE c # <<d, n>>
      <4>1. c = <<c[1], c[2]>>
        BY DEF Chunks
      <4>2. c[1] = d => (c[2] \in 1 .. n <=> c[2] \in 1 .. n - 1)
        BY <1>1, <3>2, <4>1
      <4> QED
        BY <3>2, <4>2
    <3> QED
      BY <3>1, <3>2
  <2> QED
    BY <2>2, <2>3
<1> DEFINE P == {n \in 0 .. last : Exact(g[n], ix(n))}
<1> HIDE DEF ix
<1>8. 0 \in P
  BY <1>1, <1>2, <1>5 DEF IsCountUpTo
<1>9. ASSUME NEW n \in 1 .. last, n - 1 \in P PROVE n \in P
  <2>1. Exact(g[n - 1], ix(n - 1)) /\ n \in 0 .. last
    BY <1>1, <1>9
  <2> DEFINE prior == ix(n - 1)
             freq == g[n - 1]
             c == <<d, n>>
  <2>2. g[n] = AddedOne(freq, c, prior[c], v)
    BY <1>2, <1>7 DEF IsCountUpTo
  <2>3. Exact(g[n], [prior EXCEPT ![c] = v])
    <3>1. prior \in Indices /\ Exact(freq, prior) /\ c \in Chunks
      BY <1>3, <1>4, <2>1
    <3> HIDE DEF prior, freq, c
    <3> QED
      BY <2>2, <3>1, AddedOneExact
  <2> QED
    BY <1>7, <2>1, <2>3
<1> HIDE DEF P, last
<1>10. P = 0 .. last
  BY <1>1, <1>8, <1>9, IntervalInduction DEF P
<1>11. last \in P
  BY <1>1, <1>10
<1> QED
  BY <1>2, <1>6, <1>11 DEF P

\* An empty index counts nothing.
LEMMA EmptyExact == NoTerms \in Frequencies /\ Exact(NoTerms, EmptyIndex)
<1>1. NoTerms \in Frequencies
  BY DEF NoTerms, Frequencies
<1>2. {c \in Chunks : EmptyIndex[c] # NoVersion} = {}
  BY DEF EmptyIndex
<1>3. \A t \in Terms : Having(EmptyIndex, t) = {} /\ NoTerms[t] = 0
  BY DEF Having, EmptyIndex, NoTerms, TermsOf
<1> QED
  BY <1>1, <1>2, <1>3, FS_EmptySet DEF Exact

\* Every process's counts are exact.
AllExact == \A p \in Processes : Exact(docFreq[p], indexed[p])

FrequencyTypes == docFreq \in [Processes -> Frequencies]

\* Whatever is ingested, again, longer, shorter or in other words, by any number of
\* processes, each index counts the chunks of every term exactly: what _remove
\* subtracts is what add once counted.
THEOREM CountsAreExact == KBSpec => []DocFreqExact
<1> DEFINE IInv == FrequencyTypes /\ AllExact
<1>1. KBInit => IInv
  BY EmptyExact DEF KBInit, FrequencyTypes, AllExact
<1>2. IInv /\ StoredFirst /\ [KBNext]_kbVars => IInv'
  <2> SUFFICES ASSUME IInv, StoredFirst, [KBNext]_kbVars PROVE IInv'
    OBVIOUS
  <2>1. ASSUME NEW p \in Processes, Add(p) PROVE IInv'
    <3> DEFINE d == ingesting[p].document
               v == ingesting[p].version
    <3>1. d \in Documents /\ v \in Versions
      BY <2>1 DEF Add, StoredFirst
    <3>2. /\ indexed' = [indexed EXCEPT ![p] = Written(indexed[p], d, v)]
          /\ docFreq' = [docFreq EXCEPT ![p] = Added(p, d, v)]
      BY <2>1 DEF Add
    <3>3. indexed[p] \in Indices /\ DOMAIN indexed = Processes
      BY DEF StoredFirst, Indices
    <3>4. Exact(Added(p, d, v), Written(indexed[p], d, v))
      BY <3>1, <3>3, AddedExact DEF AllExact
    <3>5. Added(p, d, v) \in Frequencies
      BY <3>4 DEF Exact
    <3> HIDE DEF d, v
    <3>6. FrequencyTypes'
      BY <3>2, <3>5 DEF FrequencyTypes
    <3>7. AllExact'
      BY <3>2, <3>3, <3>4 DEF FrequencyTypes, AllExact
    <3> QED
      BY <3>6, <3>7
  <2>2. ASSUME NEW p \in Processes, Restart(p) PROVE IInv'
    <3>1. DOMAIN indexed = Processes
      BY DEF StoredFirst
    <3> QED
      BY <2>2, <3>1, EmptyExact DEF Restart, FrequencyTypes, AllExact
  <2>3. ASSUME UNCHANGED <<indexed, docFreq>> PROVE IInv'
    BY <2>3 DEF FrequencyTypes, AllExact
  <2> QED
    BY <2>1, <2>2, <2>3 DEF KBNext, StartIngest, Embed, Upsert, IngestFails, kbVars
<1>3. IInv => DocFreqExact
  BY DEF AllExact, Exact, Having, DocFreqExact
<1> QED
  BY <1>1, <1>2, <1>3, StoredFirstHolds, PTL DEF KBSpec

----------------------------------------------------------------------------
(* The parts together. *)

\* Whichever part a behaviour of SupportServices runs, the store, the bucket, the
\* knowledge base, the accounts and the decision follow specifications of their own.
LEMMA PartsFollowTheirOwn ==
  Spec => StoreSpec /\ BucketSpec /\ KBSpec /\ AccountsSpec /\ DecisionSpec
<1>1. Init => StoreInit /\ BucketInit /\ KBInit /\ AccountsInit /\ DecisionInit
  BY DEF Init
<1>2. ASSUME [Next]_vars
      PROVE  /\ [StoreNext]_storeVars /\ [BucketNext]_bucketVars /\ [KBNext]_kbVars
             /\ [AccountsNext]_accountVars /\ [DecisionNext]_decisionVars
  <2>1. CASE Store
    BY <2>1 DEF Store
  <2>2. CASE Bucket
    BY <2>2 DEF Bucket
  <2>3. CASE Knowledge
    BY <2>3 DEF Knowledge
  <2>4. CASE Registration
    BY <2>4 DEF Registration
  <2>5. CASE Decision
    BY <2>5 DEF Decision
  <2>6. CASE RunPage \/ ListPage
    BY <2>6 DEF RunPage, ListPage
  <2>7. CASE Cache
    BY <2>7 DEF Cache
  <2>8. CASE UNCHANGED vars
    BY <2>8 DEF vars
  <2> QED
    BY <1>2, <2>1, <2>2, <2>3, <2>4, <2>5, <2>6, <2>7, <2>8 DEF Next
<1> QED
  BY <1>1, <1>2, PTL DEF Spec, StoreSpec, BucketSpec, KBSpec, AccountsSpec, DecisionSpec

\* The invariants that a run checks of SupportServices, and the action property of the
\* rate limiter, hold of its specification whatever its constants are.
THEOREM ServicesAreSafe ==
  Spec => /\ [](OnlyCollisionsAbort /\ RowsMatchSnapshot)
          /\ [](AdmissionsBounded /\ DocFreqExact /\ IndexedIsStored)
          /\ [](EveryAccountReachable /\ DominatedNeverRecommended /\ StableBetweenSwings)
          /\ RefusedOnlyBriefly
BY PartsFollowTheirOwn, WritesFailForIdsOnly, RowsFollowSnapshot, AdmissionsAreBounded,
   RefusalsAreBrief, CountsAreExact, IndexedAreStored, AccountsReachable,
   DominatedNotRecommended, StableWithinSwings, PTL
============================================================================

--------------------------- MODULE KnowledgeBase ---------------------------
(***************************************************************************)
(* The ingestion of documents (retrieval/ingestion.py): a document's text  *)
(* is cut into chunks, which are embedded, written to the vector store     *)
(* that all processes share, and added to the process's own BM25 index     *)
(* (KeywordIndex, retrieval/hybrid_retrieval.py).  A call may fail where   *)
(* it awaits, and a process may stop at any moment; the index goes with    *)
(* it.  A process ingests one document after another, as                   *)
(* scripts/ingest_documents.py does, in whatever version its file has.     *)
(*                                                                         *)
(* A chunk is named by its place, so a shorter version leaves the last     *)
(* chunks of a longer one where they are.                                  *)
(***************************************************************************)
EXTENDS Naturals, Sequences, FiniteSets

CONSTANTS
  Processes,
  Documents,
  Terms,
  Texts             \* version -> the terms of each of its chunks

ASSUME TextsAssumption == Texts \in Seq(Seq(SUBSET Terms))

Versions == DOMAIN Texts
Places   == UNION {DOMAIN Texts[v] : v \in Versions}
Chunks   == Documents \X Places
NoVersion == 0        \* the chunk is not there

VARIABLES
  stored,           \* chunk -> its version in the vector store
  indexed,          \* process -> chunk -> its version in the index
  docFreq,          \* process -> term -> KeywordIndex._doc_freq
  ingesting         \* process -> the ingest_document under way

kbVars == <<stored, indexed, docFreq, ingesting>>

NoIngest == [at |-> "none", document |-> NoVersion, version |-> NoVersion]
EmptyIndex == [c \in Chunks |-> NoVersion]
NoTerms == [t \in Terms |-> 0]

KBInit ==
  /\ stored = EmptyIndex
  /\ indexed = [p \in Processes |-> EmptyIndex]
  /\ docFreq = [p \in Processes |-> NoTerms]
  /\ ingesting = [p \in Processes |-> NoIngest]

\* The chunks of version v of document d, each in that version, over what was there.
Written(chunks, d, v) ==
  [c \in Chunks |-> IF c[1] = d /\ c[2] \in DOMAIN Texts[v] THEN v ELSE chunks[c]]

\* ingest_document up to the embedding; a text without chunks ends there.
StartIngest(p, d, v) ==
  /\ ingesting[p].at = "none"
  /\ Texts[v] # <<>>
  /\ ingesting' = [ingesting EXCEPT ![p] = [at |-> "embed", document |-> d, version |-> v]]
  /\ UNCHANGED <<stored, indexed, docFreq>>

\* VectorStore.upsert, one request for all chunks.  Qdrant may have applied it
\* although the answer never comes.
Upsert(p, answered) ==
  /\ ingesting[p].at = "upsert"
  /\ stored' = Written(stored, ingesting[p].document, ingesting[p].version)
  /\ ingesting' = [ingesting EXCEPT ![p] = IF answered THEN [@ EXCEPT !.at = "add"] ELSE NoIngest]
  /\ UNCHANGED <<indexed, docFreq>>

TermsOf(c, v) == IF v = NoVersion THEN {} ELSE Texts[v][c[2]]

\* _doc_freq after a version of a chunk has gone (_remove) or come (add).
Without(freq, c, v) == [t \in Terms |-> IF t \in TermsOf(c, v) THEN freq[t] - 1 ELSE freq[t]]
With(freq, c, v)    == [t \in Terms |-> IF t \in TermsOf(c, v) THEN freq[t] + 1 ELSE freq[t]]

\* Broken variant: add does not look for the chunk it replaces.
AddedOneKept(freq, c, old, new) == With(freq, c, new)

\* add, for one record.
AddedOne(freq, c, old, new) == With(Without(freq, c, old), c, new)

\* add, for the first n chunks of a document, one after the other.
Added(p, d, v) ==
  LET upTo[n \in 0 .. Len(Texts[v])] ==
        IF n = 0 THEN docFreq[p] ELSE AddedOne(upTo[n - 1], <<d, n>>, indexed[p][<<d, n>>], v)
  IN  upTo[Len(Texts[v])]

\* KeywordIndex.add: nothing runs between its records.
Add(p) ==
  LET d == ingesting[p].document
      v == ingesting[p].version
  IN  /\ ingesting[p].at = "add"
      /\ indexed' = [indexed EXCEPT ![p] = Written(@, d, v)]
      /\ docFreq' = [docFreq EXCEPT ![p] = Added(p, d, v)]
      /\ ingesting' = [ingesting EXCEPT ![p] = NoIngest]
      /\ UNCHANGED stored

\* Broken variant: the chunks are in the index before they are in the store.
EmbedAndAdd(p) ==
  LET d == ingesting[p].document
      v == ingesting[p].version
  IN  /\ ingesting[p].at = "embed"
      /\ indexed' = [indexed EXCEPT ![p] = Written(@, d, v)]
      /\ docFreq' = [docFreq EXCEPT ![p] = Added(p, d, v)]
      /\ ingesting' = [ingesting EXCEPT ![p].at = "upsert"]
      /\ UNCHANGED stored

\* The chunks are embedded.
Embed(p) ==
  /\ ingesting[p].at = "embed"
  /\ ingesting' = [ingesting EXCEPT ![p].at = "upsert"]
  /\ UNCHANGED <<stored, indexed, docFreq>>

\* The embeddings or the store fail: the exception leaves ingest_document.
IngestFails(p) ==
  /\ ingesting[p].at \in {"embed", "upsert"}
  /\ ingesting' = [ingesting EXCEPT ![p] = NoIngest]
  /\ UNCHANGED <<stored, indexed, docFreq>>

\* The process ends and another takes its place.
Restart(p) ==
  /\ indexed' = [indexed EXCEPT ![p] = EmptyIndex]
  /\ docFreq' = [docFreq EXCEPT ![p] = NoTerms]
  /\ ingesting' = [ingesting EXCEPT ![p] = NoIngest]
  /\ UNCHANGED stored

KBNext ==
  \E p \in Processes :
     \/ \E d \in Documents, v \in Versions : StartIngest(p, d, v)
     \/ Embed(p) \/ Add(p) \/ IngestFails(p) \/ Restart(p)
     \/ \E answered \in BOOLEAN : Upsert(p, answered)

KBSpec == KBInit /\ [][KBNext]_kbVars

----------------------------------------------------------------------------
(* Properties *)

\* The index counts a term's chunks exactly, whatever was ingested again, longer,
\* shorter or in other words: _doc_freq is kept by subtraction (hybrid_retrieval.py:
\* 53-72), and BM25's idf takes the logarithm of a number that is negative when
\* the count exceeds the records.
DocFreqExact ==
  \A p \in Processes, t \in Terms :
     docFreq[p][t] = Cardinality({c \in Chunks : t \in TermsOf(c, indexed[p][c])})

\* A chunk that lexical search finds is in the store too ("searchable both
\* semantically and lexically", ingestion.py:46-48), wherever an
\* ingestion failed or its process stopped, and whatever other processes write.
IndexedIsStored ==
  \A p \in Processes, c \in Chunks : indexed[p][c] # NoVersion => stored[c] # NoVersion
============================================================================

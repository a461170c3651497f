--------------------------- MODULE SemanticCache ---------------------------
(***************************************************************************)
(* Searches of the knowledge base behind the semantic cache in Redis:      *)
(* HybridRetriever.search (retrieval/hybrid_retrieval.py) over             *)
(* RedisCacheService.get_semantic, set_semantic and _prune_expired         *)
(* (services/cache_service.py).  One list holds a namespace's entries;     *)
(* every command, and the MULTI of a prune, is one atomic step, and other  *)
(* searches' commands fall between those of one search.                    *)
(*                                                                         *)
(* A query stands for the vectors that the similarity threshold takes for  *)
(* the same.  An entry's expires_at is the ticks it has left; copies of it *)
(* that a search holds age with it.  What the knowledge base answers is    *)
(* its version, the documents ingested so far.                             *)
(***************************************************************************)
EXTENDS Naturals, Sequences, FiniteSets, SequencesExt

CONSTANTS
  Searchers,        \* searches under way at a time, of all processes
  Queries,
  Ttl,              \* cache_semantic_ttl_seconds, in ticks
  Cap,              \* _SEMANTIC_MAX_ENTRIES
  MaxIngests,       \* bounds the versions
  NoQuery

VARIABLES
  entries,          \* the list semcache:<namespace>, oldest first
  at,               \* searcher -> the command its search is at
  asked,            \* searcher -> its query
  held,             \* searcher -> the unexpired entries its prune writes back
  found,            \* searcher -> the version it will answer with, 0 for none
  version           \* of the knowledge base

cacheVars == <<entries, at, asked, held, found, version>>

\* Broken variant: the expiry is left to the prune.
IsFreshAlways(e) == TRUE

IsFresh(e) == e.left > 0

CacheInit ==
  /\ entries = <<>>
  /\ at = [s \in Searchers |-> "idle"]
  /\ asked = [s \in Searchers |-> NoQuery]
  /\ held = [s \in Searchers |-> <<>>]
  /\ found = [s \in Searchers |-> 0]
  /\ version = 1

\* get_semantic up to its LRANGE and the scan: the best match among the entries
\* that have not expired.  Expired ones make it prune before it returns.
Lookup(s, q) ==
  /\ at[s] = "idle"
  /\ LET fresh == SelectSeq(entries, IsFresh)
         hits  == {e.value : e \in {x \in ToSet(fresh) : x.query = q}}
         stale == Len(fresh) < Len(entries)
     IN  /\ \E v \in IF hits = {} THEN {0} ELSE hits :
              /\ found' = [found EXCEPT ![s] = v]
              /\ at' = [at EXCEPT ![s] =
                   IF stale THEN "prune" ELSE IF v > 0 THEN "served" ELSE "search"]
         /\ held' = [held EXCEPT ![s] = IF stale THEN fresh ELSE <<>>]
         /\ asked' = [asked EXCEPT ![s] = q]
  /\ UNCHANGED <<entries, version>>

\* DEL and RPUSH in one MULTI, of what was read before.
Prune(s) ==
  /\ at[s] = "prune"
  /\ entries' = held[s]
  /\ held' = [held EXCEPT ![s] = <<>>]
  /\ at' = [at EXCEPT ![s] = IF found[s] > 0 THEN "served" ELSE "search"]
  /\ UNCHANGED <<asked, found, version>>

\* A miss: the vector store and the keyword index are asked.
SearchUncached(s) ==
  /\ at[s] = "search"
  /\ found' = [found EXCEPT ![s] = version]
  /\ at' = [at EXCEPT ![s] = "push"]
  /\ UNCHANGED <<entries, asked, held, version>>

\* set_semantic: the RPUSH ...
Push(s) ==
  /\ at[s] = "push"
  /\ entries' = Append(entries, [query |-> asked[s], value |-> found[s], left |-> Ttl])
  /\ at' = [at EXCEPT ![s] = "trim"]
  /\ UNCHANGED <<asked, held, found, version>>

\* Broken variant: one entry more than the cap is kept.
TrimShort(s) ==
  /\ at[s] = "trim"
  /\ entries' = SubSeq(entries, IF Len(entries) > Cap + 1 THEN Len(entries) - Cap ELSE 1,
                       Len(entries))
  /\ at' = [at EXCEPT ![s] = "served"]
  /\ UNCHANGED <<asked, held, found, version>>

\* ... and the LTRIM, a command of its own.
Trim(s) ==
  /\ at[s] = "trim"
  /\ entries' = SubSeq(entries, IF Len(entries) > Cap THEN Len(entries) - Cap + 1 ELSE 1,
                       Len(entries))
  /\ at' = [at EXCEPT ![s] = "served"]
  /\ UNCHANGED <<asked, held, found, version>>

\* search() returns what it found.
Serve(s) ==
  /\ at[s] = "served"
  /\ at' = [at EXCEPT ![s] = "idle"]
  /\ asked' = [asked EXCEPT ![s] = NoQuery]
  /\ found' = [found EXCEPT ![s] = 0]
  /\ UNCHANGED <<entries, held, version>>

\* A document is ingested, by whatever process.
Ingest ==
  /\ version <= MaxIngests
  /\ version' = version + 1
  /\ UNCHANGED <<entries, at, asked, held, found>>

Older(e) == [e EXCEPT !.left = IF @ > 0 THEN @ - 1 ELSE 0]
Aged(q)  == [i \in DOMAIN q |-> Older(q[i])]

\* Time passes for every copy of an entry.
CacheTick ==
  /\ \E q \in {entries} \cup {held[s] : s \in Searchers} : \E i \in DOMAIN q : IsFresh(q[i])
  /\ entries' = Aged(entries)
  /\ held' = [s \in Searchers |-> Aged(held[s])]
  /\ UNCHANGED <<at, asked, found, version>>

SearchStep(s) == Prune(s) \/ SearchUncached(s) \/ Push(s) \/ Trim(s) \/ Serve(s)

CacheNext ==
  \/ Ingest \/ CacheTick
  \/ \E s \in Searchers : SearchStep(s) \/ \E q \in Queries : Lookup(s, q)

----------------------------------------------------------------------------
(* Properties *)

\* cache_service.py:219, "Hard cap: never let one namespace's semantic cache
\* grow without bound".  A push and its trim are two commands, and a prune can
\* bring back entries a trim has dropped, so the list may exceed the cap for a
\* while; each search that has pushed brings it back under it.
CacheReturnsToCap == \A s \in Searchers : at[s] = "trim" ~> Len(entries) <= Cap

\* When documents stop coming, searches stop serving what was there before: the
\* entries that hold old answers expire, and neither a prune that writes them
\* back nor a late push keeps them alive (cache_service.py:195 and 232).
CacheCatchesUp == <>[](\A s \in Searchers : at[s] = "served" => found[s] = version)
============================================================================

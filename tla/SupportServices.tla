-------------------------- MODULE SupportServices --------------------------
(***************************************************************************)
(* The parts that surround a research run, on one small instance each.     *)
(* They share no state (the cache knows no user, the bucket no document),  *)
(* so an interleaving of two of them shows nothing that each does not show *)
(* alone: a behaviour runs one part, and the others stay as they begin.    *)
(***************************************************************************)
EXTENDS SessionStore, SemanticCache, TokenBucket, KnowledgeBase, Accounts,
        DecisionAnalysis, StatusPage

VARIABLE part

Parts ==
  {"store", "cache", "bucket", "knowledge", "accounts", "decision", "page", "list"}

vars == <<part, storeVars, cacheVars, bucketVars, kbVars, accountVars, decisionVars, pageVars>>

Init ==
  /\ part \in Parts
  /\ StoreInit /\ CacheInit /\ BucketInit /\ KBInit /\ AccountsInit /\ DecisionInit
  /\ PageInit

Store ==
  /\ part = "store" /\ StoreNext
  /\ UNCHANGED <<part, cacheVars, bucketVars, kbVars, accountVars, decisionVars, pageVars>>

Cache ==
  /\ part = "cache" /\ CacheNext
  /\ UNCHANGED <<part, storeVars, bucketVars, kbVars, accountVars, decisionVars, pageVars>>

Bucket ==
  /\ part = "bucket" /\ BucketNext
  /\ UNCHANGED <<part, storeVars, cacheVars, kbVars, accountVars, decisionVars, pageVars>>

Knowledge ==
  /\ part = "knowledge" /\ KBNext
  /\ UNCHANGED <<part, storeVars, cacheVars, bucketVars, accountVars, decisionVars, pageVars>>

Registration ==
  /\ part = "accounts" /\ AccountsNext
  /\ UNCHANGED <<part, storeVars, cacheVars, bucketVars, kbVars, decisionVars, pageVars>>

Decision ==
  /\ part = "decision" /\ DecisionNext
  /\ UNCHANGED <<part, storeVars, cacheVars, bucketVars, kbVars, accountVars, pageVars>>

RunPage ==
  /\ part = "page" /\ RunPageNext
  /\ UNCHANGED <<part, storeVars, cacheVars, bucketVars, kbVars, accountVars, decisionVars>>

ListPage ==
  /\ part = "list" /\ ListNext
  /\ UNCHANGED <<part, storeVars, cacheVars, bucketVars, kbVars, accountVars, decisionVars>>

Next == Store \/ Cache \/ Bucket \/ Knowledge \/ Registration \/ Decision \/ RunPage \/ ListPage

\* A statement that need not wait is executed, time passes, a search that has begun
\* goes on, a request that was sent is answered or lost, a timer fires.  Nobody has
\* to write, to search, to open a page or to leave it, and no run has to end.
Fairness ==
  /\ \A w \in Writers : WF_storeVars(part = "store" /\ WriteStep(w))
  /\ WF_cacheVars(part = "cache" /\ CacheTick)
  /\ \A s \in Searchers : WF_cacheVars(part = "cache" /\ SearchStep(s))
  /\ \A c \in Chains : WF_pageVars(part = "page" /\ CallStep(c))
  /\ \A i \in Loads : WF_pageVars(part = "list" /\ LoadStep(i))

Spec == Init /\ [][Next]_vars /\ Fairness
============================================================================

--------------------------- MODULE ResearchGraph ---------------------------
(***************************************************************************)
(* One run of the agents' graph (backend/app/orchestration/graph.py): the  *)
(* planner, the researchers' fan-out and join, the agents in their order,  *)
(* the verification gate (verification/gate.py) and its capped loop back.  *)
(*                                                                         *)
(* One action per graph node.  What a language model or a search answers   *)
(* is chosen freely among the answers the agent's own code lets through;   *)
(* what the agents then compute, drop, default or append is kept.          *)
(***************************************************************************)
EXTENDS Naturals, Sequences, FiniteSets

CONSTANTS
  Questions,        \* ids of the research questions a plan may hold
  MaxResults,       \* search results one question can bring
  ThinThreshold,    \* Settings.risk_thin_evidence_threshold
  MaxCycles,        \* Settings.verification_max_cycles
  RecursionLimit,   \* super-steps LangGraph allows one run
  None              \* no report yet

\* 12 super-steps reach the first gate, and each retry takes 8 at most.
ASSUME GraphAssumption ==
  /\ IsFiniteSet(Questions)
  /\ MaxResults \in Nat
  /\ ThinThreshold \in Nat
  /\ MaxCycles \in Nat \ {0}
  /\ RecursionLimit \in Nat
  /\ 4 + 8 * MaxCycles <= RecursionLimit

VARIABLES
  pc,               \* the node that runs next, "end" or "raised"
  branches,         \* the questions whose researcher has not finished
  retrieved,        \* <<q, i>>: result i of question q, its source, its claim
                    \* and its evidence item
  verified,         \* verified_claims: a round of verdicts per fact check
  open,             \* the contradictions whose resolution is "unresolved"
  sensitive,        \* is_sensitive of the current decision matrix
  unknownRisk,      \* does the risk list hold a risk of category "unknown"?
  draft,            \* draft_report
  cycle,            \* verification_cycle
  failed,           \* failed_checks of the last verification result
  final,            \* final_report
  steps             \* super-steps taken

vars == <<pc, branches, retrieved, verified, open, sensitive, unknownRisk,
          draft, cycle, failed, final, steps>>
research == <<branches, retrieved>>
analysis == <<sensitive, unknownRisk>>
verdict  == <<cycle, failed, final>>

Claims == Questions \X (0 .. MaxResults - 1)
Pairs(S) == {{p[1], p[2]} : p \in {x \in S \X S : x[1] # x[2]}}

\* A verdict keeps a claim, or refutes it (UNSUPPORTED, CONTRADICTED) with an
\* explanation that may be the empty string, the schema's default.
Verdicts == {"kept", "refuted", "refutedBlank"}

Edge ==
  [planner                |-> "researcher",
   researcher             |-> "source_evaluator",
   source_evaluator       |-> "evidence_analyst",
   evidence_analyst       |-> "fact_checker",
   fact_checker           |-> "contradiction_detector",
   contradiction_detector |-> "debate",
   debate                 |-> "assumption_analyst",
   assumption_analyst     |-> "decision_analyst",
   decision_analyst       |-> "risk_analyst",
   risk_analyst           |-> "synthesizer",
   synthesizer            |-> "verification_gate"]

Nodes == DOMAIN Edge \cup {"verification_gate"}
Ended == {"end", "raised"}

\* What the gate and the reader see of a report: the claims its limitations
\* name (by id, or by quoting what was said against them), whether there are
\* limitations at all, the confidence, and the defects the cap added.
Reports ==
  [named       : SUBSET Claims,   \* acknowledged for every round of verdicts
   caveat      : BOOLEAN,
   confidence  : {"high", "low", "invalid"},
   unknownRisk : BOOLEAN,
   verdicts    : UNION {[S -> Verdicts \cup {"UNVERIFIED"}] : S \in SUBSET Claims},
                             \* the verdict per claim it was written from
   issues      : SUBSET ({<<"claim", c>> : c \in Claims}
                   \cup {<<"contradiction", p>> : p \in Pairs(Claims)}
                   \cup {<<"confidence">>})]

TypeOK ==
  /\ pc          \in Nodes \cup Ended
  /\ branches    \in SUBSET Questions
  /\ retrieved   \in SUBSET Claims
  /\ verified    \in Seq([retrieved -> Verdicts])
  /\ open        \in SUBSET Pairs(retrieved)
  /\ sensitive   \in BOOLEAN
  /\ unknownRisk \in BOOLEAN
  /\ draft       \in Reports \cup {None}
  /\ cycle       \in 0 .. MaxCycles
  /\ final       \in Reports \cup {None}
  /\ steps       \in 0 .. RecursionLimit

Init ==
  /\ pc          = "planner"
  /\ branches    = {}
  /\ retrieved   = {}
  /\ verified    = <<>>
  /\ open        = {}
  /\ sensitive   = FALSE
  /\ unknownRisk = FALSE
  /\ draft       = None
  /\ cycle       = 0
  /\ failed      = {}
  /\ final       = None
  /\ steps       = 0

-----------------------------------------------------------------------------
(* The nodes before the gate.                                              *)

\* Node n runs, as one super-step, and its edge is followed.
Run(n) ==
  /\ pc = n
  /\ steps < RecursionLimit
  /\ pc'    = Edge[n]
  /\ steps' = steps + 1

\* _fill_plan_defaults leaves no plan without a question; one researcher each.
Planner ==
  /\ Run("planner")
  /\ \E Q \in (SUBSET Questions) \ {{}} : branches' = Q
  /\ UNCHANGED <<retrieved, verified, open, analysis, draft, verdict>>

\* Broken variant: the join waits for a first result.
ResearcherWaits(q) ==
  /\ pc = "researcher"
  /\ steps < RecursionLimit
  /\ q \in branches
  /\ branches' = branches \ {q}
  /\ \E n \in 0 .. MaxResults :
       retrieved' = retrieved \cup {<<q, i>> : i \in 0 .. n - 1}
  /\ IF branches' = {} /\ retrieved' # {} THEN Run("researcher") ELSE UNCHANGED <<pc, steps>>
  /\ UNCHANGED <<verified, open, analysis, draft, verdict>>

\* One branch of the fan-out: a failed search counts as no result.  The last
\* branch to finish ends the super-step (the join).
Researcher(q) ==
  /\ pc = "researcher"
  /\ steps < RecursionLimit
  /\ q \in branches
  /\ branches' = branches \ {q}
  /\ \E n \in 0 .. MaxResults :
       retrieved' = retrieved \cup {<<q, i>> : i \in 0 .. n - 1}
  /\ IF branches' = {} THEN Run("researcher") ELSE UNCHANGED <<pc, steps>>
  /\ UNCHANGED <<verified, open, analysis, draft, verdict>>

\* A node whose output no routing, gate or report check of this model reads.
Annotate(n) ==
  /\ Run(n)
  /\ UNCHANGED <<research, verified, open, analysis, draft, verdict>>

\* The sources get their scores, none is dropped or added.
SourceEvaluator == Annotate("source_evaluator")

\* One evidence item per claim, default judgements included: the items of the
\* claims are <<q, i>> again.
EvidenceAnalyst == Annotate("evidence_analyst")

\* Advocate and critic write notes for later prompts.
Debate == Annotate("debate")

\* The assumptions go into the report as they are.
AssumptionAnalyst == Annotate("assumption_analyst")

\* Every claim gets a verdict in every round (without an answer: UNSUPPORTED,
\* explained), and the round is appended to the earlier ones.
FactChecker ==
  /\ Run("fact_checker")
  /\ \E round \in [retrieved -> Verdicts] : verified' = Append(verified, round)
  /\ UNCHANGED <<research, open, analysis, draft, verdict>>

\* Broken variant: a judgement may set a claim against itself.
ContradictionDetectorUngrounded ==
  /\ Run("contradiction_detector")
  /\ open' \in SUBSET {{p[1], p[2]} : p \in retrieved \X retrieved}
  /\ UNCHANGED <<research, verified, analysis, draft, verdict>>

\* The genuine conflicts between two different claims; replaces the old list.
ContradictionDetector ==
  /\ Run("contradiction_detector")
  /\ open' \in SUBSET Pairs(retrieved)
  /\ UNCHANGED <<research, verified, analysis, draft, verdict>>

DecisionAnalyst ==
  /\ Run("decision_analyst")
  /\ sensitive' \in BOOLEAN
  /\ UNCHANGED <<research, verified, open, unknownRisk, draft, verdict>>

\* Thin evidence puts a risk of category "unknown" on the list.
RiskAnalyst ==
  /\ Run("risk_analyst")
  /\ unknownRisk' \in BOOLEAN
  /\ Cardinality(retrieved) < ThinThreshold => unknownRisk'
  /\ UNCHANGED <<research, verified, open, sensitive, draft, verdict>>

\* The verdict the synthesizer reads for a claim: a later one hides an earlier one.
LatestVerdicts ==
  [c \in retrieved |-> IF verified = <<>> THEN "UNVERIFIED" ELSE verified[Len(verified)][c]]

\* The synthesizer's answer, grounded: sources, evidence, citations and risks
\* are the state's, and a sensitive decision adds its warning.
Draft(named, worded, level) ==
  [named |-> named, caveat |-> worded \/ named # {} \/ sensitive,
   confidence |-> level, unknownRisk |-> unknownRisk,
   verdicts |-> LatestVerdicts, issues |-> {}]

WriteDraft ==
  \E N \in SUBSET retrieved, worded \in BOOLEAN, level \in {"high", "low", "invalid"} :
    draft' = Draft(N, worded, level)

\* Broken variant: a report once written is not written again.
SynthesizerKeepsDraft ==
  /\ Run("synthesizer")
  /\ IF draft = None THEN WriteDraft ELSE UNCHANGED draft
  /\ UNCHANGED <<research, verified, open, analysis, verdict>>

Synthesizer ==
  /\ Run("synthesizer")
  /\ WriteDraft
  /\ UNCHANGED <<research, verified, open, analysis, verdict>>

-----------------------------------------------------------------------------
(* verification/gate.py and the loop back.                                 *)

\* Every round counts, an explanation occurs in any text when it is empty.
ClaimFailures ==
  {<<"claim", c>> : c \in {d \in retrieved \ draft.named :
     \E i \in 1 .. Len(verified) : verified[i][d] = "refuted"}}

ContradictionFailures == {<<"contradiction", p>> : p \in open}

\* An impossible confidence, or a low one with nothing in the limitations.
UncertaintyFailures ==
  {x \in {<<"confidence">>} :
     \/ draft.confidence = "invalid"
     \/ draft.confidence = "low" /\ ~draft.caveat}

\* The citations always resolve: the synthesizer copied them from the state.
FailedChecks == ClaimFailures \cup ContradictionFailures \cup UncertaintyFailures

\* Broken variant: at the cap the report is shipped as it is.
WithoutIssues(report, issues) == report

\* apply_cap_reached_limitations
WithIssues(report, issues) == [report EXCEPT !.caveat = TRUE, !.issues = issues]

\* Broken variant: the loop is left after the cap, not at the cap.
CapExceeded(n) == n > MaxCycles
CapReached(n) == n >= MaxCycles

\* Broken variant: only a round of fact checking counts as a cycle.
VerificationGateCountsRechecks ==
  /\ pc = "verification_gate"
  /\ steps < RecursionLimit
  /\ steps'  = steps + 1
  /\ failed' = FailedChecks
  /\ cycle'  = IF failed' # {} /\ ClaimFailures = {} THEN cycle ELSE cycle + 1
  /\ final'  = IF failed' = {} THEN draft
               ELSE IF CapReached(cycle') THEN WithIssues(draft, failed') ELSE final
  /\ pc'     = IF failed' = {} \/ CapReached(cycle') THEN "end"
               ELSE IF ClaimFailures # {} THEN "fact_checker" ELSE "synthesizer"
  /\ UNCHANGED <<research, verified, open, analysis, draft>>

VerificationGate ==
  /\ pc = "verification_gate"
  /\ steps < RecursionLimit
  /\ steps'  = steps + 1
  /\ cycle'  = cycle + 1
  /\ failed' = FailedChecks
  /\ \/ /\ failed' = {}
        /\ final' = draft
        /\ pc'    = "end"
     \/ /\ failed' # {}
        /\ CapReached(cycle')
        /\ final' = WithIssues(draft, failed')
        /\ pc'    = "end"
     \/ /\ failed' # {}
        /\ ~CapReached(cycle')
        /\ pc' = IF ClaimFailures # {} THEN "fact_checker" ELSE "synthesizer"
        /\ UNCHANGED final
  /\ UNCHANGED <<research, verified, open, analysis, draft>>

-----------------------------------------------------------------------------
(* Failures that end the run.                                              *)

\* The nodes that ask a language model; with nothing to ask about some do not.
CallsModel(n) ==
  CASE n \in {"source_evaluator", "evidence_analyst", "fact_checker"} -> retrieved # {}
    [] n = "contradiction_detector" -> Cardinality(retrieved) > 1
    [] n = "verification_gate"      -> FALSE
    [] OTHER                        -> TRUE

\* The provider gave up after its retries: nothing in the graph catches it.
ModelRaises ==
  /\ pc \in Nodes
  /\ CallsModel(pc)
  /\ pc' = "raised"
  /\ UNCHANGED <<research, verified, open, analysis, draft, verdict, steps>>

AgentStep ==
  \/ Planner
  \/ \E q \in Questions : Researcher(q)
  \/ SourceEvaluator \/ EvidenceAnalyst \/ FactChecker \/ ContradictionDetector
  \/ Debate \/ AssumptionAnalyst \/ DecisionAnalyst \/ RiskAnalyst \/ Synthesizer
  \/ VerificationGate

Next == AgentStep \/ ModelRaises

Spec == Init /\ [][Next]_vars

\* Every call an agent makes returns, unless it raises: searches and model calls
\* have timeouts and a bounded number of attempts.
FairSpec == Spec /\ WF_vars(AgentStep)

-----------------------------------------------------------------------------
(* Properties.                                                             *)

Refuted(c) == Len(verified) > 0 /\ verified[Len(verified)][c] = "refuted"

\* The report that leaves the graph hides nothing the run knows, whichever way
\* it left: a claim refuted with an explanation is named or listed, a genuine
\* contradiction is listed, a low confidence comes with limitations, a decision
\* that flips under sensitivity with its warning, thin evidence with an unknown
\* risk.
HonestReport ==
  final # None =>
    /\ \A c \in retrieved :
         Refuted(c) => c \in final.named \/ <<"claim", c>> \in final.issues
    /\ \A p \in open : <<"contradiction", p>> \in final.issues
    /\ final.confidence = "high" \/ final.caveat
    /\ sensitive => final.caveat
    /\ Cardinality(retrieved) < ThinThreshold => final.unknownRisk

\* The loop stays within both of its limits: no judgement beyond the cap, and
\* LangGraph's recursion limit never cuts a run off before it has a report.
WithinLimits ==
  /\ cycle <= MaxCycles
  /\ pc \in Nodes => steps < RecursionLimit

\* Whichever way back the gate chose, a report that is judged again or leaves the
\* graph was written from the newest verdict on every claim, none from before a
\* re-check.  (The gate itself counts the older rounds too: ReverifiedClaimsPass.)
WrittenFromLatestVerdicts ==
  pc \in {"verification_gate", "end"} => draft.verdicts = LatestVerdicts

\* The graph implements the bounded loop of verification.
outcome ==
  CASE pc = "end" /\ failed = {} -> "accepted"
    [] pc = "end" /\ failed # {} -> "shipped"
    [] pc = "raised"             -> "raised"
    [] OTHER                     -> "open"
Loop == INSTANCE VerificationLoop
ImplementsLoop == Loop!Spec

\* Every run ends, with a report or an exception: the join misses no branch and
\* the loop cannot go on for ever.
EveryRunEnds == <>(pc \in Ended)

-----------------------------------------------------------------------------
(* What the gate's documentation says and its code does not do.            *)

\* gate.py:12-14: a claim marked UNSUPPORTED or CONTRADICTED is acknowledged in
\* the limitations of any report that passes.
RefutedClaimsAcknowledged ==
  pc = "end" /\ failed = {} =>
    \A c \in retrieved : verified[Len(verified)][c] # "kept" => c \in final.named

\* gate.py:21-23: the fact checker can re-verify a claim that failed the gate; a
\* claim it has verified since fails no more.
ReverifiedClaimsPass ==
  pc = "end" =>
    \A c \in retrieved :
      verified[Len(verified)][c] = "kept" => <<"claim", c>> \notin failed

=============================================================================

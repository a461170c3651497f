------------------------ MODULE ResearchGraphProofs ------------------------
(***************************************************************************)
(* What a run of the agents' graph does for any number of questions,       *)
(* results and cycles: its types, its two limits, that a report is judged  *)
(* on the verdicts it was written from, that the report that leaves hides  *)
(* nothing, that the run is a VerificationLoop, and that every step of it  *)
(* brings its end closer.                                                  *)
(***************************************************************************)
EXTENDS ResearchGraph, FiniteSetTheorems, SequenceTheorems, TLAPS

-----------------------------------------------------------------------------
(* The inductive invariant.                                                *)

\* The nodes before the first fact check, where nothing has been judged.
Early == {"planner", "researcher", "source_evaluator", "evidence_analyst"}

\* The super-steps that lead from the last judgement, or from the start, to a
\* node, when the way back costs four more than there are to save.
Offset ==
  [planner                |-> 0,
   researcher             |-> 1,
   source_evaluator       |-> 2,
   evidence_analyst       |-> 3,
   fact_checker           |-> 4,
   contradiction_detector |-> 5,
   debate                 |-> 6,
   assumption_analyst     |-> 7,
   decision_analyst       |-> 8,
   risk_analyst           |-> 9,
   synthesizer            |-> 10,
   verification_gate      |-> 11]

Unjudged == pc \in Early => verified = <<>> /\ open = {}
OnBudget == pc \in Nodes => cycle < MaxCycles /\ steps <= 8 * cycle + Offset[pc]
Unfinished == pc # "end" => final = None
ThinIsKnown ==
  pc \in {"synthesizer", "verification_gate"} =>
    (Cardinality(retrieved) < ThinThreshold => unknownRisk)
Drafted ==
  pc \in {"verification_gate", "end"} =>
    draft \in Reports /\ draft.verdicts = LatestVerdicts
DraftIsHonest ==
  pc = "verification_gate" =>
    /\ sensitive => draft.caveat
    /\ Cardinality(retrieved) < ThinThreshold => draft.unknownRisk

Inv ==
  /\ TypeOK /\ Unjudged /\ OnBudget /\ Unfinished
  /\ ThinIsKnown /\ Drafted /\ DraftIsHonest /\ HonestReport

-----------------------------------------------------------------------------
(* The graph's shape.                                                      *)

\* The nodes, where their edges lead, and how far along they are.
LEMMA Shape ==
  /\ Nodes = {"planner", "researcher", "source_evaluator", "evidence_analyst",
              "fact_checker", "contradiction_detector", "debate",
              "assumption_analyst", "decision_analyst", "risk_analyst",
              "synthesizer", "verification_gate"}
  /\ Edge["planner"] = "researcher"
  /\ Edge["researcher"] = "source_evaluator"
  /\ Edge["source_evaluator"] = "evidence_analyst"
  /\ Edge["evidence_analyst"] = "fact_checker"
  /\ Edge["fact_checker"] = "contradiction_detector"
  /\ Edge["contradiction_detector"] = "debate"
  /\ Edge["debate"] = "assumption_analyst"
  /\ Edge["assumption_analyst"] = "decision_analyst"
  /\ Edge["decision_analyst"] = "risk_analyst"
  /\ Edge["risk_analyst"] = "synthesizer"
  /\ Edge["synthesizer"] = "verification_gate"
BY DEF Nodes, Edge

\* Every node but the gate leads to a node that is one step further along.
LEMMA OneFurther ==
  ASSUME NEW n \in Nodes, n # "verification_gate"
  PROVE  /\ Edge[n] \in Nodes
         /\ Offset[Edge[n]] = Offset[n] + 1
         /\ Offset[n] \in 0 .. 10
BY Shape DEF Offset

\* A set of claims contradicts itself in no more ways than a larger one.
LEMMA PairsGrow ==
  ASSUME NEW S, NEW T, S \subseteq T
  PROVE  Pairs(S) \subseteq Pairs(T)
BY DEF Pairs

\* A node that runs stays within the budget and within the types.
LEMMA RunKeeps ==
  ASSUME Inv, NEW n \in Nodes, n # "verification_gate", Run(n),
         UNCHANGED <<cycle, final>>
  PROVE  /\ pc = n /\ pc' = Edge[n] /\ pc' \in Nodes /\ pc' # "end"
         /\ steps' \in 0 .. RecursionLimit
         /\ OnBudget' /\ Unfinished'
<1>1. pc' \in Nodes /\ pc' # "end"
  BY OneFurther, Shape DEF Run
<1>2. steps' \in 0 .. RecursionLimit
  BY GraphAssumption DEF Run, Inv, TypeOK
<1>3. OnBudget'
  <2>1. pc = n /\ pc' = Edge[n] /\ steps' = steps + 1 /\ cycle' = cycle
    BY DEF Run
  <2>2. Offset[Edge[n]] = Offset[n] + 1 /\ Offset[n] \in 0 .. 10
    BY OneFurther
  <2>3. cycle < MaxCycles /\ steps <= 8 * cycle + Offset[n]
    BY <2>1 DEF Inv, OnBudget
  <2>4. steps \in Nat /\ cycle \in Nat
    BY GraphAssumption DEF Inv, TypeOK
  <2>5. steps' <= 8 * cycle' + Offset[Edge[n]]
    BY <2>1, <2>2, <2>3, <2>4
  <2> QED
    BY <2>1, <2>3, <2>5 DEF OnBudget
<1>4. Unfinished'
  BY Shape DEF Run, Inv, Unfinished
<1> QED
  BY <1>1, <1>2, <1>3, <1>4 DEF Run

-----------------------------------------------------------------------------
(* Every step keeps the invariant.                                         *)

\* The nodes that only annotate.
LEMMA AnnotateKeeps ==
  ASSUME Inv, NEW n \in {"source_evaluator", "evidence_analyst", "debate",
                         "assumption_analyst"}, Annotate(n)
  PROVE  Inv'
<1>1. /\ pc = n /\ pc' = Edge[n] /\ pc' \in Nodes
      /\ steps' \in 0 .. RecursionLimit
      /\ OnBudget' /\ Unfinished'
  BY RunKeeps, Shape DEF Annotate, verdict
<1>2. pc' \in {"evidence_analyst", "fact_checker", "assumption_analyst", "decision_analyst"}
  BY <1>1, Shape
<1>3. pc' = "evidence_analyst" => pc = "source_evaluator"
  BY <1>1, Shape
<1>4. UNCHANGED <<branches, retrieved, verified, open, sensitive, unknownRisk,
                  draft, cycle, failed, final>>
  BY DEF Annotate, research, analysis, verdict
<1>5. TypeOK'
  BY <1>1, <1>4 DEF Inv, TypeOK, Pairs
<1>6. Unjudged'
  BY <1>2, <1>3, <1>4 DEF Inv, Unjudged, Early
<1>7. ThinIsKnown' /\ Drafted' /\ DraftIsHonest'
  BY <1>2 DEF ThinIsKnown, Drafted, DraftIsHonest
<1>8. HonestReport'
  BY <1>1, <1>2, <1>4 DEF Unfinished, HonestReport
<1> QED
  BY <1>1, <1>5, <1>6, <1>7, <1>8 DEF Inv

\* The plan.
LEMMA PlannerKeeps == ASSUME Inv, Planner PROVE Inv'
<1>1. /\ pc = "planner" /\ pc' = "researcher" /\ pc' \in Nodes
      /\ steps' \in 0 .. RecursionLimit
      /\ OnBudget' /\ Unfinished'
  BY RunKeeps, Shape DEF Planner, verdict
<1>2. UNCHANGED <<retrieved, verified, open, sensitive, unknownRisk, draft,
                  cycle, failed, final>>
  BY DEF Planner, analysis, verdict
<1>3. branches' \in SUBSET Questions
  BY DEF Planner
<1>4. TypeOK'
  BY <1>1, <1>2, <1>3 DEF Inv, TypeOK, Pairs
<1>5. Unjudged'
  BY <1>1, <1>2 DEF Inv, Unjudged, Early
<1>6. ThinIsKnown' /\ Drafted' /\ DraftIsHonest'
  BY <1>1 DEF ThinIsKnown, Drafted, DraftIsHonest
<1>7. HonestReport'
  BY <1>1 DEF Unfinished, HonestReport
<1> QED
  BY <1>1, <1>4, <1>5, <1>6, <1>7 DEF Inv

\* A branch of the fan-out, the last one and any other.
LEMMA ResearcherKeeps ==
  ASSUME Inv, NEW q \in Questions, Researcher(q)
  PROVE  Inv'
<1>1. UNCHANGED <<verified, open, sensitive, unknownRisk, draft, cycle, failed, final>>
  BY DEF Researcher, analysis, verdict
<1>2. /\ pc = "researcher" /\ pc' \in {"researcher", "source_evaluator"}
      /\ pc' \in Nodes
      /\ steps' \in 0 .. RecursionLimit
      /\ OnBudget' /\ Unfinished'
  <2>1. CASE branches' = {}
    <3>1. Run("researcher")
      BY <2>1 DEF Researcher
    <3> QED
      BY <3>1, <1>1, RunKeeps, Shape
  <2>2. CASE branches' # {}
    <3>1. UNCHANGED <<pc, steps>> /\ pc = "researcher"
      BY <2>2 DEF Researcher
    <3> QED
      BY <3>1, <1>1, Shape DEF Inv, TypeOK, OnBudget, Unfinished
  <2> QED
    BY <2>1, <2>2
<1>3. verified = <<>> /\ open = {}
  BY <1>2 DEF Inv, Unjudged, Early
<1>4. branches' \in SUBSET Questions /\ retrieved' \in SUBSET Claims
  <2>1. PICK n \in 0 .. MaxResults :
          retrieved' = retrieved \cup {<<q, i>> : i \in 0 .. n - 1}
    BY DEF Researcher
  <2>2. {<<q, i>> : i \in 0 .. n - 1} \subseteq Claims
    BY GraphAssumption DEF Claims
  <2> QED
    BY <2>1, <2>2 DEF Researcher, Inv, TypeOK
<1>5. TypeOK'
  <2>1. verified' \in Seq([retrieved' -> Verdicts])
    BY <1>1, <1>3, EmptySeq
  <2>2. open' \in SUBSET Pairs(retrieved')
    BY <1>1, <1>3
  <2> QED
    BY <1>1, <1>2, <1>4, <2>1, <2>2 DEF Inv, TypeOK
<1>6. Unjudged'
  BY <1>1, <1>3 DEF Unjudged
<1>7. ThinIsKnown' /\ Drafted' /\ DraftIsHonest'
  BY <1>2 DEF ThinIsKnown, Drafted, DraftIsHonest
<1>8. HonestReport'
  BY <1>2 DEF Unfinished, HonestReport
<1> QED
  BY <1>2, <1>5, <1>6, <1>7, <1>8 DEF Inv

\* A round of verdicts.
LEMMA FactCheckerKeeps == ASSUME Inv, FactChecker PROVE Inv'
<1>1. /\ pc' = "contradiction_detector" /\ pc' \in Nodes
      /\ steps' \in 0 .. RecursionLimit
      /\ OnBudget' /\ Unfinished'
  BY RunKeeps, Shape DEF FactChecker, verdict
<1>2. UNCHANGED <<branches, retrieved, open, sensitive, unknownRisk, draft,
                  cycle, failed, final>>
  BY DEF FactChecker, research, analysis, verdict
<1>3. verified' \in Seq([retrieved' -> Verdicts])
  <2>1. PICK round \in [retrieved -> Verdicts] : verified' = Append(verified, round)
    BY DEF FactChecker
  <2>2. verified \in Seq([retrieved -> Verdicts])
    BY DEF Inv, TypeOK
  <2>3. Append(verified, round) \in Seq([retrieved -> Verdicts])
    BY <2>2, AppendProperties
  <2> QED
    BY <1>2, <2>1, <2>3
<1>4. TypeOK'
  BY <1>1, <1>2, <1>3 DEF Inv, TypeOK, Pairs
<1>5. Unjudged' /\ ThinIsKnown' /\ Drafted' /\ DraftIsHonest'
  BY <1>1 DEF Unjudged, Early, ThinIsKnown, Drafted, DraftIsHonest
<1>6. HonestReport'
  BY <1>1 DEF Unfinished, HonestReport
<1> QED
  BY <1>1, <1>4, <1>5, <1>6 DEF Inv

\* The conflicts.
LEMMA ContradictionDetectorKeeps == ASSUME Inv, ContradictionDetector PROVE Inv'
<1>1. /\ pc' = "debate" /\ pc' \in Nodes
      /\ steps' \in 0 .. RecursionLimit
      /\ OnBudget' /\ Unfinished'
  BY RunKeeps, Shape DEF ContradictionDetector, verdict
<1>2. UNCHANGED <<branches, retrieved, verified, sensitive, unknownRisk, draft,
                  cycle, failed, final>>
  BY DEF ContradictionDetector, research, analysis, verdict
<1>3. open' \in SUBSET Pairs(retrieved')
  BY <1>2 DEF ContradictionDetector, Pairs
<1>4. TypeOK'
  BY <1>1, <1>2, <1>3 DEF Inv, TypeOK
<1>5. Unjudged' /\ ThinIsKnown' /\ Drafted' /\ DraftIsHonest'
  BY <1>1 DEF Unjudged, Early, ThinIsKnown, Drafted, DraftIsHonest
<1>6. HonestReport'
  BY <1>1 DEF Unfinished, HonestReport
<1> QED
  BY <1>1, <1>4, <1>5, <1>6 DEF Inv

\* The decision.
LEMMA DecisionAnalystKeeps == ASSUME Inv, DecisionAnalyst PROVE Inv'
<1>1. /\ pc' = "risk_analyst" /\ pc' \in Nodes
      /\ steps' \in 0 .. RecursionLimit
      /\ OnBudget' /\ Unfinished'
  BY RunKeeps, Shape DEF DecisionAnalyst, verdict
<1>2. UNCHANGED <<branches, retrieved, verified, open, unknownRisk, draft,
                  cycle, failed, final>>
  BY DEF DecisionAnalyst, research, verdict
<1>3. sensitive' \in BOOLEAN
  BY DEF DecisionAnalyst
<1>4. TypeOK'
  BY <1>1, <1>2, <1>3 DEF Inv, TypeOK, Pairs
<1>5. Unjudged' /\ ThinIsKnown' /\ Drafted' /\ DraftIsHonest'
  BY <1>1 DEF Unjudged, Early, ThinIsKnown, Drafted, DraftIsHonest
<1>6. HonestReport'
  BY <1>1 DEF Unfinished, HonestReport
<1> QED
  BY <1>1, <1>4, <1>5, <1>6 DEF Inv

\* The risks: thin evidence has its own.
LEMMA RiskAnalystKeeps == ASSUME Inv, RiskAnalyst PROVE Inv'
<1>1. /\ pc' = "synthesizer" /\ pc' \in Nodes
      /\ steps' \in 0 .. RecursionLimit
      /\ OnBudget' /\ Unfinished'
  BY RunKeeps, Shape DEF RiskAnalyst, verdict
<1>2. UNCHANGED <<branches, retrieved, verified, open, sensitive, draft,
                  cycle, failed, final>>
  BY DEF RiskAnalyst, research, verdict
<1>3. /\ unknownRisk' \in BOOLEAN
      /\ Cardinality(retrieved) < ThinThreshold => unknownRisk'
  BY DEF RiskAnalyst
<1>4. TypeOK'
  BY <1>1, <1>2, <1>3 DEF Inv, TypeOK, Pairs
<1>5. Unjudged' /\ Drafted' /\ DraftIsHonest'
  BY <1>1 DEF Unjudged, Early, Drafted, DraftIsHonest
<1>6. ThinIsKnown'
  BY <1>2, <1>3 DEF ThinIsKnown
<1>7. HonestReport'
  BY <1>1 DEF Unfinished, HonestReport
<1> QED
  BY <1>1, <1>4, <1>5, <1>6, <1>7 DEF Inv

\* What a draft carries over from the state it is written from.
LEMMA DraftsAreGrounded ==
  ASSUME Inv, WriteDraft
  PROVE  /\ draft' \in Reports
         /\ draft'.verdicts = LatestVerdicts
         /\ sensitive => draft'.caveat
         /\ draft'.unknownRisk = unknownRisk
<1>1. PICK N \in SUBSET retrieved, worded \in BOOLEAN, level \in {"high", "low", "invalid"} :
        draft' = Draft(N, worded, level)
  BY DEF WriteDraft
<1>2. LatestVerdicts \in UNION {[S -> Verdicts \cup {"UNVERIFIED"}] : S \in SUBSET Claims}
  <2>1. ASSUME NEW c \in retrieved, verified # <<>>
        PROVE  verified[Len(verified)][c] \in Verdicts
    <3>1. verified \in Seq([retrieved -> Verdicts]) /\ Len(verified) \in 1 .. Len(verified)
      BY <2>1, LenProperties, EmptySeq DEF Inv, TypeOK
    <3>2. verified[Len(verified)] \in [retrieved -> Verdicts]
      BY <3>1, ElementOfSeq
    <3> QED
      BY <3>2
  <2>2. LatestVerdicts \in [retrieved -> Verdicts \cup {"UNVERIFIED"}]
    BY <2>1 DEF LatestVerdicts
  <2>3. retrieved \in SUBSET Claims
    BY DEF Inv, TypeOK
  <2> QED
    BY <2>2, <2>3
<1>3. N \in SUBSET Claims
  BY <1>1 DEF Inv, TypeOK
<1>4. (worded \/ N # {} \/ sensitive) \in BOOLEAN
  OBVIOUS
<1>5. unknownRisk \in BOOLEAN
  BY DEF Inv, TypeOK
<1>6. draft' \in Reports
  BY <1>1, <1>2, <1>3, <1>4, <1>5 DEF Reports, Draft
<1>7. draft'.verdicts = LatestVerdicts /\ draft'.unknownRisk = unknownRisk
  BY <1>1 DEF Draft
<1>8. draft'.caveat = (worded \/ N # {} \/ sensitive)
  BY <1>1, Zenon DEF Draft
<1>9. sensitive => draft'.caveat
  BY <1>8, Zenon
<1> QED
  BY <1>6, <1>7, <1>9

\* The report, written anew.
LEMMA SynthesizerKeeps == ASSUME Inv, Synthesizer PROVE Inv'
<1>1. /\ pc = "synthesizer" /\ pc' = "verification_gate" /\ pc' \in Nodes
      /\ steps' \in 0 .. RecursionLimit
      /\ OnBudget' /\ Unfinished'
  BY RunKeeps, Shape DEF Synthesizer, verdict
<1>2. UNCHANGED <<branches, retrieved, verified, open, sensitive, unknownRisk,
                  cycle, failed, final>>
  BY DEF Synthesizer, research, analysis, verdict
<1>3. /\ draft' \in Reports
      /\ draft'.verdicts = LatestVerdicts
      /\ sensitive => draft'.caveat
      /\ draft'.unknownRisk = unknownRisk
  BY DraftsAreGrounded DEF Synthesizer
<1>4. TypeOK'
  BY <1>1, <1>2, <1>3 DEF Inv, TypeOK, Pairs
<1>5. Unjudged'
  BY <1>1 DEF Unjudged, Early
<1>6. Drafted'
  BY <1>2, <1>3 DEF Drafted, LatestVerdicts
<1>7. ThinIsKnown'
  BY <1>1, <1>2 DEF Inv, ThinIsKnown
<1>8. DraftIsHonest'
  BY <1>1, <1>2, <1>3 DEF Inv, ThinIsKnown, DraftIsHonest
<1>9. HonestReport'
  BY <1>1 DEF Unfinished, HonestReport
<1> QED
  BY <1>1, <1>4, <1>5, <1>6, <1>7, <1>8, <1>9 DEF Inv

\* An agent that gives up.
LEMMA ModelRaisesKeeps == ASSUME Inv, ModelRaises PROVE Inv'
<1>1. /\ pc \in Nodes /\ pc' = "raised"
      /\ UNCHANGED <<branches, retrieved, verified, open, sensitive, unknownRisk,
                     draft, cycle, failed, final, steps>>
  BY DEF ModelRaises, research, analysis, verdict
<1>2. pc # "end" /\ pc' \notin Nodes
  BY <1>1, Shape
<1>3. TypeOK'
  BY <1>1 DEF Inv, TypeOK, Ended, Pairs
<1>4. OnBudget' /\ Unjudged' /\ ThinIsKnown' /\ Drafted' /\ DraftIsHonest'
  BY <1>1, <1>2 DEF OnBudget, Unjudged, Early, ThinIsKnown, Drafted, DraftIsHonest
<1>5. Unfinished' /\ HonestReport'
  BY <1>1, <1>2 DEF Inv, Unfinished, HonestReport
<1> QED
  BY <1>3, <1>4, <1>5 DEF Inv

\* What the gate finds fits into a report's list of defects.
LEMMA FailuresFit ==
  ASSUME Inv
  PROVE  FailedChecks \in SUBSET ({<<"claim", c>> : c \in Claims}
                              \cup {<<"contradiction", p>> : p \in Pairs(Claims)}
                              \cup {<<"confidence">>})
<1>1. retrieved \subseteq Claims /\ open \subseteq Pairs(retrieved)
  BY DEF Inv, TypeOK
<1>2. open \subseteq Pairs(Claims)
  BY <1>1, PairsGrow
<1>3. ClaimFailures \subseteq {<<"claim", c>> : c \in Claims}
  BY <1>1 DEF ClaimFailures
<1>4. ContradictionFailures \subseteq {<<"contradiction", p>> : p \in Pairs(Claims)}
  BY <1>2 DEF ContradictionFailures
<1>5. UncertaintyFailures \subseteq {<<"confidence">>}
  BY DEF UncertaintyFailures
<1> QED
  BY <1>3, <1>4, <1>5 DEF FailedChecks

\* A claim the last round refuted is acknowledged, or the gate finds it.
LEMMA RefutedIsFound ==
  ASSUME Inv, NEW c \in retrieved, Refuted(c), c \notin draft.named
  PROVE  <<"claim", c>> \in FailedChecks
<1>1. Len(verified) \in 1 .. Len(verified) /\ verified[Len(verified)][c] = "refuted"
  BY LenProperties DEF Refuted, Inv, TypeOK
<1> QED
  BY <1>1 DEF FailedChecks, ClaimFailures

\* What passes the gate, and what leaves at the cap, is honest.
LEMMA GateIsHonest ==
  ASSUME Inv, VerificationGate
  PROVE  HonestReport'
<1>1. /\ pc = "verification_gate" /\ draft \in Reports
      /\ sensitive => draft.caveat
      /\ Cardinality(retrieved) < ThinThreshold => draft.unknownRisk
      /\ failed' = FailedChecks
      /\ UNCHANGED <<retrieved, verified, open, sensitive>>
  BY DEF VerificationGate, Inv, Drafted, DraftIsHonest, research, analysis
<1>2. \A c \in retrieved : Refuted(c)' <=> Refuted(c)
  BY <1>1 DEF Refuted
<1>3. \A p \in open : <<"contradiction", p>> \in FailedChecks
  BY DEF FailedChecks, ContradictionFailures
<1>4. CASE failed' = {} /\ final' = draft
  <2>1. \A c \in retrieved : Refuted(c) => c \in draft.named
    BY <1>1, <1>4, RefutedIsFound
  <2>2. open = {}
    BY <1>1, <1>3, <1>4
  <2>3. draft.confidence \in {"high", "low", "invalid"}
    BY <1>1 DEF Reports
  <2>4. draft.confidence = "high" \/ draft.caveat
    BY <1>1, <1>4, <2>3 DEF FailedChecks, UncertaintyFailures
  <2> QED
    BY <1>1, <1>2, <1>4, <2>1, <2>2, <2>4 DEF HonestReport
<1>5. CASE final' = WithIssues(draft, failed')
  <2>1. /\ final'.named = draft.named /\ final'.caveat = TRUE
        /\ final'.issues = failed' /\ final'.unknownRisk = draft.unknownRisk
    BY <1>1, <1>5 DEF WithIssues, Reports
  <2>2. \A c \in retrieved : Refuted(c) => c \in final'.named \/ <<"claim", c>> \in final'.issues
    BY <1>1, <2>1, RefutedIsFound
  <2> QED
    BY <1>1, <1>2, <1>3, <2>1, <2>2 DEF HonestReport
<1>6. CASE final' = final
  BY <1>1, <1>6 DEF Inv, Unfinished, HonestReport
<1> QED
  BY <1>4, <1>5, <1>6 DEF VerificationGate

\* A judgement: accepted, shipped at the cap, or sent back.
LEMMA VerificationGateKeeps == ASSUME Inv, VerificationGate PROVE Inv'
<1>1. /\ pc = "verification_gate" /\ pc \in Nodes
      /\ steps < RecursionLimit /\ steps' = steps + 1 /\ cycle' = cycle + 1
      /\ UNCHANGED <<branches, retrieved, verified, open, sensitive, unknownRisk, draft>>
  BY Shape DEF VerificationGate, research, analysis
<1>2. /\ cycle < MaxCycles /\ steps <= 8 * cycle + 11
      /\ draft \in Reports /\ draft.verdicts = LatestVerdicts
      /\ final = None
  BY <1>1 DEF Inv, OnBudget, Offset, Drafted, Unfinished
<1>3. \/ pc' = "end" /\ final' = draft
      \/ pc' = "end" /\ final' = WithIssues(draft, failed')
      \/ /\ pc' \in {"fact_checker", "synthesizer"} /\ ~CapReached(cycle')
         /\ final' = final
  BY DEF VerificationGate
<1>4. cycle' \in 0 .. MaxCycles /\ steps' \in 0 .. RecursionLimit
  BY <1>1, <1>2, GraphAssumption DEF Inv, TypeOK
<1>5. final' \in Reports \cup {None}
  <2>1. WithIssues(draft, failed') \in Reports
    BY <1>2, FailuresFit DEF WithIssues, Reports, VerificationGate
  <2> QED
    BY <1>2, <1>3, <2>1
<1>6. pc' \in {"end", "fact_checker", "synthesizer"}
  BY <1>3
<1>7. pc' \in Nodes \cup Ended
  BY <1>6, Shape DEF Ended
<1>8. TypeOK'
  BY <1>1, <1>4, <1>5, <1>7 DEF Inv, TypeOK, Pairs
<1>9. OnBudget'
  <2>1. CASE pc' = "end"
    BY <2>1, Shape DEF OnBudget
  <2>2. CASE pc' # "end"
    <3>1. cycle' < MaxCycles
      BY <1>1, <1>3, <2>2, GraphAssumption DEF CapReached, Inv, TypeOK
    <3>2. steps' <= 8 * cycle' + 4
      BY <1>1, <1>2, GraphAssumption DEF Inv, TypeOK
    <3>3. steps' <= 8 * cycle' + 10
      BY <1>1, <1>2, GraphAssumption DEF Inv, TypeOK
    <3>4. Offset["fact_checker"] = 4 /\ Offset["synthesizer"] = 10
      BY DEF Offset
    <3> QED
      BY <1>6, <2>2, <3>1, <3>2, <3>3, <3>4 DEF OnBudget
  <2> QED
    BY <2>1, <2>2
<1>10. Unjudged' /\ DraftIsHonest'
  BY <1>6 DEF Unjudged, Early, DraftIsHonest
<1>11. Unfinished'
  BY <1>2, <1>3 DEF Unfinished
<1>12. ThinIsKnown' /\ Drafted'
  BY <1>1, <1>2, <1>6 DEF Inv, ThinIsKnown, Drafted, LatestVerdicts
<1> QED
  BY <1>8, <1>9, <1>10, <1>11, <1>12, GateIsHonest DEF Inv

-----------------------------------------------------------------------------
(* The theorems.                                                           *)

\* The first state: nothing done, nothing known.
LEMMA InvInit == Init => Inv
<1> SUFFICES ASSUME Init PROVE Inv
  OBVIOUS
<1>1. verified \in Seq([retrieved -> Verdicts])
  BY EmptySeq DEF Init
<1>2. TypeOK
  <2>1. pc \in Nodes \cup Ended
    BY Shape DEF Init
  <2>2. cycle \in 0 .. MaxCycles /\ steps \in 0 .. RecursionLimit
    BY GraphAssumption DEF Init
  <2>3. sensitive \in BOOLEAN /\ unknownRisk \in BOOLEAN
    BY Zenon DEF Init
  <2> QED
    BY <1>1, <2>1, <2>2, <2>3 DEF Init, TypeOK
<1>3. OnBudget
  BY GraphAssumption DEF Init, OnBudget, Offset
<1>4. Unjudged /\ Unfinished /\ ThinIsKnown /\ Drafted /\ DraftIsHonest /\ HonestReport
  BY DEF Init, Unjudged, Unfinished, ThinIsKnown, Drafted, DraftIsHonest, HonestReport
<1> QED
  BY <1>2, <1>3, <1>4 DEF Inv

\* Every step keeps the invariant.
LEMMA InvStep == Inv /\ [Next]_vars => Inv'
<1> SUFFICES ASSUME Inv, [Next]_vars PROVE Inv'
  OBVIOUS
<1>1. CASE UNCHANGED vars
  BY <1>1 DEF vars, Inv, TypeOK, Pairs, Unjudged, OnBudget, Unfinished, ThinIsKnown,
     Drafted, DraftIsHonest, HonestReport, Refuted, LatestVerdicts
<1>2. ASSUME NEW q \in Questions, Researcher(q) PROVE Inv'
  BY <1>2, ResearcherKeeps
<1>3. CASE SourceEvaluator \/ EvidenceAnalyst \/ Debate \/ AssumptionAnalyst
  BY <1>3, AnnotateKeeps DEF SourceEvaluator, EvidenceAnalyst, Debate, AssumptionAnalyst
<1> QED
  BY <1>1, <1>2, <1>3, PlannerKeeps, FactCheckerKeeps, ContradictionDetectorKeeps,
     DecisionAnalystKeeps, RiskAnalystKeeps, SynthesizerKeeps, VerificationGateKeeps,
     ModelRaisesKeeps
  DEF Next, AgentStep

\* Every variable keeps its type, however many questions, results and cycles.
THEOREM GraphTypeCorrect == Spec => []TypeOK
<1>1. Inv => TypeOK
  BY DEF Inv
<1> QED
  BY <1>1, InvInit, InvStep, PTL DEF Spec

\* No judgement beyond the cap, and a run that is not over always has a
\* super-step left: the recursion limit ends none before its report.
THEOREM LimitsHold == Spec => []WithinLimits
<1>1. Inv => WithinLimits
  <2> SUFFICES ASSUME Inv PROVE WithinLimits
    OBVIOUS
  <2>1. cycle \in Nat /\ cycle <= MaxCycles /\ steps \in Nat
    BY GraphAssumption DEF Inv, TypeOK
  <2>2. \A n \in Nodes : Offset[n] \in 0 .. 11
    BY Shape DEF Offset
  <2> QED
    BY <2>1, <2>2, GraphAssumption DEF Inv, OnBudget, WithinLimits
<1> QED
  BY <1>1, InvInit, InvStep, PTL DEF Spec

\* No report is judged, or leaves the graph, that was written before the newest
\* verdict on one of its claims, however many rounds and ways back there were.
THEOREM LatestVerdictsUsed == Spec => []WrittenFromLatestVerdicts
<1>1. Inv => WrittenFromLatestVerdicts
  BY DEF Inv, Drafted, WrittenFromLatestVerdicts
<1> QED
  BY <1>1, InvInit, InvStep, PTL DEF Spec

\* The report that leaves the graph hides nothing the run knows.
THEOREM ReportIsHonest == Spec => []HonestReport
<1>1. Inv => HonestReport
  BY DEF Inv
<1> QED
  BY <1>1, InvInit, InvStep, PTL DEF Spec

-----------------------------------------------------------------------------
(* The refinement.                                                         *)

\* Under the invariant a step of the graph is a step of the loop, or none.
LEMMA StepRefines == Inv /\ [Next]_vars => [Loop!Next]_<<cycle, outcome>>
<1> SUFFICES ASSUME Inv, [Next]_vars PROVE [Loop!Next]_<<cycle, outcome>>
  OBVIOUS
<1>1. CASE UNCHANGED vars
  BY <1>1 DEF vars, outcome
<1>2. CASE VerificationGate
  <2>1. /\ pc = "verification_gate" /\ cycle < MaxCycles
        /\ cycle \in Nat /\ MaxCycles \in Nat /\ cycle' = cycle + 1
    BY <1>2, Shape, GraphAssumption DEF VerificationGate, Inv, OnBudget, TypeOK
  <2>2. outcome = "open"
    BY <2>1 DEF outcome
  <2>3. CASE failed' = {}
    <3>1. pc' = "end"
      BY <1>2, <2>3 DEF VerificationGate
    <3> QED
      BY <2>1, <2>2, <2>3, <3>1 DEF outcome, Loop!Next, Loop!Judge
  <2>4. CASE failed' # {} /\ CapReached(cycle')
    <3>1. pc' = "end"
      BY <1>2, <2>4 DEF VerificationGate
    <3>2. cycle' = MaxCycles
      BY <2>1, <2>4 DEF CapReached
    <3> QED
      BY <2>1, <2>2, <2>4, <3>1, <3>2 DEF outcome, Loop!Next, Loop!Judge
  <2>5. CASE failed' # {} /\ ~CapReached(cycle')
    <3>1. pc' \in {"fact_checker", "synthesizer"}
      BY <1>2, <2>5 DEF VerificationGate
    <3>2. cycle' # MaxCycles
      BY <2>1, <2>5 DEF CapReached
    <3> QED
      BY <2>1, <2>2, <3>1, <3>2 DEF outcome, Loop!Next, Loop!Judge
  <2> QED
    BY <2>3, <2>4, <2>5
<1>3. CASE ModelRaises
  <2>1. pc \in Nodes /\ pc' = "raised" /\ cycle' = cycle
    BY <1>3 DEF ModelRaises, verdict
  <2>2. outcome = "open" /\ outcome' = "raised"
    BY <2>1, Shape DEF outcome
  <2> QED
    BY <2>1, <2>2 DEF Loop!Next, Loop!GiveUp
<1>4. CASE AgentStep /\ ~VerificationGate
  <2>1. /\ pc \in Nodes /\ pc' \in Nodes /\ cycle' = cycle
    <3>1. ASSUME NEW q \in Questions, Researcher(q)
          PROVE  pc \in Nodes /\ pc' \in Nodes /\ cycle' = cycle
      BY <3>1, Shape DEF Researcher, Run, verdict
    <3> QED
      BY <1>4, <3>1, Shape
      DEF AgentStep, Planner, SourceEvaluator, EvidenceAnalyst, Debate,
          AssumptionAnalyst, Annotate, FactChecker, ContradictionDetector,
          DecisionAnalyst, RiskAnalyst, Synthesizer, Run, verdict
  <2>2. outcome = "open" /\ outcome' = "open"
    BY <2>1, Shape DEF outcome
  <2> QED
    BY <2>1, <2>2
<1> QED
  BY <1>1, <1>2, <1>3, <1>4 DEF Next

\* The graph is a bounded loop of verification.
THEOREM GraphImplementsLoop == Spec => ImplementsLoop
<1>1. Init => Loop!Init
  BY DEF Init, Loop!Init, outcome
<1> QED
  BY <1>1, InvInit, InvStep, StepRefines, PTL
  DEF Spec, ImplementsLoop, Loop!Spec, Loop!loopVars

-----------------------------------------------------------------------------
(* Why every run ends.                                                     *)

\* The super-steps a run can take, whatever LangGraph's limit allows.
MaxSteps == 4 + 8 * MaxCycles

\* The researchers are under way in their own super-step and in no other: the join
\* has waited for all of them.
Joined == pc \in Nodes => (pc = "researcher" <=> branches # {})

\* What a run has still before it: super-steps, each with a branch per question.
Left ==
  IF pc \in Ended THEN 0
  ELSE 1 + (MaxSteps - steps) * (Cardinality(Questions) + 1) + Cardinality(branches)

\* Nodes and ends are different places.
LEMMA EndsApart == Nodes \cap Ended = {}
BY Shape DEF Ended

\* No step leaves a join without branches or branches without a join.
LEMMA JoinedStep == Inv /\ Joined /\ [Next]_vars => Joined'
<1> SUFFICES ASSUME Inv, Joined, [Next]_vars PROVE Joined'
  OBVIOUS
<1>1. CASE Planner
  BY <1>1, Shape DEF Planner, Run, Joined
<1>2. ASSUME NEW q \in Questions, Researcher(q) PROVE Joined'
  <2>1. CASE branches' = {}
    BY <1>2, <2>1, Shape DEF Researcher, Run, Joined
  <2>2. CASE branches' # {}
    BY <1>2, <2>2 DEF Researcher, Joined
  <2> QED
    BY <2>1, <2>2
<1>3. ASSUME NEW n \in Nodes \ {"planner", "researcher", "verification_gate"},
             Run(n), UNCHANGED branches
      PROVE  Joined'
  <2>1. pc = n /\ pc' = Edge[n] /\ pc' # "researcher"
    BY <1>3, Shape DEF Run
  <2> QED
    BY <1>3, <2>1 DEF Joined
<1>4. CASE VerificationGate
  <2>1. pc = "verification_gate" /\ UNCHANGED branches
        /\ pc' \in {"end", "fact_checker", "synthesizer"}
    BY <1>4 DEF VerificationGate, research
  <2> QED
    BY <2>1, Shape DEF Joined
<1>5. CASE ModelRaises
  BY <1>5, Shape DEF ModelRaises, Joined
<1>6. CASE UNCHANGED vars
  BY <1>6 DEF vars, Joined
<1>7. CASE SourceEvaluator \/ EvidenceAnalyst \/ Debate \/ AssumptionAnalyst
  BY <1>3, <1>7, Shape
  DEF SourceEvaluator, EvidenceAnalyst, Debate, AssumptionAnalyst, Annotate, research
<1>8. CASE FactChecker \/ ContradictionDetector \/ DecisionAnalyst \/ RiskAnalyst \/ Synthesizer
  BY <1>3, <1>8, Shape
  DEF FactChecker, ContradictionDetector, DecisionAnalyst, RiskAnalyst, Synthesizer, research
<1> QED
  BY <1>1, <1>2, <1>4, <1>5, <1>6, <1>7, <1>8 DEF Next, AgentStep

\* So it is throughout.
LEMMA JoinedHolds == Spec => [](Inv /\ Joined)
<1>1. Init => Joined
  BY DEF Init, Joined
<1> QED
  BY <1>1, JoinedStep, InvInit, InvStep, PTL DEF Spec

\* Neither limit holds up a run that is not over: the node it is at may run within the
\* bound and within LangGraph's limit, and a join that is waited for has a branch to
\* wait for.
NotStuck ==
  pc \in Nodes =>
    /\ steps < MaxSteps /\ steps < RecursionLimit
    /\ pc = "researcher" => branches # {}

\* Whatever the models answer, neither limit stops a run before its end.
THEOREM RunsAreNotStuck == Spec => []NotStuck
<1>1. ASSUME Inv, Joined, pc \in Nodes
      PROVE  /\ steps < MaxSteps /\ steps < RecursionLimit
             /\ pc = "researcher" => branches # {}
  <2>1. Offset[pc] \in 0 .. 11
    BY <1>1, Shape DEF Offset
  <2>2. cycle < MaxCycles /\ steps <= 8 * cycle + Offset[pc]
    BY <1>1 DEF Inv, OnBudget
  <2>3. steps \in Nat /\ cycle \in Nat /\ MaxCycles \in Nat /\ RecursionLimit \in Nat
        /\ 4 + 8 * MaxCycles <= RecursionLimit
    BY <1>1, GraphAssumption DEF Inv, TypeOK
  <2>4. steps < MaxSteps
    BY <2>1, <2>2, <2>3 DEF MaxSteps
  <2> QED
    BY <1>1, <2>3, <2>4 DEF Joined, MaxSteps
<1>2. Inv /\ Joined => NotStuck
  BY <1>1 DEF NotStuck
<1> QED
  BY <1>2, JoinedHolds, PTL

\* One super-step is worth a branch per question, and one more.
LEMMA Worth ==
  ASSUME NEW a \in Nat, a > 0, NEW k \in Nat
  PROVE  a * k \in Nat /\ (a - 1) * k \in Nat /\ a * k = (a - 1) * k + k
<1>1. a - 1 \in Nat
  OBVIOUS
<1>2. a * k = (a - 1) * k + k
  OBVIOUS
<1>3. (a - 1) * k \in Nat /\ a * k \in Nat
  BY <1>1
<1> QED
  BY <1>2, <1>3

\* A run that is over has nothing left, any other something.
LEMMA LeftType ==
  ASSUME Inv
  PROVE  /\ Left \in Nat
         /\ pc \in Nodes => Left > 0 /\ MaxSteps - steps \in Nat
         /\ pc \in Ended => Left = 0
         /\ IsFiniteSet(branches) /\ Cardinality(branches) \in Nat
         /\ Cardinality(Questions) \in Nat /\ Cardinality(branches) <= Cardinality(Questions)
<1>1. /\ IsFiniteSet(branches) /\ Cardinality(branches) \in Nat
      /\ Cardinality(Questions) \in Nat /\ Cardinality(branches) <= Cardinality(Questions)
  BY GraphAssumption, FS_Subset, FS_CardinalityType DEF Inv, TypeOK
<1>2. CASE pc \in Ended
  BY <1>1, <1>2, EndsApart DEF Left
<1>3. CASE pc \in Nodes
  <2>1. Offset[pc] \in 0 .. 11
    BY <1>3, Shape DEF Offset
  <2>2. MaxSteps - steps \in Nat
    <3>1. cycle < MaxCycles /\ steps <= 8 * cycle + Offset[pc]
      BY <1>3 DEF Inv, OnBudget
    <3>2. cycle \in Nat /\ steps \in Nat /\ MaxCycles \in Nat
      BY GraphAssumption DEF Inv, TypeOK
    <3> QED
      BY <2>1, <3>1, <3>2 DEF MaxSteps
  <2> DEFINE room == (MaxSteps - steps) * (Cardinality(Questions) + 1)
  <2>3. room \in Nat
    BY <1>1, <2>2
  <2>4. Left = 1 + room + Cardinality(branches)
    BY <1>3, EndsApart DEF Left
  <2> HIDE DEF room
  <2> QED
    BY <1>1, <1>3, <2>2, <2>3, <2>4, EndsApart
<1> QED
  BY <1>1, <1>2, <1>3 DEF Inv, TypeOK

\* A super-step that leads to another node brings the end closer, even one that opens
\* a branch per question.
LEMMA StepShrinks ==
  ASSUME Inv, Inv', pc \in Nodes, pc' \in Nodes, steps' = steps + 1
  PROVE  Left' < Left
<1> DEFINE k == Cardinality(Questions) + 1
           a == MaxSteps - steps
           b == Cardinality(branches)
           c == Cardinality(branches')
<1>1. b \in Nat /\ a \in Nat
  BY LeftType
<1>2. c \in Nat /\ c < k /\ k \in Nat /\ MaxSteps - steps' \in Nat
  <2>1. IsFiniteSet(branches') /\ branches' \subseteq Questions
    BY GraphAssumption, FS_Subset DEF Inv, TypeOK
  <2>2. c \in Nat /\ Cardinality(Questions) \in Nat /\ c <= Cardinality(Questions)
    BY <2>1, GraphAssumption, FS_Subset, FS_CardinalityType
  <2>3. Offset[pc'] \in 0 .. 11
    BY Shape DEF Offset
  <2>4. cycle' < MaxCycles /\ steps' <= 8 * cycle' + Offset[pc']
    BY DEF Inv, OnBudget
  <2>5. cycle' \in Nat /\ steps' \in Nat /\ MaxCycles \in Nat
    BY GraphAssumption DEF Inv, TypeOK
  <2>6. MaxSteps - steps' \in Nat
    BY <2>3, <2>4, <2>5 DEF MaxSteps
  <2> QED
    BY <2>2, <2>6
<1>3. steps \in Nat /\ MaxSteps \in Nat
  BY GraphAssumption DEF Inv, TypeOK, MaxSteps
<1>4. MaxSteps - steps' = a - 1 /\ a > 0
  BY <1>1, <1>2, <1>3
<1>5. Left = 1 + a * k + b
  BY EndsApart DEF Left
<1>6. Left' = 1 + (a - 1) * k + c
  <2>1. Left' = 1 + (MaxSteps - steps') * k + c
    BY EndsApart DEF Left, MaxSteps
  <2> QED
    BY <1>4, <2>1
<1> HIDE DEF a, k, b, c
<1>7. a * k \in Nat /\ (a - 1) * k \in Nat /\ a * k = (a - 1) * k + k
  BY <1>1, <1>2, <1>4, Worth
<1> QED
  BY <1>1, <1>2, <1>5, <1>6, <1>7

\* Each step of a run brings its end closer: a branch of the fan-out that joins, a
\* node that runs, and an agent that gives up.  A run takes no more than the steps of
\* a first pass and MaxCycles - 1 ways back, and a branch per question.
RunsGetShorter == [][Left' < Left]_vars

\* The part of EveryRunEnds that is not fairness: no run can go on for ever.
THEOREM EveryStepCounts == Spec => RunsGetShorter
<1>1. ASSUME Inv, Inv', [Next]_vars PROVE [Left' < Left]_vars
  <2>1. ASSUME pc \in Nodes, pc' \in Ended PROVE Left' < Left
    <3>1. Left > 0 /\ Left' = 0
      BY <1>1, <2>1, LeftType, EndsApart DEF Left
    <3> QED
      BY <3>1
  <2>2. ASSUME NEW n \in Nodes \ {"verification_gate"}, Run(n) PROVE Left' < Left
    <3>1. pc \in Nodes /\ pc' \in Nodes /\ steps' = steps + 1
      BY <2>2, OneFurther DEF Run
    <3> QED
      BY <1>1, <3>1, StepShrinks
  <2>3. ASSUME NEW q \in Questions, Researcher(q) PROVE Left' < Left
    <3>1. CASE branches' = {}
      BY <2>2, <2>3, <3>1, Shape DEF Researcher
    <3>2. CASE branches' # {}
      <4>1. /\ UNCHANGED <<pc, steps>> /\ pc \in Nodes
            /\ branches' = branches \ {q} /\ q \in branches
        BY <2>3, <3>2, Shape DEF Researcher
      <4>2. Cardinality(branches') = Cardinality(branches) - 1
        BY <1>1, <4>1, LeftType, FS_RemoveElement
      <4> DEFINE room == (MaxSteps - steps) * (Cardinality(Questions) + 1)
      <4>3. room \in Nat /\ Cardinality(branches) \in Nat
        BY <1>1, <4>1, LeftType
      <4>4. Left = 1 + room + Cardinality(branches) /\ Left' = 1 + room + Cardinality(branches')
        BY <4>1, EndsApart DEF Left, MaxSteps
      <4> HIDE DEF room
      <4> QED
        BY <4>2, <4>3, <4>4
    <3> QED
      BY <3>1, <3>2
  <2>4. CASE VerificationGate
    <3>1. /\ pc \in Nodes /\ steps' = steps + 1
          /\ pc' = "end" \/ pc' \in {"fact_checker", "synthesizer"}
      BY <2>4, Shape DEF VerificationGate
    <3> QED
      BY <1>1, <2>1, <3>1, StepShrinks, Shape DEF Ended
  <2>5. CASE ModelRaises
    BY <2>1, <2>5 DEF ModelRaises, Ended
  <2>6. CASE Planner \/ FactChecker \/ ContradictionDetector \/ DecisionAnalyst \/ RiskAnalyst
             \/ Synthesizer
    BY <2>2, <2>6, Shape
    DEF Planner, FactChecker, ContradictionDetector, DecisionAnalyst, RiskAnalyst, Synthesizer
  <2>7. CASE SourceEvaluator \/ EvidenceAnalyst \/ Debate \/ AssumptionAnalyst
    BY <2>2, <2>7, Shape
    DEF SourceEvaluator, EvidenceAnalyst, Debate, AssumptionAnalyst, Annotate
  <2> QED
    BY <1>1, <2>3, <2>4, <2>5, <2>6, <2>7 DEF Next, AgentStep
<1>2. Inv /\ [Next]_vars => Inv'
  BY InvStep
<1>3. Inv /\ [Next]_vars => [Left' < Left]_vars
  BY <1>1, <1>2
<1> QED
  BY <1>3, InvInit, InvStep, PTL DEF Spec, RunsGetShorter

=============================================================================

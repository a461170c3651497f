-------------------------- MODULE DecisionAnalysis -------------------------
(***************************************************************************)
(* The arithmetic of the decision: the Decision Analyst's weighted totals  *)
(* and recommendation (agents/decision_analyst.py) and the sensitivity     *)
(* analysis that perturbs every weight by 20 % (decision/sensitivity.py).  *)
(*                                                                         *)
(* Weights and judgments come from language models and may be anything.    *)
(* The code divides in floating point; here every comparison is made over  *)
(* a common denominator, so the numbers are integers and exact.            *)
(* Alternatives and criteria are named by their places in the plan.        *)
(***************************************************************************)
EXTENDS Integers, FiniteSets

CONSTANTS
  Alternatives,     \* 1 .. n, in plan order; may be empty
  Criteria,         \* 1 .. m
  Weights,          \* the weights a planner may return, criterion -> weight
  Scores,           \* _ScoreJudgment.score, as the model returns it
  NoJudgment,       \* the model did not judge the pair
  NoDecision

ASSUME DecisionAssumption ==
  /\ IsFiniteSet(Alternatives) /\ Alternatives = 1 .. Cardinality(Alternatives)
  /\ IsFiniteSet(Criteria) /\ Criteria = 1 .. Cardinality(Criteria)
  /\ Weights \subseteq [Criteria -> Int] /\ Scores \subseteq Int

VARIABLES
  weight,           \* criterion -> weight
  score,            \* alternative, criterion -> AlternativeScore.score
  decision          \* the recommended alternative and what each swing recommends

decisionVars == <<weight, score, decision>>

Pairs    == Alternatives \X Criteria
Neutral  == 5
MaxScore == 10

DecisionInit ==
  /\ weight = [c \in Criteria |-> 0]
  /\ score = [p \in Pairs |-> Neutral]
  /\ decision = NoDecision

\* The sum of f over the criteria.
SumOf(f) ==
  LET upTo[c \in {0} \cup Criteria] == IF c = 0 THEN 0 ELSE upTo[c - 1] + f[c]
  IN  upTo[Cardinality(Criteria)]

\* Broken variant: weights are summed as they come.
RawWeightSigned(w) == w

RawWeight(w) == IF w > 0 THEN w ELSE 0

\* normalize_weights: the shares of the criteria, as parts of their sum; equal
\* shares if no weight is positive.
NormalizedWeights(w) ==
  IF \A c \in Criteria : RawWeight(w[c]) <= 0 THEN [c \in Criteria |-> 1]
  ELSE [c \in Criteria |-> RawWeight(w[c])]

\* A swing is in tenths: -2 takes a fifth off the weight.  perturb_weights, over
\* the denominator 10 * total * others: the target is clipped to the whole, and
\* what it leaves is divided among the others in proportion; if they have no
\* weight, they get none.
PerturbedWeights(share, target, swing) ==
  LET total  == SumOf(share)
      others == total - share[target]
      least(a, b) == IF a < b THEN a ELSE b
      new    == least(10 * total, share[target] * (10 + swing))
  IN  [c \in Criteria |->
         IF c = target THEN IF others > 0 THEN new * others ELSE new
         ELSE IF others > 0 THEN share[c] * (10 * total - new) ELSE 0]

\* compute_weighted_totals.
WeightedTotals(share, s) ==
  [a \in Alternatives |-> SumOf([c \in Criteria |-> share[c] * s[<<a, c>>]])]

\* pick_recommended: the largest total, the first in plan order among equals.
PickRecommended(totals) ==
  CHOOSE a \in Alternatives :
     \A b \in Alternatives : totals[b] < totals[a] \/ (totals[b] = totals[a] /\ a <= b)

\* The score of a judgment: clamped, and neutral where there is none.
Clamped(j) ==
  IF j = NoJudgment THEN Neutral
  ELSE IF j < 0 THEN 0 ELSE IF j > MaxScore THEN MaxScore ELSE j

\* Broken variant: the weights are only raised.
SwingsUpOnly(swing) == {swing}

\* run_sensitivity swings every weight both ways.
Swings(swing) == {swing, -swing}

\* What each swing of that size recommends.
Sensitivity(share, s, swing) ==
  [x \in Criteria \X Swings(swing) |->
     PickRecommended(WeightedTotals(PerturbedWeights(share, x[1], x[2]), s))]

DefaultPerturbation == 2

\* decision_analyst.run, once the model has answered.  Without alternatives or
\* criteria the model is not asked and nothing is weighed.
Analyse(w, judgments) ==
  /\ decision = NoDecision
  /\ weight' = w
  /\ IF Alternatives = {} \/ Criteria = {}
     THEN /\ score' = score
          /\ decision' = [recommended |-> IF Alternatives = {} THEN 0 ELSE 1,
                          perturbed |-> <<>>]
     ELSE LET s     == [p \in Pairs |-> Clamped(judgments[p])]
              share == NormalizedWeights(w)
          IN  /\ score' = s
              /\ decision' = [recommended |-> PickRecommended(WeightedTotals(share, s)),
                              perturbed |-> Sensitivity(share, s, DefaultPerturbation)]

DecisionNext ==
  \E w \in Weights, j \in [Pairs -> Scores \cup {NoJudgment}] : Analyse(w, j)

DecisionSpec == DecisionInit /\ [][DecisionNext]_decisionVars

----------------------------------------------------------------------------
(* Properties *)

Decided == decision # NoDecision /\ decision.perturbed # <<>>

\* Every alternative the analysis recommends, for the weights as they are or swung.
Recommended == {decision.recommended} \cup
               {decision.perturbed[x] : x \in DOMAIN decision.perturbed}

\* An alternative that another one beats on every criterion is never recommended,
\* neither at the outset nor after a swing, whatever weights the plan came with:
\* negative and zero weights leave no criterion counting backwards and never
\* leave all weights zero (decision_analyst.py:84-91, sensitivity.py:33-43).
DominatedNeverRecommended ==
  Decided => \A a \in Recommended, b \in Alternatives :
                \E c \in Criteria : score[<<a, c>>] >= score[<<b, c>>]

\* is_sensitive.
IsSensitive(perturbed) == \E x \in DOMAIN perturbed : perturbed[x] # decision.recommended

\* "Not sensitive" covers the weights between the swings that were tried: if no
\* swing of a fifth changes the recommendation, no smaller one does, so testing
\* the two ends is enough (sensitivity.py:69-90).
StableBetweenSwings ==
  Decided /\ ~ IsSensitive(decision.perturbed) =>
    ~ IsSensitive([x \in Criteria \X {1, -1} |->
         PickRecommended(WeightedTotals(
            PerturbedWeights(NormalizedWeights(weight), x[1], x[2]), score))])
============================================================================

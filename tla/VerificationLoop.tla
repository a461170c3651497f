-------------------------- MODULE VerificationLoop --------------------------
(***************************************************************************)
(* What backend/app/orchestration/graph.py promises about the checking of  *)
(* a report: it is judged at most MaxCycles times; it is accepted, or sent *)
(* back, or -- after the last judgement only -- shipped with its defects   *)
(* listed; and a run that is over stays over.  ResearchGraph implements    *)
(* this specification.                                                     *)
(***************************************************************************)
EXTENDS Naturals

CONSTANT MaxCycles      \* Settings.verification_max_cycles

VARIABLES
  cycle,                \* judgements so far
  outcome               \* "open", "accepted", "shipped" or "raised"

loopVars == <<cycle, outcome>>

Init == cycle = 0 /\ outcome = "open"

Judge ==
  /\ outcome = "open"
  /\ cycle < MaxCycles
  /\ cycle' = cycle + 1
  /\ outcome' \in {"accepted", IF cycle' = MaxCycles THEN "shipped" ELSE "open"}

\* An agent fails for good.
GiveUp ==
  /\ outcome = "open"
  /\ outcome' = "raised"
  /\ UNCHANGED cycle

Next == Judge \/ GiveUp

Spec == Init /\ [][Next]_loopVars

=============================================================================

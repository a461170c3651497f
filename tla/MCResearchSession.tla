---- MODULE MCResearchSession ----
(* Sessions that ask the same question of the same providers, so that a    *)
(* second one can be answered from the first one's cached result, and the  *)
(* cancel requests of one of them.                                         *)
EXTENDS ResearchSession

CONSTANTS theKey, theSession

OneKey     == {theKey}
SameKey    == [s \in Sessions |-> theKey]
AllForOne  == [c \in Cancels |-> theSession]
====

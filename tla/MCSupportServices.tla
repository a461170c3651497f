------------------------- MODULE MCSupportServices -------------------------
(* Values for the constants of SupportServices that are no model values.   *)
EXTENDS SupportServices

\* Two cancels of one of the sessions.
MCCancels == {<<CHOOSE s \in Sessions : TRUE, n>> : n \in 1 .. 2}

\* Versions of a document: one chunk, two, one in other words, none.
MCTexts == << <<{"t1"}>>, <<{"t1", "t2"}, {"t2"}>>, <<{"t2"}>>, <<>> >>

MCAlternatives == 1 .. 2
MCCriteria     == 1 .. 3
MCScores       == {6, 12}

\* None, one, two or all weights positive, equal or not; how criteria are ordered
\* changes nothing in the code.
MCWeights ==
  {<<-1, 0, -1>>, <<0, 0, 3>>, <<-3, 1, 1>>, <<0, 1, 1>>, <<1, 1, 3>>, <<1, 3, 3>>, <<17, 9, 9>>}
============================================================================

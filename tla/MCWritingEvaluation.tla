------------------------ MODULE MCWritingEvaluation ------------------------
(* TLC instances of WritingEvaluation: workers and requests are            *)
(* interchangeable; the required words and the answers that can be damaged *)
(* differ from run to run.                                                 *)
EXTENDS WritingEvaluation, TLC

Symmetry == Permutations(Workers) \cup Permutations(Handlers)

NoAnswers == {}
FirstAnswer == {<<1, 1>>}

NoWords == {}
\* Two words: the rewrite of unit 1 loses one, the rewrite of unit 2 brings
\* the other. A torn read sees both where no set of versions ever had them.
TwoWords == {{<<1, 1>>}, {<<2, 2>>}}
=============================================================================

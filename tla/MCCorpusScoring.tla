--------------------------- MODULE MCCorpusScoring ---------------------------
(* An instance of CorpusScoring for TLC: two protocols with a common first   *)
(* trial, one of them also scored by another model.                          *)
EXTENDS CorpusScoring, TLC

CONSTANTS t1, t2, t3, t4, aasist, retrained

SomeExperiments ==
    {[model |-> aasist, trials |-> <<t1, t2, t3>>],
     [model |-> retrained, trials |-> <<t1, t2, t3>>],
     [model |-> aasist, trials |-> <<t1, t4>>]}

RunSymmetry == Permutations(Runs)
=============================================================================

--------------------------- MODULE MCKeywordIndex ---------------------------
(***************************************************************************)
(* Small instances of KeywordIndex for TLC.  A run looks at several        *)
(* writers of one id and at one writer of several: the initial state picks. *)
(***************************************************************************)
EXTENDS KeywordIndex, TLC

CONSTANTS i1, i2, w1, w2, s1,
  Scenarios     \* some of "oneId", "oneWriter" and "any"

VARIABLE scenario

Symmetry == Permutations({i1, i2}) \cup Permutations({w1, w2})

WithinScenario ==
  /\ scenario = "oneId" => \A w \in Writers : wid'[w] \in {NoId, i1}
  /\ scenario = "oneWriter" => \A w \in Writers \ {w1} : wpc'[w] = "idle"

MCInit == Init /\ scenario \in Scenarios

MCNext == Next /\ WithinScenario /\ UNCHANGED scenario

MCSpec == MCInit /\ [][MCNext]_<<vars, scenario>>

MCFairSpec == MCSpec /\ Fairness
=============================================================================

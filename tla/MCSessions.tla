----------------------------- MODULE MCSessions -----------------------------
(***************************************************************************)
(* Small instances of Sessions for TLC.  A scenario bounds who logs in     *)
(* from where, so that one run looks at many users behind one address and  *)
(* at one user who moves.                                                  *)
(***************************************************************************)
EXTENDS Sessions, TLC

CONSTANTS c1, c2, c3, u1, u2, u3, a1, a2,
  Scenarios     \* some of "oneAddress", "oneUser" and "any"

VARIABLES
  scenario,
  hero          \* the one user of "oneUser"

NoPairs == {}
Moves == {<<a1, a2>>}

Symmetry == Permutations({c1, c2, c3})

UserSymmetry == Symmetry \cup Permutations({u1, u2, u3})

WithinScenario ==
  /\ scenario = "oneAddress" => \A c \in Conns : addr'[c] \in {NoAddr, a1}
  /\ scenario = "oneUser" => \A c \in Conns : user'[c] \in {NoUser, hero}

MCInit ==
  /\ Init
  /\ \/ scenario \in Scenarios \ {"oneUser"} /\ hero = NoUser
     \/ scenario \in Scenarios \cap {"oneUser"} /\ hero \in Users

MCNext == Next /\ WithinScenario /\ UNCHANGED <<scenario, hero>>

MCSpec == MCInit /\ [][MCNext]_<<vars, scenario, hero>>

MCFairSpec == MCSpec /\ Fairness
=============================================================================

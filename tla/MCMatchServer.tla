---------------------------- MODULE MCMatchServer ----------------------------
(* Small instances of MatchServer: one IN and one OUT, and two INs that    *)
(* serve the same OUT.  An IN has one handler more than it needs, so that  *)
(* starting a second one for the OUT is possible.                          *)
EXTENDS MatchServer, TLC

CONSTANTS in1, in2, h1, h2, h3

OneIn == [h \in Handlers |-> in1]
TwoIns == [h \in Handlers |-> IF h = h3 THEN in2 ELSE in1]

(* Keys, tunnel ids and the two handlers of the first IN differ from one   *)
(* another only by name.                                                   *)
Symmetry ==
  Permutations(Keys) \cup Permutations(Tunnels) \cup Permutations({h1, h2})
=============================================================================

------------------------------ MODULE MCSimplex ------------------------------
(* Simplex on small instances: 3F + 1 nodes, the adversary of a scenario of
   naughty.rs, and a leader oracle given by a table.                       *)
EXTENDS Simplex
CONSTANTS Scenario, FirstLeader
(* Capitulation corrupts F + 1 nodes; here one less, as many as tolerated. *)
MCBehavior == AssignBehaviors(Scenario, IF Scenario = "Capitulation" THEN F - 1 ELSE F)
(* A stand-in for SHA-256 modulo n: FirstLeader leads the first view, and the
   seeds that the ways out of a view leave elect different nodes.          *)
MCElect(s) ==
  LET outcome == CASE s = GenesisSeed       -> 0
                   [] s.block = Genesis     -> 3
                   [] OTHER -> IF Last(s.block).payload = "block" THEN 1 ELSE 2
  IN  ((FirstLeader - 1 + s.view - (IF s.view = 0 THEN 0 ELSE 1) + outcome) % N) + 1
=============================================================================

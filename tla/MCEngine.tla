------------------------------ MODULE MCEngine ------------------------------
(* The simulator on 4 nodes with every sequence of leaders, and its comparison
   with Simplex.                                                           *)
EXTENDS SimplexEngine

(* A stand-in for SHA-256 modulo n: any node for a view, and with it the next ones
   for the other ways out of the view before.                              *)
MCOracles == [0..Rounds - 1 -> Node]
MCElect(o, s) ==
  LET outcome == CASE s.block = Genesis -> 0
                   [] OTHER -> IF Last(s.block).payload = "block" THEN 1 ELSE 2
  IN  ((o[s.view % Rounds] - 1 + outcome) % N) + 1

(* The replicas over the asynchronous network, for the presets and the leaders of
   a run. No bound of Simplex is reached within the rounds.                 *)
For(presets, o) == INSTANCE EngineOverSimplex WITH Presets <- presets, Oracle <- o

(* Each step of the engine is a step of Simplex for the same adversary and the same
   leaders, or leaves the replicas and what was signed alone: the vote lists of a
   replica hold what Simplex says they may, in the order in which a queue
   delivers them.                                                          *)
ImplementsSimplex ==
  /\ \A presets \in {behavior}, o \in {oracle} : Tolerated => For(presets, o)!Async!Init
  /\ [][\A presets \in {behavior}, o \in {oracle} :
          Tolerated => [For(presets, o)!Async!Next]_(For(presets, o)!Async!vars)]_vars
=============================================================================

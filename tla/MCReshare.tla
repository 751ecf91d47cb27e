------------------------------ MODULE MCReshare ------------------------------
(***************************************************************************)
(* Constants for the run of Reshare: the demo's resharing to a smaller     *)
(* committee and then to a larger one, without a fault; a resharing to as  *)
(* many members, by one that deals twice or leaves a member out; and one   *)
(* to fewer members, with every other fault.                               *)
(***************************************************************************)
EXTENDS Reshare

MCShrinkThenGrow == <<[n |-> 3, t |-> 2], [n |-> 2, t |-> 2], [n |-> 4, t |-> 3]>>
MCTwoLeft        == <<[n |-> 3, t |-> 2], [n |-> 2, t |-> 2]>>
MCSameSize       == <<[n |-> 2, t |-> 2], [n |-> 2, t |-> 2]>>

MCSetups ==
  {[committees |-> MCShrinkThenGrow, draws |-> {1, 3}, faults |-> {"none"}],
   [committees |-> MCSameSize, draws |-> {0, 2}, faults |-> {"Twice", "Missing"}],
   [committees |-> MCTwoLeft, draws |-> {2}, faults |-> Kinds \ {"Twice"}]}

MCIdentityKey(role, p, i) == IF role = "old" THEN (i + p) % P ELSE (2 * i + p) % P

(* A hash of the shared key and the message that depends on both.          *)
MCPadHash(k, msg) == (k * k + 3 * k + msg) % P
=============================================================================

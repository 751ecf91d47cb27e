------------------------------- MODULE Naughty -------------------------------
(***************************************************************************)
(* The adversary presets of simplex-consensus/src/sim/naughty.rs.          *)
(*                                                                         *)
(* Every node, naughty or not, runs the same replica code; a preset only   *)
(* filters what the replica sends (filter_outgoing, naughty.rs:293-324):   *)
(* drops it, swaps the proposal for a second block, or adds a second vote. *)
(* A block is the sequence of the entries of the blocks it commits to      *)
(* (see Simplex), so the two blocks of an equivocation differ in the       *)
(* payload of their last entry.                                            *)
(***************************************************************************)
EXTENDS Integers, SequencesExt

CONSTANTS
  N,         \* NetworkConfig.n; the nodes are 1..N
  Behavior   \* Behavior[r]: the preset of node r (ConsensusEngine.behaviors)

Node == 1..N

Behaviors == {"Honest", "SilentLeader", "EquivocatingLeader", "FakeLeader",
              "NonVoter", "Colluding", "FullAttack", "Capitulator"}

Honest == {r \in Node : Behavior[r] = "Honest"}

(* What node r does with its proposal for view h, when elected: should_propose
   with is_elected_leader, which is how filter_proposal always calls it.   *)
ProposalAction(r, h) ==
  CASE Behavior[r] \in {"Honest", "NonVoter"}                -> "Propose"
    [] Behavior[r] \in {"SilentLeader", "Colluding"}         -> "Skip"
    [] Behavior[r] \in {"EquivocatingLeader", "Capitulator"} -> "Equivocate"
    [] Behavior[r] = "FakeLeader"                            -> "FakePropose"
    [] Behavior[r] = "FullAttack" -> <<"Skip", "Equivocate", "Propose">>[(h % 3) + 1]

VoteAction(r, h) ==
  CASE Behavior[r] \in {"Honest", "SilentLeader", "EquivocatingLeader", "FakeLeader"} -> "Vote"
    [] Behavior[r] = "NonVoter"                   -> "Abstain"
    [] Behavior[r] \in {"Colluding", "Capitulator"} -> "DoubleVote"
    [] Behavior[r] = "FullAttack" -> <<"Abstain", "DoubleVote", "Vote">>[(h % 3) + 1]

(* The second block of an equivocation: same view, parent and proposer.    *)
Equivocation(b) ==
  Append(Front(b), [view |-> Last(b).view, payload |-> "equivocation",
                    proposer |-> Last(b).proposer])

(* The proposal messages that leave node r when its replica proposes b in
   view h. An equivocation sends b to the peers at even indices of the node
   list, i.e. odd identifiers, and the other block to the rest.            *)
FilterProposal(r, h, b) ==
  LET copy(p) == IF ProposalAction(r, h) = "Equivocate" /\ p % 2 = 0
                 THEN Equivocation(b) ELSE b
  IN  {[to |-> p, block |-> copy(p)] :
         p \in {q \in Node \ {r} : ProposalAction(r, h) # "Skip"}}

(* A naughty node withholds its votes when it abstains.                    *)
Withholds(r, h) == VoteAction(r, h) = "Abstain"

(* The votes node r signs when its replica votes for b; `hashes` are the
   blocks the simulator has seen proposed in that view. Only for a Capitulator
   is a second vote ever forged (engine.rs:281-309).                       *)
SignVotes(r, b, hashes) ==
  {[signer |-> r, block |-> c] :
     c \in {b} \cup (IF Behavior[r] = "Capitulator" THEN hashes ELSE {})}

AllScenarios == {"Happy", "SilentLeader", "Equivocation", "FakeLeader", "NonVoter",
                 "FullAttack", "Capitulation"}

(* The last ids are the naughty ones; `Capitulation` corrupts one more node
   than the protocol tolerates.                                            *)
AssignBehaviors(scenario, faults) ==
  LET count == CASE scenario = "Happy" -> 0
                 [] scenario = "Capitulation" -> faults + 1
                 [] OTHER -> faults
      preset(r) ==
        CASE scenario = "SilentLeader" -> "SilentLeader"
          [] scenario = "Equivocation" -> "EquivocatingLeader"
          [] scenario = "FakeLeader" -> IF r = N - count + 1 THEN "FakeLeader" ELSE "Colluding"
          [] scenario = "NonVoter"     -> "NonVoter"
          [] scenario = "FullAttack"   -> "FullAttack"
          [] scenario = "Capitulation" -> "Capitulator"
  IN  [r \in Node |-> IF r > N - count THEN preset(r) ELSE "Honest"]
=============================================================================

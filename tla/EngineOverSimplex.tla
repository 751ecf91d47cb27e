------------------------- MODULE EngineOverSimplex -------------------------
(***************************************************************************)
(* The simulator's replicas as those of Simplex, for presets Presets and   *)
(* the leaders of Oracle: what Simplex keeps about a replica is a field of *)
(* its record, and what was sent over its network is what the engine's     *)
(* history says was signed. The engine's queue is then one schedule of     *)
(* that network. The oracle of Simplex is the engine's, and its bounds     *)
(* are never reached within the rounds.                                    *)
(***************************************************************************)
EXTENDS SimplexEngine

CONSTANTS
  Presets,    \* the preset of each node
  Oracle      \* what stands for the hash of a seed

EachOf(field) == [r \in Node |-> replica[r][field]]

Async == INSTANCE Simplex WITH
  Behavior <- Presets, Elect <- LAMBDA s : Elect(Oracle, s),
  MaxView <- Rounds, MaxDummyVotes <- N * Rounds,
  view <- EachOf("view"), tip <- EachOf("tip"), seed <- EachOf("seed"),
  voted_block <- EachOf("voted_block"), dummy_sent <- EachOf("dummy_sent"),
  known_blocks <- EachOf("known_blocks"),
  proposals <- signed.proposals, votes <- signed.votes, nullifies <- signed.nullifies,
  finalizes <- signed.finalizes, relays <- signed.relays, finalized <- signed.finalized
=============================================================================

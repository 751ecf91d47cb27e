------------------------------- MODULE Replica -------------------------------
(***************************************************************************)
(* One Simplex replica as a function from its state and a message to its   *)
(* next state, what it returns and what it sends: apply_message of         *)
(* golden-dkg/src/consensus/replica.rs, with the vote lists it keeps.      *)
(* Simplex has the same handlers over a network that may do anything; here *)
(* the lists are what was delivered, in that order.                        *)
(*                                                                         *)
(* Blocks and seeds are named as in Simplex: a block is the chain of the   *)
(* entries it commits to. A seed combines the first T signatures of a list *)
(* and depends on the message signed alone, unless a signer is counted     *)
(* twice. finalize_sent and notarized_in_view are set only on the way into *)
(* advance_view, which resets them; timer_fired goes with dummy_sent, and  *)
(* voted_in_view with voted_block.                                         *)
(***************************************************************************)
EXTENDS Integers, SequencesExt, FiniteSets

CONSTANTS
  N,   \* NetworkConfig.n; the nodes are 1..N
  T    \* NetworkConfig.t: the votes of a quorum

ASSUME QuorumAssumption == T \in Nat

Genesis     == <<>>
ViewOf(b)   == Last(b).view
Parent(b)   == Front(b)

GenesisSeed   == [view |-> 0, block |-> Genesis]
NotarySeed(b) == [view |-> ViewOf(b), block |-> b]
DummySeed(h)  == [view |-> h, block |-> Genesis]

NewReplica ==
  [view |-> 1, tip |-> Genesis, seed |-> GenesisSeed,
   voted_block |-> Genesis, dummy_sent |-> FALSE, known_blocks |-> {},
   notarize_votes |-> <<>>, nullify_votes |-> <<>>, finalize_votes |-> <<>>,
   finalized_count |-> 0, nullified_count |-> 0]

Pending == [kind |-> "Pending"]
Rejected(reason) == [kind |-> "Rejected", reason |-> reason]

(* What a handler returns: the next state, the transition, what it sends.  *)
Result(s, transition, out) == [state |-> s, transition |-> transition, out |-> out]
Ignored(s) == Result(s, Pending, <<>>)

(* The map of votes by block.                                              *)
VotesFor(s, b) == IF b \in DOMAIN s.notarize_votes THEN s.notarize_votes[b] ELSE <<>>
Push(s, b, signer) ==
  [s EXCEPT !.notarize_votes =
     [c \in (DOMAIN @) \cup {b} |-> IF c = b THEN Append(VotesFor(s, b), signer) ELSE @[c]]]

-----------------------------------------------------------------------------
AdvanceView(s) ==
  [s EXCEPT !.view = @ + 1, !.voted_block = Genesis, !.dummy_sent = FALSE,
            !.known_blocks = {}, !.notarize_votes = <<>>, !.nullify_votes = <<>>,
            !.finalize_votes = <<>>]

Relay(b) == [kind |-> "RelayNotarization", view |-> ViewOf(b), block |-> b]

NotarizedIgnoringTimer(s, b) ==   \* mutant: finalizes after the timer fired
  Result([AdvanceView(s) EXCEPT !.tip = b],
         [kind |-> "Notarized", view |-> s.view],
         <<[kind |-> "FinalizeVote", view |-> s.view], Relay(b)>>)
(* Step 4: the block is the tip; the finalize vote, unless the timer fired,
   and the relay go out.                                                   *)
Notarized(s, b) ==
  Result([AdvanceView(s) EXCEPT !.tip = b],
         [kind |-> "Notarized", view |-> s.view],
         (IF s.dummy_sent THEN <<>> ELSE <<[kind |-> "FinalizeVote", view |-> s.view]>>)
           \o <<Relay(b)>>)

CombinedInOrder(signers, seed) ==   \* mutant: depends on the order of the list
  IF signers[1] < signers[2] THEN seed ELSE [seed EXCEPT !.view = 100 + @]
(* The seed a list of signers combines to. With a signer twice among the first
   T the coefficients do not belong together.                              *)
Combined(signers, seed) ==
  IF Cardinality(ToSet(SubSeq(signers, 1, T))) = T THEN seed ELSE [seed EXCEPT !.view = -1]

TryNotarize(s, b) ==
  IF Len(VotesFor(s, b)) < T THEN Ignored(s)
  ELSE LET res == Notarized(s, b)
       IN  [res EXCEPT !.state.seed = Combined(VotesFor(s, b), NotarySeed(b))]

TryNullify(s) ==
  IF Len(s.nullify_votes) < T THEN Ignored(s)
  ELSE Result([AdvanceView(s) EXCEPT !.seed = Combined(s.nullify_votes, DummySeed(s.view)),
                                     !.nullified_count = @ + 1],
              [kind |-> "Nullified", view |-> s.view], <<>>)

TryFinalize(s, h) ==
  IF Len(s.finalize_votes) < T THEN Ignored(s)
  ELSE Result([s EXCEPT !.finalized_count = @ + 1], [kind |-> "Finalized", view |-> h], <<>>)

-----------------------------------------------------------------------------
(* The handlers; leader is leader_for the replica's seed, me its id.       *)

HandleProposeRequest(s, me, leader, h, payload) ==
  IF h # s.view \/ leader # me THEN Ignored(s)
  ELSE LET b == Append(s.tip, [view |-> h, payload |-> payload, proposer |-> me])
           voted == [Push(s, b, me) EXCEPT !.voted_block = b,
                                           !.known_blocks = @ \cup {b}]
       IN  Result(voted, Pending,
                  <<[kind |-> "Proposal", block |-> b],
                    [kind |-> "Vote", view |-> h, block |-> b]>>)

(* The block is stored before the checks.                                  *)
HandleProposal(s, me, leader, b) ==
  LET stored == [s EXCEPT !.known_blocks = @ \cup {b}]
  IN  IF ViewOf(b) # s.view THEN Result(s, Rejected("WrongView"), <<>>)
      ELSE IF Last(b).proposer # leader THEN Result(stored, Rejected("WrongLeader"), <<>>)
      ELSE IF s.voted_block # Genesis THEN Result(stored, Rejected("AlreadyVoted"), <<>>)
      ELSE IF Parent(b) # s.tip THEN Result(stored, Rejected("BadParentHash"), <<>>)
      ELSE LET res == TryNotarize([Push(stored, b, me) EXCEPT !.voted_block = b], b)
           IN  [res EXCEPT !.out = <<[kind |-> "Vote", view |-> s.view, block |-> b]>> \o @]

HandleTimeout(s, me, h) ==
  IF h # s.view \/ s.dummy_sent THEN Ignored(s)
  ELSE LET res == TryNullify([s EXCEPT !.dummy_sent = TRUE,
                                       !.nullify_votes = Append(@, me)])
       IN  [res EXCEPT !.out = <<[kind |-> "NullifyVote", view |-> h]>> \o @]

HandleVoteCountsAgain(s, h, b, signer) ==   \* mutant: a signer's second vote counts
  IF h # s.view THEN Ignored(s)
  ELSE IF b \in s.known_blocks THEN TryNotarize(Push(s, b, signer), b)
  ELSE Ignored(Push(s, b, signer))
(* Each signer counts once for a block, known or not.                      *)
HandleVote(s, h, b, signer) ==
  IF h # s.view \/ signer \in ToSet(VotesFor(s, b)) THEN Ignored(s)
  ELSE IF b \in s.known_blocks THEN TryNotarize(Push(s, b, signer), b)
  ELSE Ignored(Push(s, b, signer))

HandleNullifyVote(s, h, signer) ==
  IF h # s.view \/ signer \in ToSet(s.nullify_votes) THEN Ignored(s)
  ELSE TryNullify([s EXCEPT !.nullify_votes = Append(@, signer)])

HandleFinalizeVoteCurrent(s, h, signer) ==   \* mutant: not for the view just left
  IF h # s.view \/ signer \in ToSet(s.finalize_votes) THEN Ignored(s)
  ELSE TryFinalize([s EXCEPT !.finalize_votes = Append(@, signer)], h)
(* For the current view or the one just left.                              *)
HandleFinalizeVote(s, h, signer) ==
  IF h \notin {s.view, s.view - 1} \/ signer \in ToSet(s.finalize_votes) THEN Ignored(s)
  ELSE TryFinalize([s EXCEPT !.finalize_votes = Append(@, signer)], h)

HandleNotarizationStays(s, h, b) ==   \* mutant: the tip is moved in the same view
  IF h # s.view THEN Ignored(s)
  ELSE Result([s EXCEPT !.tip = b], [kind |-> "Notarized", view |-> h], <<Relay(b)>>)
HandleNotarizationKeepsTip(s, h, b) ==   \* mutant: the tip follows no relay
  IF h # s.view THEN Ignored(s) ELSE [Notarized(s, b) EXCEPT !.state.tip = s.tip]
(* A relayed block, whose certificate nobody looks at.                     *)
HandleNotarization(s, h, b) == IF h # s.view THEN Ignored(s) ELSE Notarized(s, b)

ApplyMessage(s, me, leader, m) ==
  CASE m.kind = "ProposeRequest" -> HandleProposeRequest(s, me, leader, m.view, m.payload)
    [] m.kind = "Proposal"       -> HandleProposal(s, me, leader, m.block)
    [] m.kind = "Timeout"        -> HandleTimeout(s, me, m.view)
    [] m.kind = "Vote"           -> HandleVote(s, m.view, m.block, m.signer)
    [] m.kind = "NullifyVote"    -> HandleNullifyVote(s, m.view, m.signer)
    [] m.kind = "FinalizeVote"   -> HandleFinalizeVote(s, m.view, m.signer)
    [] m.kind = "Notarization"   -> HandleNotarization(s, m.view, m.block)
=============================================================================

------------------------------- MODULE Simplex -------------------------------
(***************************************************************************)
(* The Simplex consensus replicas of golden-dkg/src/consensus/replica.rs,  *)
(* over an asynchronous network.                                           *)
(*                                                                         *)
(* One action per message handler. What is abstracted:                     *)
(*                                                                         *)
(*  - block_hash is collision free, so a block is the chain it commits to: *)
(*    the sequence of the entries [view, payload, proposer] from the first *)
(*    block to this one. The genesis hash [0; 32] is the empty chain, and  *)
(*    parent_hash is all but the last entry.                               *)
(*  - a combined threshold signature depends only on the signed message,   *)
(*    so a VRF seed is named by what was signed: the view, and the block   *)
(*    or the dummy. SHA-256 modulo n is the constant operator Elect.       *)
(*  - the vote lists of a replica (notarize_votes, nullify_votes,          *)
(*    finalize_votes) hold some of the votes sent so far, at most one for  *)
(*    each signer. The network keeps every message sent and may deliver it *)
(*    to a replica at any time, any number of times or never, so a list    *)
(*    can be any part of what was sent; nothing depends on it before it    *)
(*    has T entries. A handler that counts a list therefore takes its      *)
(*    quorum from the messages sent.                                       *)
(*  - finalize_sent and notarized_in_view are set only by handlers that    *)
(*    end in advance_view, which resets them: between two messages they    *)
(*    are always false and None.                                           *)
(***************************************************************************)
EXTENDS Naughty, FiniteSets

CONSTANTS
  T,          \* NetworkConfig.t: the votes of a quorum
  F,          \* NetworkConfig.f: the faults tolerated
  MaxView,    \* bound: replicas act in views 1..MaxView
  MaxDummyVotes,  \* bound: timers fire until this many dummy votes are signed
  Elect(_)    \* vrf::elect_leader: the leader a seed elects

ASSUME QuorumAssumption ==
  /\ N \in Nat /\ T \in Nat /\ F \in Nat /\ MaxView \in Nat
  /\ F < T
  /\ N + F < 2 * T

ASSUME FaultAssumption ==
  /\ Behavior \in [Node -> Behaviors]
  /\ Cardinality(Node \ Honest) <= F

VARIABLES
  view,         \* Replica.current_view
  tip,          \* ChainState.tip_hash
  seed,         \* ChainState.vrf_seed
  voted_block,  \* Replica.voted_block, Genesis when None; voted_in_view iff Some
  dummy_sent,   \* Replica.dummy_sent; timer_fired is set and reset with it
  known_blocks, \* the blocks of Replica.known_blocks
  proposals, votes, nullifies, finalizes, relays,  \* the messages signed
  finalized     \* views for which a replica has returned Finalized {view}

replicaVars == <<view, tip, seed, voted_block, dummy_sent, known_blocks>>
networkVars == <<proposals, votes, nullifies, finalizes, relays>>
vars == <<view, tip, seed, voted_block, dummy_sent, known_blocks,
          proposals, votes, nullifies, finalizes, relays, finalized>>

-----------------------------------------------------------------------------
(* Blocks and seeds.                                                       *)

View  == 1..MaxView
Entry == [view : View, payload : {"block", "equivocation"}, proposer : Node]
Chain == Seq(Entry)

Genesis     == <<>>
ViewOf(b)   == Last(b).view
Proposer(b) == Last(b).proposer
Parent(b)   == Front(b)

GenesisSeed    == [view |-> 0, block |-> Genesis]
NotarySeed(b)  == [view |-> ViewOf(b), block |-> b]
DummySeed(h)   == [view |-> h, block |-> Genesis]

LeaderFor(r) == Elect(seed[r])

(* Who signed what.                                                        *)
Voters(b)      == {s \in Node : [signer |-> s, block |-> b] \in votes}
Nullifiers(h)  == {s \in Node : [signer |-> s, view |-> h] \in nullifies}
Finalizers(h)  == {s \in Node : [signer |-> s, view |-> h] \in finalizes}

QuorumOneLess(S) == Cardinality(S) >= T - 1   \* mutant: 2f votes are enough
Quorum(S) == Cardinality(S) >= T

(* What replica r can have in its lists: its own vote, which it pushes when
   it signs, and the votes the others signed. The simulator delivers dummy
   votes past the filter that withholds (engine.rs:348-360).               *)
VotesSeen(r, b) ==
  {s \in Voters(b) \ {r} : ~Withholds(s, ViewOf(b))}
    \cup (IF voted_block[r] = b THEN {r} ELSE {})
NullifiesSeenCountsSelf(r) ==   \* mutant: counts itself without having timed out
  Nullifiers(view[r]) \cup {r}
NullifiesSeen(r) ==
  (Nullifiers(view[r]) \ {r}) \cup (IF dummy_sent[r] THEN {r} ELSE {})

-----------------------------------------------------------------------------
Init ==
  /\ view = [r \in Node |-> 1]
  /\ tip = [r \in Node |-> Genesis]
  /\ seed = [r \in Node |-> GenesisSeed]
  /\ voted_block = [r \in Node |-> Genesis]
  /\ dummy_sent = [r \in Node |-> FALSE]
  /\ known_blocks = [r \in Node |-> {}]
  /\ proposals = {} /\ votes = {} /\ nullifies = {} /\ finalizes = {} /\ relays = {}
  /\ finalized = {}

AdvanceViewKeepsDummySent(r) ==   \* mutant: one flag is not reset
  /\ view' = [view EXCEPT ![r] = @ + 1]
  /\ voted_block' = [voted_block EXCEPT ![r] = Genesis]
  /\ known_blocks' = [known_blocks EXCEPT ![r] = {}]
  /\ UNCHANGED dummy_sent

(* Per-view state restarts when a replica enters the next view.            *)
AdvanceView(r) ==
  /\ view' = [view EXCEPT ![r] = @ + 1]
  /\ voted_block' = [voted_block EXCEPT ![r] = Genesis]
  /\ dummy_sent' = [dummy_sent EXCEPT ![r] = FALSE]
  /\ known_blocks' = [known_blocks EXCEPT ![r] = {}]

NotarizedKeepsTip(r, b) ==   \* mutant: the tip is not moved
  /\ finalizes' = IF dummy_sent[r] THEN finalizes
                  ELSE finalizes \cup {[signer |-> r, view |-> view[r]]}
  /\ relays' = relays \cup {b}
  /\ AdvanceView(r)
  /\ UNCHANGED tip
NotarizedIgnoringTimer(r, b) ==   \* mutant: finalizes after the timer fired
  /\ tip' = [tip EXCEPT ![r] = b]
  /\ finalizes' = finalizes \cup {[signer |-> r, view |-> view[r]]}
  /\ relays' = relays \cup {b}
  /\ AdvanceView(r)

(* Replica r takes b for notarized in its current view: its tip, its finalize
   vote unless its timer fired, the relay, and the next view.              *)
Notarized(r, b) ==
  /\ tip' = [tip EXCEPT ![r] = b]
  /\ finalizes' = IF dummy_sent[r] THEN finalizes
                  ELSE finalizes \cup {[signer |-> r, view |-> view[r]]}
  /\ relays' = relays \cup {b}
  /\ AdvanceView(r)

(* Replica r has a quorum of dummy votes: the tip stays.                   *)
Nullified(r) ==
  /\ seed' = [seed EXCEPT ![r] = DummySeed(view[r])]
  /\ AdvanceView(r)

(* The blocks the simulator has seen proposed in view h.                   *)
Proposed(h) == {b \in {p.block : p \in proposals} : ViewOf(b) = h}

-----------------------------------------------------------------------------
(* The handlers of apply_message. A message for another view is ignored (a
   finalize vote for the previous one is not), and so is one that changes
   nothing: such deliveries are stuttering steps.                          *)

(* Step 1. The leader builds a block on its own tip and votes for it. The
   caller asks a replica once in a view (engine.rs:191-197), so before the
   leader has voted: no other proposal passes its own leader check.        *)
HandleProposeRequest(r) ==
  LET h == view[r]
      b == Append(tip[r], [view |-> h, payload |-> "block", proposer |-> r])
      sent == FilterProposal(r, h, b)
  IN  /\ LeaderFor(r) = r
      /\ voted_block[r] = Genesis
      /\ voted_block' = [voted_block EXCEPT ![r] = b]
      /\ known_blocks' = [known_blocks EXCEPT ![r] = @ \cup {b}]
      /\ proposals' = proposals \cup sent
      /\ votes' = votes \cup
           SignVotes(r, b, Proposed(h) \cup {p.block : p \in sent})
      /\ UNCHANGED <<view, tip, seed, dummy_sent, nullifies, finalizes, relays, finalized>>

(* The three checks of handle_proposal, after the view.                    *)
Acceptable(r, b) ==
  /\ Proposer(b) = LeaderFor(r)
  /\ voted_block[r] = Genesis
  /\ Parent(b) = tip[r]

(* Step 3. The block is stored whatever the checks say; if they pass, the
   replica votes, and its own vote may complete the quorum.                *)
StoreRejected(r, b) ==
  /\ ~Acceptable(r, b)
  /\ known_blocks' = [known_blocks EXCEPT ![r] = @ \cup {b}]
  /\ UNCHANGED <<view, tip, seed, voted_block, dummy_sent, networkVars, finalized>>

VoteFor(r, b) ==
  /\ Acceptable(r, b)
  /\ votes' = votes \cup SignVotes(r, b, Proposed(view[r]))
  /\ \/ /\ voted_block' = [voted_block EXCEPT ![r] = b]
        /\ known_blocks' = [known_blocks EXCEPT ![r] = @ \cup {b}]
        /\ UNCHANGED <<view, tip, seed, dummy_sent, finalizes, relays>>
     \/ /\ Quorum(VotesSeen(r, b) \cup {r})
        /\ Notarized(r, b)
        /\ seed' = [seed EXCEPT ![r] = NotarySeed(b)]
  /\ UNCHANGED <<proposals, nullifies, finalized>>

HandleProposal(r, b) ==
  /\ [to |-> r, block |-> b] \in proposals
  /\ ViewOf(b) = view[r]
  /\ StoreRejected(r, b) \/ VoteFor(r, b)

(* Step 2. The timer is the caller's and may fire at any time in the view. *)
HandleTimeout(r) ==
  /\ ~dummy_sent[r]
  /\ Cardinality(nullifies) < MaxDummyVotes
  /\ nullifies' = nullifies \cup {[signer |-> r, view |-> view[r]]}
  /\ \/ /\ dummy_sent' = [dummy_sent EXCEPT ![r] = TRUE]
        /\ UNCHANGED <<view, seed, voted_block, known_blocks>>
     \/ /\ Quorum(NullifiesSeen(r) \cup {r})
        /\ Nullified(r)
  /\ UNCHANGED <<tip, proposals, votes, finalizes, relays, finalized>>

(* Step 4, the vote that completes the quorum of a block the replica has.  *)
HandleVote(r, b) ==
  /\ b \in known_blocks[r]
  /\ VotesSeen(r, b) \ {r} # {}
  /\ Quorum(VotesSeen(r, b))
  /\ Notarized(r, b)
  /\ seed' = [seed EXCEPT ![r] = NotarySeed(b)]
  /\ UNCHANGED <<proposals, votes, nullifies, finalized>>

HandleNullifyVoteResetsTip(r) ==   \* mutant: the tip becomes the dummy block
  /\ NullifiesSeen(r) \ {r} # {}
  /\ Quorum(NullifiesSeen(r))
  /\ Nullified(r)
  /\ tip' = [tip EXCEPT ![r] = Genesis]
  /\ UNCHANGED <<networkVars, finalized>>

(* The dummy vote that completes the quorum.                               *)
HandleNullifyVote(r) ==
  /\ NullifiesSeen(r) \ {r} # {}
  /\ Quorum(NullifiesSeen(r))
  /\ Nullified(r)
  /\ UNCHANGED <<tip, networkVars, finalized>>

(* Step 4, a relayed notarization: the block is taken as it comes, and the
   VRF seed stays the one of the view before.                              *)
HandleNotarization(r, b) ==
  /\ ViewOf(b) = view[r]
  /\ Notarized(r, b)
  /\ UNCHANGED <<seed, proposals, votes, nullifies, finalized>>

(* Step 5. One list holds the finalize votes of the current view and of the
   one before; the vote for h that makes it T long, or longer, finalizes h. *)
HandleFinalizeVote(r, h) ==
  /\ h \in {view[r], view[r] - 1}
  /\ Finalizers(h) \ {r} # {}
  /\ Quorum((Finalizers(view[r]) \cup Finalizers(view[r] - 1)) \ {r})
  /\ finalized' = finalized \cup {h}
  /\ UNCHANGED <<replicaVars, networkVars>>

(* The simulator signs a dummy vote for every capitulator (engine.rs:334-346). *)
ForgeNullifyVote(r, h) ==
  /\ Behavior[r] = "Capitulator"
  /\ nullifies' = nullifies \cup {[signer |-> r, view |-> h]}
  /\ UNCHANGED <<replicaVars, proposals, votes, finalizes, relays, finalized>>

Next ==
  \/ \E r \in {s \in Node : view[s] <= MaxView} :
       \/ HandleProposeRequest(r)
       \/ \E p \in proposals : HandleProposal(r, p.block)
       \/ HandleTimeout(r)
       \/ \E b \in known_blocks[r] : HandleVote(r, b)
       \/ HandleNullifyVote(r)
       \/ \E b \in relays : HandleNotarization(r, b)
  \/ \E r \in Node, h \in View :
       \/ HandleFinalizeVote(r, h)
       \/ ForgeNullifyVote(r, h)

Spec == Init /\ [][Next]_vars

-----------------------------------------------------------------------------
(* Every stored or sent block is a well-formed non-empty chain, every view is
   within the bound, and a seed is one that some view before left behind.   *)
TypeOK ==
  /\ view \in [Node -> 1..MaxView + 1]
  /\ tip \in [Node -> Chain]
  /\ seed \in [Node -> [view : 0..MaxView, block : Chain]]
  /\ voted_block \in [Node -> Chain]
  /\ dummy_sent \in [Node -> BOOLEAN]
  /\ known_blocks \in [Node -> SUBSET (Chain \ {Genesis})]
  /\ proposals \subseteq [to : Node, block : Chain \ {Genesis}]
  /\ votes \subseteq [signer : Node, block : Chain \ {Genesis}]
  /\ nullifies \subseteq [signer : Node, view : View]
  /\ finalizes \subseteq [signer : Node, view : View]
  /\ relays \subseteq Chain \ {Genesis}
  /\ finalized \subseteq View

VotedBlocks == {v.block : v \in votes}
Certified(b) == Quorum(Voters(b))

(* Lemma 3.2 (replica.rs:22-25): two distinct blocks of one view are never both
   notarized. voted_in_view is per replica; that it makes quorums exclude each
   other depends on who withholds, who signs twice, and on T.              *)
NotarizationUnique ==
  \A b, c \in VotedBlocks :
     Certified(b) /\ Certified(c) /\ ViewOf(b) = ViewOf(c) => b = c

(* Lemma 3.3 (replica.rs:27-29) for what is signed: no view has a quorum of
   finalize votes and a quorum of dummy votes. The flags that exclude them are
   reset when the replica leaves the view, by either way out.              *)
FinalizeExcludesNullify ==
  \A h \in View : ~(Quorum(Finalizers(h)) /\ Quorum(Nullifiers(h)))

(* A replica's tip has a quorum of votes, though handle_notarization takes a
   relayed block without looking at its certificate (replica.rs:484-496).  *)
TipCertified ==
  \A r \in Node : tip[r] # Genesis => Certified(tip[r])

(* Every view before h was nullified, or has a notarized block on chain c.  *)
Accounted(c, h) ==
  \A g \in 1..h - 1 :
     \/ Quorum(Nullifiers(g))
     \/ \E a \in VotedBlocks : Certified(a) /\ ViewOf(a) = g /\ IsPrefix(a, c)

(* What handle_proposal means by a valid blockchain, when all it compares is
   parent_hash with its own tip (replica.rs:343-346): the tip of an honest
   replica misses no notarized block unless that view was nullified.       *)
ChainAccounted == \A r \in Honest : Accounted(tip[r], view[r])

(* Step 5: notarized, in a view with a quorum of finalize votes.            *)
FinalBlock(b) == Certified(b) /\ Quorum(Finalizers(ViewOf(b)))

(* Theorem 3.1 (replica.rs:31-33): of two finalized chains, one is a prefix of
   the other. Stated for a final block and any block notarized later.       *)
Consistency ==
  \A b, c \in VotedBlocks :
     ViewOf(b) <= ViewOf(c) /\ FinalBlock(b) /\ Certified(c) => IsPrefix(b, c)

(* No step takes a final block out of an honest replica's chain: neither way
   out of a view may move the tip to another branch.                        *)
FinalizedKept ==
  [][\A r \in Honest :
       tip'[r] # tip[r] =>
         \A b \in VotedBlocks :
           FinalBlock(b) /\ IsPrefix(b, tip[r]) => IsPrefix(b, tip'[r])]_vars

(* replica.rs:27: "If height h is finalized, dummy cannot be notarized", for the
   views that a replica has reported as Finalized (try_finalize).           *)
FinalizedNotNullified == \A h \in finalized : ~Quorum(Nullifiers(h))

-----------------------------------------------------------------------------
(* The inductive invariant.                                                *)

(* What a replica remembers of the current view, it has signed.            *)
Remembered ==
  \A r \in Node :
    /\ voted_block[r] # Genesis =>
         r \in Voters(voted_block[r]) /\ ViewOf(voted_block[r]) = view[r]
    /\ dummy_sent[r] => r \in Nullifiers(view[r])
    /\ \A b \in known_blocks[r] : ViewOf(b) = view[r]

(* What an honest replica has signed in the current view, it remembers, and
   it signs nothing for the views to come.                                 *)
Forward ==
  /\ \A v \in votes : v.signer \in Honest =>
       \/ ViewOf(v.block) < view[v.signer]
       \/ ViewOf(v.block) = view[v.signer] /\ voted_block[v.signer] = v.block
  /\ \A r \in Honest, h \in View : r \in Nullifiers(h) =>
       h < view[r] \/ (h = view[r] /\ dummy_sent[r])
  /\ \A r \in Honest, h \in View : r \in Finalizers(h) => h < view[r]

(* Lemmas 3.2 and 3.3 of the paper for one honest replica: one vote in a view,
   and never both a finalize vote and a dummy vote for it.                  *)
VoteOnce ==
  \A v, w \in votes :
    /\ v.signer = w.signer /\ v.signer \in Honest
    /\ ViewOf(v.block) = ViewOf(w.block)
    => v.block = w.block
EitherOr == \A r \in Honest, h \in View : ~(r \in Finalizers(h) /\ r \in Nullifiers(h))

(* A block an honest replica votes for extends a chain that accounts for
   every earlier view.                                                     *)
VoteJustified ==
  \A v \in votes : v.signer \in Honest => Accounted(Parent(v.block), ViewOf(v.block))

RelayCertified == \A b \in relays : Certified(b)

IInv ==
  /\ TypeOK
  /\ Remembered /\ Forward /\ VoteOnce /\ EitherOr
  /\ VoteJustified /\ ChainAccounted
  /\ RelayCertified /\ TipCertified
=============================================================================

---------------------------- MODULE ReplicaCaller ----------------------------
(***************************************************************************)
(* One replica and a caller that may hand it anything, in any order, at    *)
(* any time: "The caller is responsible for delivering messages and        *)
(* triggering timeouts" (replica.rs:7-8).                                  *)
(*                                                                         *)
(* The other signers are interchangeable, so for each list a new one is    *)
(* the lowest that is not in it yet. Leaders are elected as seeds appear.  *)
(***************************************************************************)
EXTENDS Replica

CONSTANTS
  MaxView,      \* bound: messages are for views up to MaxView
  MaxFinalize   \* bound: the finalize votes that it takes in a view

Me     == 1
Member == 1..N
View   == 1..MaxView

VARIABLES
  state,     \* the Replica
  leaders,   \* the leader each seed elects, once one of its views was entered
  sent,      \* all that the replica has sent
  returned   \* the transitions it has returned, with the votes behind them

callerVars == <<state, leaders, sent, returned>>

Leader == leaders[state.seed]

CallerInit ==
  /\ state = NewReplica
  /\ leaders \in [{GenesisSeed} -> {Me, 2}]
  /\ sent = {}
  /\ returned = {}

(* The leader's blocks for the replica's view: two on its tip, one on another.  *)
Blocks ==
  {Append(fork[1], [view |-> state.view, payload |-> fork[2], proposer |-> Leader]) :
     fork \in {<<state.tip, "block">>, <<state.tip, "equivocation">>, <<Genesis, "block">>}}

Newcomers(list) ==
  LET others == Member \ ({Me} \cup ToSet(list))
  IN  {i \in others : \A k \in others : i <= k}
Signers(list) == (ToSet(list) \ {Me}) \cup Newcomers(list)

(* The signers of what the replica counts when it takes m.                 *)
Evidence(m) ==
  CASE m.kind = "Vote"        -> ToSet(VotesFor(state, m.block)) \cup {m.signer}
    [] m.kind = "Proposal"    -> ToSet(VotesFor(state, m.block)) \cup {Me}
    [] OTHER -> {}

HandOver(m) ==
  LET res == ApplyMessage(state, Me, Leader, m)
  IN  /\ state' = res.state
      /\ sent' = sent \cup ToSet(res.out)
      /\ returned' = IF res.transition.kind \in {"Notarized", "Nullified", "Finalized"}
                     THEN returned \cup {[kind |-> res.transition.kind, view |-> res.transition.view,
                                          by |-> m.kind, evidence |-> Evidence(m)]}
                     ELSE returned
      /\ IF res.state.seed \in DOMAIN leaders THEN UNCHANGED leaders
         ELSE \E l \in {Me, 2} :
                leaders' = [sd \in DOMAIN leaders \cup {res.state.seed} |->
                              IF sd = res.state.seed THEN l ELSE leaders[sd]]

Active == state.view \in View

(* The simulator asks once in a view, before it delivers anything.         *)
AskToPropose ==
  /\ Active /\ state.voted_block = Genesis
  /\ \E payload \in {"block", "equivocation"} :
       HandOver([kind |-> "ProposeRequest", view |-> state.view, payload |-> payload])

SendProposal == Active /\ \E b \in Blocks : HandOver([kind |-> "Proposal", block |-> b])

SendVote ==
  /\ Active
  /\ \E b \in Blocks : \E signer \in Signers(VotesFor(state, b)) :
       HandOver([kind |-> "Vote", view |-> state.view, block |-> b, signer |-> signer])

SendTimeout == Active /\ HandOver([kind |-> "Timeout", view |-> state.view])

SendNullifyVote ==
  /\ Active
  /\ \E signer \in Signers(state.nullify_votes) :
       HandOver([kind |-> "NullifyVote", view |-> state.view, signer |-> signer])

SendFinalizeVote ==
  /\ Len(state.finalize_votes) < MaxFinalize
  /\ \E h \in {state.view - 1, state.view} \cap View, signer \in Signers(state.finalize_votes) :
       HandOver([kind |-> "FinalizeVote", view |-> h, signer |-> signer])

SendNotarization ==
  /\ Active
  /\ \E b \in Blocks :
       HandOver([kind |-> "Notarization", view |-> state.view, block |-> b])

CallerNext == \/ AskToPropose \/ SendProposal \/ SendVote \/ SendTimeout
        \/ SendNullifyVote \/ SendFinalizeVote \/ SendNotarization

CallerSpec == CallerInit /\ [][CallerNext]_callerVars

-----------------------------------------------------------------------------
Sent(kind, h) == {o \in sent : o.kind = kind /\ o.view = h}

(* Lemma 3.2 (replica.rs:24-25): "each replica votes for at most ONE non-dummy
   block per iteration", whether it leads or follows, unless it is asked to propose
   after it has voted.                                                      *)
VotesOnce == \A h \in 1..state.view : Cardinality(Sent("Vote", h)) <= 1

(* Lemma 3.3 (replica.rs:28-29): "EITHER <finalize, h> OR <vote, h, dummy>, NEVER
   both", whatever the caller delivers and whenever the timer fires.        *)
NeverBoth == \A h \in 1..state.view : Sent("FinalizeVote", h) = {} \/ Sent("NullifyVote", h) = {}

(* replica.rs:24-29: both.                                                 *)
SignsOnce == VotesOnce /\ NeverBoth

(* replica.rs:520-521: a block is notarized by the votes of T "unique processes",
   the replica's own among them.                                           *)
NotarizedByQuorum ==
  \A r \in returned :
    r.kind = "Notarized" /\ r.by # "Notarization" => Cardinality(r.evidence) >= T

(* Every view the replica has left was notarized or nullified, and it has told
   so once, by one of the two.                                             *)
ViewsAccounted ==
  /\ \A h \in 1..state.view - 1 :
       Cardinality({r.kind : r \in {q \in returned : q.view = h}} \ {"Finalized"}) = 1
  /\ state.nullified_count = Cardinality({r \in returned : r.kind = "Nullified"})
=============================================================================

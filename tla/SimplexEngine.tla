---------------------------- MODULE SimplexEngine ----------------------------
(***************************************************************************)
(* The simulator: ConsensusEngine of simplex-consensus/src/sim/engine.rs,  *)
(* which drives the replicas (Replica) through one view after another, the *)
(* presets that filter what they send (Naughty), and the loop of main.     *)
(*                                                                         *)
(* The engine delivers in first-in-first-out order and decides nothing:    *)
(* all that is open is the scenario and the leader each seed elects. Main  *)
(* pushes the outcome of every view into the strip of BlockStrip.          *)
(***************************************************************************)
EXTENDS Replica, BlockStrip

CONSTANTS
  F,                \* --failures
  Scenarios,        \* the presets of --byzantine
  Rounds,           \* --rounds: the views to run
  ContinueAfterFork,\* --continue-after-fork
  MaxIterations,    \* max_iterations of the delivery loop, 10000
  Oracles,          \* bound: the ways in which seeds may elect leaders
  Elect(_, _)       \* vrf::elect_leader under one of them

VARIABLES
  behavior,    \* ConsensusEngine.behaviors
  oracle,      \* what elect_leader makes of the seeds
  replica,     \* ConsensusEngine.replicas
  view,        \* the view main runs
  phase,       \* where run_view is
  leader,      \* the node asked to propose
  queue,       \* pending: what is yet to be delivered
  iterations,  \* the deliveries of the loop
  known,       \* known_block_hashes, as blocks
  shown,       \* the node actions and flags kept for display
  stuck,       \* stuck_ids
  dummies,     \* timeout_outgoing: the senders of dummy votes
  result,      \* the ViewResult of the last view
  signed       \* history: all that was signed or reported so far, as in Simplex

engineVars == <<leader, iterations, known, shown, stuck, dummies>>
given == <<behavior, oracle>>   \* what no step changes
vars == <<given, replica, view, phase, leader, queue, iterations, known,
          shown, stuck, dummies, result, signed, stripVars>>

INSTANCE Naughty WITH Behavior <- behavior

ASSUME EngineAssumption ==
  /\ N = 3 * F + 1 /\ T = 2 * F + 1 /\ F \in Nat \ {0}
  /\ Scenarios \subseteq AllScenarios
  /\ Rounds \in Nat /\ MaxIterations \in Nat /\ ContinueAfterFork \in BOOLEAN

FirstHonest == CHOOSE r \in Honest : \A q \in Honest : r <= q
LeaderFor(r) == Elect(oracle, replica[r].seed)

NothingShown == [voted |-> {}, doubled |-> {}, rejected |-> {},
                 equivocation |-> FALSE, fake |-> FALSE]

Init ==
  /\ \E scenario \in Scenarios : behavior = AssignBehaviors(scenario, F)
  /\ oracle \in Oracles
  /\ replica = [r \in Node |-> NewReplica]
  /\ view = 1 /\ phase = "ask"
  /\ leader = 1 /\ queue = <<>> /\ iterations = 0 /\ known = {}
  /\ shown = NothingShown /\ stuck = {} /\ dummies = <<>>
  /\ result = [outcome |-> "None", diverged |-> FALSE]
  /\ signed = [proposals |-> {}, votes |-> {}, nullifies |-> {}, finalizes |-> {},
               relays |-> {}, finalized |-> {}]
  /\ StripInit

-----------------------------------------------------------------------------
(* What leaves a node, and what arrives.                                    *)

InOrder(nodes) == FlattenSeq([i \in 1..N |-> IF i \in nodes THEN <<i>> ELSE <<>>])

ToAll(nodes, m) ==
  LET peers == InOrder(nodes)
  IN  [i \in DOMAIN peers |-> [to |-> peers[i], message |-> m]]

AsMessage(out, sender) ==
  CASE out.kind = "Proposal"          -> out
    [] out.kind = "RelayNotarization" -> [out EXCEPT !.kind = "Notarization"]
    [] OTHER -> [field \in DOMAIN out \cup {"signer"} |->
                   IF field = "signer" THEN sender ELSE out[field]]

(* filter_outgoing: for an honest node, everything goes to every peer.      *)
FilterOutgoing(out, sender) ==
  CASE out.kind = "Proposal" ->
         LET copies == FilterProposal(sender, view, out.block)
             copy(p) == CHOOSE c \in copies : c.to = p
             peers   == InOrder({c.to : c \in copies})
         IN  [i \in DOMAIN peers |-> [to |-> peers[i],
                message |-> [kind |-> "Proposal", block |-> copy(peers[i]).block]]]
    [] out.kind \in {"Vote", "NullifyVote"} /\ Withholds(sender, view) -> <<>>
    [] OTHER -> ToAll(Node \ {sender}, AsMessage(out, sender))

Filtered(outs, sender) ==
  FlattenSeq([i \in DOMAIN outs |-> FilterOutgoing(outs[i], sender)])

BlocksIn(deliveries) ==
  {d.message.block : d \in {e \in ToSet(deliveries) : e.message.kind = "Proposal"}}

Has(outs, kinds) == \E out \in ToSet(outs) : out.kind \in kinds

(* The blocks an output or its filtered copies propose.                     *)
Seen(outs, sender) ==
  {out.block : out \in {o \in ToSet(outs) : o.kind = "Proposal"}}
    \cup BlocksIn(Filtered(outs, sender))

(* A Capitulator's votes for the blocks it has not voted for.               *)
ForgedVotes(outs, sender, blocks) ==
  IF behavior[sender] # "Capitulator" THEN <<>>
  ELSE LET forge(out) ==
             FlattenSeq([i \in 1..Cardinality(blocks \ {out.block}) |->
               ToAll(Node \ {sender},
                     [kind |-> "Vote", view |-> out.view, signer |-> sender,
                      block |-> SetToSeq(blocks \ {out.block})[i]])])
       IN  FlattenSeq([i \in DOMAIN outs |->
             IF outs[i].kind = "Vote" THEN forge(outs[i]) ELSE <<>>])

Take(r, res) == replica' = [replica EXCEPT ![r] = res.state]

Apply(d) == ApplyMessage(replica[d.to], d.to, LeaderFor(d.to), d.message)

(* What r signs and reports when it handles a message.                      *)
Of(outs, kind) == {out \in ToSet(outs) : out.kind = kind}
Record(r, res, deliveries, forged) ==
  signed' =
    [proposals |-> signed.proposals \cup
       {[to |-> d.to, block |-> d.message.block] :
          d \in {e \in ToSet(deliveries) : e.message.kind = "Proposal"}},
     votes |-> signed.votes \cup
       {[signer |-> r, block |-> out.block] : out \in Of(res.out, "Vote")} \cup
       {[signer |-> r, block |-> d.message.block] : d \in ToSet(forged)},
     nullifies |-> signed.nullifies \cup
       {[signer |-> r, view |-> out.view] : out \in Of(res.out, "NullifyVote")},
     finalizes |-> signed.finalizes \cup
       {[signer |-> r, view |-> out.view] : out \in Of(res.out, "FinalizeVote")},
     relays |-> signed.relays \cup {out.block : out \in Of(res.out, "RelayNotarization")},
     finalized |-> signed.finalized \cup
       (IF res.transition.kind = "Finalized" THEN {res.transition.view} ELSE {})]

-----------------------------------------------------------------------------
(* run_view, step by step.                                                  *)

(* The leader the first honest replica elects is asked to propose.          *)
AskLeader ==
  /\ phase = "ask" /\ view <= Rounds
  /\ leader' = LeaderFor(FirstHonest)
  /\ queue' = <<[to |-> leader', message |->
                  [kind |-> "ProposeRequest", view |-> view, payload |-> "block"]]>>
  /\ iterations' = 0 /\ known' = {} /\ shown' = NothingShown
  /\ stuck' = {} /\ dummies' = <<>>
  /\ phase' = "deliver"
  /\ UNCHANGED <<given, stripVars, replica, view, result, signed>>

DeliverOnce(d) ==
  LET r   == d.to
      res == Apply(d)
      outs == res.out
      forged == ForgedVotes(outs, r, known')
  IN  /\ Take(r, res)
      /\ known' = known \cup Seen(outs, r)
      /\ Record(r, res, Filtered(outs, r), forged)
      /\ queue' = Tail(queue) \o Filtered(outs, r) \o forged
      /\ shown' =
           [voted    |-> IF Has(outs, {"Vote", "NullifyVote"})
                         THEN shown.voted \cup {r} ELSE shown.voted,
            doubled  |-> IF forged # <<>> THEN shown.doubled \cup {r} ELSE shown.doubled,
            rejected |-> IF res.transition = Rejected("BadParentHash")
                         THEN shown.rejected \cup {r} ELSE shown.rejected,
            equivocation |-> shown.equivocation \/ Cardinality(Seen(outs, r)) > 1,
            fake |-> shown.fake \/ ( /\ behavior[r] = "FakeLeader" /\ r # leader
                                     /\ Has(outs, {"Proposal"}) )]

Deliver ==
  /\ phase = "deliver" /\ queue # <<>> /\ iterations < MaxIterations
  /\ DeliverOnce(Head(queue))
  /\ iterations' = iterations + 1
  /\ UNCHANGED <<given, stripVars, view, phase, leader, stuck, dummies, result>>

(* The loop ends with the queue, or with the bound, and drops the rest.     *)
EndDelivery ==
  /\ phase = "deliver"
  /\ queue = <<>> \/ iterations = MaxIterations
  /\ stuck' = {r \in Node : replica[r].view = view}
  /\ queue' = ToAll(stuck', [kind |-> "Timeout", view |-> view])
  /\ phase' = "timeout"
  /\ UNCHANGED <<given, stripVars, replica, view, leader, iterations, known, shown,
                 dummies, result, signed>>

FireTimer ==
  /\ phase = "timeout" /\ queue # <<>>
  /\ LET d == Head(queue)
     IN  /\ Take(d.to, Apply(d))
         /\ Record(d.to, Apply(d), <<>>, <<>>)
         /\ dummies' = IF Apply(d).out = <<>> THEN dummies ELSE Append(dummies, d.to)
  /\ queue' = Tail(queue)
  /\ UNCHANGED <<given, stripVars, view, phase, leader, iterations, known, shown, stuck, result>>

Capitulators == {r \in Node : behavior[r] = "Capitulator"}

RouteToLater(sender) ==   \* mutant: only to the stuck replicas after the sender
  ToAll({r \in stuck : r > sender},
        [kind |-> "NullifyVote", view |-> view, signer |-> sender])
(* The dummy votes, with one more for each Capitulator, for the stuck alone. *)
RouteTo(sender) ==
  ToAll(stuck \ {sender}, [kind |-> "NullifyVote", view |-> view, signer |-> sender])
CollectDummyVotes ==
  /\ phase = "timeout" /\ queue = <<>>
  /\ dummies' = IF stuck = {} THEN <<>> ELSE dummies \o InOrder(Capitulators)
  /\ queue' = FlattenSeq([i \in DOMAIN dummies' |-> RouteTo(dummies'[i])])
  /\ signed' = [signed EXCEPT !.nullifies = @ \cup
       {[signer |-> c, view |-> view] : c \in ToSet(dummies') \ ToSet(dummies)}]
  /\ phase' = "route"
  /\ UNCHANGED <<given, stripVars, replica, view, leader, iterations, known, shown,
                 stuck, result>>

(* What a stuck replica answers is dropped.                                 *)
RouteDummyVote ==
  /\ phase = "route" /\ queue # <<>>
  /\ Take(Head(queue).to, Apply(Head(queue)))
  /\ queue' = Tail(queue)
  /\ UNCHANGED <<given, stripVars, view, phase, leader, iterations, known, shown, stuck,
                 dummies, result, signed>>

(* check_divergence                                                         *)
Diverged == \E r, q \in Honest : replica[r].tip # replica[q].tip

(* The first honest replica that left the view with a tip decides.          *)
Advanced == {r \in Honest : replica[r].view > view /\ replica[r].tip # Genesis}
OutcomeOfTip(blocks) ==   \* mutant: any tip will do, not only one of this view
  IF Advanced # {} THEN "Finalized" ELSE "Nullified"
OutcomeOf(blocks) ==
  IF \E r \in Advanced : replica[r].tip \in blocks /\ \A q \in Advanced : r <= q
  THEN "Finalized" ELSE "Nullified"

(* Step 4, and main: the next view, unless the chain has forked.            *)
ReadStates ==
  /\ phase = "route" /\ queue = <<>>
  /\ result' = [outcome |-> OutcomeOf(known), diverged |-> Diverged]
  /\ IF result'.outcome = "Finalized" THEN PushFinalized ELSE PushNullified
  /\ IF result'.diverged /\ ~ContinueAfterFork
     THEN phase' = "halted" /\ UNCHANGED view
     ELSE phase' = "ask" /\ view' = view + 1
  /\ UNCHANGED <<given, replica, queue, engineVars, signed>>

Next == \/ AskLeader \/ Deliver \/ EndDelivery \/ FireTimer
        \/ CollectDummyVotes \/ RouteDummyVote \/ ReadStates

Spec == Init /\ [][Next]_vars

-----------------------------------------------------------------------------
(* The replicas are about to be read.                                       *)
AtEnd     == phase = "route" /\ queue = <<>>
Tolerated == Cardinality(Node \ Honest) <= F
Holders   == {r \in Honest : replica[r].tip # Genesis /\ ViewOf(replica[r].tip) = view}

(* run_view's step 3: "Timeout any replicas still stuck in this view". Every
   replica leaves the view with the engine, whoever withholds or signs twice: a
   dummy vote reaches the stuck replicas alone, and nobody relays it.       *)
EveryViewEnds == AtEnd => \A r \in Node : replica[r].view = view + 1

(* check_divergence stays false while at most F nodes are naughty: a replica that
   was sent the other block of an equivocation ends the view with the rest. *)
AgreeWithinFaults == AtEnd /\ Tolerated => ~Diverged

(* engine.rs:205: the queue of a view drains well within the bound of 10000: no
   node answers a relay, a vote or a proposal twice.                        *)
DeliveriesBounded == iterations <= N + 4 * N * (N - 1)

(* engine.rs:373-375: "If any honest replica finalized a block in this view, it's
   Finalized. Otherwise, it's Nullified", though one replica's tip decides. *)
OutcomeRead == AtEnd => (OutcomeOf(known) = "Finalized" <=> Holders # {})

(* And a view shown as Finalized was not only notarized: some honest replica counts
   a quorum of finalize votes, with its own cleared by advance_view.       *)
OutcomeTrue ==
  /\ OutcomeRead
  /\ AtEnd /\ OutcomeOf(known) = "Finalized" =>
       \E r \in Honest : Len(replica[r].finalize_votes) >= T

(* What an honest leader of the engine brings about: everybody ends the view with
   its block, and counts a quorum of finalize votes for it.                *)
LeaderHeard ==
  /\ Holders = Honest
  /\ \A r \in Honest : Last(replica[r].tip).proposer = leader
                      /\ Len(replica[r].finalize_votes) >= T

(* Lemma 3.5 (vrf.rs:17-19): in a view with an honest leader, "every honest
   process will see a finalized block at height h, proposed by L_h".        *)
HonestLeaderFinalizes == AtEnd /\ Tolerated /\ leader \in Honest => LeaderHeard

(* Two blocks of one leader, of which different replicas take different ones, part
   the seeds: some reach a quorum of votes, others of dummy votes or relays. *)
Equivocators == {r \in Node : behavior[r] \in {"EquivocatingLeader", "FullAttack", "Capitulator"}}

(* Lemma 3.5 holds when nobody equivocates, whoever is silent, withholds votes
   or proposes out of turn.                                                *)
HonestLeaderHeard == AtEnd /\ Equivocators = {} /\ leader \in Honest => LeaderHeard

(* Without an equivocation all honest replicas elect the next leader from one
   seed, whatever the order in which each combined its quorum (engine.rs:168). *)
SameSeed ==
  AtEnd /\ Equivocators = {} => \A r, q \in Honest : replica[r].seed = replica[q].seed

(* What the replicas share at the end of every view, although each left it on
   evidence of its own.                                                    *)
InLockStep == EveryViewEnds /\ AgreeWithinFaults /\ SameSeed
=============================================================================

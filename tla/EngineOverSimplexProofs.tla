----------------------- MODULE EngineOverSimplexProofs -----------------------
(***************************************************************************)
(* The simulator's views, from one end to the next, and what they are in   *)
(* Simplex. Without an equivocation the replicas go through a view in step *)
(* (Round), so that they elect one leader and an honest one is heard; the  *)
(* outcome shown for a view is what happened in it (Legible); and within   *)
(* the faults the replicas are those of Simplex (Recorded).                *)
(***************************************************************************)
EXTENDS EngineProofs, EngineOverSimplex

(* Nobody equivocates: an honest node is the first, at most F withhold votes, and
   the copies of a proposal are all of one block.                           *)
Calm == Assigned /\ Equivocators = {}
Peaceful == {"Honest", "SilentLeader", "FakeLeader", "Colluding", "NonVoter"}

LEMMA CalmBehaviors ==
  ASSUME Calm, NEW r \in Node
  PROVE  behavior[r] \in Peaceful /\ (r <= N - F => behavior[r] = "Honest")
<1>1. PICK scenario \in Scenarios : behavior = AssignBehaviors(scenario, F)
  BY DEF Calm, Assigned
<1>2. N \in Nat /\ F \in Nat /\ F >= 1 /\ F + 1 <= N /\ N \in Node /\ scenario \in AllScenarios
  BY NodeFacts, EngineAssumption DEF Node
<1>3. behavior[N] \notin {"EquivocatingLeader", "FullAttack", "Capitulator"}
  BY <1>2 DEF Calm, Equivocators
<1>4. scenario \notin {"Equivocation", "FullAttack", "Capitulation"}
  <2>1. N > N - F /\ N > N - (F + 1)
    BY <1>2
  <2>2. scenario = "Equivocation" => behavior[N] = "EquivocatingLeader"
    BY <1>1, <1>2, <2>1 DEF AssignBehaviors
  <2>3. scenario = "FullAttack" => behavior[N] = "FullAttack"
    BY <1>1, <1>2, <2>1 DEF AssignBehaviors
  <2>4. scenario = "Capitulation" => behavior[N] = "Capitulator"
    BY <1>1, <1>2, <2>1 DEF AssignBehaviors
  <2> QED
    BY <1>3, <2>2, <2>3, <2>4
<1>5. CASE scenario = "Happy"
  <2>1. behavior[r] = "Honest"
    BY <1>5, <1>1, <1>2 DEF AssignBehaviors, Node
  <2> QED
    BY <2>1 DEF Peaceful
<1>6. CASE scenario = "SilentLeader"
  BY <1>6, <1>1, <1>2 DEF AssignBehaviors, Peaceful, Node
<1>7. CASE scenario = "FakeLeader"
  BY <1>7, <1>1, <1>2 DEF AssignBehaviors, Peaceful, Node
<1>8. CASE scenario = "NonVoter"
  BY <1>8, <1>1, <1>2 DEF AssignBehaviors, Peaceful, Node
<1> QED
  BY <1>2, <1>4, <1>5, <1>6, <1>7, <1>8 DEF AllScenarios

LEMMA CalmFacts ==
  ASSUME Calm, NEW h
  PROVE  /\ \A r \in Node : ProposalAction(r, h) # "Equivocate"
         /\ \A r \in Node : behavior[r] = "Honest" => ProposalAction(r, h) # "Skip"
         /\ IsFiniteSet({q \in Node : Withholds(q, h)}) /\ Cardinality({q \in Node : Withholds(q, h)}) \in Nat
         /\ Cardinality({q \in Node : Withholds(q, h)}) <= F
         /\ FirstHonest \in Node /\ Capitulators = {}
<1>1. N \in Nat /\ F \in Nat /\ F >= 1 /\ N = 3 * F + 1 /\ 1 \in Node
  BY NodeFacts DEF Node
<1>2. \A r \in Node : behavior[r] \in Peaceful /\ (r <= N - F => behavior[r] = "Honest")
  BY CalmBehaviors
<1>3. \A r \in Node : ProposalAction(r, h) # "Equivocate" /\ (behavior[r] = "Honest" => ProposalAction(r, h) # "Skip")
  BY <1>2 DEF ProposalAction, Peaceful
<1>4. \A q \in Node : Withholds(q, h) => q \in (N - F) + 1..N
  BY <1>1, <1>2 DEF Withholds, VoteAction, Node
<1>5. Cardinality((N - F) + 1..N) = F /\ (N - F) + 1..N \subseteq Node
  BY <1>1, Corrupt DEF Node
<1>6. FirstHonest \in Node
  <2>1. 1 \in Honest /\ \A q \in Honest : 1 <= q
    BY <1>1, <1>2 DEF Honest, Node
  <2>2. FirstHonest \in Honest
    BY <2>1 DEF FirstHonest
  <2> QED
    BY <2>2 DEF Honest
<1>7. Capitulators = {}
  BY DEF Capitulators, Calm, Equivocators
<1>8. PICK W : W = {q \in Node : Withholds(q, h)}
  OBVIOUS
<1>9. W \subseteq (N - F) + 1..N
  BY <1>4, <1>8
<1>10. /\ IsFiniteSet(W) /\ Cardinality(W) \in Nat /\ Cardinality(W) <= F
  <2>1. PICK B : B = (N - F) + 1..N
    OBVIOUS
  <2>2. W \subseteq B /\ B \subseteq Node /\ Cardinality(B) = F
    BY <1>5, <1>9, <2>1
  <2>3. Cardinality(W) \in Nat /\ Cardinality(W) <= Cardinality(B)
    BY <2>2, Grown
  <2> QED
    BY <2>2, <2>3, NodeFacts
<1> QED
  BY <1>3, <1>6, <1>7, <1>8, <1>10, NodeFacts
-----------------------------------------------------------------------------
(* What is sent, as a set: a vote, a proposal, what announces a notarization. *)
LEMMA SentIs ==
  ASSUME NEW r \in Node, NEW outs, Sequence(outs), NEW out \in ToSet(outs), NEW e \in Leaving(out, r)
  PROVE  e \in ToSet(Filtered(outs, r))
BY FilteredIs

LEMMA NothingSent ==
  ASSUME NEW r \in Node
  PROVE  Filtered(<<>>, r) = <<>>
<1>1. Sequence(<<>>) /\ ToSet(<<>>) = {}
  BY DEF Sequence, ToSet
<1>2. PICK q : q = Filtered(<<>>, r)
  OBVIOUS
<1>3. Sequence(q) /\ ToSet(q) = {}
  BY <1>1, <1>2, FilteredIs
<1>4. q = <<>>
  <2>1. q \in Seq({})
    BY <1>3, SequenceOfSet
  <2> QED
    BY <2>1
<1> QED
  BY <1>2, <1>4

LEMMA VoteSent ==
  ASSUME NEW r \in Node, NEW outs, Sequence(outs), NEW b, ~Withholds(r, view),
         [kind |-> "Vote", view |-> view, block |-> b] \in ToSet(outs), NEW p \in Node \ {r}
  PROVE  \E e \in ToSet(Filtered(outs, r)) : /\ e.to = p /\ e.message.kind = "Vote"
                                            /\ e.message.signer = r /\ e.message.block = b
<1> PICK o : o = [kind |-> "Vote", view |-> view, block |-> b]
  OBVIOUS
<1>1. o.kind = "Vote" /\ o \in ToSet(outs)
  OBVIOUS
<1>2. PICK m : m = AsMessage(o, r)
  OBVIOUS
<1>3. m.kind = "Vote" /\ m.signer = r /\ m.block = b
  BY <1>2 DEF AsMessage
<1>4. Leaving(o, r) = {[to |-> q, message |-> m] : q \in Node \ {r}}
  BY <1>1, <1>2 DEF Leaving
<1>5. PICK e : e = [to |-> p, message |-> m]
  OBVIOUS
<1>6. e \in Leaving(o, r) /\ e.to = p /\ e.message = m
  BY <1>4, <1>5
<1> QED
  BY <1>1, <1>3, <1>6, SentIs

LEMMA FinalSent ==
  ASSUME NEW r \in Node, NEW outs, Sequence(outs), [kind |-> "FinalizeVote", view |-> view] \in ToSet(outs),
         NEW p \in Node \ {r}
  PROVE  \E e \in ToSet(Filtered(outs, r)) : e.to = p /\ e.message.kind = "FinalizeVote" /\ e.message.signer = r
<1> PICK o : o = [kind |-> "FinalizeVote", view |-> view]
  OBVIOUS
<1>1. o.kind = "FinalizeVote" /\ o \in ToSet(outs)
  OBVIOUS
<1>2. PICK m : m = AsMessage(o, r)
  OBVIOUS
<1>3. m.kind = "FinalizeVote" /\ m.signer = r
  BY <1>2 DEF AsMessage
<1>4. Leaving(o, r) = {[to |-> q, message |-> m] : q \in Node \ {r}}
  BY <1>1, <1>2 DEF Leaving
<1>5. PICK e : e = [to |-> p, message |-> m]
  OBVIOUS
<1>6. e \in Leaving(o, r) /\ e.to = p /\ e.message = m
  BY <1>4, <1>5
<1> QED
  BY <1>1, <1>3, <1>6, SentIs

LEMMA ProposalSent ==
  ASSUME NEW r \in Node, NEW outs, Sequence(outs), NEW b, ProposalAction(r, view) # "Skip",
         [kind |-> "Proposal", block |-> b] \in ToSet(outs), NEW p \in Node \ {r}
  PROVE  \E e \in ToSet(Filtered(outs, r)) : e.to = p /\ e.message.kind = "Proposal"
<1> PICK o : o = [kind |-> "Proposal", block |-> b]
  OBVIOUS
<1>1. o.kind = "Proposal" /\ o.block = b /\ o \in ToSet(outs)
  OBVIOUS
<1>2. \E c \in FilterProposal(r, view, b) : c.to = p
  <2>1. p \in {q \in Node \ {r} : ProposalAction(r, view) # "Skip"}
    OBVIOUS
  <2>2. \E x : [to |-> p, block |-> x] \in FilterProposal(r, view, b)
    BY <2>1 DEF FilterProposal
  <2> QED
    BY <2>2
<1>3. PICK c \in FilterProposal(r, view, b) : c.to = p
  BY <1>2
<1>4. PICK e : e = [to |-> c.to, message |-> [kind |-> "Proposal", block |-> c.block]]
  OBVIOUS
<1>5. e \in Leaving(o, r) /\ e.to = p /\ e.message.kind = "Proposal"
  BY <1>1, <1>3, <1>4 DEF Leaving
<1> QED
  BY <1>1, <1>5, SentIs

(* A copy is of the block itself, and a leader that skips sends none.       *)
LEMMA CopyIs ==
  ASSUME NEW r \in Node, ProposalAction(r, view) # "Equivocate", NEW b, NEW e, NEW out,
         SendsProposal(e, out, r, b)
  PROVE  e.message.block = b /\ ProposalAction(r, view) # "Skip"
BY DEF SendsProposal, FilterProposal

-----------------------------------------------------------------------------
(* A view in which nobody equivocates, from the seed all share to the seed all
   share. The leader is everybody's; a block it proposes is voted for by all before
   a vote is counted, and all have left on a quorum of votes before a relay or
   a finalize vote is delivered; a leader that skips is heard by nobody.    *)
OneSeed == \A q, r \in Node : replica[q].seed = replica[r].seed
Skips   == ProposalAction(leader, view) = "Skip"
Told    == \A e \in ToSet(queue) : e.message.kind # "Proposal"
ProposalFor(r)  == \E e \in ToSet(queue) : e.to = r /\ e.message.kind = "Proposal"
VoteFrom(q, r)  == \E e \in ToSet(queue) : e.to = r /\ e.message.kind = "Vote" /\ e.message.signer = q
FinalFrom(q, r) == \E e \in ToSet(queue) : e.to = r /\ e.message.kind = "FinalizeVote" /\ e.message.signer = q
Ayes(r, b) == ToSet(VotesFor(replica[r], b))
Unheard(r, b) ==
  replica[r].voted_block = Genesis /\ replica[r].tip = Parent(b) /\ LeaderFor(r) = leader /\ ProposalFor(r)
Heard(r, b) ==
  b \in replica[r].known_blocks /\ r \in Ayes(r, b) /\ Len(VotesFor(replica[r], b)) < T

Begun == OneSeed /\ (\A r \in Node : LeaderFor(r) = leader) /\ \A e \in ToSet(queue) : e.to = leader
Silence ==
  /\ \A r \in Node : Inside(r) /\ (r # leader => replica[r].known_blocks = {})
  /\ \A e \in ToSet(queue) : e.message.kind = "Vote" /\ e.to # leader
Counted(b) ==
  \A q, r \in Node : q # r /\ ~Withholds(q, view) /\ Inside(r) =>
    q \in Ayes(r, b) \/ VoteFrom(q, r) \/ (Inside(q) /\ Unheard(q, b))
Finals ==
  \A q, r \in Node : q # r /\ Outside(q) =>
    FinalFrom(q, r) \/ (Outside(r) /\ q \in ToSet(replica[r].finalize_votes))
Spread(b) ==
  /\ BlockOf(b, view) /\ Last(b).proposer = leader /\ Sorted(queue)
  /\ \A e \in ToSet(queue) : /\ e.message.kind \in {"Proposal", "Vote", "Notarization", "FinalizeVote"}
                             /\ e.message.kind # "FinalizeVote" => e.message.block = b
                             /\ ~Told => e.message.kind \in {"Proposal", "Vote"}
  /\ \A r \in Node : Inside(r) => Heard(r, b) \/ Unheard(r, b)
  /\ ~Told => \A r \in Node : Inside(r) /\ Ayes(r, b) \subseteq {r}
  /\ Counted(b) /\ Finals
  /\ \A r \in Node : Outside(r) => replica[r].tip = b /\ replica[r].seed = NotarySeed(b)

Decided(b) ==
  /\ BlockOf(b, view) /\ Last(b).proposer = leader
  /\ \A r \in Node : /\ Outside(r) /\ replica[r].tip = b /\ replica[r].seed = NotarySeed(b)
                     /\ Node \ {r} \subseteq ToSet(replica[r].finalize_votes)
Over == \/ Skips /\ \A r \in Node : Outside(r) => replica[r].seed = DummySeed(view)
        \/ \E b : Decided(b)
Round ==
  /\ phase = "ask" => OneSeed
  /\ phase \in {"deliver", "timeout", "route"} => leader \in Node
  /\ phase = "deliver" => /\ Asked => Begun
                          /\ ~Asked /\ Skips => Silence
                          /\ ~Asked /\ ~Skips => \E b : Spread(b)
  /\ phase \in {"timeout", "route"} => Over

(* A delivery when nobody forges votes.                                     *)
Taken(d, r, s, m, res, handed) ==
  /\ d = Head(queue) /\ r = d.to /\ s = replica[r] /\ m = d.message
  /\ r \in Node /\ NodeState(r, s) /\ d \in ToSet(queue) /\ Deliverable(d, view, "deliver")
  /\ Handled(r, m, s, res, LeaderFor(r)) /\ res = Apply(d) /\ Answered(res.out)
  /\ replica'[r] = res.state /\ \A x \in Node : x # r => replica'[x] = replica[x]
  /\ handed = Filtered(res.out, r) /\ Sequence(handed)
  /\ \A e \in ToSet(handed) : \E out \in ToSet(res.out) : Sends(e, out, r, view)
  /\ Sequence(queue) /\ queue # <<>> /\ queue' = Tail(queue) \o handed \o <<>>
  /\ ToSet(queue') = ToSet(Tail(queue)) \cup ToSet(handed)
  /\ ToSet(queue) = ToSet(Tail(queue)) \cup {d}
  /\ view' = view /\ leader' = leader /\ behavior' = behavior /\ oracle' = oracle
  /\ view \in Nat
  /\ s.view = view => s.dummy_sent = FALSE
  /\ s.view = view \/ s.view = view + 1

LEMMA TakenIs ==
  ASSUME Sane, Ends, Capitulators = {}, Deliver
  PROVE  \E d, r, s, m, res, handed : Taken(d, r, s, m, res, handed)
<1>1. phase = "deliver" /\ queue # <<>> /\ view' = view /\ leader' = leader /\ behavior' = behavior /\ oracle' = oracle
  BY DEF Deliver, given
<1>0. PICK d, res, forged : DeliveredBy(d, res, forged)
  BY DeliverIs
<1>2. PICK r, s, m : r = d.to /\ s = replica[r] /\ m = d.message
  OBVIOUS
<1>3. /\ Deliverable(d, view, "deliver") /\ r \in Node /\ NodeState(r, s) /\ d \in ToSet(queue)
      /\ view \in Nat /\ Handled(r, m, s, res, LeaderFor(r))
      /\ replica'[r] = res.state /\ \A x \in Node : x # r => replica'[x] = replica[x]
  BY <1>0, <1>1, <1>2, DeliverDeed
<1>4. forged = <<>>
  BY <1>0, <1>1, VotesAfter
<1>5. PICK handed : handed = Filtered(res.out, r)
  OBVIOUS
<1>6. /\ d = Head(queue) /\ res = Apply(d) /\ Answered(res.out)
      /\ queue' = Tail(queue) \o handed \o forged
  BY <1>0, <1>2, <1>5 DEF DeliveredBy
<1>7. Sequence(handed) /\ ToSet(queue') = (ToSet(Tail(queue)) \cup ToSet(handed)) \cup ToSet(forged)
  BY <1>0, <1>1, <1>2, <1>5, QueueAfter
<1>8. ToSet(forged) = {}
  BY <1>4 DEF ToSet
<1>9. \A e \in ToSet(handed) : \E out \in ToSet(res.out) : Sends(e, out, r, view)
  BY <1>3, <1>5, <1>6, FilteredSends
<1>10. Sequence(queue) /\ ToSet(queue) = ToSet(Tail(queue)) \cup {d}
  BY <1>1, <1>6, HeadFacts DEF Sane
<1>11. s.view = view => s.dummy_sent = FALSE
  BY <1>1, <1>2, <1>3 DEF Ends, Inside, Untimed
<1>12. s.view = view \/ s.view = view + 1
  BY <1>2, <1>3 DEF Ends, Inside, Outside
<1>13. Taken(d, r, s, m, res, handed)
  BY <1>1, <1>2, <1>3, <1>4, <1>5, <1>6, <1>7, <1>8, <1>9, <1>10, <1>11, <1>12 DEF Taken
<1> QED
  BY <1>13

LEMMA SameLeaders ==
  ASSUME behavior' = behavior, oracle' = oracle, view' = view, leader' = leader
  PROVE  /\ \A q : Withholds(q, view)' <=> Withholds(q, view)
         /\ Skips' <=> Skips
         /\ \A r \in Node : replica'[r].seed = replica[r].seed => LeaderFor(r)' = LeaderFor(r)
<1>1. \A q : Withholds(q, view)' <=> Withholds(q, view)
  BY DEF Withholds, VoteAction
<1>2. Skips' <=> Skips
  BY DEF Skips, ProposalAction
<1>3. \A r \in Node : replica'[r].seed = replica[r].seed => LeaderFor(r)' = LeaderFor(r)
  BY DEF LeaderFor
<1> QED
  BY <1>1, <1>2, <1>3

Entered(x) ==
  /\ Inside(x) /\ replica[x].voted_block = Genesis /\ replica[x].known_blocks = {}
  /\ \A b : Ayes(x, b) = {} /\ VotesFor(replica[x], b) = <<>>
AskedFor(s, res, r, b) ==
  /\ Proposes(s, res, r, b)
  /\ res.out = <<[kind |-> "Proposal", block |-> b], [kind |-> "Vote", view |-> view, block |-> b]>>
  /\ BlockOf(b, view) /\ Last(b).proposer = leader /\ Parent(b) = s.tip

(* The leader is asked, and all are where it is.                            *)
LEMMA AskedFacts ==
  ASSUME Sane, Ends, Asked, Begun, phase = "deliver", leader \in Node, NEW d, NEW r, NEW s, NEW m, NEW res, NEW handed,
         Taken(d, r, s, m, res, handed)
  PROVE  /\ r = leader /\ m.kind = "ProposeRequest" /\ m.view = view /\ Tail(queue) = <<>>
         /\ \A x \in Node : Entered(x)
         /\ \E b : AskedFor(s, res, r, b)
<1>1. /\ d = Head(queue) /\ r = d.to /\ s = replica[r] /\ m = d.message
      /\ r \in Node /\ NodeState(r, s) /\ d \in ToSet(queue) /\ Handled(r, m, s, res, LeaderFor(r)) /\ res = Apply(d)
      /\ ToSet(queue) = ToSet(Tail(queue)) \cup {d} /\ view \in Nat /\ Deliverable(d, view, "deliver")
  BY DEF Taken
<1>2. Tail(queue) = <<>> /\ ToSet(queue) = {d}
  <2>1. Tail(queue) = <<>>
    BY DEF Sane
  <2>2. ToSet(<<>>) = {}
    BY DEF ToSet
  <2> QED
    BY <2>1, <2>2, <1>1
<1>3. m.kind = "ProposeRequest"
  BY <1>1, <1>2 DEF Asked
<1>4. r = leader /\ LeaderFor(r) = leader
  BY <1>1 DEF Begun
<1>5. m.view = view
  BY <1>1, <1>3 DEF Deliverable
<1>6. ASSUME NEW x \in Node
      PROVE  Entered(x)
  <2>1. replica[x].view <= view /\ (replica[x].view = view => Fresh(replica[x]))
    BY DEF Sane, Reach
  <2>2. replica[x].view = view
    BY <2>1, <1>1 DEF Ends, Inside, Outside
  <2>3. Fresh(replica[x]) /\ replica[x].notarize_votes = <<>> /\ replica[x].voted_block = Genesis
        /\ replica[x].known_blocks = {}
    BY <2>1, <2>2 DEF Fresh
  <2>4. \A b : Ayes(x, b) = {} /\ VotesFor(replica[x], b) = <<>>
    BY <2>3, NothingCast DEF Ayes
  <2> QED
    BY <2>2, <2>3, <2>4 DEF Inside, Entered
<1>7. s.view = view
  BY <1>1, <1>6 DEF Inside, Entered
<1>8. PICK b : b = NextBlock(s, r, m.payload)
  OBVIOUS
<1>9. Proposes(s, res, r, b)
  BY <1>1, <1>3, <1>4, <1>5, <1>7, <1>8 DEF Handled, Needless
<1>10. res.out = <<[kind |-> "Proposal", block |-> b], [kind |-> "Vote", view |-> view, block |-> b]>>
  <2>1. res = HandleProposeRequest(s, r, LeaderFor(r), m.view, m.payload)
    BY <1>1, <1>3 DEF Apply, ApplyMessage
  <2>2. b = Append(s.tip, [view |-> m.view, payload |-> m.payload, proposer |-> r])
    BY <1>5, <1>7, <1>8 DEF NextBlock
  <2> QED
    BY <2>1, <2>2, <1>4, <1>5, <1>7 DEF HandleProposeRequest, Result
<1>11. BlockOf(b, view) /\ Last(b).proposer = leader /\ Parent(b) = s.tip
  <2>1. PICK S : s.tip \in Seq(S)
    BY <1>1 DEF NodeState, Sequence
  <2>2. PICK y : y = [view |-> view, payload |-> m.payload, proposer |-> r]
    OBVIOUS
  <2>3. b = Append(s.tip, y) /\ y.view = view /\ y.proposer = leader
    BY <1>4, <1>7, <1>8, <2>2 DEF NextBlock
  <2>4. s.tip \in Seq(S \cup {y})
    BY <2>1
  <2>5. /\ b \in Seq(S \cup {y}) /\ Len(b) = Len(s.tip) + 1 /\ b[Len(b)] = y /\ b # <<>>
        /\ SubSeq(b, 1, Len(b) - 1) = s.tip
    BY <2>3, <2>4
  <2> QED
    BY <2>3, <2>5 DEF BlockOf, Sequence, ViewOf, Last, Parent, Front, Genesis
<1>12. AskedFor(s, res, r, b)
  BY <1>9, <1>10, <1>11 DEF AskedFor
<1> QED
  BY <1>2, <1>3, <1>4, <1>5, <1>6, <1>12

(* What is sent, by the kind of what it was sent for.                       *)
SentFor(e, out, r) ==
  \/ out.kind = "Proposal" /\ e.message.kind = "Proposal" /\ e.message.block = out.block
     /\ ProposalAction(r, view) # "Skip"
  \/ out.kind = "Vote" /\ e.message.kind = "Vote" /\ e.message.block = out.block /\ e.message.signer = r
  \/ out.kind = "RelayNotarization" /\ e.message.kind = "Notarization" /\ e.message.block = out.block
  \/ out.kind = "FinalizeVote" /\ e.message.kind = "FinalizeVote" /\ e.message.signer = r

LEMMA SentForIs ==
  ASSUME NEW r \in Node, NEW e, NEW out, Sends(e, out, r, view), ProposalAction(r, view) # "Equivocate"
  PROVE  e.to \in Node \ {r} /\ SentFor(e, out, r)
<1>1. e.to \in Node \ {r}
  BY DEF Sends
<1>2. ASSUME NEW b, SendsProposal(e, out, r, b) PROVE SentFor(e, out, r)
  <2>1. e.message.block = b /\ ProposalAction(r, view) # "Skip"
    BY <1>2, CopyIs
  <2>2. out.kind = "Proposal" /\ out.block = b /\ e.message.kind = "Proposal"
    BY <1>2 DEF SendsProposal
  <2> QED
    BY <2>1, <2>2 DEF SentFor
<1>3. ASSUME NEW b, SendsVote(e, out, r, b) PROVE SentFor(e, out, r)
  <2>1. out.kind = "Vote" /\ out.block = b /\ e.message.kind = "Vote" /\ e.message.block = b /\ e.message.signer = r
    BY <1>3 DEF SendsVote
  <2> QED
    BY <2>1 DEF SentFor
<1>4. ASSUME NEW b, SendsRelay(e, out, r, b) PROVE SentFor(e, out, r)
  <2>1. out.kind = "RelayNotarization" /\ out.block = b /\ e.message.kind = "Notarization" /\ e.message.block = b
    BY <1>4 DEF SendsRelay, Relay
  <2> QED
    BY <2>1 DEF SentFor
<1>5. ASSUME SendsFinal(e, out, r) PROVE SentFor(e, out, r)
  <2>1. out.kind = "FinalizeVote" /\ e.message.kind = "FinalizeVote" /\ e.message.signer = r
    BY <1>5 DEF SendsFinal
  <2> QED
    BY <2>1 DEF SentFor
<1> QED
  BY <1>1, <1>2, <1>3, <1>4, <1>5, SendsOne

LEMMA TakenSends ==
  ASSUME Calm, NEW d, NEW r, NEW s, NEW m, NEW res, NEW handed, Taken(d, r, s, m, res, handed)
  PROVE  \A e \in ToSet(handed) : e.to \in Node \ {r} /\ \E out \in ToSet(res.out) : SentFor(e, out, r)
<1>1. ProposalAction(r, view) # "Equivocate" /\ r \in Node
  BY CalmFacts DEF Taken
<1>2. \A e \in ToSet(handed) : \E out \in ToSet(res.out) : Sends(e, out, r, view)
  BY DEF Taken
<1> QED
  BY <1>1, <1>2, SentForIs

(* A leader that skips keeps its block to itself; its vote goes out.        *)
LEMMA SkipRound ==
  ASSUME Sane, Ends, Calm, Asked, Begun, phase = "deliver", leader \in Node, Skips,
         NEW d, NEW r, NEW s, NEW m, NEW res, NEW handed, Taken(d, r, s, m, res, handed)
  PROVE  Silence'
<1>1. /\ r = leader /\ Tail(queue) = <<>>
      /\ \A x \in Node : Inside(x) /\ replica[x].known_blocks = {}
  BY AskedFacts DEF Entered
<1>0. PICK b : AskedFor(s, res, r, b)
  BY AskedFacts
<1>2. /\ Proposes(s, res, r, b)
      /\ res.out = <<[kind |-> "Proposal", block |-> b], [kind |-> "Vote", view |-> view, block |-> b]>>
  BY <1>0 DEF AskedFor
<1>3. /\ r \in Node /\ s = replica[r] /\ view' = view /\ leader' = leader
      /\ replica'[r] = res.state /\ \A x \in Node : x # r => replica'[x] = replica[x]
      /\ ToSet(queue') = ToSet(Tail(queue)) \cup ToSet(handed)
  BY DEF Taken
<1>4. \A e \in ToSet(handed) : e.to \in Node \ {r} /\ \E out \in ToSet(res.out) : SentFor(e, out, r)
  BY TakenSends
<1>5. ToSet(res.out) = {[kind |-> "Proposal", block |-> b], [kind |-> "Vote", view |-> view, block |-> b]}
  BY <1>2, TwoIs
<1>6. \A out \in ToSet(res.out) : out.kind \in {"Proposal", "Vote"}
  BY <1>5
<1>7. ASSUME NEW e \in ToSet(queue') PROVE e.message.kind = "Vote" /\ e.to # leader'
  <2>1. e \in ToSet(handed)
    BY <1>1, <1>3 DEF ToSet
  <2>2. PICK out \in ToSet(res.out) : SentFor(e, out, r)
    BY <2>1, <1>4
  <2>3. out.kind # "Proposal"
    <3>1. ProposalAction(r, view) = "Skip"
      BY <1>1 DEF Skips
    <3> QED
      BY <2>2, <3>1 DEF SentFor
  <2>4. e.message.kind = "Vote"
    BY <2>2, <2>3, <1>6 DEF SentFor
  <2> QED
    BY <2>1, <2>4, <1>1, <1>3, <1>4
<1>8. ASSUME NEW x \in Node PROVE replica'[x].view = view' /\ (x # leader' => replica'[x].known_blocks = {})
  <2>1. CASE x # r
    BY <2>1, <1>1, <1>3 DEF Inside
  <2>2. CASE x = r
    <3>1. res.state.view = s.view
      BY <1>2 DEF Proposes, Ballot, Kept, Fields, BallotFields
    <3> QED
      BY <2>2, <3>1, <1>1, <1>3 DEF Inside
  <2> QED
    BY <2>1, <2>2
<1> QED
  BY <1>7, <1>8 DEF Silence, Inside

(* The proposals leave before the leader's own vote.                        *)
LEMMA AskedOrder ==
  ASSUME NEW r \in Node, NEW b, NEW outs,
         outs = <<[kind |-> "Proposal", block |-> b], [kind |-> "Vote", view |-> view, block |-> b]>>
  PROVE  Sorted(Filtered(outs, r))
<1>1. PICK x, y : x = [kind |-> "Proposal", block |-> b] /\ y = [kind |-> "Vote", view |-> view, block |-> b]
  OBVIOUS
<1>2. PICK p, q : p = FilterOutgoing(x, r) /\ q = FilterOutgoing(y, r)
  OBVIOUS
<1>3. Sequence(p) /\ ToSet(p) = Leaving(x, r) /\ Sequence(q) /\ ToSet(q) = Leaving(y, r)
  BY <1>2, OutputsLeave
<1>4. [i \in DOMAIN outs |-> FilterOutgoing(outs[i], r)] = <<p, q>>
  <2>1. outs = <<x, y>> /\ DOMAIN outs = 1..2
    BY <1>1
  <2> QED
    BY <2>1, <1>2
<1>5. Filtered(outs, r) = p \o q
  BY <1>3, <1>4, FlattenTwo DEF Filtered
<1>6. \A e \in ToSet(p) : Rank(e) = 1
  <2>1. x.kind = "Proposal"
    BY <1>1
  <2>2. \A e \in ToSet(p) : e.message.kind = "Proposal"
    BY <2>1, <1>3 DEF Leaving
  <2> QED
    BY <2>2 DEF Rank
<1>7. \A e \in ToSet(q) : Rank(e) = 2
  <2>1. y.kind = "Vote"
    BY <1>1
  <2>2. AsMessage(y, r).kind = "Vote"
    BY <1>1 DEF AsMessage
  <2>3. \A e \in ToSet(q) : e.message.kind = "Vote"
    BY <2>1, <2>2, <1>3 DEF Leaving
  <2> QED
    BY <2>3 DEF Rank
<1>8. Sorted(p) /\ Sorted(q)
  BY <1>3, <1>6, <1>7, OneRank
<1>9. \A a \in ToSet(p) : \A c \in ToSet(q) : Rank(a) <= Rank(c)
  BY <1>6, <1>7
<1> QED
  BY <1>3, <1>5, <1>8, <1>9, ConcatSorted

(* The block is on its way to everybody, and nobody has voted but its proposer. *)
LEMMA SpreadStarts ==
  ASSUME Sane, Ends, Calm, Ballots, Asked, Begun, phase = "deliver", leader \in Node, ~Skips,
         NEW d, NEW r, NEW s, NEW m, NEW res, NEW handed, Taken(d, r, s, m, res, handed)
  PROVE  \E b : Spread(b)'
<1>1. /\ r = leader /\ Tail(queue) = <<>>
      /\ \A x \in Node : Inside(x) /\ replica[x].voted_block = Genesis /\ \A c : Ayes(x, c) = {} /\ VotesFor(replica[x], c) = <<>>
  <2>1. r = leader /\ Tail(queue) = <<>> /\ \A x \in Node : Entered(x)
    BY AskedFacts
  <2> QED
    BY <2>1 DEF Entered
<1>0. PICK b : AskedFor(s, res, r, b)
  BY AskedFacts
<1>2. /\ Proposes(s, res, r, b)
      /\ res.out = <<[kind |-> "Proposal", block |-> b], [kind |-> "Vote", view |-> view, block |-> b]>>
      /\ BlockOf(b, view) /\ Last(b).proposer = leader /\ Parent(b) = s.tip
  BY <1>0 DEF AskedFor
<1>3. /\ r \in Node /\ s = replica[r] /\ view' = view /\ leader' = leader /\ oracle' = oracle /\ behavior' = behavior
      /\ replica'[r] = res.state /\ \A x \in Node : x # r => replica'[x] = replica[x]
      /\ ToSet(queue') = ToSet(Tail(queue)) \cup ToSet(handed) /\ view \in Nat
      /\ handed = Filtered(res.out, r) /\ Sequence(handed) /\ queue' = Tail(queue) \o handed \o <<>>
  BY DEF Taken
<1>4. \A e \in ToSet(handed) : e.to \in Node \ {r} /\ \E out \in ToSet(res.out) : SentFor(e, out, r)
  BY TakenSends
<1>5. /\ Sequence(res.out)
      /\ ToSet(res.out) = {[kind |-> "Proposal", block |-> b], [kind |-> "Vote", view |-> view, block |-> b]}
  <2>1. Sequence(res.out) /\ ToSet(res.out) = {[kind |-> "Proposal", block |-> b], VoteOut(s, b)}
    BY <1>2 DEF Proposes
  <2>2. s.view = view
    BY <1>1, <1>3 DEF Inside
  <2> QED
    BY <2>1, <2>2 DEF VoteOut
<1>6. ToSet(queue') = ToSet(handed)
  <2>1. ToSet(<<>>) = {} /\ Tail(queue) = <<>>
    BY <1>1 DEF ToSet
  <2>2. ToSet(queue') = ToSet(Tail(queue)) \cup ToSet(handed)
    BY <1>3
  <2> QED
    BY <2>1, <2>2
<1>7. queue' = handed /\ Sorted(queue')
  <2>1. PICK S : handed \in Seq(S)
    BY <1>3 DEF Sequence
  <2>2. queue' = handed
    <3>1. Tail(queue) = <<>> /\ queue' = Tail(queue) \o handed \o <<>>
      BY <1>1, <1>3
    <3>2. <<>> \o handed = handed /\ handed \o <<>> = handed
      BY <2>1
    <3> QED
      BY <3>1, <3>2
  <2>3. Sorted(handed)
    BY <1>2, <1>3, AskedOrder
  <2> QED
    BY <2>2, <2>3
<1>8. ASSUME NEW e \in ToSet(queue') PROVE e.message.kind \in {"Proposal", "Vote"} /\ e.message.block = b
  <2>1. PICK out \in ToSet(res.out) : SentFor(e, out, r)
    BY <1>4, <1>6
  <2>2. out.kind \in {"Proposal", "Vote"} /\ out.block = b
    BY <1>5
  <2> QED
    BY <2>1, <2>2 DEF SentFor
<1>9. Ballot(s, res.state, b, r)
  BY <1>2 DEF Proposes
<1>10. res.state.view = s.view /\ res.state.known_blocks = s.known_blocks \cup {b}
       /\ VotesFor(res.state, b) = Append(VotesFor(s, b), r)
  BY <1>9 DEF Ballot, Kept, Fields, BallotFields, Pushed
<1>11. VotesFor(res.state, b) = <<r>> /\ ToSet(<<r>>) = {r} /\ Len(<<r>>) < T
  <2>1. VotesFor(s, b) = <<>>
    BY <1>1, <1>3
  <2>2. ToSet(<<r>>) = {r} /\ Len(<<r>>) = 1
    BY PairIs
  <2> QED
    BY <2>1, <2>2, <1>10, NodeFacts
<1>12. \A x \in Node : replica'[x].view = view
  BY <1>1, <1>3, <1>10 DEF Inside
<1>13. b \in replica'[r].known_blocks /\ r \in ToSet(VotesFor(replica'[r], b)) /\ Len(VotesFor(replica'[r], b)) < T
  BY <1>3, <1>10, <1>11
<1>14. \A x \in Node \ {r} : \E e \in ToSet(queue') : e.to = x /\ e.message.kind = "Proposal"
  <2>1. ProposalAction(r, view) # "Skip"
    BY <1>1 DEF Skips
  <2>2. [kind |-> "Proposal", block |-> b] \in ToSet(res.out)
    BY <1>5
  <2>3. \A x \in Node \ {r} : \E e \in ToSet(Filtered(res.out, r)) : e.to = x /\ e.message.kind = "Proposal"
    <3> SUFFICES ASSUME NEW x \in Node \ {r}
                 PROVE  \E e \in ToSet(Filtered(res.out, r)) : e.to = x /\ e.message.kind = "Proposal"
      OBVIOUS
    <3>1. r \in Node /\ Sequence(res.out)
      BY <1>3, <1>5
    <3> QED
      BY <2>1, <2>2, <3>1, ProposalSent
  <2> QED
    BY <2>3, <1>3, <1>6
<1>15. \A x \in Node \ {r} : replica'[x].voted_block = Genesis /\ replica'[x].tip = Parent(b) /\ LeaderFor(x)' = leader'
  <2> SUFFICES ASSUME NEW x \in Node \ {r}
               PROVE  replica'[x].voted_block = Genesis /\ replica'[x].tip = Parent(b) /\ LeaderFor(x)' = leader'
    OBVIOUS
  <2>1. replica'[x] = replica[x] /\ replica[x].voted_block = Genesis
    BY <1>1, <1>3
  <2>2. replica[x].tip = s.tip
    BY <1>1, <1>3 DEF Ballots
  <2>3. LeaderFor(x) = leader /\ LeaderFor(x)' = LeaderFor(x)
    BY <2>1, <1>3, SameLeaders DEF Begun
  <2> QED
    BY <2>1, <2>2, <2>3, <1>2, <1>3
<1>16. \A x \in Node \ {r} : Unheard(x, b)'
  BY <1>14, <1>15 DEF Unheard, ProposalFor
<1>17. Heard(r, b)'
  BY <1>13 DEF Heard, Ayes
<1>18. \A x \in Node : ToSet(VotesFor(replica'[x], b)) \subseteq {x}
  <2> SUFFICES ASSUME NEW x \in Node PROVE ToSet(VotesFor(replica'[x], b)) \subseteq {x}
    OBVIOUS
  <2>1. CASE x = r
    BY <2>1, <1>3, <1>11
  <2>2. CASE x # r
    BY <2>2, <1>1, <1>3 DEF Ayes
  <2> QED
    BY <2>1, <2>2
<1>19. Counted(b)'
  <2> SUFFICES ASSUME NEW q \in Node, NEW x \in Node, q # x, ~Withholds(q, view)', Inside(x)'
               PROVE  VoteFrom(q, x)' \/ (Inside(q)' /\ Unheard(q, b)')
    BY DEF Counted
  <2>1. CASE q = r
    <3>1. ~Withholds(r, view)
      BY <2>1, <1>3, SameLeaders
    <3>2. \E e \in ToSet(queue') : e.to = x /\ e.message.kind = "Vote" /\ e.message.signer = r
      <4>1. [kind |-> "Vote", view |-> view, block |-> b] \in ToSet(res.out) /\ Sequence(res.out) /\ x \in Node \ {r}
        BY <2>1, <1>5
      <4>2. \E e \in ToSet(Filtered(res.out, r)) : /\ e.to = x /\ e.message.kind = "Vote"
                                                  /\ e.message.signer = r /\ e.message.block = b
        BY <4>1, <3>1, <1>3, VoteSent
      <4> QED
        BY <4>2, <1>3, <1>6
    <3> QED
      BY <3>2, <2>1 DEF VoteFrom
  <2>2. CASE q # r
    BY <2>2, <1>3, <1>12, <1>16 DEF Inside
  <2> QED
    BY <2>1, <2>2
<1>20. \A x \in Node : Inside(x)' /\ ~Outside(x)'
  BY <1>3, <1>12 DEF Inside, Outside
<1>21. Finals'
  BY <1>20 DEF Finals
<1>22. \A x \in Node : Heard(x, b)' \/ Unheard(x, b)'
  BY <1>16, <1>17
<1>23. BlockOf(b, view)' /\ Last(b).proposer = leader'
  BY <1>2, <1>3
<1>24. Spread(b)'
  BY <1>7, <1>8, <1>18, <1>19, <1>20, <1>21, <1>22, <1>23 DEF Spread, Ayes
<1> QED
  BY <1>24

LEMMA DeliverUnasked == Sane /\ Deliver => ~Asked'
<1> SUFFICES ASSUME Sane, Deliver PROVE ~Asked'
  OBVIOUS
<1>1. phase = "deliver" /\ queue # <<>>
  BY DEF Deliver
<1>2. PICK d, res, forged : DeliveredBy(d, res, forged)
  BY DeliverIs
<1>3. \A e \in ToSet(queue') : e.message.kind # "ProposeRequest"
  BY <1>1, <1>2, QueueAfter
<1> QED
  BY <1>3 DEF Asked

(* A vote in a state that is still in its view.                             *)
LEMMA VoteTaken ==
  ASSUME NEW r, NEW m, NEW s, NEW res, NEW l, Handled(r, m, s, res, l), m.kind = "Vote"
  PROVE  \/ Quiet(s, res) /\ (m.view = s.view => m.signer \in ToSet(VotesFor(s, m.block)))
         \/ m.view = s.view /\ Counts(s, res, m.block, m.signer)
         \/ m.view = s.view /\ m.block \in s.known_blocks /\ LeavesWith(s, res, m.block, NotarySeed(m.block))
BY DEF Handled, Needless

LEMMA NothingAdded ==
  ASSUME NEW d, NEW r, NEW s, NEW m, NEW res, NEW handed, Taken(d, r, s, m, res, handed), res.out = <<>>
  PROVE  /\ ToSet(queue') = ToSet(Tail(queue)) /\ queue' = Tail(queue)
         /\ ToSet(queue') \subseteq ToSet(queue) /\ \A e \in ToSet(queue) : e = d \/ e \in ToSet(queue')
<1>1. /\ ToSet(queue') = ToSet(Tail(queue)) \cup ToSet(handed) /\ ToSet(queue) = ToSet(Tail(queue)) \cup {d}
      /\ handed = Filtered(res.out, r) /\ r \in Node /\ queue' = Tail(queue) \o handed \o <<>>
      /\ Sequence(queue) /\ queue # <<>>
  BY DEF Taken
<1>2. handed = <<>>
  BY <1>1, NothingSent
<1>3. ToSet(<<>>) = {}
  BY DEF ToSet
<1>4. queue' = Tail(queue)
  <2>1. Sequence(Tail(queue))
    BY <1>1, TailSequence
  <2>2. PICK S : Tail(queue) \in Seq(S)
    BY <2>1 DEF Sequence
  <2>3. Tail(queue) \o <<>> = Tail(queue)
    BY <2>2
  <2> QED
    BY <2>3, <1>1, <1>2
<1> QED
  BY <1>1, <1>2, <1>3, <1>4

LEMMA SilenceKept ==
  ASSUME Silence, NEW d, NEW r, NEW s, NEW m, NEW res, NEW handed, Taken(d, r, s, m, res, handed)
  PROVE  Silence'
<1>1. /\ r = d.to /\ s = replica[r] /\ m = d.message /\ r \in Node /\ d \in ToSet(queue)
      /\ Handled(r, m, s, res, LeaderFor(r)) /\ view' = view /\ leader' = leader
      /\ replica'[r] = res.state /\ \A x \in Node : x # r => replica'[x] = replica[x]
  BY DEF Taken
<1>2. m.kind = "Vote" /\ r # leader /\ s.known_blocks = {} /\ s.view = view
  BY <1>1 DEF Silence, Inside
<1>3. res.out = <<>> /\ res.state.view = view /\ res.state.known_blocks = {}
  <2>1. \/ Quiet(s, res) /\ (m.view = s.view => m.signer \in ToSet(VotesFor(s, m.block)))
        \/ m.view = s.view /\ Counts(s, res, m.block, m.signer)
        \/ m.view = s.view /\ m.block \in s.known_blocks /\ LeavesWith(s, res, m.block, NotarySeed(m.block))
    BY <1>1, <1>2, VoteTaken
  <2>2. CASE Quiet(s, res)
    BY <2>2, <1>2 DEF Quiet
  <2>3. CASE Counts(s, res, m.block, m.signer)
    BY <2>3, <1>2 DEF Counts, Kept, Fields
  <2> QED
    BY <2>1, <2>2, <2>3, <1>2
<1>4. ToSet(queue') \subseteq ToSet(queue)
  BY <1>3, NothingAdded
<1>5. \A e \in ToSet(queue') : e.message.kind = "Vote" /\ e.to # leader'
  BY <1>1, <1>4 DEF Silence
<1>6. ASSUME NEW x \in Node PROVE replica'[x].view = view' /\ (x # leader' => replica'[x].known_blocks = {})
  <2>1. CASE x = r
    BY <2>1, <1>1, <1>3
  <2>2. CASE x # r
    BY <2>2, <1>1 DEF Silence, Inside
  <2> QED
    BY <2>1, <2>2
<1> QED
  BY <1>5, <1>6 DEF Silence, Inside
-----------------------------------------------------------------------------
(* With no proposal and no vote left to deliver, nobody is still in the view: who
   is has counted its own vote and those of all who do not withhold theirs. *)
LEMMA AllLeft ==
  ASSUME Sane, Ends, Calm, NEW b, Spread(b), \A e \in ToSet(queue) : e.message.kind \notin {"Proposal", "Vote"}
  PROVE  \A r \in Node : Outside(r)
<1> SUFFICES ASSUME NEW r \in Node, Inside(r) PROVE FALSE
  BY DEF Ends
<1>1. \A x \in Node : ~ProposalFor(x)
  BY DEF ProposalFor
<1>2. Heard(r, b)
  BY <1>1 DEF Spread, Unheard
<1>3. PICK v : v = VotesFor(replica[r], b)
  OBVIOUS
<1>4. r \in ToSet(v) /\ Len(v) < T /\ Listed(v) /\ ToSet(v) \subseteq Node
  BY <1>2, <1>3 DEF Heard, Ayes, Sane, NodeState
<1>5. \A q \in Node : ~Withholds(q, view) => q \in ToSet(v)
  <2> SUFFICES ASSUME NEW q \in Node, ~Withholds(q, view), q # r PROVE q \in ToSet(v)
    BY <1>4
  <2>1. ~VoteFrom(q, r) /\ ~Unheard(q, b)
    BY <1>1 DEF VoteFrom, Unheard
  <2>2. q \in Ayes(r, b)
    BY <2>1 DEF Spread, Counted
  <2> QED
    BY <2>2, <1>3 DEF Ayes
<1>6. PICK W : W = {q \in Node : Withholds(q, view)}
  OBVIOUS
<1>7. IsFiniteSet(W) /\ Cardinality(W) \in Nat /\ Cardinality(W) <= F /\ W \subseteq Node
  BY <1>6, CalmFacts
<1>8. Node = W \cup ToSet(v)
  BY <1>4, <1>5, <1>6
<1>9. IsFiniteSet(ToSet(v)) /\ Cardinality(ToSet(v)) \in Nat /\ Cardinality(ToSet(v)) = Len(v) /\ Len(v) \in Nat
  BY <1>4, NodeFacts DEF Listed
<1>10. Cardinality(Node) <= Cardinality(W) + Cardinality(ToSet(v))
  <2>1. /\ Cardinality(W \cup ToSet(v)) = Cardinality(W) + Cardinality(ToSet(v)) - Cardinality(W \cap ToSet(v))
    BY <1>7, <1>9, FS_Union
  <2>2. Cardinality(W \cap ToSet(v)) \in Nat
    BY <1>7, NodeFacts
  <2>3. PICK a, c, i \in Nat : a = Cardinality(W) /\ c = Cardinality(ToSet(v)) /\ i = Cardinality(W \cap ToSet(v))
    BY <2>2, <1>7, <1>9
  <2>4. Cardinality(Node) = a + c - i
    BY <2>1, <2>3, <1>8
  <2> QED
    BY <2>3, <2>4
<1>11. PICK a, c \in Nat : a = Cardinality(W) /\ c = Cardinality(ToSet(v))
  BY <1>7, <1>9
<1>12. N <= a + c /\ a <= F /\ c < T
  BY <1>4, <1>7, <1>9, <1>10, <1>11, NodeFacts
<1> QED
  BY <1>12, NodeFacts

-----------------------------------------------------------------------------
(* A proposal: who has not voted votes, and nobody has enough votes to leave. *)
LEMMA ProposalTaken ==
  ASSUME NEW b, Spread(b), NEW d, NEW r, NEW s, NEW m, NEW res, NEW handed, Taken(d, r, s, m, res, handed),
         m.kind = "Proposal"
  PROVE  \/ VotesAndStays(s, res, b, r) /\ Unheard(r, b)
         \/ Refuses(s, res, b) /\ Heard(r, b) /\ ~Unheard(r, b)
<1>1. /\ r = d.to /\ s = replica[r] /\ m = d.message /\ r \in Node /\ d \in ToSet(queue) /\ NodeState(r, s)
      /\ Handled(r, m, s, res, LeaderFor(r))
  BY DEF Taken
<1>2. ~Told
  BY <1>1 DEF Told
<1>3. m.block = b /\ s.view = view /\ Ayes(r, b) \subseteq {r} /\ (Heard(r, b) \/ Unheard(r, b)) /\ ViewOf(b) = view /\ b # Genesis
      /\ Last(b).proposer = leader
  BY <1>1, <1>2 DEF Spread, Inside, BlockOf
<1>4. \/ ~Fits(s, LeaderFor(r), b) /\ Refuses(s, res, b)
      \/ Fits(s, LeaderFor(r), b) /\ VotesAndStays(s, res, b, r)
      \/ Fits(s, LeaderFor(r), b) /\ VotesAndLeaves(s, res, b)
  BY <1>1, <1>3 DEF Handled, Needless
<1>5. CASE Unheard(r, b)
  <2>1. Fits(s, LeaderFor(r), b) /\ s.voted_block = Genesis
    BY <1>1, <1>3, <1>5 DEF Unheard, Fits
  <2>2. ~VotesAndLeaves(s, res, b)
    <3>1. PICK v : v = VotesFor(s, b)
      OBVIOUS
    <3>2. Listed(v) /\ r \notin ToSet(v)
      BY <3>1, <2>1, <1>1, <1>3 DEF NodeState
    <3>3. ToSet(v) = {}
      BY <3>1, <3>2, <1>1, <1>3 DEF Ayes
    <3>4. Len(v) = 0
      BY <3>2, <3>3, FS_EmptySet DEF Listed
    <3> QED
      BY <3>1, <3>4, NodeFacts DEF VotesAndLeaves
  <2> QED
    BY <2>1, <2>2, <1>4, <1>5
<1>6. CASE Heard(r, b)
  <2>1. s.voted_block = b
    BY <1>1, <1>6 DEF Heard, Ayes, NodeState
  <2>2. ~Fits(s, LeaderFor(r), b) /\ ~Unheard(r, b)
    BY <2>1, <1>1, <1>3 DEF Fits, Unheard
  <2> QED
    BY <2>2, <1>4, <1>6
<1> QED
  BY <1>3, <1>5, <1>6

LEMMA ProposalDone ==
  ASSUME Calm, NEW b, Spread(b), NEW d, NEW r, NEW s, NEW m, NEW res, NEW handed, Taken(d, r, s, m, res, handed),
         m.kind = "Proposal"
  PROVE  /\ replica'[r].view = view /\ Heard(r, b)'
         /\ Ayes(r, b) \subseteq Ayes(r, b)' /\ Ayes(r, b)' \subseteq {r}
         /\ \A e \in ToSet(handed) : e.message.kind = "Vote" /\ e.message.block = b
         /\ Unheard(r, b) /\ ~Withholds(r, view) => \A x \in Node \ {r} : VoteFrom(r, x)'
<1>1. /\ r = d.to /\ s = replica[r] /\ m = d.message /\ r \in Node /\ d \in ToSet(queue) /\ NodeState(r, s)
      /\ replica'[r] = res.state /\ handed = Filtered(res.out, r)
      /\ ToSet(queue') = ToSet(Tail(queue)) \cup ToSet(handed)
  BY DEF Taken
<1>2. ~Told
  BY <1>1 DEF Told
<1>3. s.view = view /\ Ayes(r, b) \subseteq {r} /\ Ayes(r, b) = ToSet(VotesFor(s, b)) /\ Listed(VotesFor(s, b))
  BY <1>1, <1>2 DEF Spread, Inside, Ayes, NodeState
<1>4. \A e \in ToSet(handed) : \E out \in ToSet(res.out) : SentFor(e, out, r)
  BY TakenSends
<1>5. CASE VotesAndStays(s, res, b, r) /\ Unheard(r, b)
  <2>0. r \notin ToSet(VotesFor(s, b))
    BY <1>1, <1>5 DEF Unheard, NodeState, Spread, BlockOf
  <2>1. /\ Ballot(s, res.state, b, r) /\ Len(VotesFor(res.state, b)) < T
        /\ Sequence(res.out) /\ ToSet(res.out) = {VoteOut(s, b)}
    BY <1>5 DEF VotesAndStays
  <2>2. /\ res.state.view = view /\ b \in res.state.known_blocks
        /\ VotesFor(res.state, b) = Append(VotesFor(s, b), r)
    BY <2>1, <1>3 DEF Ballot, Kept, Fields, BallotFields, Pushed
  <2>3. ToSet(VotesFor(res.state, b)) = ToSet(VotesFor(s, b)) \cup {r}
    BY <2>0, <2>2, <1>3, AppendListed
  <2>4. \A e \in ToSet(handed) : e.message.kind = "Vote" /\ e.message.block = b
    <3> SUFFICES ASSUME NEW e \in ToSet(handed) PROVE e.message.kind = "Vote" /\ e.message.block = b
      OBVIOUS
    <3>1. PICK out \in ToSet(res.out) : SentFor(e, out, r)
      BY <1>4
    <3>2. out.kind = "Vote" /\ out.block = b
      BY <2>1 DEF VoteOut
    <3> QED
      BY <3>1, <3>2 DEF SentFor
  <2>5. ASSUME ~Withholds(r, view), NEW x \in Node \ {r} PROVE VoteFrom(r, x)'
    <3>1. [kind |-> "Vote", view |-> view, block |-> b] \in ToSet(res.out) /\ Sequence(res.out)
      BY <2>1, <1>3 DEF VoteOut
    <3>2. \E e \in ToSet(Filtered(res.out, r)) : /\ e.to = x /\ e.message.kind = "Vote"
                                                /\ e.message.signer = r /\ e.message.block = b
      BY <2>5, <3>1, <1>1, VoteSent
    <3> QED
      BY <3>2, <1>1 DEF VoteFrom
  <2>6. Heard(r, b)'
    BY <2>1, <2>2, <2>3, <1>1 DEF Heard, Ayes
  <2>7. Ayes(r, b)' = ToSet(VotesFor(s, b)) \cup {r}
    BY <2>3, <1>1 DEF Ayes
  <2> QED
    BY <2>2, <2>4, <2>5, <2>6, <2>7, <1>1, <1>3
<1>6. CASE Refuses(s, res, b) /\ Heard(r, b) /\ ~Unheard(r, b)
  <2>1. /\ res.state.view = view /\ b \in res.state.known_blocks /\ res.state.notarize_votes = s.notarize_votes
        /\ res.out = <<>>
    BY <1>3, <1>6 DEF Refuses, Kept, Fields
  <2>2. VotesFor(res.state, b) = VotesFor(s, b)
    BY <2>1, SameVotes
  <2>3. Ayes(r, b)' = Ayes(r, b)
    BY <2>2, <1>1 DEF Ayes
  <2>4. Heard(r, b)'
    BY <2>1, <2>2, <2>3, <1>1, <1>6 DEF Heard
  <2>5. ToSet(handed) = {}
    BY <2>1, <1>1, NothingSent DEF ToSet
  <2> QED
    BY <2>1, <2>3, <2>4, <2>5, <1>1, <1>3, <1>6
<1> QED
  BY <1>5, <1>6, ProposalTaken

(* Who is not addressed is as it was, and so is what is said of it.         *)
LEMMA OthersAsBefore ==
  ASSUME NEW b, NEW d, NEW r, NEW s, NEW m, NEW res, NEW handed, Taken(d, r, s, m, res, handed), NEW x \in Node, x # r
  PROVE  /\ replica'[x] = replica[x] /\ (Inside(x)' <=> Inside(x)) /\ (Outside(x)' <=> Outside(x))
         /\ Ayes(x, b)' = Ayes(x, b) /\ (Heard(x, b)' <=> Heard(x, b))
         /\ Unheard(x, b) => Unheard(x, b)'
<1>1. /\ replica'[x] = replica[x] /\ view' = view /\ leader' = leader /\ behavior' = behavior /\ oracle' = oracle
      /\ r = d.to /\ ToSet(queue) = ToSet(Tail(queue)) \cup {d} /\ ToSet(queue') = ToSet(Tail(queue)) \cup ToSet(handed)
  BY DEF Taken
<1>2. (Inside(x)' <=> Inside(x)) /\ (Outside(x)' <=> Outside(x))
  BY <1>1 DEF Inside, Outside
<1>3. Ayes(x, b)' = Ayes(x, b) /\ (Heard(x, b)' <=> Heard(x, b))
  BY <1>1 DEF Ayes, Heard
<1>4. ASSUME Unheard(x, b) PROVE Unheard(x, b)'
  <2>1. LeaderFor(x)' = leader'
    BY <1>1, <1>4, SameLeaders DEF Unheard
  <2>2. PICK e \in ToSet(queue) : e.to = x /\ e.message.kind = "Proposal"
    BY <1>4 DEF Unheard, ProposalFor
  <2>3. e \in ToSet(queue')
    BY <2>2, <1>1
  <2> QED
    BY <2>1, <2>2, <2>3, <1>1, <1>4 DEF Unheard, ProposalFor
<1> QED
  BY <1>1, <1>2, <1>3, <1>4

LEMMA ProposalSpreads ==
  ASSUME Calm, NEW b, Spread(b), NEW d, NEW r, NEW s, NEW m, NEW res, NEW handed, Taken(d, r, s, m, res, handed),
         m.kind = "Proposal"
  PROVE  Spread(b)'
<1>1. /\ r = d.to /\ m = d.message /\ r \in Node /\ d \in ToSet(queue) /\ view' = view /\ leader' = leader
      /\ behavior' = behavior /\ oracle' = oracle /\ Sequence(handed) /\ Sequence(queue) /\ queue # <<>>
      /\ queue' = Tail(queue) \o handed \o <<>> /\ view \in Nat
      /\ ToSet(queue') = ToSet(Tail(queue)) \cup ToSet(handed) /\ ToSet(queue) = ToSet(Tail(queue)) \cup {d}
  BY DEF Taken
<1>2. ~Told
  BY <1>1 DEF Told
<1>3. /\ BlockOf(b, view) /\ Last(b).proposer = leader /\ Sorted(queue)
      /\ \A e \in ToSet(queue) : e.message.kind \in {"Proposal", "Vote"} /\ e.message.block = b
      /\ \A x \in Node : Inside(x) /\ Ayes(x, b) \subseteq {x} /\ (Heard(x, b) \/ Unheard(x, b))
      /\ Counted(b)
  <2>1. \A e \in ToSet(queue) : e.message.kind \in {"Proposal", "Vote"} /\ e.message.block = b
    BY <1>2 DEF Spread
  <2> QED
    BY <2>1, <1>2 DEF Spread
<1>4. /\ replica'[r].view = view /\ Heard(r, b)'
      /\ Ayes(r, b) \subseteq Ayes(r, b)' /\ Ayes(r, b)' \subseteq {r}
      /\ \A e \in ToSet(handed) : e.message.kind = "Vote" /\ e.message.block = b
      /\ Unheard(r, b) /\ ~Withholds(r, view) => \A x \in Node \ {r} : VoteFrom(r, x)'
  BY ProposalDone
<1>5. \A x \in Node : x # r =>
         /\ Inside(x)' /\ Ayes(x, b)' = Ayes(x, b) /\ (Heard(x, b)' <=> Heard(x, b))
         /\ Unheard(x, b) => Unheard(x, b)'
  BY <1>3, OthersAsBefore
<1>6. \A x \in Node : Inside(x)' /\ ~Outside(x)' /\ Ayes(x, b)' \subseteq {x} /\ (Heard(x, b)' \/ Unheard(x, b)')
                      /\ Ayes(x, b) \subseteq Ayes(x, b)'
  <2> SUFFICES ASSUME NEW x \in Node
               PROVE  Inside(x)' /\ ~Outside(x)' /\ Ayes(x, b)' \subseteq {x} /\ (Heard(x, b)' \/ Unheard(x, b)')
                      /\ Ayes(x, b) \subseteq Ayes(x, b)'
    OBVIOUS
  <2>1. Inside(x)'
    BY <1>1, <1>4, <1>5 DEF Inside
  <2>2. ~Outside(x)'
    BY <2>1, <1>1 DEF Inside, Outside
  <2> QED
    BY <2>1, <2>2, <1>3, <1>4, <1>5
<1>7. \A e \in ToSet(queue') : e.message.kind \in {"Proposal", "Vote"} /\ e.message.block = b
  BY <1>1, <1>3, <1>4
<1>8. Sorted(queue')
  <2>1. \A e \in ToSet(handed) : Rank(e) = 2
    BY <1>4 DEF Rank
  <2>2. \A e \in ToSet(Tail(queue)) : e.message.kind \in {"Proposal", "Vote"}
    BY <1>1, <1>3
  <2>3. \A e \in ToSet(Tail(queue)) : Rank(e) <= 2
    <3> SUFFICES ASSUME NEW e \in ToSet(Tail(queue)) PROVE Rank(e) <= 2
      OBVIOUS
    <3>1. Rank(e) = 1 \/ Rank(e) = 2
      BY <2>2 DEF Rank
    <3> QED
      BY <3>1
  <2>4. Sorted(Tail(queue) \o handed \o <<>>)
    BY <2>1, <2>3, <1>1, <1>3, QueueSorted
  <2> QED
    BY <2>4, <1>1
<1>9. Counted(b)'
  <2> SUFFICES ASSUME NEW q \in Node, NEW x \in Node, q # x, ~Withholds(q, view)'
               PROVE  q \in Ayes(x, b)' \/ VoteFrom(q, x)' \/ (Inside(q)' /\ Unheard(q, b)')
    BY DEF Counted
  <2>1. ~Withholds(q, view)
    BY <1>1, SameLeaders
  <2>2. q \in Ayes(x, b) \/ VoteFrom(q, x) \/ Unheard(q, b)
    BY <2>1, <1>3 DEF Counted
  <2>3. CASE q \in Ayes(x, b)
    BY <2>3, <1>6
  <2>4. CASE VoteFrom(q, x)
    <3>1. PICK e \in ToSet(queue) : e.to = x /\ e.message.kind = "Vote" /\ e.message.signer = q
      BY <2>4 DEF VoteFrom
    <3>2. e # d
      BY <3>1, <1>1
    <3> QED
      BY <3>1, <3>2, <1>1 DEF VoteFrom
  <2>5. CASE Unheard(q, b) /\ q = r
    BY <2>1, <2>5, <1>4
  <2>6. CASE Unheard(q, b) /\ q # r
    BY <2>6, <1>5
  <2> QED
    BY <2>2, <2>3, <2>4, <2>5, <2>6
<1>10. Finals'
  BY <1>6 DEF Finals
<1>11. BlockOf(b, view)' /\ Last(b).proposer = leader'
  BY <1>1, <1>3
<1> QED
  BY <1>6, <1>7, <1>8, <1>9, <1>10, <1>11 DEF Spread

-----------------------------------------------------------------------------
(* A vote: all have voted; it is counted, or its receiver leaves on a quorum and
   announces it.                                                            *)
LEMMA VoteFacts ==
  ASSUME NEW b, Spread(b), NEW d, NEW r, NEW s, NEW m, NEW res, NEW handed, Taken(d, r, s, m, res, handed),
         m.kind = "Vote"
  PROVE  /\ Told /\ \A e \in ToSet(queue) : e.message.kind \in {"Vote", "Notarization", "FinalizeVote"}
         /\ m.block = b /\ m.view = view /\ BlockOf(b, view)
         /\ \A x \in Node : ~Unheard(x, b) /\ (Inside(x) => Heard(x, b))
<1>1. /\ d = Head(queue) /\ m = d.message /\ r = d.to /\ d \in ToSet(queue) /\ Sequence(queue) /\ queue # <<>>
      /\ ToSet(queue) = ToSet(Tail(queue)) \cup {d} /\ Deliverable(d, view, "deliver")
  BY DEF Taken
<1>2. /\ Sorted(queue) /\ BlockOf(b, view) /\ \A x \in Node : Inside(x) => Heard(x, b) \/ Unheard(x, b)
      /\ \A e \in ToSet(queue) : /\ e.message.kind \in {"Proposal", "Vote", "Notarization", "FinalizeVote"}
                                 /\ e.message.kind # "FinalizeVote" => e.message.block = b
  BY DEF Spread
<1>3. Rank(d) = 2
  BY <1>1 DEF Rank
<1>4. \A e \in ToSet(Tail(queue)) : Rank(d) <= Rank(e)
  BY <1>1, <1>2, TailSorted
<1>5. \A e \in ToSet(Tail(queue)) : e.message.kind # "Proposal"
  <2> SUFFICES ASSUME NEW e \in ToSet(Tail(queue)), e.message.kind = "Proposal" PROVE FALSE
    OBVIOUS
  <2>1. Rank(e) = 1
    BY DEF Rank
  <2> QED
    BY <2>1, <1>3, <1>4
<1>6. Told
  BY <1>1, <1>5 DEF Told
<1>7. \A e \in ToSet(queue) : e.message.kind \in {"Vote", "Notarization", "FinalizeVote"}
  BY <1>2, <1>6 DEF Told
<1>8. \A x \in Node : ~Unheard(x, b)
  BY <1>6 DEF Told, Unheard, ProposalFor
<1>9. m.block = b
  BY <1>1, <1>2
<1>10. m.view = view
  BY <1>1 DEF Deliverable
<1> QED
  BY <1>2, <1>6, <1>7, <1>8, <1>9, <1>10

LeavesNow(s, res, b) == s.view = view /\ LeavesWith(s, res, b, NotarySeed(b))
StaysNow(r, s, m, res, b) ==
  /\ res.out = <<>> /\ res.state.view = s.view /\ res.state.tip = s.tip /\ res.state.seed = s.seed
  /\ ToSet(s.finalize_votes) \subseteq ToSet(res.state.finalize_votes)
  /\ s.view = view => /\ b \in res.state.known_blocks /\ Len(VotesFor(res.state, b)) < T
                      /\ ToSet(VotesFor(s, b)) \subseteq ToSet(VotesFor(res.state, b))
                      /\ m.signer \in ToSet(VotesFor(res.state, b))

LEMMA VoteDone ==
  ASSUME NEW b, Spread(b), NEW d, NEW r, NEW s, NEW m, NEW res, NEW handed, Taken(d, r, s, m, res, handed),
         m.kind = "Vote"
  PROVE  StaysNow(r, s, m, res, b) \/ LeavesNow(s, res, b)
<1>1. /\ s = replica[r] /\ r \in Node /\ NodeState(r, s) /\ Handled(r, m, s, res, LeaderFor(r))
  BY DEF Taken
<1>2. m.block = b /\ m.view = view /\ \A x \in Node : Inside(x) => Heard(x, b)
  BY VoteFacts
<1>3. s.view = view => b \in s.known_blocks /\ Len(VotesFor(s, b)) < T
  BY <1>1, <1>2 DEF Heard, Inside
<1>4. \/ Quiet(s, res) /\ (view = s.view => m.signer \in ToSet(VotesFor(s, b)))
      \/ view = s.view /\ Counts(s, res, b, m.signer)
      \/ view = s.view /\ b \in s.known_blocks /\ LeavesWith(s, res, b, NotarySeed(b))
  <2>1. \/ Quiet(s, res) /\ (m.view = s.view => m.signer \in ToSet(VotesFor(s, m.block)))
        \/ m.view = s.view /\ Counts(s, res, m.block, m.signer)
        \/ m.view = s.view /\ m.block \in s.known_blocks /\ LeavesWith(s, res, m.block, NotarySeed(m.block))
    BY <1>1, VoteTaken
  <2> QED
    BY <2>1, <1>2
<1>5. CASE Quiet(s, res) /\ (view = s.view => m.signer \in ToSet(VotesFor(s, b)))
  BY <1>3, <1>5 DEF Quiet, StaysNow
<1>6. CASE view = s.view /\ Counts(s, res, b, m.signer)
  <2>1. /\ res.out = <<>> /\ res.state.view = s.view /\ res.state.tip = s.tip /\ res.state.seed = s.seed
        /\ res.state.finalize_votes = s.finalize_votes /\ res.state.known_blocks = s.known_blocks
        /\ VotesFor(res.state, b) = Append(VotesFor(s, b), m.signer)
        /\ Len(VotesFor(res.state, b)) < T
    BY <1>3, <1>6 DEF Counts, Kept, Fields, Pushed
  <2>2. PICK v, w, q : v = VotesFor(s, b) /\ w = VotesFor(res.state, b) /\ q = m.signer
    OBVIOUS
  <2>3. Sequence(v) /\ w = Append(v, q)
    BY <2>1, <2>2, <1>1 DEF NodeState, Listed
  <2>4. ToSet(v) \subseteq ToSet(w) /\ q \in ToSet(w)
    <3>1. PICK S : v \in Seq(S)
      BY <2>3 DEF Sequence
    <3>2. v \in Seq(S \cup {q})
      BY <3>1
    <3>3. /\ Len(w) = Len(v) + 1 /\ Len(v) \in Nat /\ DOMAIN v = 1..Len(v) /\ DOMAIN w = 1..Len(w)
          /\ w[Len(v) + 1] = q /\ \A i \in 1..Len(v) : w[i] = v[i]
      BY <2>3, <3>2
    <3>4. PICK n \in Nat : n = Len(v)
      BY <3>3
    <3>5. n + 1 \in DOMAIN w /\ \A i \in DOMAIN v : i \in DOMAIN w
      BY <3>3, <3>4
    <3> QED
      BY <3>3, <3>4, <3>5 DEF ToSet
  <2> QED
    BY <2>1, <2>2, <2>4, <1>3, <1>6 DEF StaysNow
<1>7. CASE view = s.view /\ b \in s.known_blocks /\ LeavesWith(s, res, b, NotarySeed(b))
  BY <1>7 DEF LeavesNow
<1> QED
  BY <1>4, <1>5, <1>6, <1>7

(* The message is counted where it went to, or lost on who has left.        *)
LEMMA StaysSpread ==
  ASSUME NEW b, Spread(b), Told, NEW d, NEW r, NEW s, NEW m, NEW res, NEW handed, Taken(d, r, s, m, res, handed),
         StaysNow(r, s, m, res, b),
         m.kind = "FinalizeVote" => Outside(r) /\ m.signer \in ToSet(res.state.finalize_votes)
  PROVE  Spread(b)'
<1>1. /\ r = d.to /\ s = replica[r] /\ m = d.message /\ r \in Node /\ view' = view /\ leader' = leader
      /\ behavior' = behavior /\ oracle' = oracle /\ replica'[r] = res.state /\ res.out = <<>>
      /\ Sequence(queue) /\ queue # <<>> /\ NodeState(r, s) /\ view \in Nat
  BY DEF Taken, StaysNow
<1>2. /\ queue' = Tail(queue) /\ ToSet(queue') \subseteq ToSet(queue) /\ \A e \in ToSet(queue) : e = d \/ e \in ToSet(queue')
  BY <1>1, NothingAdded
<1>3. /\ BlockOf(b, view) /\ Last(b).proposer = leader /\ Sorted(queue)
      /\ \A e \in ToSet(queue) : /\ e.message.kind \in {"Proposal", "Vote", "Notarization", "FinalizeVote"}
                                 /\ e.message.kind # "FinalizeVote" => e.message.block = b
      /\ \A x \in Node : Inside(x) => Heard(x, b) \/ Unheard(x, b)
      /\ Counted(b) /\ Finals
      /\ \A x \in Node : Outside(x) => replica[x].tip = b /\ replica[x].seed = NotarySeed(b)
  BY DEF Spread
<1>4. \A x \in Node : ~Unheard(x, b)
  BY DEF Told, Unheard, ProposalFor
<1>5. \A x \in Node : x # r =>
         /\ replica'[x] = replica[x] /\ (Inside(x)' <=> Inside(x)) /\ (Outside(x)' <=> Outside(x))
         /\ Ayes(x, b)' = Ayes(x, b) /\ (Heard(x, b)' <=> Heard(x, b))
  BY OthersAsBefore
<1>6. (Inside(r)' <=> Inside(r)) /\ (Outside(r)' <=> Outside(r))
  BY <1>1 DEF StaysNow, Inside, Outside
<1>7. /\ ToSet(replica[r].finalize_votes) \subseteq ToSet(replica'[r].finalize_votes)
      /\ replica'[r].tip = replica[r].tip /\ replica'[r].seed = replica[r].seed
  BY <1>1 DEF StaysNow
<1>8. Inside(r) => Ayes(r, b) \subseteq Ayes(r, b)' /\ m.signer \in Ayes(r, b)' /\ Heard(r, b)'
  <2> SUFFICES ASSUME Inside(r) PROVE Ayes(r, b) \subseteq Ayes(r, b)' /\ m.signer \in Ayes(r, b)' /\ Heard(r, b)'
    OBVIOUS
  <2>1. /\ b \in res.state.known_blocks /\ Len(VotesFor(res.state, b)) < T
        /\ ToSet(VotesFor(s, b)) \subseteq ToSet(VotesFor(res.state, b))
        /\ m.signer \in ToSet(VotesFor(res.state, b))
    BY <1>1 DEF StaysNow, Inside
  <2>2. Ayes(r, b) = ToSet(VotesFor(s, b)) /\ Ayes(r, b)' = ToSet(VotesFor(res.state, b))
    BY <1>1 DEF Ayes
  <2>3. r \in Ayes(r, b)
    BY <1>3, <1>4, <1>1 DEF Heard
  <2> QED
    BY <2>1, <2>2, <2>3, <1>1 DEF Heard
<1>9. Told'
  BY <1>2 DEF Told
<1>10. Sorted(queue')
  BY <1>1, <1>2, <1>3, TailSorted
<1>11. \A x \in Node : Inside(x)' => Heard(x, b)'
  BY <1>3, <1>4, <1>5, <1>6, <1>8
<1>12. Counted(b)'
  <2> SUFFICES ASSUME NEW q \in Node, NEW x \in Node, q # x, ~Withholds(q, view)', Inside(x)'
               PROVE  q \in Ayes(x, b)' \/ VoteFrom(q, x)'
    BY DEF Counted
  <2>1. ~Withholds(q, view) /\ Inside(x)
    BY <1>1, <1>5, <1>6, SameLeaders
  <2>2. q \in Ayes(x, b) \/ VoteFrom(q, x)
    BY <2>1, <1>3, <1>4 DEF Counted
  <2>3. CASE q \in Ayes(x, b)
    BY <2>1, <2>3, <1>5, <1>8
  <2>4. CASE VoteFrom(q, x)
    <3>1. PICK e \in ToSet(queue) : e.to = x /\ e.message.kind = "Vote" /\ e.message.signer = q
      BY <2>4 DEF VoteFrom
    <3>2. CASE e = d
      BY <3>1, <3>2, <2>1, <1>1, <1>8
    <3>3. CASE e # d
      BY <3>1, <3>3, <1>2 DEF VoteFrom
    <3> QED
      BY <3>2, <3>3
  <2> QED
    BY <2>2, <2>3, <2>4
<1>13. Finals'
  <2> SUFFICES ASSUME NEW q \in Node, NEW x \in Node, q # x, Outside(q)'
               PROVE  FinalFrom(q, x)' \/ (Outside(x)' /\ q \in ToSet(replica'[x].finalize_votes))
    BY DEF Finals
  <2>1. Outside(q)
    BY <1>5, <1>6
  <2>2. FinalFrom(q, x) \/ (Outside(x) /\ q \in ToSet(replica[x].finalize_votes))
    BY <2>1, <1>3 DEF Finals
  <2>3. CASE Outside(x) /\ q \in ToSet(replica[x].finalize_votes)
    BY <2>3, <1>5, <1>6, <1>7
  <2>4. CASE FinalFrom(q, x)
    <3>1. PICK e \in ToSet(queue) : e.to = x /\ e.message.kind = "FinalizeVote" /\ e.message.signer = q
      BY <2>4 DEF FinalFrom
    <3>2. CASE e = d
      BY <3>1, <3>2, <1>1, <1>6
    <3>3. CASE e # d
      BY <3>1, <3>3, <1>2 DEF FinalFrom
    <3> QED
      BY <3>2, <3>3
  <2> QED
    BY <2>2, <2>3, <2>4
<1>14. \A x \in Node : Outside(x)' => replica'[x].tip = b /\ replica'[x].seed = NotarySeed(b)
  BY <1>3, <1>5, <1>6, <1>7
<1>15. \A e \in ToSet(queue') : /\ e.message.kind \in {"Proposal", "Vote", "Notarization", "FinalizeVote"}
                                /\ e.message.kind # "FinalizeVote" => e.message.block = b
  BY <1>2, <1>3
<1>16. BlockOf(b, view)' /\ Last(b).proposer = leader'
  BY <1>1, <1>3
<1> QED
  BY <1>9, <1>10, <1>11, <1>12, <1>13, <1>14, <1>15, <1>16 DEF Spread

LEMMA LeavesSpread ==
  ASSUME Calm, NEW b, Spread(b), NEW d, NEW r, NEW s, NEW m, NEW res, NEW handed, Taken(d, r, s, m, res, handed),
         m.kind = "Vote", LeavesNow(s, res, b)
  PROVE  Spread(b)'
<1>1. /\ r = d.to /\ s = replica[r] /\ m = d.message /\ r \in Node /\ view' = view /\ leader' = leader
      /\ behavior' = behavior /\ oracle' = oracle /\ replica'[r] = res.state
      /\ Sequence(queue) /\ queue # <<>> /\ Sequence(handed) /\ handed = Filtered(res.out, r)
      /\ queue' = Tail(queue) \o handed \o <<>> /\ ToSet(queue') = ToSet(Tail(queue)) \cup ToSet(handed)
      /\ ToSet(queue) = ToSet(Tail(queue)) \cup {d} /\ view \in Nat /\ (s.view = view => s.dummy_sent = FALSE)
  BY DEF Taken
<1>2. /\ Told /\ \A e \in ToSet(queue) : e.message.kind \in {"Vote", "Notarization", "FinalizeVote"}
      /\ \A x \in Node : ~Unheard(x, b) /\ (Inside(x) => Heard(x, b))
  BY VoteFacts
<1>3. /\ BlockOf(b, view) /\ Last(b).proposer = leader /\ Sorted(queue)
      /\ \A e \in ToSet(queue) : e.message.kind # "FinalizeVote" => e.message.block = b
      /\ Counted(b) /\ Finals
      /\ \A x \in Node : Outside(x) => replica[x].tip = b /\ replica[x].seed = NotarySeed(b)
  BY DEF Spread
<1>4. /\ s.view = view /\ s.dummy_sent = FALSE /\ res.state.view = view + 1 /\ res.state.tip = b
      /\ res.state.seed = NotarySeed(b) /\ Sequence(res.out)
      /\ ToSet(res.out) = {[kind |-> "FinalizeVote", view |-> view]} \cup {Relay(b)}
  BY <1>1 DEF LeavesNow, LeavesWith, LeftBehind, Announced
<1>5. /\ \A x \in Node : x # r =>
           /\ replica'[x] = replica[x] /\ (Inside(x)' <=> Inside(x)) /\ (Outside(x)' <=> Outside(x))
           /\ Ayes(x, b)' = Ayes(x, b) /\ (Heard(x, b)' <=> Heard(x, b))
  BY OthersAsBefore
<1>6. Inside(r) /\ ~Outside(r) /\ ~Inside(r)' /\ Outside(r)'
  BY <1>1, <1>4 DEF Inside, Outside
<1>7. \A e \in ToSet(handed) : e.message.kind \in {"FinalizeVote", "Notarization"}
                             /\ (e.message.kind # "FinalizeVote" => e.message.block = b)
  <2> SUFFICES ASSUME NEW e \in ToSet(handed)
               PROVE  e.message.kind \in {"FinalizeVote", "Notarization"}
                      /\ (e.message.kind # "FinalizeVote" => e.message.block = b)
    OBVIOUS
  <2>1. PICK out \in ToSet(res.out) : SentFor(e, out, r)
    BY TakenSends
  <2>2. out.kind = "FinalizeVote" \/ (out.kind = "RelayNotarization" /\ out.block = b)
    BY <1>4 DEF Relay
  <2> QED
    BY <2>1, <2>2 DEF SentFor
<1>8. \A x \in Node \ {r} : FinalFrom(r, x)'
  <2> SUFFICES ASSUME NEW x \in Node \ {r} PROVE FinalFrom(r, x)'
    OBVIOUS
  <2>1. [kind |-> "FinalizeVote", view |-> view] \in ToSet(res.out)
    BY <1>4
  <2>2. \E e \in ToSet(Filtered(res.out, r)) : e.to = x /\ e.message.kind = "FinalizeVote" /\ e.message.signer = r
    <3>1. r \in Node /\ Sequence(res.out)
      BY <1>1, <1>4
    <3> QED
      BY <2>1, <3>1, FinalSent
  <2> QED
    BY <2>2, <1>1 DEF FinalFrom
<1>9. Told' /\ \A e \in ToSet(queue') : /\ e.message.kind \in {"Vote", "Notarization", "FinalizeVote"}
                                        /\ e.message.kind # "FinalizeVote" => e.message.block = b
  <2>1. \A e \in ToSet(queue') : /\ e.message.kind \in {"Vote", "Notarization", "FinalizeVote"}
                                 /\ e.message.kind # "FinalizeVote" => e.message.block = b
    BY <1>1, <1>2, <1>3, <1>7
  <2> QED
    BY <2>1 DEF Told
<1>10. Sorted(queue')
  <2>1. \A e \in ToSet(handed) : Rank(e) = 3
    <3> SUFFICES ASSUME NEW e \in ToSet(handed) PROVE Rank(e) = 3
      OBVIOUS
    <3>1. e.message.kind = "FinalizeVote" \/ e.message.kind = "Notarization"
      BY <1>7
    <3> QED
      BY <3>1 DEF Rank
  <2>2. \A e \in ToSet(Tail(queue)) : Rank(e) <= 3
    BY RankIs
  <2>3. Sorted(Tail(queue) \o handed \o <<>>)
    BY <2>1, <2>2, <1>1, <1>3, QueueSorted
  <2> QED
    BY <2>3, <1>1
<1>11. \A x \in Node : Inside(x)' => Heard(x, b)'
  BY <1>2, <1>5, <1>6
<1>12. Counted(b)'
  <2> SUFFICES ASSUME NEW q \in Node, NEW x \in Node, q # x, ~Withholds(q, view)', Inside(x)'
               PROVE  q \in Ayes(x, b)' \/ VoteFrom(q, x)'
    BY DEF Counted
  <2>1. ~Withholds(q, view) /\ Inside(x) /\ x # r
    BY <1>1, <1>5, <1>6, SameLeaders
  <2>2. q \in Ayes(x, b) \/ VoteFrom(q, x)
    BY <2>1, <1>2, <1>3 DEF Counted
  <2>3. CASE q \in Ayes(x, b)
    BY <2>1, <2>3, <1>5
  <2>4. CASE VoteFrom(q, x)
    <3>1. PICK e \in ToSet(queue) : e.to = x /\ e.message.kind = "Vote" /\ e.message.signer = q
      BY <2>4 DEF VoteFrom
    <3>2. e \in ToSet(queue')
      BY <3>1, <2>1, <1>1
    <3> QED
      BY <3>1, <3>2 DEF VoteFrom
  <2> QED
    BY <2>2, <2>3, <2>4
<1>13. Finals'
  <2> SUFFICES ASSUME NEW q \in Node, NEW x \in Node, q # x, Outside(q)'
               PROVE  FinalFrom(q, x)' \/ (Outside(x)' /\ q \in ToSet(replica'[x].finalize_votes))
    BY DEF Finals
  <2>1. CASE q = r
    BY <2>1, <1>8
  <2>2. CASE q # r
    <3>1. FinalFrom(q, x) \/ (Outside(x) /\ q \in ToSet(replica[x].finalize_votes))
      BY <2>2, <1>3, <1>5 DEF Finals
    <3>2. CASE Outside(x) /\ q \in ToSet(replica[x].finalize_votes)
      BY <3>2, <1>5, <1>6
    <3>3. CASE FinalFrom(q, x)
      <4>1. PICK e \in ToSet(queue) : e.to = x /\ e.message.kind = "FinalizeVote" /\ e.message.signer = q
        BY <3>3 DEF FinalFrom
      <4>2. e \in ToSet(queue')
        <5>1. e.message.kind # "Vote"
          BY <4>1
        <5> QED
          BY <4>1, <5>1, <1>1
      <4> QED
        BY <4>1, <4>2 DEF FinalFrom
    <3> QED
      BY <3>1, <3>2, <3>3
  <2> QED
    BY <2>1, <2>2
<1>14. \A x \in Node : Outside(x)' => replica'[x].tip = b /\ replica'[x].seed = NotarySeed(b)
  BY <1>1, <1>3, <1>4, <1>5
<1>15. BlockOf(b, view)' /\ Last(b).proposer = leader'
  BY <1>1, <1>3
<1> QED
  BY <1>9, <1>10, <1>11, <1>12, <1>13, <1>14, <1>15 DEF Spread
-----------------------------------------------------------------------------
(* What announces the notarization finds nobody in the view.                *)
LEMMA AnnouncedDone ==
  ASSUME Sane, Ends, Calm, NEW b, Spread(b), NEW d, NEW r, NEW s, NEW m, NEW res, NEW handed, Taken(d, r, s, m, res, handed),
         m.kind \in {"Notarization", "FinalizeVote"}
  PROVE  /\ Told /\ StaysNow(r, s, m, res, b)
         /\ m.kind = "FinalizeVote" => Outside(r) /\ m.signer \in ToSet(res.state.finalize_votes)
<1>1. /\ d = Head(queue) /\ m = d.message /\ r = d.to /\ s = replica[r] /\ r \in Node /\ Sequence(queue) /\ queue # <<>>
      /\ ToSet(queue) = ToSet(Tail(queue)) \cup {d} /\ Deliverable(d, view, "deliver") /\ NodeState(r, s)
      /\ Handled(r, m, s, res, LeaderFor(r)) /\ view \in Nat
  BY DEF Taken
<1>2. Rank(d) = 3
  <2>1. m.kind = "Notarization" \/ m.kind = "FinalizeVote"
    OBVIOUS
  <2> QED
    BY <2>1, <1>1 DEF Rank
<1>3. \A e \in ToSet(Tail(queue)) : Rank(d) <= Rank(e)
  BY <1>1, TailSorted DEF Spread
<1>4. \A e \in ToSet(queue) : e.message.kind \notin {"Proposal", "Vote"}
  <2> SUFFICES ASSUME NEW e \in ToSet(Tail(queue)), e.message.kind \in {"Proposal", "Vote"} PROVE FALSE
    BY <1>1
  <2>1. e.message.kind = "Proposal" \/ e.message.kind = "Vote"
    OBVIOUS
  <2>2. Rank(e) = 1 \/ Rank(e) = 2
    BY <2>1 DEF Rank
  <2> QED
    BY <2>2, <1>2, <1>3
<1>5. Told
  BY <1>4 DEF Told
<1>6. Outside(r) /\ s.view = view + 1 /\ s.view - 1 = view /\ s.view # view
  <2>1. Outside(r)
    BY <1>1, <1>4, AllLeft
  <2> QED
    BY <2>1, <1>1 DEF Outside
<1>7. m.view = view
  BY <1>1 DEF Deliverable
<1>8. CASE m.kind = "Notarization"
  <2>1. Quiet(s, res)
    BY <1>1, <1>6, <1>7, <1>8 DEF Handled
  <2> QED
    BY <2>1, <1>5, <1>6, <1>8 DEF Quiet, StaysNow
<1>9. CASE m.kind = "FinalizeVote"
  <2>1. \/ Quiet(s, res) /\ m.signer \in ToSet(s.finalize_votes)
        \/ m.signer \notin ToSet(s.finalize_votes) /\ CountsFinal(s, res, m.view, m.signer)
    BY <1>1, <1>6, <1>7, <1>9 DEF Handled, Needless
  <2>2. CASE Quiet(s, res) /\ m.signer \in ToSet(s.finalize_votes)
    BY <2>2, <1>5, <1>6 DEF Quiet, StaysNow
  <2>3. CASE m.signer \notin ToSet(s.finalize_votes) /\ CountsFinal(s, res, m.view, m.signer)
    <3>1. /\ res.out = <<>> /\ res.state.view = s.view /\ res.state.tip = s.tip /\ res.state.seed = s.seed
          /\ res.state.finalize_votes = Append(s.finalize_votes, m.signer)
      BY <2>3 DEF CountsFinal, Kept, Fields
    <3>2. ToSet(res.state.finalize_votes) = ToSet(s.finalize_votes) \cup {m.signer}
      <4>1. Listed(s.finalize_votes)
        BY <1>1 DEF NodeState
      <4>2. ToSet(Append(s.finalize_votes, m.signer)) = ToSet(s.finalize_votes) \cup {m.signer}
        BY <2>3, <4>1, AppendListed
      <4> QED
        BY <3>1, <4>2
    <3> QED
      BY <3>1, <3>2, <1>5, <1>6 DEF StaysNow
  <2> QED
    BY <2>1, <2>2, <2>3
<1> QED
  BY <1>8, <1>9

LEMMA DeliverRound == Sane /\ Ends /\ Calm /\ Ballots /\ Round /\ Deliver => Round'
<1> SUFFICES ASSUME Sane, Ends, Calm, Ballots, Round, Deliver PROVE Round'
  OBVIOUS
<1>1. phase = "deliver" /\ phase' = "deliver" /\ leader' = leader /\ behavior' = behavior /\ oracle' = oracle /\ view' = view
  BY DEF Deliver, given
<1>2. Capitulators = {}
  BY CalmFacts
<1>3. PICK d, r, s, m, res, handed : Taken(d, r, s, m, res, handed)
  BY <1>2, TakenIs
<1>4. ~Asked' /\ (Skips' <=> Skips) /\ leader \in Node
  BY <1>1, DeliverUnasked, SameLeaders DEF Round
<1>5. CASE Asked
  <2>1. Begun
    BY <1>1, <1>5 DEF Round
  <2>2. Skips => Silence'
    BY <2>1, <1>1, <1>3, <1>4, <1>5, SkipRound
  <2>3. ~Skips => \E b : Spread(b)'
    BY <2>1, <1>1, <1>3, <1>4, <1>5, SpreadStarts
  <2> QED
    BY <2>2, <2>3, <1>1, <1>4 DEF Round
<1>6. CASE ~Asked /\ Skips
  <2>1. Silence'
    BY <1>1, <1>3, <1>6, SilenceKept DEF Round
  <2> QED
    BY <2>1, <1>1, <1>4, <1>6 DEF Round
<1>7. CASE ~Asked /\ ~Skips
  <2>1. PICK b : Spread(b)
    BY <1>1, <1>7 DEF Round
  <2>2. m.kind \in {"Proposal", "Vote", "Notarization", "FinalizeVote"}
    BY <2>1, <1>3 DEF Spread, Taken
  <2>3. Spread(b)'
    <3>1. CASE m.kind = "Proposal"
      BY <2>1, <3>1, <1>3, ProposalSpreads
    <3>2. CASE m.kind = "Vote"
      <4>1. Told /\ (StaysNow(r, s, m, res, b) \/ LeavesNow(s, res, b))
        BY <2>1, <3>2, <1>3, VoteFacts, VoteDone
      <4>2. CASE StaysNow(r, s, m, res, b)
        BY <4>1, <4>2, <2>1, <3>2, <1>3, StaysSpread
      <4>3. CASE LeavesNow(s, res, b)
        BY <4>3, <2>1, <3>2, <1>3, LeavesSpread
      <4> QED
        BY <4>1, <4>2, <4>3
    <3>3. CASE m.kind \in {"Notarization", "FinalizeVote"}
      <4>1. /\ Told /\ StaysNow(r, s, m, res, b)
            /\ m.kind = "FinalizeVote" => Outside(r) /\ m.signer \in ToSet(res.state.finalize_votes)
        BY <2>1, <3>3, <1>3, AnnouncedDone
      <4> QED
        BY <4>1, <2>1, <1>3, StaysSpread
    <3> QED
      BY <2>2, <3>1, <3>2, <3>3
  <2>4. \E c : Spread(c)'
    BY <2>3
  <2> QED
    BY <2>4, <1>1, <1>4, <1>7 DEF Round
<1> QED
  BY <1>5, <1>6, <1>7

(* Between the views all share a seed, and elect the same leader with it.    *)
LEMMA InitRound == Init => Round
<1> SUFFICES ASSUME Init PROVE Round
  OBVIOUS
<1>1. phase = "ask" /\ replica = [r \in Node |-> NewReplica]
  BY DEF Init
<1> QED
  BY <1>1 DEF Round, OneSeed

LEMMA AskRound ==
  ASSUME ElectsNodes, oracle \in Oracles, Calm, Round, AskLeader
  PROVE  Round'
<1>1. /\ phase = "ask" /\ phase' = "deliver" /\ leader' = LeaderFor(FirstHonest) /\ replica' = replica /\ oracle' = oracle
      /\ queue' = <<[to |-> leader', message |-> [kind |-> "ProposeRequest", view |-> view, payload |-> "block"]]>>
  BY DEF AskLeader, given
<1>2. OneSeed /\ FirstHonest \in Node
  BY <1>1, CalmFacts DEF Round
<1>3. leader' \in Node
  BY <1>1 DEF ElectsNodes, LeaderFor
<1>4. \A r \in Node : LeaderFor(r) = leader'
  BY <1>1, <1>2 DEF LeaderFor, OneSeed
<1>5. PICK d : d = [to |-> leader', message |-> [kind |-> "ProposeRequest", view |-> view, payload |-> "block"]]
  OBVIOUS
<1>6. ToSet(queue') = {d} /\ d.to = leader' /\ d.message.kind = "ProposeRequest"
  BY <1>1, <1>5, PairIs
<1>7. Asked'
  BY <1>6 DEF Asked
<1>8. OneSeed' /\ \A r \in Node : LeaderFor(r)' = leader'
  BY <1>1, <1>2, <1>4 DEF OneSeed, LeaderFor
<1>9. Begun'
  BY <1>6, <1>8 DEF Begun
<1> QED
  BY <1>1, <1>3, <1>7, <1>9 DEF Round

(* The deliveries are over: all have decided on the block, or nobody has heard of one. *)
LEMMA EndDeliveryRound ==
  ASSUME Sane, Bounded, MaxIterations >= N + 4 * N * (N - 1), Ends, Calm, Round, EndDelivery
  PROVE  Round'
<1>1. /\ phase = "deliver" /\ phase' = "timeout" /\ replica' = replica /\ view' = view /\ leader' = leader
      /\ behavior' = behavior /\ oracle' = oracle
  BY DEF EndDelivery, given
<1>2. queue = <<>>
  BY DrainsFirst
<1>3. ToSet(queue) = {} /\ ~Asked /\ view \in Nat
  BY <1>2 DEF Asked, ToSet, Sane
<1>4. leader \in Node /\ (Skips' <=> Skips)
  BY <1>1, SameLeaders DEF Round
<1>5. CASE Skips
  <2>1. \A r \in Node : ~Outside(r)
    BY <1>1, <1>3, <1>5 DEF Round, Silence, Inside, Outside
  <2>2. \A r \in Node : ~Outside(r)'
    BY <2>1, <1>1 DEF Outside
  <2>3. Over'
    BY <2>2, <1>4, <1>5 DEF Over
  <2> QED
    BY <2>3, <1>1, <1>4 DEF Round
<1>6. CASE ~Skips
  <2>1. PICK b : Spread(b)
    BY <1>1, <1>3, <1>6 DEF Round
  <2>2. \A r \in Node : Outside(r)
    BY <2>1, <1>3, AllLeft
  <2>3. \A q, r : ~FinalFrom(q, r)
    BY <1>3 DEF FinalFrom
  <2>4. \A r \in Node : Node \ {r} \subseteq ToSet(replica[r].finalize_votes)
    BY <2>1, <2>2, <2>3 DEF Spread, Finals
  <2>5. Decided(b)
    BY <2>1, <2>2, <2>4 DEF Spread, Decided
  <2>6. Decided(b)'
    BY <2>5, <1>1 DEF Decided, Outside
  <2>7. Over'
    BY <2>6 DEF Over
  <2> QED
    BY <2>7, <1>1, <1>4 DEF Round
<1> QED
  BY <1>5, <1>6

(* A timeout or a dummy vote moves nobody who has left.                     *)
LEMMA OverStays ==
  ASSUME Over, view \in Nat, view' = view, leader' = leader, behavior' = behavior, oracle' = oracle,
         NEW r \in Node, NEW x,
         \/ x = replica[r]
         \/ replica[r].view = view /\ (x.view = view \/ x.seed = DummySeed(view)),
         replica'[r] = x, \A y \in Node : y # r => replica'[y] = replica[y]
  PROVE  Over'
<1>1. Skips' <=> Skips
  BY SameLeaders
<1>2. CASE Skips /\ \A y \in Node : Outside(y) => replica[y].seed = DummySeed(view)
  <2>1. ASSUME NEW y \in Node, Outside(y)' PROVE replica'[y].seed = DummySeed(view')
    <3>1. replica'[y].view = view + 1
      BY <2>1 DEF Outside
    <3>2. CASE replica'[y] = replica[y]
      BY <3>1, <3>2, <1>2 DEF Outside
    <3>3. CASE y = r /\ replica[r].view = view /\ (x.view = view \/ x.seed = DummySeed(view))
      BY <3>1, <3>3
    <3> QED
      BY <3>2, <3>3
  <2> QED
    BY <2>1, <1>1, <1>2 DEF Over
<1>3. CASE \E b : Decided(b)
  <2>1. PICK b : Decided(b)
    BY <1>3
  <2>2. replica[r].view # view
    BY <2>1 DEF Decided, Outside
  <2>3. \A y \in Node : replica'[y] = replica[y]
    BY <2>2
  <2>4. Decided(b)'
    BY <2>1, <2>3 DEF Decided, Outside
  <2> QED
    BY <2>4 DEF Over
<1> QED
  BY <1>2, <1>3 DEF Over

LEMMA FireTimerRound == Sane /\ Round /\ FireTimer => Round'
<1> SUFFICES ASSUME Sane, Round, FireTimer PROVE Round'
  OBVIOUS
<1>1. /\ phase = "timeout" /\ phase' = "timeout" /\ queue # <<>> /\ view' = view /\ leader' = leader
      /\ behavior' = behavior /\ oracle' = oracle
  BY DEF FireTimer, given
<1>2. PICK d, res, r, s : d = Head(queue) /\ res = Apply(d) /\ r = d.to /\ s = replica[r]
  OBVIOUS
<1>3. Take(r, res)
  BY <1>2 DEF FireTimer
<1>4. Deliverable(d, view, "timeout") /\ r \in Node /\ NodeState(r, s) /\ view \in Nat
  BY <1>1, <1>2, HeadFacts
<1>5. replica'[r] = res.state /\ \A x \in Node : x # r => replica'[x] = replica[x]
  BY <1>3, <1>4 DEF Sane, Take
<1>6. d.message.kind = "Timeout" /\ d.message.view = view
  BY <1>4 DEF Deliverable
<1>7. Quiet(s, res) \/ (view = s.view /\ (TimesOut(s, res, r) \/ TimesOutLast(s, res)))
  <2>1. res = HandleTimeout(s, r, view)
    BY <1>2, <1>6 DEF Apply, ApplyMessage
  <2> QED
    BY <2>1, <1>4, TimeoutShape
<1>8. \/ res.state = s
      \/ s.view = view /\ (res.state.view = view \/ res.state.seed = DummySeed(view))
  BY <1>7 DEF Quiet, TimesOut, TimesOutLast, Kept, Fields
<1>9. Over'
  BY <1>1, <1>2, <1>4, <1>5, <1>8, OverStays DEF Round
<1> QED
  BY <1>1, <1>9 DEF Round

LEMMA CollectRound == Round /\ CollectDummyVotes => Round'
<1> SUFFICES ASSUME Round, CollectDummyVotes PROVE Round'
  OBVIOUS
<1>1. /\ phase = "timeout" /\ phase' = "route" /\ view' = view /\ replica' = replica /\ leader' = leader
      /\ behavior' = behavior /\ oracle' = oracle
  BY DEF CollectDummyVotes, given
<1>2. Skips' <=> Skips
  BY <1>1, SameLeaders
<1>3. Over'
  BY <1>1, <1>2 DEF Round, Over, Decided, Outside
<1> QED
  BY <1>1, <1>3 DEF Round

LEMMA RouteRound == Sane /\ Round /\ RouteDummyVote => Round'
<1> SUFFICES ASSUME Sane, Round, RouteDummyVote PROVE Round'
  OBVIOUS
<1>1. /\ phase = "route" /\ phase' = "route" /\ queue # <<>> /\ view' = view /\ leader' = leader
      /\ behavior' = behavior /\ oracle' = oracle
  BY DEF RouteDummyVote, given
<1>2. PICK d, res, r, s : d = Head(queue) /\ res = Apply(d) /\ r = d.to /\ s = replica[r]
  OBVIOUS
<1>3. Take(r, res)
  BY <1>2 DEF RouteDummyVote
<1>4. Deliverable(d, view, "route") /\ r \in Node /\ NodeState(r, s) /\ view \in Nat
  BY <1>1, <1>2, HeadFacts
<1>5. replica'[r] = res.state /\ \A x \in Node : x # r => replica'[x] = replica[x]
  BY <1>3, <1>4 DEF Sane, Take
<1>6. d.message.kind = "NullifyVote" /\ d.message.view = view
  BY <1>4 DEF Deliverable
<1>7. Quiet(s, res) \/ (view = s.view /\ (CountsDummy(s, res, d.message.signer) \/ GivesUp(s, res)))
  <2>1. res = HandleNullifyVote(s, view, d.message.signer)
    BY <1>2, <1>6 DEF Apply, ApplyMessage
  <2> QED
    BY <2>1, <1>4, NullifyShape
<1>8. \/ res.state = s
      \/ s.view = view /\ (res.state.view = view \/ res.state.seed = DummySeed(view))
  BY <1>7 DEF Quiet, CountsDummy, GivesUp, Kept, Fields
<1>9. Over'
  BY <1>1, <1>2, <1>4, <1>5, <1>8, OverStays DEF Round
<1> QED
  BY <1>1, <1>9 DEF Round
-----------------------------------------------------------------------------
(* What the replicas have in common at the end.                             *)
LEMMA EndSeeds ==
  ASSUME Sane, Ends, Round, AtEnd
  PROVE  OneSeed
<1>1. \A r \in Node : Outside(r)
  BY AllOutside
<1>2. Over
  BY DEF AtEnd, Round
<1> QED
  BY <1>1, <1>2 DEF Over, Decided, OneSeed

LEMMA ReadRound == Sane /\ Ends /\ Round /\ ReadStates => Round'
<1> SUFFICES ASSUME Sane, Ends, Round, ReadStates PROVE Round'
  OBVIOUS
<1>1. /\ phase = "route" /\ queue = <<>> /\ replica' = replica /\ phase' \in {"halted", "ask"}
  BY DEF ReadStates
<1>2. OneSeed
  BY <1>1, EndSeeds DEF AtEnd
<1>3. OneSeed'
  BY <1>1, <1>2 DEF OneSeed
<1> QED
  BY <1>1, <1>3 DEF Round

LEMMA StutterRound == Round /\ UNCHANGED vars => Round'
<1> SUFFICES ASSUME Round, UNCHANGED vars PROVE Round'
  OBVIOUS
<1>1. /\ behavior' = behavior /\ oracle' = oracle /\ replica' = replica /\ view' = view /\ phase' = phase
      /\ leader' = leader /\ queue' = queue
  BY DEF vars, given, engineVars
<1>2. \A q : Withholds(q, view)' <=> Withholds(q, view)
  BY <1>1, SameLeaders
<1>3. Skips' <=> Skips
  BY <1>1, SameLeaders
<1>4. \A r \in Node : LeaderFor(r)' = LeaderFor(r)
  BY <1>1, SameLeaders
<1>5. (Asked' <=> Asked) /\ (OneSeed' <=> OneSeed) /\ (Told' <=> Told)
  BY <1>1 DEF Asked, OneSeed, Told
<1>6. Begun => Begun'
  BY <1>1, <1>4, <1>5 DEF Begun
<1>7. Silence => Silence'
  BY <1>1 DEF Silence, Inside
<1>8. \A b : Decided(b) => Decided(b)'
  BY <1>1 DEF Decided, Outside
<1>9. Over => Over'
  <2>1. (\E b : Decided(b)) => \E b : Decided(b)'
    BY <1>8
  <2> QED
    BY <2>1, <1>1, <1>3 DEF Over, Outside
<1>10. ASSUME NEW b, Spread(b) PROVE Spread(b)'
  <2>1. \A r \in Node : /\ Inside(r)' <=> Inside(r)
                        /\ Outside(r)' <=> Outside(r)
                        /\ Ayes(r, b)' = Ayes(r, b)
                        /\ Heard(r, b)' <=> Heard(r, b)
                        /\ ProposalFor(r)' <=> ProposalFor(r)
    BY <1>1 DEF Inside, Outside, Ayes, Heard, ProposalFor
  <2>2. \A r \in Node : Unheard(r, b)' <=> Unheard(r, b)
    BY <1>1, <1>4, <2>1 DEF Unheard
  <2>3. \A q, r \in Node : (VoteFrom(q, r)' <=> VoteFrom(q, r)) /\ (FinalFrom(q, r)' <=> FinalFrom(q, r))
    BY <1>1 DEF VoteFrom, FinalFrom
  <2>4. Counted(b)'
    BY <1>2, <1>10, <2>1, <2>2, <2>3 DEF Spread, Counted
  <2>5. Finals'
    BY <1>1, <1>10, <2>1, <2>3 DEF Spread, Finals
  <2>6. /\ BlockOf(b, view') /\ Last(b).proposer = leader' /\ Sorted(queue')
        /\ \A e \in ToSet(queue') : /\ e.message.kind \in {"Proposal", "Vote", "Notarization", "FinalizeVote"}
                                    /\ e.message.kind # "FinalizeVote" => e.message.block = b
                                    /\ ~Told' => e.message.kind \in {"Proposal", "Vote"}
    BY <1>1, <1>5, <1>10 DEF Spread
  <2>7. /\ \A r \in Node : Inside(r)' => Heard(r, b)' \/ Unheard(r, b)'
        /\ ~Told' => \A r \in Node : Inside(r)' /\ Ayes(r, b)' \subseteq {r}
        /\ \A r \in Node : Outside(r)' => replica'[r].tip = b /\ replica'[r].seed = NotarySeed(b)
    BY <1>1, <1>5, <1>10, <2>1, <2>2 DEF Spread
  <2> QED
    BY <2>4, <2>5, <2>6, <2>7 DEF Spread
<1>11. (\E b : Spread(b)) => \E b : Spread(b)'
  BY <1>10
<1> QED
  BY <1>1, <1>3, <1>5, <1>6, <1>7, <1>9, <1>11 DEF Round

LEMMA RoundInv == ElectsNodes /\ QueueFits /\ Spec => [](Calm => Round)
<1> SUFFICES ASSUME ElectsNodes, QueueFits PROVE Spec => [](Calm => Round)
  BY DEF ElectsNodes, QueueFits
<1> DEFINE I == Calm => Round
           J == Capitulators = {} => Ballots
<1>1. Init => I
  BY InitRound
<1>2. Running /\ Ends /\ J /\ I /\ [Next]_vars => I'
  <2> SUFFICES ASSUME Running, Ends, J, I, [Next]_vars, Calm' PROVE Round'
    OBVIOUS
  <2>1. behavior' = behavior
    BY DEF Next, vars, given, AskLeader, Deliver, EndDelivery, FireTimer, CollectDummyVotes, RouteDummyVote, ReadStates
  <2>2. Calm /\ Round
    BY <2>1 DEF Calm, Assigned, Equivocators
  <2>3. Ballots
    BY <2>2, CalmFacts
  <2>4. oracle \in Oracles /\ Sane /\ Bounded /\ MaxIterations >= N + 4 * N * (N - 1)
    BY DEF Running, QueueFits
  <2> HIDE DEF I, J
  <2>5. CASE AskLeader
    BY <2>2, <2>4, <2>5, AskRound
  <2>6. CASE Deliver
    BY <2>2, <2>3, <2>4, <2>6, DeliverRound
  <2>7. CASE EndDelivery
    BY <2>2, <2>4, <2>7, EndDeliveryRound
  <2>8. CASE FireTimer
    BY <2>2, <2>4, <2>8, FireTimerRound
  <2>9. CASE CollectDummyVotes
    BY <2>2, <2>9, CollectRound
  <2>10. CASE RouteDummyVote
    BY <2>2, <2>4, <2>10, RouteRound
  <2>11. CASE ReadStates
    BY <2>2, <2>4, <2>11, ReadRound
  <2>12. CASE UNCHANGED vars
    BY <2>2, <2>12, StutterRound
  <2> QED
    BY <2>5, <2>6, <2>7, <2>8, <2>9, <2>10, <2>11, <2>12 DEF Next
<1> QED
  BY <1>1, <1>2, RunningInv, EndsInv, BallotsInv, PTL DEF Spec

(* All replicas end every view together and, within the faults tolerated, with one
   tip; without an equivocation they then elect the next leader from one seed,
   although each combined a quorum of its own.                             *)
THEOREM LockStep == ElectsNodes /\ QueueFits /\ Spec => []InLockStep
<1> SUFFICES ASSUME ElectsNodes, QueueFits PROVE Spec => []InLockStep
  BY DEF ElectsNodes, QueueFits
<1>1. Running /\ Ends /\ Assigned /\ (Calm => Round) => SameSeed
  <2> SUFFICES ASSUME Running, Ends, Assigned, Calm => Round, AtEnd, Equivocators = {}, NEW r \in Honest, NEW q \in Honest
               PROVE  replica[r].seed = replica[q].seed
    BY DEF SameSeed
  <2>1. OneSeed
    BY EndSeeds DEF Calm, Running
  <2> QED
    BY <2>1 DEF OneSeed, Honest
<1>2. EveryViewEnds /\ AgreeWithinFaults /\ SameSeed => InLockStep
  BY DEF InLockStep
<1> QED
  BY <1>1, <1>2, ViewsEnd, Agreement, RunningInv, EndsInv, AssignedInv, RoundInv, PTL

(* Lemma 3.5: when nobody equivocates, a view with an honest leader ends with its
   block as everybody's tip and a quorum of finalize votes on every list, whoever
   is silent, withholds its votes or proposes out of turn.                 *)
THEOREM LeadersHeard == ElectsNodes /\ QueueFits /\ Spec => []HonestLeaderHeard
<1> SUFFICES ASSUME ElectsNodes, QueueFits PROVE Spec => []HonestLeaderHeard
  BY DEF ElectsNodes, QueueFits
<1>1. Running /\ Ends /\ Assigned /\ (Calm => Round) => HonestLeaderHeard
  <2> SUFFICES ASSUME Running, Ends, Assigned, Calm => Round, AtEnd, Equivocators = {}, leader \in Honest
               PROVE  LeaderHeard
    BY DEF HonestLeaderHeard
  <2>1. Calm /\ Over /\ Sane
    BY DEF Calm, Round, AtEnd, Running
  <2>2. ~Skips
    BY <2>1, CalmFacts DEF Skips, Honest
  <2>3. PICK b : Decided(b)
    BY <2>1, <2>2 DEF Over
  <2>4. /\ b # Genesis /\ ViewOf(b) = view /\ Last(b).proposer = leader
        /\ \A r \in Node : replica[r].tip = b /\ Node \ {r} \subseteq ToSet(replica[r].finalize_votes)
    BY <2>3 DEF Decided, BlockOf
  <2>5. Holders = Honest
    BY <2>4 DEF Holders, Honest
  <2>6. ASSUME NEW r \in Node PROVE Len(replica[r].finalize_votes) >= T
    <3>1. PICK v : v = replica[r].finalize_votes
      OBVIOUS
    <3>2. Listed(v) /\ ToSet(v) \subseteq Node
      BY <2>1, <3>1 DEF Sane, NodeState
    <3>3. Cardinality(Node \ {r}) = N - 1
      BY OthersFacts
    <3>4. Cardinality(Node \ {r}) \in Nat /\ Cardinality(ToSet(v)) \in Nat /\ Cardinality(Node \ {r}) <= Cardinality(ToSet(v))
      <4>1. PICK A, B : A = Node \ {r} /\ B = ToSet(v)
        OBVIOUS
      <4>2. A \subseteq B /\ B \subseteq Node
        BY <4>1, <3>1, <3>2, <2>4
      <4> QED
        BY <4>1, <4>2, Grown
    <3>5. Cardinality(ToSet(v)) = Len(v)
      BY <3>2 DEF Listed
    <3> QED
      BY <3>1, <3>3, <3>4, <3>5, NodeFacts
  <2> QED
    BY <2>4, <2>5, <2>6 DEF LeaderHeard, Honest
<1> QED
  BY <1>1, RunningInv, EndsInv, AssignedInv, RoundInv, PTL

-----------------------------------------------------------------------------
(* The outcome of a view. Whatever a replica takes up in a view was proposed in
   it, and if anybody leaves with a block everybody does, so that one tip tells
   which it was.                                                            *)

Old(b)  == b = Genesis \/ (ViewOf(b) \in Nat /\ ViewOf(b) < view)
Here(b) == b \in known /\ BlockOf(b, view)

Legible ==
  /\ phase = "ask" => \A r \in Node : Old(replica[r].tip)
  /\ phase = "deliver" =>
       /\ \A r \in Node : Outside(r) => Here(replica[r].tip)
       /\ \A r \in Node : Inside(r) => Old(replica[r].tip)
       /\ \A r \in Node : Inside(r) => \A q, c : q \in ToSet(VotesFor(replica[r], c)) => c \in known
       /\ \A e \in ToSet(queue) : e.message.kind \in {"Proposal", "Vote", "Notarization"} => e.message.block \in known
  /\ phase \in {"timeout", "route"} =>
       /\ \A b \in known : BlockOf(b, view)
       /\ (\A r \in Node : Here(replica[r].tip)) \/ (\A r \in Node : Old(replica[r].tip))

LEMMA VoteProposed ==
  ASSUME NEW d, Deliverable(d, view, "deliver"), NEW s, NodeState(d.to, s), NEW res, NEW l,
         Handled(d.to, d.message, s, res, l), NEW c, VoteOut(s, c) \in ToSet(res.out)
  PROVE  \/ d.message.kind = "Proposal" /\ d.message.block = c
         \/ [kind |-> "Proposal", block |-> c] \in ToSet(res.out)
<1> PICK r, m : r = d.to /\ m = d.message
  OBVIOUS
<1>1. ASSUME res.out = <<>> PROVE FALSE
  BY <1>1 DEF ToSet
<1>2. ASSUME NEW b, VoteOut(s, c) = VoteOut(s, b) PROVE c = b
  BY <1>2 DEF VoteOut
<1>3. ASSUME NEW b, VoteOut(s, c) \in Announced(s, b) PROVE FALSE
  BY <1>3 DEF Announced, VoteOut, Relay
<1>4. CASE m.kind = "ProposeRequest" /\ Proposes(s, res, r, NextBlock(s, r, m.payload))
  <2>1. PICK b : b = NextBlock(s, r, m.payload)
    OBVIOUS
  <2>2. ToSet(res.out) = {[kind |-> "Proposal", block |-> b], VoteOut(s, b)}
    BY <1>4, <2>1 DEF Proposes
  <2>3. VoteOut(s, c) # [kind |-> "Proposal", block |-> b]
    BY DEF VoteOut
  <2> QED
    BY <2>2, <2>3, <1>2
<1>5. CASE m.kind = "Proposal" /\ VotesAndStays(s, res, m.block, r)
  <2>1. PICK b : b = m.block
    OBVIOUS
  <2>2. ToSet(res.out) = {VoteOut(s, b)}
    BY <1>5, <2>1 DEF VotesAndStays
  <2> QED
    BY <2>1, <2>2, <1>2, <1>5
<1>6. CASE m.kind = "Proposal" /\ VotesAndLeaves(s, res, m.block)
  <2>1. PICK b : b = m.block
    OBVIOUS
  <2>2. ToSet(res.out) = {VoteOut(s, b)} \cup Announced(s, b)
    BY <1>6, <2>1 DEF VotesAndLeaves
  <2> QED
    BY <2>1, <2>2, <1>2, <1>3, <1>6
<1>7. ASSUME NEW b, NEW sd, LeavesWith(s, res, b, sd) PROVE FALSE
  BY <1>3, <1>7 DEF LeavesWith
<1>8. m.kind \notin {"Timeout", "NullifyVote"}
  BY DEF Deliverable
<1>9. Handled(r, m, s, res, l)
  OBVIOUS
<1>10. ~Quiet(s, res)
  BY <1>1 DEF Quiet
<1>11. \A b, q : ~Counts(s, res, b, q) /\ ~CountsFinal(s, res, b, q) /\ ~Refuses(s, res, b)
  BY <1>1 DEF Counts, CountsFinal, Refuses
<1> QED
  BY <1>4, <1>5, <1>6, <1>7, <1>8, <1>9, <1>10, <1>11, Zenon DEF Handled

LEMMA DeliverLegible == Sane /\ Ends /\ Legible /\ Deliver => Legible'
<1> SUFFICES ASSUME Sane, Ends, Legible, Deliver PROVE Legible'
  OBVIOUS
<1>1. phase = "deliver" /\ queue # <<>> /\ view' = view /\ phase' = "deliver"
  BY DEF Deliver
<1>2. PICK d, res, forged : DeliveredBy(d, res, forged)
  BY DeliverIs
<1>3. PICK r, s, m, l : r = d.to /\ s = replica[r] /\ m = d.message /\ l = LeaderFor(r)
  OBVIOUS
<1>4. /\ CastsOnce(r, m, s, res) /\ StaysWith(r, m, s, res) /\ LeavesOn(r, m, s, res)
      /\ Deliverable(d, view, "deliver") /\ r \in Node /\ NodeState(r, s) /\ d \in ToSet(queue)
      /\ view \in Nat /\ Answer(r, s, res, view, "deliver") /\ Handled(r, m, s, res, l)
      /\ replica'[r] = res.state /\ \A x \in Node : x # r => replica'[x] = replica[x]
  BY <1>1, <1>2, <1>3, DeliverDeed
<1>5. /\ \A x \in Node : Outside(x) => Here(replica[x].tip)
      /\ \A x \in Node : Inside(x) => Old(replica[x].tip)
      /\ \A x \in Node : Inside(x) => \A q, c : q \in ToSet(VotesFor(replica[x], c)) => c \in known
      /\ \A e \in ToSet(queue) : e.message.kind \in {"Proposal", "Vote", "Notarization"} => e.message.block \in known
  BY <1>1 DEF Legible
<1>6. known' = known \cup Seen(res.out, r) /\ Answered(res.out) /\ forged = ForgedVotes(res.out, r, known')
  BY <1>2, <1>3 DEF DeliveredBy
<1>7. IsFiniteSet(known') /\ \A b \in known' : BlockOf(b, view)
  BY <1>1, <1>2, QueueAfter
<1>8. \A b : Here(b) => Here(b)'
  BY <1>1, <1>6 DEF Here
<1>9. \A b : Old(b) => Old(b)'
  BY <1>1 DEF Old
<1>10. s.view = view \/ s.view = view + 1
  BY <1>3, <1>4 DEF Ends, Inside, Outside
<1>11. \/ res.state.view = s.view
       \/ s.view = view /\ res.state.view = view + 1
  BY <1>4 DEF Answer
<1>12. \A c : [kind |-> "Proposal", block |-> c] \in ToSet(res.out) => c \in known'
  <2> SUFFICES ASSUME NEW c, [kind |-> "Proposal", block |-> c] \in ToSet(res.out) PROVE c \in Seen(res.out, r)
    BY <1>6
  <2>1. PICK out : out = [kind |-> "Proposal", block |-> c]
    OBVIOUS
  <2>2. out \in {o \in ToSet(res.out) : o.kind = "Proposal"} /\ out.block = c
    BY <2>1
  <2> QED
    BY <2>2 DEF Seen
<1>13. \A c : VoteOut(s, c) \in ToSet(res.out) => c \in known'
  <2> SUFFICES ASSUME NEW c, VoteOut(s, c) \in ToSet(res.out) PROVE c \in known'
    OBVIOUS
  <2>1. \/ m.kind = "Proposal" /\ m.block = c
        \/ [kind |-> "Proposal", block |-> c] \in ToSet(res.out)
    BY <1>3, <1>4, VoteProposed
  <2> QED
    BY <2>1, <1>3, <1>4, <1>5, <1>6, <1>12
<1>14. \A q, c : Aye(r, m, s, res, q, c) /\ s.view = view => c \in known'
  BY <1>3, <1>4, <1>5, <1>6, <1>13 DEF Aye, Inside
<1>15. res.state.view # s.view => Here(res.state.tip)' /\ Of(res.out, "RelayNotarization") = {Relay(res.state.tip)}
  <2> SUFFICES ASSUME res.state.view # s.view
               PROVE  Here(res.state.tip)' /\ Of(res.out, "RelayNotarization") = {Relay(res.state.tip)}
    OBVIOUS
  <2>1. PICK b : /\ res.state.tip = b /\ BlockOf(b, view) /\ s.view = view
                 /\ Of(res.out, "RelayNotarization") = {Relay(b)}
                 /\ \/ m.kind = "Notarization" /\ m.block = b
                    \/ \E Q : Q \subseteq Node /\ T <= Cardinality(Q) /\ \A q \in Q : Aye(r, m, s, res, q, b)
    BY <1>4 DEF LeavesOn
  <2>2. CASE m.kind = "Notarization" /\ m.block = b
    <3>1. b \in known'
      BY <2>2, <1>3, <1>4, <1>5, <1>6
    <3> QED
      BY <3>1, <2>1, <1>1 DEF Here
  <2>3. CASE \E Q : Q \subseteq Node /\ T <= Cardinality(Q) /\ \A q \in Q : Aye(r, m, s, res, q, b)
    <3>1. PICK Q : Q \subseteq Node /\ T <= Cardinality(Q) /\ \A q \in Q : Aye(r, m, s, res, q, b)
      BY <2>3
    <3>2. Q # {}
      BY <3>1, FS_EmptySet, NodeFacts
    <3>3. b \in known'
      BY <3>1, <3>2, <2>1, <1>14
    <3> QED
      BY <3>3, <2>1, <1>1 DEF Here
  <2> QED
    BY <2>1, <2>2, <2>3
<1>16. \A x \in Node : \A b : replica'[x].view = view + 1 /\ b = replica'[x].tip => Here(b)'
  <2> SUFFICES ASSUME NEW x \in Node, NEW b, replica'[x].view = view + 1, b = replica'[x].tip PROVE Here(b)'
    OBVIOUS
  <2>1. CASE x # r
    BY <2>1, <1>4, <1>5, <1>8 DEF Outside
  <2>2. CASE x = r /\ res.state.view = s.view
    <3>1. s.view = view + 1 /\ b = s.tip
      BY <2>2, <1>4 DEF StaysWith
    <3> QED
      BY <3>1, <1>3, <1>4, <1>5, <1>8 DEF Outside
  <2>3. CASE x = r /\ res.state.view # s.view
    BY <2>3, <1>4, <1>15
  <2> QED
    BY <2>1, <2>2, <2>3
<1>17. \A x \in Node : \A b : replica'[x].view = view /\ b = replica'[x].tip =>
         Old(b)' /\ \A q, c : q \in ToSet(VotesFor(replica'[x], c)) => c \in known'
  <2> SUFFICES ASSUME NEW x \in Node, NEW b, replica'[x].view = view, b = replica'[x].tip
               PROVE  Old(b)' /\ \A q, c : q \in ToSet(VotesFor(replica'[x], c)) => c \in known'
    OBVIOUS
  <2>1. CASE x # r
    BY <2>1, <1>4, <1>5, <1>6, <1>9 DEF Inside
  <2>2. CASE x = r
    <3>1. res.state.view = view /\ s.view = view
      BY <2>2, <1>4, <1>10, <1>11
    <3>2. b = s.tip /\ \A q, c : q \in ToSet(VotesFor(res.state, c)) => Aye(r, m, s, res, q, c)
      BY <2>2, <3>1, <1>4 DEF StaysWith
    <3> QED
      BY <2>2, <3>1, <3>2, <1>3, <1>4, <1>5, <1>9, <1>14 DEF Inside
  <2> QED
    BY <2>1, <2>2
<1>18. \A e \in ToSet(queue') : e.message.kind \in {"Proposal", "Vote", "Notarization"} => e.message.block \in known'
  <2>1. /\ ToSet(queue') = (ToSet(Tail(queue)) \cup ToSet(Filtered(res.out, r))) \cup ToSet(forged)
        /\ ToSet(queue) = ToSet(Tail(queue)) \cup {Head(queue)}
    BY <1>1, <1>2, <1>3, QueueAfter, HeadFacts
  <2>2. \A e \in ToSet(forged) : e.message.block \in known'
    BY <1>4, <1>6, <1>7, ForgedDeliverable
  <2>3. ASSUME NEW e \in ToSet(Filtered(res.out, r)), e.message.kind \in {"Proposal", "Vote", "Notarization"}
        PROVE  e.message.block \in known'
    <3>1. PICK out \in ToSet(res.out) : Sends(e, out, r, view)
      BY <1>4, <1>6, FilteredSends
    <3>2. s.view = view
      BY <3>1, <1>4 DEF Answer, ToSet
    <3>3. CASE e.message.kind = "Proposal"
      <4>1. e.message.block \in BlocksIn(Filtered(res.out, r))
        BY <3>3 DEF BlocksIn
      <4> QED
        BY <4>1, <1>6 DEF Seen
    <3>4. CASE e.message.kind = "Vote"
      <4>1. PICK b : out = [kind |-> "Vote", view |-> view, block |-> b] /\ e.message.block = b
        BY <3>1, <3>4, SendsOne DEF SendsProposal, SendsVote, SendsRelay, SendsFinal
      <4>2. VoteOut(s, b) \in ToSet(res.out)
        BY <3>2, <4>1 DEF VoteOut
      <4> QED
        BY <4>1, <4>2, <1>13
    <3>5. CASE e.message.kind = "Notarization"
      <4>1. PICK b : out = Relay(b) /\ e.message.block = b
        BY <3>1, <3>5, SendsOne DEF SendsProposal, SendsVote, SendsRelay, SendsFinal
      <4>2. out \in Of(res.out, "RelayNotarization")
        BY <4>1 DEF Of, Relay
      <4>3. res.state.view # s.view
        BY <4>2, <1>4 DEF StaysWith, Has, Of
      <4>4. Here(res.state.tip)' /\ Relay(b) = Relay(res.state.tip)
        BY <4>1, <4>2, <4>3, <1>15
      <4>5. b = res.state.tip
        BY <4>4 DEF Relay
      <4> QED
        BY <4>1, <4>4, <4>5 DEF Here
    <3> QED
      BY <2>3, <3>3, <3>4, <3>5
  <2>4. \A e \in ToSet(Tail(queue)) : e.message.kind \in {"Proposal", "Vote", "Notarization"} => e.message.block \in known'
    BY <2>1, <1>5, <1>6
  <2> QED
    BY <2>1, <2>2, <2>3, <2>4
<1> QED
  BY <1>1, <1>16, <1>17, <1>18 DEF Legible, Inside, Outside

LEMMA InitLegible == Init => Legible
<1> SUFFICES ASSUME Init PROVE Legible
  OBVIOUS
<1>1. phase = "ask" /\ \A r \in Node : replica[r].tip = Genesis
  BY DEF Init, NewReplica
<1> QED
  BY <1>1 DEF Legible, Old

LEMMA AskLegible == Sane /\ Legible /\ AskLeader => Legible'
<1> SUFFICES ASSUME Sane, Legible, AskLeader PROVE Legible'
  OBVIOUS
<1>1. /\ phase = "ask" /\ phase' = "deliver" /\ replica' = replica /\ view' = view
      /\ queue' = <<[to |-> leader', message |-> [kind |-> "ProposeRequest", view |-> view, payload |-> "block"]]>>
  BY DEF AskLeader
<1>2. view \in Nat /\ Reach = view
  BY <1>1 DEF Sane, Reach
<1>3. \A r \in Node : NodeState(r, replica[r]) /\ replica[r].view <= view /\ (replica[r].view = view => Fresh(replica[r]))
  BY <1>2 DEF Sane
<1>4. \A r \in Node : ~(replica[r].view = view + 1)
  BY <1>2, <1>3 DEF NodeState
<1>5. \A r \in Node : replica[r].view = view => \A c : ToSet(VotesFor(replica[r], c)) = {}
  <2> SUFFICES ASSUME NEW r \in Node, replica[r].view = view, NEW c PROVE ToSet(VotesFor(replica[r], c)) = {}
    OBVIOUS
  <2>1. replica[r].notarize_votes = <<>>
    BY <1>3 DEF Fresh
  <2> QED
    BY <2>1 DEF VotesFor, ToSet
<1>6. \A e \in ToSet(queue') : e.message.kind = "ProposeRequest"
  <2>1. PICK a : queue' = <<a>> /\ a.message.kind = "ProposeRequest"
    BY <1>1
  <2> QED
    BY <2>1, OneIs
<1>7. \A r \in Node : Old(replica[r].tip)
  BY <1>1 DEF Legible
<1> QED
  BY <1>1, <1>4, <1>5, <1>6, <1>7 DEF Legible, Old, Inside, Outside

LEMMA EndDeliveryLegible == Sane /\ Legible /\ EndDelivery /\ Ends' => Legible'
<1> SUFFICES ASSUME Sane, Legible, EndDelivery, Ends' PROVE Legible'
  OBVIOUS
<1>1. /\ phase = "deliver" /\ phase' = "timeout" /\ replica' = replica /\ view' = view /\ known' = known
  BY DEF EndDelivery
<1>2. \/ \A r \in Node : Outside(r)
      \/ \A r \in Node : Inside(r)
  BY <1>1 DEF Ends, Inside, Outside
<1>3. \A b \in known : BlockOf(b, view)
  BY <1>1 DEF Sane
<1>4. (\A r \in Node : Here(replica[r].tip)) \/ (\A r \in Node : Old(replica[r].tip))
  BY <1>1, <1>2 DEF Legible
<1> QED
  BY <1>1, <1>3, <1>4 DEF Legible, Here, Old

(* After the deliveries no tip moves and no block becomes known.            *)
LEMMA TipsRemain ==
  ASSUME Legible, phase \in {"timeout", "route"}, phase' \in {"timeout", "route"}, view' = view, known' = known,
         \A r \in Node : replica'[r].tip = replica[r].tip
  PROVE  Legible'
<1>1. /\ \A b \in known : BlockOf(b, view)
      /\ (\A r \in Node : Here(replica[r].tip)) \/ (\A r \in Node : Old(replica[r].tip))
  BY DEF Legible
<1> QED
  BY <1>1 DEF Legible, Here, Old

LEMMA LaterLegible == Sane /\ Legible /\ (FireTimer \/ CollectDummyVotes \/ RouteDummyVote) => Legible'
<1> SUFFICES ASSUME Sane, Legible, FireTimer \/ CollectDummyVotes \/ RouteDummyVote PROVE Legible'
  OBVIOUS
<1>1. CASE CollectDummyVotes
  BY <1>1, TipsRemain DEF CollectDummyVotes
<1>2. CASE FireTimer \/ RouteDummyVote
  <2>1. /\ phase \in {"timeout", "route"} /\ phase' = phase /\ queue # <<>> /\ view' = view /\ known' = known
        /\ (phase = "timeout" <=> FireTimer)
    BY <1>2 DEF FireTimer, RouteDummyVote
  <2>2. PICK d, res, r, s : d = Head(queue) /\ res = Apply(d) /\ r = d.to /\ s = replica[r]
    OBVIOUS
  <2>3. Take(r, res)
    BY <1>2, <2>2 DEF FireTimer, RouteDummyVote
  <2>4. Deliverable(d, view, phase) /\ r \in Node /\ NodeState(r, s)
    BY <2>1, <2>2, HeadFacts
  <2>5. replica'[r] = res.state /\ \A x \in Node : x # r => replica'[x] = replica[x]
    BY <2>3, <2>4 DEF Sane, Take
  <2>6. CASE FireTimer
    <3>1. res = HandleTimeout(s, r, view)
      BY <2>1, <2>2, <2>4, <2>6 DEF Apply, ApplyMessage, Deliverable
    <3>2. Quiet(s, res) \/ TimesOut(s, res, r) \/ TimesOutLast(s, res)
      BY <3>1, <2>4, TimeoutShape
    <3>3. res.state.tip = s.tip
      BY <3>2 DEF Quiet, TimesOut, TimesOutLast, Kept, Fields
    <3> QED
      BY <3>3, <2>1, <2>2, <2>5, TipsRemain
  <2>7. CASE RouteDummyVote
    <3>1. res = HandleNullifyVote(s, view, d.message.signer) /\ d.message.signer \in Node \ {r}
      BY <2>1, <2>2, <2>4, <2>7 DEF Apply, ApplyMessage, Deliverable, RouteDummyVote
    <3>2. Quiet(s, res) \/ CountsDummy(s, res, d.message.signer) \/ GivesUp(s, res)
      BY <3>1, <2>4, NullifyShape
    <3>3. res.state.tip = s.tip
      BY <3>2 DEF Quiet, CountsDummy, GivesUp, Kept, Fields
    <3> QED
      BY <3>3, <2>1, <2>2, <2>5, TipsRemain
  <2> QED
    BY <1>2, <2>6, <2>7
<1> QED
  BY <1>1, <1>2

LEMMA ReadLegible == Sane /\ Legible /\ ReadStates => Legible'
<1> SUFFICES ASSUME Sane, Legible, ReadStates PROVE Legible'
  OBVIOUS
<1>1. /\ phase = "route" /\ replica' = replica
      /\ \/ phase' = "halted" /\ view' = view
         \/ phase' = "ask" /\ view' = view + 1
  BY DEF ReadStates
<1>2. view \in Nat
  BY DEF Sane
<1>3. \A b : Here(b) \/ Old(b) => b = Genesis \/ (ViewOf(b) \in Nat /\ ViewOf(b) < view + 1)
  BY <1>2 DEF Here, Old, BlockOf
<1>4. \A r \in Node : replica[r].tip = Genesis \/ (ViewOf(replica[r].tip) \in Nat /\ ViewOf(replica[r].tip) < view + 1)
  BY <1>1, <1>3 DEF Legible
<1> QED
  BY <1>1, <1>4 DEF Legible, Old

LEMMA LegibleInv == ElectsNodes /\ QueueFits /\ Spec => []Legible
<1> SUFFICES ASSUME ElectsNodes, QueueFits PROVE Spec => []Legible
  BY DEF ElectsNodes, QueueFits
<1>1. Running /\ Ends /\ Ends' /\ Legible /\ [Next]_vars => Legible'
  <2> SUFFICES ASSUME Running, Ends, Ends', Legible, [Next]_vars PROVE Legible'
    OBVIOUS
  <2>1. UNCHANGED vars => Legible'
    BY DEF vars, Legible, Old, Here, Inside, Outside
  <2> QED
    BY <2>1, AskLegible, DeliverLegible, EndDeliveryLegible, LaterLegible, ReadLegible DEF Next, Running
<1> QED
  BY <1>1, InitLegible, RunningInv, EndsInv, PTL DEF Spec

(* There are fewer corrupt nodes than nodes.                                *)
LEMMA SomeHonest == Assigned => \E r \in Honest : \A q \in Honest : r <= q
<1> SUFFICES ASSUME Assigned PROVE \E r \in Honest : \A q \in Honest : r <= q
  OBVIOUS
<1>1. PICK scenario \in Scenarios : behavior = AssignBehaviors(scenario, F)
  BY DEF Assigned
<1>2. N \in Nat /\ F \in Nat \ {0} /\ N = 3 * F + 1
  BY NodeFacts
<1>3. 1 \in Node /\ ~(1 > N - 0) /\ ~(1 > N - F) /\ ~(1 > N - (F + 1))
  BY <1>2 DEF Node
<1>4. behavior[1] = "Honest"
  <2>1. PICK count : /\ count \in {0, F, F + 1}
                     /\ behavior[1] = IF 1 > N - count THEN behavior[1] ELSE "Honest"
    BY <1>1, <1>3 DEF AssignBehaviors
  <2> QED
    BY <2>1, <1>3
<1>5. 1 \in Honest /\ \A q \in Honest : 1 <= q
  BY <1>3, <1>4, <1>2 DEF Honest, Node
<1> QED
  BY <1>5

(* The outcome shown is what happened to the honest replicas, whatever the presets:
   the tip of the first one that left with a block stands for all, past the faults
   tolerated and in a fork too.                                             *)
THEOREM Outcome == ElectsNodes /\ QueueFits /\ Spec => []OutcomeRead
<1> SUFFICES ASSUME ElectsNodes, QueueFits PROVE Spec => []OutcomeRead
  BY DEF ElectsNodes, QueueFits
<1>1. Running /\ Ends /\ Assigned /\ Legible => OutcomeRead
  <2> SUFFICES ASSUME Running, Ends, Assigned, Legible, AtEnd
               PROVE  OutcomeOf(known) = "Finalized" <=> Holders # {}
    BY DEF OutcomeRead
  <2>1. \A r \in Node : replica[r].view = view + 1
    BY AllOutside DEF Running, Outside
  <2>2. view \in Nat /\ Honest \subseteq Node
    BY DEF Running, Sane, Honest
  <2>3. PICK h \in Honest : \A q \in Honest : h <= q
    BY SomeHonest
  <2>4. CASE \A r \in Node : Here(replica[r].tip)
    <3>1. \A r \in Node : replica[r].tip \in known /\ replica[r].tip # Genesis /\ ViewOf(replica[r].tip) = view
      BY <2>4 DEF Here, BlockOf
    <3>2. h \in Advanced /\ Advanced \subseteq Honest
      BY <2>1, <2>2, <2>3, <3>1 DEF Advanced
    <3>3. OutcomeOf(known) = "Finalized"
      BY <2>2, <2>3, <3>1, <3>2 DEF OutcomeOf
    <3>4. h \in Holders
      BY <2>2, <2>3, <3>1 DEF Holders
    <3> QED
      BY <3>3, <3>4
  <2>5. CASE \A r \in Node : Old(replica[r].tip)
    <3>1. \A b \in known : BlockOf(b, view)
      BY DEF AtEnd, Legible
    <3>2. ASSUME NEW b, Old(b) PROVE b \notin known /\ ~(b # Genesis /\ ViewOf(b) = view)
      BY <3>1, <3>2, <2>2 DEF Old, BlockOf
    <3>3. \A r \in Node : replica[r].tip \notin known /\ ~(replica[r].tip # Genesis /\ ViewOf(replica[r].tip) = view)
      BY <2>5, <3>2
    <3>4. OutcomeOf(known) = "Nullified"
      BY <2>2, <3>3 DEF OutcomeOf, Advanced
    <3>5. Holders = {}
      BY <2>2, <3>3 DEF Holders
    <3> QED
      BY <3>4, <3>5
  <2> QED
    BY <2>4, <2>5 DEF AtEnd, Legible
<1> QED
  BY <1>1, RunningInv, EndsInv, AssignedInv, LegibleInv, PTL

-----------------------------------------------------------------------------
(* What is on record. Without a Capitulator, all that is on the way and all that
   a replica has in its lists was signed by whom it names, and nobody has a dummy
   vote on record for a view it has not timed out in.                       *)

HistoryFields == {"proposals", "votes", "nullifies", "finalizes", "relays", "finalized"}

DummyBy(q, h) == [signer |-> q, view |-> h] \in signed.nullifies
FinalBy(q, h) == [signer |-> q, view |-> h] \in signed.finalizes
VoteHeard(q, b) == SignedBy(q, b) /\ ~Withholds(q, ViewOf(b))

OnRecord(e) ==
  /\ e.message.kind = "Proposal" => [to |-> e.to, block |-> e.message.block] \in signed.proposals
  /\ e.message.kind = "Vote" => VoteHeard(e.message.signer, e.message.block)
  /\ e.message.kind = "Notarization" => e.message.block \in signed.relays
  /\ e.message.kind = "FinalizeVote" => FinalBy(e.message.signer, e.message.view)
  /\ e.message.kind = "NullifyVote" => DummyBy(e.message.signer, e.message.view)

Timers ==
  \A q \in Node : \A h : DummyBy(q, h) =>
    h < replica[q].view \/ (h = replica[q].view /\ replica[q].dummy_sent = TRUE)
Lists ==
  \A r \in Node :
    /\ \A q, b : q \in ToSet(VotesFor(replica[r], b)) /\ q # r => VoteHeard(q, b)
    /\ \A q \in ToSet(replica[r].nullify_votes) : DummyBy(q, replica[r].view)
    /\ \A q \in ToSet(replica[r].finalize_votes) :
         FinalBy(q, replica[r].view) \/ FinalBy(q, replica[r].view - 1)

Recorded ==
  /\ signed = [field \in HistoryFields |-> signed[field]]
  /\ signed.nullifies \subseteq [signer : Node, view : 1..Rounds]
  /\ Timers /\ Lists
  /\ \A e \in ToSet(queue) : OnRecord(e)
  /\ phase \in {"deliver", "timeout"} => \A q \in ToSet(dummies) : DummyBy(q, view)

LEMMA CollectsIs ==
  ASSUME NEW r, NEW m, NEW s, NodeState(r, s), NEW res, NEW l, Handled(r, m, s, res, l)
  PROVE  Collects(r, m, s, res)
<1>1. \A b : Sequence(VotesFor(s, b))
  BY DEF NodeState, Listed
<1>2. Sequence(s.nullify_votes) /\ Sequence(s.finalize_votes) /\ DOMAIN s = Fields
  BY DEF NodeState, Listed
<1>3. ToSet(<<>>) = {}
  BY DEF ToSet
<1>4. CASE Quiet(s, res)
  <2>1. ~TimedOut(s, res)
    BY <1>3, <1>4 DEF Quiet, TimedOut
  <2> QED
    BY <1>4, <2>1, SameCollects DEF Quiet
<1>5. ASSUME NEW b, Proposes(s, res, r, b) PROVE Collects(r, m, s, res)
  <2>1. ~TimedOut(s, res)
    BY <1>5 DEF Proposes, TimedOut, VoteOut
  <2> QED
    BY <1>1, <1>5, <2>1, BallotCollects DEF Proposes, Ballot
<1>6. ASSUME NEW b, Refuses(s, res, b) PROVE Collects(r, m, s, res)
  <2>1. ~TimedOut(s, res)
    BY <1>3, <1>6 DEF Refuses, TimedOut
  <2>2. Kept(s, res.state, {"known_blocks"})
    BY <1>6 DEF Refuses
  <2>3. /\ res.state.view = s.view /\ res.state.nullify_votes = s.nullify_votes
        /\ res.state.finalize_votes = s.finalize_votes /\ res.state.dummy_sent = s.dummy_sent
        /\ res.state.notarize_votes = s.notarize_votes
    BY <2>2 DEF Kept, Fields
  <2> QED
    BY <2>1, <2>3, SameVotes, SameCollects
<1>7. ASSUME NEW b, VotesAndStays(s, res, b, r) PROVE Collects(r, m, s, res)
  <2>1. ~TimedOut(s, res)
    BY <1>7 DEF VotesAndStays, TimedOut, VoteOut
  <2> QED
    BY <1>1, <1>7, <2>1, BallotCollects DEF VotesAndStays, Ballot
<1>8. CASE m.kind = "Vote" /\ Counts(s, res, m.block, m.signer)
  <2>1. ~TimedOut(s, res)
    BY <1>3, <1>8 DEF Counts, TimedOut
  <2>2. Kept(s, res.state, BallotFields) /\ Pushed(s, res.state, m.block, m.signer)
    BY <1>8 DEF Counts, Kept, BallotFields
  <2> QED
    BY <1>1, <1>8, <2>1, <2>2, BallotCollects
<1>9. CASE TimesOut(s, res, r)
  <2>1. Kept(s, res.state, {"dummy_sent", "nullify_votes"}) /\ res.state.dummy_sent = TRUE
        /\ res.state.nullify_votes = Append(s.nullify_votes, r)
        /\ res.out = <<[kind |-> "NullifyVote", view |-> s.view]>>
    BY <1>9 DEF TimesOut
  <2>2. TimedOut(s, res)
    BY <2>1, PairIs DEF TimedOut
  <2>3. /\ res.state.view = s.view /\ res.state.finalize_votes = s.finalize_votes
        /\ res.state.notarize_votes = s.notarize_votes
    BY <2>1 DEF Kept, Fields
  <2> QED
    BY <1>2, <2>1, <2>2, <2>3, SameVotes, SameCollects
<1>10. CASE m.kind = "NullifyVote" /\ m.view = s.view /\ CountsDummy(s, res, m.signer)
  <2>1. Kept(s, res.state, {"nullify_votes"}) /\ res.state.nullify_votes = Append(s.nullify_votes, m.signer)
        /\ res.out = <<>>
    BY <1>10 DEF CountsDummy
  <2>2. ~TimedOut(s, res)
    BY <1>3, <2>1 DEF TimedOut
  <2>3. /\ res.state.view = s.view /\ res.state.finalize_votes = s.finalize_votes
        /\ res.state.notarize_votes = s.notarize_votes /\ res.state.dummy_sent = s.dummy_sent
    BY <2>1 DEF Kept, Fields
  <2> QED
    BY <1>2, <1>10, <2>1, <2>2, <2>3, SameVotes, SameCollects
<1>11. CASE m.kind = "FinalizeVote" /\ m.view \in {s.view, s.view - 1} /\ CountsFinal(s, res, m.view, m.signer)
  <2>1. Kept(s, res.state, {"finalize_votes", "finalized_count"})
        /\ res.state.finalize_votes = Append(s.finalize_votes, m.signer) /\ res.out = <<>>
    BY <1>11 DEF CountsFinal
  <2>2. ~TimedOut(s, res)
    BY <1>3, <2>1 DEF TimedOut
  <2>3. /\ res.state.view = s.view /\ res.state.nullify_votes = s.nullify_votes
        /\ res.state.notarize_votes = s.notarize_votes /\ res.state.dummy_sent = s.dummy_sent
    BY <2>1 DEF Kept, Fields
  <2> QED
    BY <1>2, <1>11, <2>1, <2>2, <2>3, SameVotes, SameCollects
<1>12. LeftBehind(s, res.state) => Collects(r, m, s, res)
  BY LeftCollects
<1> QED
  BY <1>4, <1>5, <1>6, <1>7, <1>8, <1>9, <1>10, <1>11, <1>12 DEF Handled, VotesAndLeaves, LeavesWith, TimesOutLast, GivesUp

(* What node r adds to the record, by res, when no vote is forged.          *)
Notes(r, res, deliveries) ==
  /\ signed' = [field \in HistoryFields |-> signed'[field]]
  /\ signed'.proposals = signed.proposals \cup
       {[to |-> d.to, block |-> d.message.block] :
          d \in {e \in ToSet(deliveries) : e.message.kind = "Proposal"}}
  /\ signed'.votes = signed.votes \cup {[signer |-> r, block |-> out.block] : out \in Of(res.out, "Vote")}
  /\ signed'.nullifies = signed.nullifies \cup
       {[signer |-> r, view |-> out.view] : out \in Of(res.out, "NullifyVote")}
  /\ signed'.finalizes = signed.finalizes \cup
       {[signer |-> r, view |-> out.view] : out \in Of(res.out, "FinalizeVote")}
  /\ signed'.relays = signed.relays \cup {out.block : out \in Of(res.out, "RelayNotarization")}
  /\ signed'.finalized = signed.finalized \cup
       (IF res.transition.kind = "Finalized" THEN {res.transition.view} ELSE {})

LEMMA RecordIs ==
  ASSUME NEW r, NEW res, NEW deliveries, Record(r, res, deliveries, <<>>)
  PROVE  Notes(r, res, deliveries)
<1>1. ToSet(<<>>) = {}
  BY DEF ToSet
<1>2. {[signer |-> r, block |-> d.message.block] : d \in ToSet(<<>>)} = {}
  BY <1>1
<1> QED
  BY <1>2 DEF Record, Notes, HistoryFields

(* The record only grows.                                                   *)
Grows == /\ signed.votes \subseteq signed'.votes /\ signed.nullifies \subseteq signed'.nullifies
         /\ signed.finalizes \subseteq signed'.finalizes /\ signed.relays \subseteq signed'.relays
         /\ signed.proposals \subseteq signed'.proposals

LEMMA NotesGrow ==
  ASSUME NEW r, NEW res, NEW deliveries, Notes(r, res, deliveries)
  PROVE  Grows
BY DEF Notes, Grows

LEMMA StaysOnRecord ==
  ASSUME Grows, behavior' = behavior
  PROVE  /\ \A q, b : VoteHeard(q, b) => VoteHeard(q, b)'
         /\ \A q, h : DummyBy(q, h) => DummyBy(q, h)'
         /\ \A q, h : FinalBy(q, h) => FinalBy(q, h)'
         /\ \A e : OnRecord(e) => OnRecord(e)'
<1>1. \A q, h : Withholds(q, h)' <=> Withholds(q, h)
  BY DEF Withholds, VoteAction
<1>2. /\ \A q, b : VoteHeard(q, b) => VoteHeard(q, b)'
      /\ \A q, h : DummyBy(q, h) => DummyBy(q, h)'
      /\ \A q, h : FinalBy(q, h) => FinalBy(q, h)'
  BY <1>1 DEF Grows, VoteHeard, DummyBy, FinalBy, SignedBy
<1>3. \A e : OnRecord(e) => OnRecord(e)'
  BY <1>2 DEF OnRecord, Grows
<1> QED
  BY <1>2, <1>3

(* A dummy vote on the record is one that was there or was just sent.       *)
LEMMA DummySigned ==
  ASSUME NEW r \in Node, NEW s, NEW res, NEW deliveries, Notes(r, res, deliveries),
         \A out \in ToSet(res.out) : out.kind = "NullifyVote" => out = [kind |-> "NullifyVote", view |-> s.view]
  PROVE  \A q, h : DummyBy(q, h)' <=> DummyBy(q, h) \/ (q = r /\ h = s.view /\ TimedOut(s, res))
<1> SUFFICES ASSUME NEW q, NEW h
             PROVE  DummyBy(q, h)' <=> DummyBy(q, h) \/ (q = r /\ h = s.view /\ TimedOut(s, res))
  OBVIOUS
<1>1. signed'.nullifies = signed.nullifies \cup
       {[signer |-> r, view |-> out.view] : out \in Of(res.out, "NullifyVote")}
  BY DEF Notes
<1>2. ASSUME DummyBy(q, h)', ~DummyBy(q, h) PROVE q = r /\ h = s.view /\ TimedOut(s, res)
  <2>1. PICK out \in Of(res.out, "NullifyVote") : [signer |-> q, view |-> h] = [signer |-> r, view |-> out.view]
    BY <1>1, <1>2 DEF DummyBy
  <2>2. q = r /\ h = out.view
    BY <2>1
  <2>3. out \in ToSet(res.out) /\ out = [kind |-> "NullifyVote", view |-> s.view]
    BY <2>1 DEF Of
  <2> QED
    BY <2>2, <2>3 DEF TimedOut
<1>3. ASSUME q = r, h = s.view, TimedOut(s, res) PROVE DummyBy(q, h)'
  <2>1. PICK out : out = [kind |-> "NullifyVote", view |-> s.view]
    OBVIOUS
  <2>2. out \in Of(res.out, "NullifyVote") /\ out.view = s.view
    BY <1>3, <2>1 DEF Of, TimedOut
  <2> QED
    BY <1>1, <1>3, <2>2 DEF DummyBy
<1>4. DummyBy(q, h) => DummyBy(q, h)'
  BY <1>1 DEF DummyBy
<1> QED
  BY <1>2, <1>3, <1>4

(* The lists of all when replica r took what is on record.                  *)
LEMMA ListsRecorded ==
  ASSUME Timers, Lists, signed.nullifies \subseteq [signer : Node, view : 1..Rounds],
         \A x \in Node : replica[x].view \in Nat, NEW r \in Node, NEW e, NEW s, s = replica[r],
         NEW res, Collects(r, e.message, s, res), OnRecord(e),
         replica'[r] = res.state, \A x \in Node : x # r => replica'[x] = replica[x],
         behavior' = behavior, Grows,
         \A q, h : DummyBy(q, h)' <=> DummyBy(q, h) \/ (q = r /\ h = s.view /\ TimedOut(s, res))
  PROVE  Timers' /\ Lists'
<1> PICK m, x : m = e.message /\ x = res.state
  OBVIOUS
<1>1. /\ \A q, b : VoteHeard(q, b) => VoteHeard(q, b)'
      /\ \A q, h : DummyBy(q, h) => DummyBy(q, h)'
      /\ \A q, h : FinalBy(q, h) => FinalBy(q, h)'
  BY StaysOnRecord
<1>2. /\ m.kind = "Vote" => VoteHeard(m.signer, m.block)
      /\ m.kind = "FinalizeVote" => FinalBy(m.signer, m.view)
      /\ m.kind = "NullifyVote" => DummyBy(m.signer, m.view)
  BY DEF OnRecord
<1>3. /\ \A q, b : q \in ToSet(VotesFor(x, b)) /\ q # r =>
           q \in ToSet(VotesFor(s, b)) \/ (m.kind = "Vote" /\ q = m.signer /\ b = m.block)
      /\ \A q \in ToSet(x.nullify_votes) :
           /\ x.view = s.view
           /\ \/ q \in ToSet(s.nullify_votes)
              \/ q = r /\ TimedOut(s, res)
              \/ m.kind = "NullifyVote" /\ q = m.signer /\ m.view = s.view
      /\ \A q \in ToSet(x.finalize_votes) :
           /\ x.view = s.view
           /\ \/ q \in ToSet(s.finalize_votes)
              \/ m.kind = "FinalizeVote" /\ q = m.signer /\ m.view \in {s.view, s.view - 1}
      /\ \/ x.view = s.view /\ (s.dummy_sent = TRUE \/ TimedOut(s, res) => x.dummy_sent = TRUE)
         \/ x.view = s.view + 1
  BY DEF Collects
<1>4. s.view \in Nat
  OBVIOUS
<1>5. Timers'
  <2> SUFFICES ASSUME NEW q \in Node, NEW h, DummyBy(q, h)'
               PROVE  h < replica'[q].view \/ (h = replica'[q].view /\ replica'[q].dummy_sent = TRUE)
    BY DEF Timers
  <2>1. CASE q # r
    BY <2>1 DEF Timers
  <2>2. CASE q = r /\ DummyBy(q, h)
    <3>1. h < s.view \/ (h = s.view /\ s.dummy_sent = TRUE)
      BY <2>2 DEF Timers
    <3>2. h < s.view => h < s.view + 1
      <4>1. h \in 1..Rounds /\ Rounds \in Nat
        BY <2>2, EngineAssumption DEF DummyBy
      <4> QED
        BY <4>1, <1>4
    <3>3. CASE x.view = s.view /\ (s.dummy_sent = TRUE \/ TimedOut(s, res) => x.dummy_sent = TRUE)
      BY <2>2, <3>1, <3>3
    <3>4. CASE x.view = s.view + 1
      <4>1. h < s.view \/ h = s.view => h < x.view
        BY <3>2, <3>4, <1>4
      <4> QED
        BY <2>2, <3>1, <4>1
    <3> QED
      BY <1>3, <3>3, <3>4
  <2>3. CASE q = r /\ h = s.view /\ TimedOut(s, res)
    <3>1. s.view < s.view + 1
      BY <1>4
    <3> QED
      BY <1>3, <2>3, <3>1
  <2> QED
    BY <2>1, <2>2, <2>3
<1>6. Lists'
  <2> SUFFICES ASSUME NEW y \in Node
               PROVE  /\ \A q, b : q \in ToSet(VotesFor(replica'[y], b)) /\ q # y => VoteHeard(q, b)'
                      /\ \A q \in ToSet(replica'[y].nullify_votes) : [signer |-> q, view |-> replica'[y].view] \in signed'.nullifies
                      /\ \A q \in ToSet(replica'[y].finalize_votes) :
                           \/ [signer |-> q, view |-> replica'[y].view] \in signed'.finalizes
                           \/ [signer |-> q, view |-> replica'[y].view - 1] \in signed'.finalizes
    BY DEF Lists, DummyBy, FinalBy
  <2> DEFINE Backing(z) ==
                       /\ \A q, b : q \in ToSet(VotesFor(z, b)) /\ q # y => VoteHeard(q, b)
                       /\ \A q \in ToSet(z.nullify_votes) : DummyBy(q, z.view)
                       /\ \A q \in ToSet(z.finalize_votes) : FinalBy(q, z.view) \/ FinalBy(q, z.view - 1)
  <2>1. Backing(replica[y])
    BY DEF Lists
  <2>2. CASE y # r
    <3>1. replica'[y] = replica[y]
      BY <2>2
    <3> QED
      BY <1>1, <2>1, <3>1 DEF DummyBy, FinalBy
  <2>3. CASE y = r
    <3>1. Backing(s)
      BY <2>1, <2>3
    <3>2. \A q, b : q \in ToSet(VotesFor(x, b)) /\ q # r => VoteHeard(q, b)'
      BY <1>1, <1>2, <1>3, <2>3, <3>1
    <3>3. \A q \in ToSet(x.nullify_votes) : [signer |-> q, view |-> x.view] \in signed'.nullifies
      <4> SUFFICES ASSUME NEW q \in ToSet(x.nullify_votes) PROVE [signer |-> q, view |-> x.view] \in signed'.nullifies
        OBVIOUS
      <4>1. x.view = s.view
        BY <1>3
      <4>2. DummyBy(q, s.view)'
        BY <1>1, <1>2, <1>3, <3>1
      <4> QED
        BY <4>1, <4>2 DEF DummyBy
    <3>4. \A q \in ToSet(x.finalize_votes) :
            \/ [signer |-> q, view |-> x.view] \in signed'.finalizes
            \/ [signer |-> q, view |-> x.view - 1] \in signed'.finalizes
      <4> SUFFICES ASSUME NEW q \in ToSet(x.finalize_votes)
                   PROVE  \/ [signer |-> q, view |-> x.view] \in signed'.finalizes
                          \/ [signer |-> q, view |-> x.view - 1] \in signed'.finalizes
        OBVIOUS
      <4>1. x.view = s.view
        BY <1>3
      <4>2. FinalBy(q, s.view)' \/ FinalBy(q, s.view - 1)'
        BY <1>1, <1>2, <1>3, <3>1
      <4> QED
        BY <4>1, <4>2 DEF FinalBy
    <3> QED
      BY <2>3, <3>2, <3>3, <3>4
  <2> QED
    BY <2>2, <2>3
<1> QED
  BY <1>5, <1>6

LEMMA InitRecorded == Init => Recorded
<1> SUFFICES ASSUME Init PROVE Recorded
  OBVIOUS
<1>1. /\ signed = [proposals |-> {}, votes |-> {}, nullifies |-> {}, finalizes |-> {}, relays |-> {}, finalized |-> {}]
      /\ replica = [r \in Node |-> NewReplica] /\ queue = <<>> /\ dummies = <<>> /\ phase = "ask"
  BY DEF Init
<1>2. ToSet(<<>>) = {}
  BY DEF ToSet
<1>3. signed = [field \in HistoryFields |-> signed[field]] /\ signed.nullifies = {}
  BY <1>1 DEF HistoryFields
<1>4. NewReplica.nullify_votes = <<>> /\ NewReplica.finalize_votes = <<>> /\ \A b : VotesFor(NewReplica, b) = <<>>
  BY DEF NewReplica, VotesFor
<1>5. Lists
  BY <1>1, <1>2, <1>4 DEF Lists
<1>6. Timers
  BY <1>3 DEF Timers, DummyBy
<1> QED
  BY <1>1, <1>2, <1>3, <1>5, <1>6 DEF Recorded

(* Steps that change neither the replicas nor the record.                   *)
LEMMA RecordStays ==
  ASSUME Recorded, replica' = replica, signed' = signed, behavior' = behavior
  PROVE  /\ signed' = [field \in HistoryFields |-> signed'[field]] /\ signed'.nullifies \subseteq [signer : Node, view : 1..Rounds]
         /\ Timers' /\ Lists'
<1>1. \A q, h : Withholds(q, h)' <=> Withholds(q, h)
  BY DEF Withholds, VoteAction
<1>2. \A q, b : VoteHeard(q, b)' <=> VoteHeard(q, b)
  BY <1>1 DEF VoteHeard, SignedBy
<1>3. Timers'
  BY DEF Recorded, Timers, DummyBy
<1>4. Lists'
  BY <1>2 DEF Recorded, Lists, DummyBy, FinalBy
<1> QED
  BY <1>3, <1>4 DEF Recorded

LEMMA AskRecorded == Recorded /\ AskLeader => Recorded'
<1> SUFFICES ASSUME Recorded, AskLeader PROVE Recorded'
  OBVIOUS
<1>1. /\ replica' = replica /\ signed' = signed /\ behavior' = behavior /\ dummies' = <<>>
      /\ queue' = <<[to |-> leader', message |-> [kind |-> "ProposeRequest", view |-> view, payload |-> "block"]]>>
  BY DEF AskLeader, given
<1>2. PICK l, m : l = leader' /\ m = [kind |-> "ProposeRequest", view |-> view, payload |-> "block"]
  OBVIOUS
<1>5. PICK d : d = [to |-> l, message |-> m]
  OBVIOUS
<1>7. queue' = <<d>> /\ d.message.kind = "ProposeRequest"
  BY <1>1, <1>2, <1>5
<1>6. \A e \in ToSet(queue') : e.message.kind = "ProposeRequest"
  BY <1>7, OneIs
<1>3. \A e \in ToSet(queue') : OnRecord(e)'
  BY <1>6 DEF OnRecord
<1>4. ToSet(dummies') = {}
  BY <1>1 DEF ToSet
<1> QED
  BY <1>1, <1>3, <1>4, RecordStays DEF Recorded

LEMMA EndDeliveryRecorded == Sane /\ Recorded /\ EndDelivery => Recorded'
<1> SUFFICES ASSUME Sane, Recorded, EndDelivery PROVE Recorded'
  OBVIOUS
<1>1. /\ replica' = replica /\ signed' = signed /\ behavior' = behavior /\ dummies' = dummies /\ view' = view
      /\ phase = "deliver" /\ queue' = ToAll(stuck', [kind |-> "Timeout", view |-> view])
      /\ stuck' \subseteq Node
  BY DEF EndDelivery, given
<1>2. PICK S, m : S = stuck' /\ m = [kind |-> "Timeout", view |-> view]
  OBVIOUS
<1>3. ToSet(queue') = {[to |-> p, message |-> m] : p \in S}
  BY <1>1, <1>2, ToAllIs
<1>4. \A e \in ToSet(queue') : e.message.kind = "Timeout"
  BY <1>2, <1>3
<1>5. \A e \in ToSet(queue') : OnRecord(e)'
  BY <1>4 DEF OnRecord
<1>6. \A q \in ToSet(dummies') : DummyBy(q, view)'
  BY <1>1 DEF Recorded, DummyBy
<1> QED
  BY <1>1, <1>5, <1>6, RecordStays DEF Recorded, DummyBy

LEMMA ReadRecorded == Recorded /\ ReadStates => Recorded'
<1> SUFFICES ASSUME Recorded, ReadStates PROVE Recorded'
  OBVIOUS
<1>1. /\ replica' = replica /\ signed' = signed /\ behavior' = behavior
      /\ queue = <<>> /\ queue' = queue /\ phase' \in {"halted", "ask"}
  BY DEF ReadStates, given
<1>2. ToSet(queue') = {}
  BY <1>1 DEF ToSet
<1> QED
  BY <1>1, <1>2, RecordStays DEF Recorded

LEMMA StutterRecorded == Recorded /\ UNCHANGED vars => Recorded'
<1> SUFFICES ASSUME Recorded, UNCHANGED vars PROVE Recorded'
  OBVIOUS
<1>1. /\ replica' = replica /\ signed' = signed /\ behavior' = behavior /\ dummies' = dummies /\ view' = view
      /\ queue' = queue /\ phase' = phase
  BY DEF vars, given
<1>2. Grows
  BY <1>1 DEF Grows
<1>3. \A e \in ToSet(queue') : OnRecord(e)'
  BY <1>1, <1>2, StaysOnRecord DEF Recorded
<1> QED
  BY <1>1, <1>3, RecordStays DEF Recorded, DummyBy

LEMMA CollectRecorded == Sane /\ Recorded /\ Capitulators = {} /\ CollectDummyVotes => Recorded'
<1> SUFFICES ASSUME Sane, Recorded, Capitulators = {}, CollectDummyVotes PROVE Recorded'
  OBVIOUS
<1>1. /\ phase = "timeout" /\ view' = view /\ phase' = "route" /\ replica' = replica /\ behavior' = behavior
      /\ dummies' = IF stuck = {} THEN <<>> ELSE dummies \o InOrder(Capitulators)
      /\ queue' = FlattenSeq([i \in DOMAIN dummies' |-> RouteTo(dummies'[i])])
      /\ signed' = [signed EXCEPT !.nullifies = @ \cup
           {[signer |-> c, view |-> view] : c \in ToSet(dummies') \ ToSet(dummies)}]
  BY DEF CollectDummyVotes, given
<1>2. Sequence(dummies') /\ ToSet(dummies') \subseteq ToSet(dummies)
  <2>1. Sequence(dummies)
    BY DEF Sane
  <2>2. Sequence(InOrder(Capitulators)) /\ ToSet(InOrder(Capitulators)) = {}
    BY InOrderIs DEF Sequence
  <2>3. /\ Sequence(dummies \o InOrder(Capitulators))
        /\ ToSet(dummies \o InOrder(Capitulators)) = ToSet(dummies) \cup ToSet(InOrder(Capitulators))
    BY <2>1, <2>2, ConcatSequence
  <2> QED
    BY <1>1, <2>2, <2>3, EmptyListed
<1>3. signed' = signed
  <2>1. {[signer |-> c, view |-> view] : c \in ToSet(dummies') \ ToSet(dummies)} = {}
    BY <1>2
  <2>2. signed' = [signed EXCEPT !.nullifies = @]
    BY <1>1, <2>1
  <2>3. signed = [field \in HistoryFields |-> signed[field]]
    BY DEF Recorded
  <2> QED
    BY <2>2, <2>3
<1> PICK ds : ds = dummies'
  OBVIOUS
<1>4. PICK n \in Nat : n = Len(ds) /\ DOMAIN ds = 1..n /\ ToSet(ds) = {ds[k] : k \in 1..n}
  BY <1>2, SequenceOfSet DEF ToSet
<1> DEFINE ss == [i \in 1..n |-> RouteTo(ds[i])]
<1>5. queue' = FlattenSeq(ss)
  BY <1>1, <1>4
<1>6. \A k \in 1..n : /\ Sequence(ss[k])
                      /\ \A e \in ToSet(ss[k]) : OnRecord(e)
  <2> SUFFICES ASSUME NEW k \in 1..n
               PROVE  Sequence(ss[k]) /\ \A e \in ToSet(ss[k]) : OnRecord(e)
    OBVIOUS
  <2>0. PICK x, m, S : x = ds[k] /\ m = [kind |-> "NullifyVote", view |-> view, signer |-> x] /\ S = stuck \ {x}
    OBVIOUS
  <2>1. S \subseteq Node /\ ss[k] = ToAll(S, m) /\ DummyBy(x, view)
    BY <1>1, <1>2, <1>4, <2>0 DEF RouteTo, Sane, Recorded
  <2> HIDE DEF ss
  <2>2. Sequence(ss[k]) /\ ToSet(ss[k]) = {[to |-> p, message |-> m] : p \in S}
    <3>1. S \subseteq Node
      BY <2>1
    <3>2. Sequence(ToAll(S, m))
      BY <3>1, ToAllIs
    <3>3. ToSet(ToAll(S, m)) = {[to |-> p, message |-> m] : p \in S}
      BY <3>1, ToAllIs, Zenon
    <3> QED
      BY <2>1, <3>2, <3>3
  <2>3. ASSUME NEW e \in ToSet(ss[k]) PROVE OnRecord(e)
    <3>1. PICK p \in S : e = [to |-> p, message |-> m]
      BY <2>2
    <3>2. e.message.kind = "NullifyVote" /\ e.message.view = view /\ e.message.signer = x
      BY <2>0, <3>1
    <3> QED
      BY <2>1, <3>2 DEF OnRecord
  <2> QED
    BY <2>2, <2>3
<1>7. ss = [k \in 1..n |-> ss[k]]
  OBVIOUS
<1> HIDE DEF ss
<1>8. \A e \in ToSet(queue') : OnRecord(e)
  BY <1>5, <1>6, <1>7, FlattenSequence
<1>9. Grows
  BY <1>3 DEF Grows
<1>10. \A e \in ToSet(queue') : OnRecord(e)'
  BY <1>1, <1>8, <1>9, StaysOnRecord
<1> QED
  BY <1>1, <1>3, <1>10, RecordStays DEF Recorded

LEMMA DeliverRecorded == Sane /\ Recorded /\ Capitulators = {} /\ Deliver => Recorded'
<1> SUFFICES ASSUME Sane, Recorded, Capitulators = {}, Deliver PROVE Recorded'
  OBVIOUS
<1>1. /\ phase = "deliver" /\ queue # <<>> /\ view' = view /\ phase' = "deliver" /\ behavior' = behavior
      /\ dummies' = dummies
  BY DEF Deliver, given
<1>2. PICK d, res, forged : DeliveredBy(d, res, forged)
  BY DeliverIs
<1>3. PICK r, s : r = d.to /\ s = replica[d.to]
  OBVIOUS
<1>4. /\ r \in Node /\ Answer(r, s, res, view, "deliver") /\ Answered(res.out) /\ NodeState(r, s)
      /\ Handled(r, d.message, s, res, LeaderFor(r)) /\ d \in ToSet(queue)
      /\ replica'[r] = res.state /\ \A x \in Node : x # r => replica'[x] = replica[x]
  BY <1>1, <1>2, <1>3, DeliverDeed DEF DeliveredBy
<1>5. /\ forged = <<>>
      /\ \A q, c : SignedBy(q, c)' <=> SignedBy(q, c) \/ (q = r /\ VoteOut(s, c) \in ToSet(res.out))
  BY <1>1, <1>2, <1>3, VotesAfter
<1>6. Notes(r, res, Filtered(res.out, r))
  BY <1>2, <1>3, <1>5, RecordIs DEF DeliveredBy
<1>7. Grows
  BY <1>6, NotesGrow
<1>8. \A out \in ToSet(res.out) : Output(out, view) /\ out.kind # "NullifyVote"
  BY <1>4 DEF Answered, Output, Relay
<1>9. signed'.nullifies = signed.nullifies
  <2>1. Of(res.out, "NullifyVote") = {}
    BY <1>8 DEF Of
  <2>2. {[signer |-> r, view |-> out.view] : out \in Of(res.out, "NullifyVote")} = {}
    BY <2>1
  <2> QED
    BY <1>6, <2>2 DEF Notes
<1>10. ~TimedOut(s, res)
  BY <1>8 DEF TimedOut
<1>11. \A q, h : DummyBy(q, h)' <=> DummyBy(q, h) \/ (q = r /\ h = s.view /\ TimedOut(s, res))
  BY <1>9, <1>10 DEF DummyBy
<1>12. Timers' /\ Lists'
  <2>1. Collects(r, d.message, s, res) /\ OnRecord(d) /\ Timers /\ Lists
    BY <1>4, CollectsIs DEF Recorded
  <2>2. signed.nullifies \subseteq [signer : Node, view : 1..Rounds] /\ \A x \in Node : replica[x].view \in Nat
    BY DEF Recorded, Sane, NodeState
  <2>3. s = replica[r]
    BY <1>3
  <2> QED
    BY <1>1, <1>4, <1>7, <1>11, <2>1, <2>2, <2>3, ListsRecorded
<1>13. \A e \in ToSet(queue') : OnRecord(e)'
  <2>1. /\ ToSet(queue') = (ToSet(Tail(queue)) \cup ToSet(Filtered(res.out, r))) \cup ToSet(forged)
        /\ \A e \in ToSet(queue') : Deliverable(e, view, "deliver")
    BY <1>1, <1>2, <1>3, QueueAfter
  <2>2. ToSet(Tail(queue)) \subseteq ToSet(queue)
    BY <1>1, HeadFacts
  <2>5. ToSet(forged) = {}
    BY <1>5 DEF ToSet
  <2>3. \A e \in ToSet(queue) : OnRecord(e)'
    BY <1>1, <1>7, StaysOnRecord DEF Recorded
  <2>4. ASSUME NEW e \in ToSet(Filtered(res.out, r)) PROVE OnRecord(e)'
    <3>1. PICK out \in ToSet(res.out) : Sends(e, out, r, view)
      BY <1>4, FilteredSends
    <3>2. s.view = view
      BY <1>4 DEF Answer, ToSet
    <3>3. ASSUME NEW b, SendsProposal(e, out, r, b) PROVE OnRecord(e)'
      <4>1. e.message.kind = "Proposal"
        BY <3>3 DEF SendsProposal
      <4>2. [to |-> e.to, block |-> e.message.block] \in signed'.proposals
        BY <1>6, <4>1 DEF Notes
      <4> QED
        BY <4>1, <4>2 DEF OnRecord
    <3>4. ASSUME NEW b, SendsVote(e, out, r, b) PROVE OnRecord(e)'
      <4>1. /\ e.message.kind = "Vote" /\ e.message.block = b /\ e.message.signer = r /\ ~Withholds(r, view)
            /\ ViewOf(b) = view /\ out = VoteOut(s, b)
        BY <3>2, <3>4 DEF SendsVote, BlockOf, VoteOut
      <4>2. SignedBy(r, b)' /\ ~Withholds(r, ViewOf(b))'
        BY <1>1, <1>5, <4>1 DEF Withholds, VoteAction
      <4>3. VoteHeard(r, b)'
        BY <4>2 DEF VoteHeard
      <4> QED
        BY <4>1, <4>3 DEF OnRecord
    <3>5. ASSUME NEW b, SendsRelay(e, out, r, b) PROVE OnRecord(e)'
      <4>1. e.message.kind = "Notarization" /\ e.message.block = b /\ out = Relay(b)
        BY <3>5 DEF SendsRelay
      <4>2. out \in Of(res.out, "RelayNotarization") /\ out.block = b
        BY <4>1 DEF Of, Relay
      <4>3. b \in signed'.relays
        BY <1>6, <4>2 DEF Notes
      <4> QED
        BY <4>1, <4>3 DEF OnRecord
    <3>6. CASE SendsFinal(e, out, r)
      <4>1. e.message.kind = "FinalizeVote" /\ e.message.signer = r /\ out = [kind |-> "FinalizeVote", view |-> view]
        BY <3>6 DEF SendsFinal
      <4>2. e.message.view = view
        BY <2>1, <4>1 DEF Deliverable
      <4>3. out \in Of(res.out, "FinalizeVote") /\ out.view = view
        BY <4>1 DEF Of
      <4>4. [signer |-> r, view |-> view] \in signed'.finalizes
        BY <1>6, <4>3 DEF Notes
      <4>5. FinalBy(r, view)'
        BY <1>1, <4>4 DEF FinalBy
      <4> QED
        BY <1>1, <4>1, <4>2, <4>5 DEF OnRecord
    <3> QED
      BY <3>1, <3>3, <3>4, <3>5, <3>6, SendsOne
  <2>6. ASSUME NEW e \in ToSet(queue') PROVE OnRecord(e)'
    <3>1. e \in ToSet(queue) \/ e \in ToSet(Filtered(res.out, r))
      BY <2>1, <2>2, <2>5
    <3> QED
      BY <3>1, <2>3, <2>4
  <2> QED
    BY <2>6
<1>14. \A q \in ToSet(dummies') : DummyBy(q, view)'
  BY <1>1, <1>9 DEF Recorded, DummyBy
<1> QED
  BY <1>1, <1>6, <1>9, <1>12, <1>13, <1>14 DEF Recorded, Notes

LEMMA FireTimerRecorded == Sane /\ Recorded /\ FireTimer => Recorded'
<1> SUFFICES ASSUME Sane, Recorded, FireTimer PROVE Recorded'
  OBVIOUS
<1>1. phase = "timeout" /\ phase' = "timeout" /\ queue # <<>> /\ view' = view /\ behavior' = behavior
  BY DEF FireTimer, given
<1>2. PICK d, res, r, s : d = Head(queue) /\ res = Apply(d) /\ r = d.to /\ s = replica[r]
  OBVIOUS
<1>3. /\ Take(r, res) /\ Record(r, res, <<>>, <<>>) /\ queue' = Tail(queue)
      /\ dummies' = IF res.out = <<>> THEN dummies ELSE Append(dummies, r)
  BY <1>2 DEF FireTimer
<1>4. Deliverable(d, view, "timeout") /\ r \in Node /\ NodeState(r, s) /\ d \in ToSet(queue)
  BY <1>1, <1>2, HeadFacts
<1>5. replica'[r] = res.state /\ \A x \in Node : x # r => replica'[x] = replica[x]
  BY <1>3, <1>4 DEF Sane, Take
<1>6. d.message.kind = "Timeout" /\ d.message.view = view
  BY <1>4 DEF Deliverable
<1>7. Handled(r, d.message, s, res, LeaderFor(r))
  BY <1>2, <1>4, HandledIs DEF Apply
<1>8. \/ res.out = <<>>
      \/ res.out = <<[kind |-> "NullifyVote", view |-> s.view]>> /\ s.view = view
  BY <1>6, <1>7 DEF Handled, Quiet, TimesOut, TimesOutLast
<1>9. ToSet(<<>>) = {}
  BY DEF ToSet
<1>10. ToSet(res.out) \subseteq {[kind |-> "NullifyVote", view |-> s.view]}
  BY <1>8, <1>9, PairIs
<1>11. Notes(r, res, <<>>)
  BY <1>3, RecordIs
<1>12. Grows
  BY <1>11, NotesGrow
<1>13. \A q, h : DummyBy(q, h)' <=> DummyBy(q, h) \/ (q = r /\ h = s.view /\ TimedOut(s, res))
  BY <1>4, <1>10, <1>11, DummySigned
<1>14. Timers' /\ Lists'
  <2>1. Collects(r, d.message, s, res) /\ OnRecord(d) /\ Timers /\ Lists
    BY <1>4, <1>7, CollectsIs DEF Recorded
  <2>2. signed.nullifies \subseteq [signer : Node, view : 1..Rounds] /\ \A x \in Node : replica[x].view \in Nat
    BY DEF Recorded, Sane, NodeState
  <2>3. s = replica[r]
    BY <1>2
  <2> QED
    BY <1>1, <1>4, <1>5, <1>12, <1>13, <2>1, <2>2, <2>3, ListsRecorded
<1>15. signed'.nullifies \subseteq [signer : Node, view : 1..Rounds]
  <2>1. view \in 1..Rounds /\ signed.nullifies \subseteq [signer : Node, view : 1..Rounds]
    BY <1>1, EngineAssumption DEF Sane, Recorded
  <2>2. CASE res.out = <<>>
    <3>1. Of(res.out, "NullifyVote") = {}
      BY <1>9, <2>2 DEF Of
    <3>2. signed'.nullifies = signed.nullifies
      BY <1>11, <3>1 DEF Notes
    <3> QED
      BY <2>1, <3>2
  <2>3. CASE s.view = view
    <3>1. \A out \in Of(res.out, "NullifyVote") : out.view = view
      BY <1>10, <2>3 DEF Of
    <3>2. \A n \in signed'.nullifies : n \in signed.nullifies \/ n = [signer |-> r, view |-> view]
      BY <1>11, <3>1 DEF Notes
    <3> QED
      BY <1>4, <2>1, <3>2
  <2> QED
    BY <1>8, <2>2, <2>3
<1>16. \A e \in ToSet(queue') : OnRecord(e)'
  <2>1. ToSet(queue') \subseteq ToSet(queue)
    BY <1>1, <1>3, HeadFacts
  <2> QED
    BY <1>1, <1>12, <2>1, StaysOnRecord DEF Recorded
<1>17. \A q \in ToSet(dummies') : DummyBy(q, view)'
  <2>1. \A q \in ToSet(dummies) : DummyBy(q, view)'
    BY <1>1, <1>13 DEF Recorded, DummyBy
  <2>2. CASE res.out = <<>>
    BY <1>3, <2>1, <2>2
  <2>3. CASE res.out = <<[kind |-> "NullifyVote", view |-> s.view]>> /\ s.view = view
    <3>1. TimedOut(s, res)
      BY <2>3, PairIs DEF TimedOut
    <3>2. DummyBy(r, s.view)'
      BY <1>13, <3>1
    <3>3. DummyBy(r, view)'
      BY <1>1, <2>3, <3>2 DEF DummyBy
    <3>4. dummies' = dummies \/ dummies' = Append(dummies, r)
      BY <1>3
    <3>5. ToSet(Append(dummies, r)) = ToSet(dummies) \cup {r}
      BY AppendAdds DEF Sane
    <3> QED
      BY <2>1, <3>3, <3>4, <3>5
  <2> QED
    BY <1>8, <2>2, <2>3
<1> QED
  BY <1>11, <1>14, <1>15, <1>16, <1>17 DEF Recorded, Notes

LEMMA RouteRecorded == Sane /\ Recorded /\ RouteDummyVote => Recorded'
<1> SUFFICES ASSUME Sane, Recorded, RouteDummyVote PROVE Recorded'
  OBVIOUS
<1>1. /\ phase = "route" /\ phase' = "route" /\ queue # <<>> /\ view' = view /\ behavior' = behavior
      /\ signed' = signed /\ dummies' = dummies
  BY DEF RouteDummyVote, given
<1>2. PICK d, res, r, s : d = Head(queue) /\ res = Apply(d) /\ r = d.to /\ s = replica[r]
  OBVIOUS
<1>3. Take(r, res) /\ queue' = Tail(queue)
  BY <1>2 DEF RouteDummyVote
<1>4. Deliverable(d, view, "route") /\ r \in Node /\ NodeState(r, s) /\ d \in ToSet(queue)
  BY <1>1, <1>2, HeadFacts
<1>5. replica'[r] = res.state /\ \A x \in Node : x # r => replica'[x] = replica[x]
  BY <1>3, <1>4 DEF Sane, Take
<1>6. d.message.kind = "NullifyVote" /\ d.message.view = view
  BY <1>4 DEF Deliverable
<1>7. Handled(r, d.message, s, res, LeaderFor(r))
  BY <1>2, <1>4, HandledIs DEF Apply
<1>8. res.out = <<>>
  BY <1>6, <1>7 DEF Handled, Quiet, CountsDummy, GivesUp
<1>9. ~TimedOut(s, res)
  BY <1>8 DEF TimedOut, ToSet
<1>10. Grows
  BY <1>1 DEF Grows
<1>11. \A q, h : DummyBy(q, h)' <=> DummyBy(q, h) \/ (q = r /\ h = s.view /\ TimedOut(s, res))
  BY <1>1, <1>9 DEF DummyBy
<1>12. Timers' /\ Lists'
  <2>1. Collects(r, d.message, s, res) /\ OnRecord(d) /\ Timers /\ Lists
    BY <1>4, <1>7, CollectsIs DEF Recorded
  <2>2. signed.nullifies \subseteq [signer : Node, view : 1..Rounds] /\ \A x \in Node : replica[x].view \in Nat
    BY DEF Recorded, Sane, NodeState
  <2>3. s = replica[r]
    BY <1>2
  <2> QED
    BY <1>1, <1>4, <1>5, <1>10, <1>11, <2>1, <2>2, <2>3, ListsRecorded
<1>13. \A e \in ToSet(queue') : OnRecord(e)'
  <2>1. ToSet(queue') \subseteq ToSet(queue)
    BY <1>1, <1>3, HeadFacts
  <2> QED
    BY <1>1, <1>10, <2>1, StaysOnRecord DEF Recorded
<1> QED
  BY <1>1, <1>12, <1>13 DEF Recorded

LEMMA RecordedInv == ElectsNodes /\ Spec => [](Capitulators = {} => Recorded)
<1> SUFFICES ASSUME ElectsNodes PROVE Spec => [](Capitulators = {} => Recorded)
  BY DEF ElectsNodes
<1> DEFINE I == Capitulators = {} => Recorded
<1>1. Init => I
  BY InitRecorded
<1>2. Running /\ I /\ [Next]_vars => I'
  <2> SUFFICES ASSUME Running, I, [Next]_vars, Capitulators' = {} PROVE Recorded'
    OBVIOUS
  <2>1. behavior' = behavior
    BY DEF Next, vars, given, AskLeader, Deliver, EndDelivery, FireTimer, CollectDummyVotes, RouteDummyVote, ReadStates
  <2>2. Capitulators = {} /\ Recorded
    BY <2>1 DEF Capitulators
  <2> HIDE DEF I
  <2> QED
    BY <2>2, AskRecorded, DeliverRecorded, EndDeliveryRecorded, FireTimerRecorded, CollectRecorded, RouteRecorded,
       ReadRecorded, StutterRecorded DEF Next, Running
<1> QED
  BY <1>1, <1>2, RunningInv, PTL DEF Spec

-----------------------------------------------------------------------------
(* The engine's replicas as those of Simplex, for the presets and the leaders of
   the behaviour.                                                           *)

Shared == {"view", "tip", "seed", "voted_block", "dummy_sent", "known_blocks"}

(* Only replica r changes, to x.                                            *)
Becomes(r, x) == \A f \in Shared : EachOf(f)' = [EachOf(f) EXCEPT ![r] = x[f]]

LEMMA BecomesIs ==
  ASSUME NEW r \in Node, NEW x, replica'[r] = x, \A q \in Node : q # r => replica'[q] = replica[q]
  PROVE  Becomes(r, x) /\ \A f : \A q \in Node : EachOf(f)[q] = replica[q][f]
BY DEF Becomes, EachOf

LEMMA SameField ==
  ASSUME NEW r \in Node, NEW x, Becomes(r, x), NEW f \in Shared, x[f] = replica[r][f]
  PROVE  EachOf(f)' = EachOf(f)
BY DEF Becomes, EachOf

(* What nobody can see on the outside.                                      *)
LEMMA HiddenStep ==
  ASSUME NEW r \in Node, NEW x, Becomes(r, x), \A f \in Shared : x[f] = replica[r][f], signed' = signed
  PROVE  UNCHANGED Async!vars
<1>1. \A f \in Shared : EachOf(f)' = EachOf(f)
  BY SameField
<1> QED
  BY <1>1 DEF Shared, Async!vars

(* The presets are those of the behaviour.                                  *)
LEMMA SamePresets ==
  ASSUME behavior = Presets
  PROVE  /\ \A r, h : Async!Withholds(r, h) <=> Withholds(r, h)
         /\ \A r, h, b : Async!FilterProposal(r, h, b) = FilterProposal(r, h, b)
         /\ Async!Node = Node
<1>1. \A r, h : Async!ProposalAction(r, h) = ProposalAction(r, h) /\ Async!VoteAction(r, h) = VoteAction(r, h)
  BY DEF Async!ProposalAction, ProposalAction, Async!VoteAction, VoteAction
<1>2. \A b : Async!Equivocation(b) = Equivocation(b)
  BY DEF Async!Equivocation, Equivocation, Async!Front, Front, Async!Last, Last
<1>3. Async!Node = Node
  BY DEF Async!Node, Node
<1> QED
  BY <1>1, <1>2, <1>3 DEF Async!Withholds, Withholds, Async!FilterProposal, FilterProposal

LEMMA SameVotesSigned ==
  ASSUME behavior = Presets, Capitulators = {}, NEW r \in Node, NEW b, NEW hashes
  PROVE  Async!SignVotes(r, b, hashes) = {[signer |-> r, block |-> b]}
<1>1. Presets[r] # "Capitulator"
  BY DEF Capitulators
<1> QED
  BY <1>1 DEF Async!SignVotes

(* A view is left.                                                          *)
LEMMA SameAdvance ==
  ASSUME NEW r \in Node, NEW x, Becomes(r, x), LeftBehind(replica[r], x)
  PROVE  Async!AdvanceView(r)
<1>1. /\ EachOf("view")' = [EachOf("view") EXCEPT ![r] = x.view]
      /\ EachOf("voted_block")' = [EachOf("voted_block") EXCEPT ![r] = x.voted_block]
      /\ EachOf("dummy_sent")' = [EachOf("dummy_sent") EXCEPT ![r] = x.dummy_sent]
      /\ EachOf("known_blocks")' = [EachOf("known_blocks") EXCEPT ![r] = x.known_blocks]
  BY DEF Becomes, Shared
<1>2. /\ x.view = EachOf("view")[r] + 1 /\ x.voted_block = Async!Genesis /\ x.dummy_sent = FALSE
      /\ x.known_blocks = {}
  BY DEF LeftBehind, EachOf, Genesis, Async!Genesis
<1> QED
  BY <1>1, <1>2 DEF Async!AdvanceView

(* Proposals that leave are of a proposal that a replica returned.          *)
NoProposal(deliveries) == \A d \in ToSet(deliveries) : d.message.kind # "Proposal"

LEMMA NoProposalLeaves ==
  ASSUME NEW r \in Node, NEW outs, Answered(outs), NoneOf(outs, "Proposal")
  PROVE  NoProposal(Filtered(outs, r))
<1> SUFFICES ASSUME NEW e \in ToSet(Filtered(outs, r)) PROVE e.message.kind # "Proposal"
  BY DEF NoProposal
<1>1. PICK out \in ToSet(outs) : Sends(e, out, r, view)
  BY FilteredSends
<1>2. out.kind # "Proposal"
  BY <1>1 DEF NoneOf
<1>3. \A b : ~SendsProposal(e, out, r, b)
  BY <1>2 DEF SendsProposal
<1>4. \/ \E b : SendsVote(e, out, r, b)
      \/ \E b : SendsRelay(e, out, r, b)
      \/ SendsFinal(e, out, r)
  BY <1>1, <1>3, SendsOne
<1> QED
  BY <1>4 DEF SendsVote, SendsRelay, SendsFinal

LEMMA RecordsNothing ==
  ASSUME NEW r, NEW res, NEW deliveries, Notes(r, res, deliveries)
  PROVE  /\ NoProposal(deliveries) => signed'.proposals = signed.proposals
         /\ NoneOf(res.out, "Vote") => signed'.votes = signed.votes
         /\ NoneOf(res.out, "NullifyVote") => signed'.nullifies = signed.nullifies
         /\ NoneOf(res.out, "FinalizeVote") => signed'.finalizes = signed.finalizes
         /\ NoneOf(res.out, "RelayNotarization") => signed'.relays = signed.relays
         /\ res.transition.kind # "Finalized" => signed'.finalized = signed.finalized
<1>1. ASSUME NEW kind, NoneOf(res.out, kind) PROVE Of(res.out, kind) = {}
  BY <1>1 DEF NoneOf, Of
<1>2. ASSUME NoProposal(deliveries) PROVE signed'.proposals = signed.proposals
  <2>1. {e \in ToSet(deliveries) : e.message.kind = "Proposal"} = {}
    BY <1>2 DEF NoProposal
  <2> QED
    BY <2>1 DEF Notes
<1>3. ASSUME NoneOf(res.out, "Vote") PROVE signed'.votes = signed.votes
  BY <1>1, <1>3 DEF Notes
<1>4. ASSUME NoneOf(res.out, "NullifyVote") PROVE signed'.nullifies = signed.nullifies
  BY <1>1, <1>4 DEF Notes
<1>5. ASSUME NoneOf(res.out, "FinalizeVote") PROVE signed'.finalizes = signed.finalizes
  BY <1>1, <1>5 DEF Notes
<1>6. ASSUME NoneOf(res.out, "RelayNotarization") PROVE signed'.relays = signed.relays
  BY <1>1, <1>6 DEF Notes
<1>7. res.transition.kind # "Finalized" => signed'.finalized = signed.finalized
  BY DEF Notes
<1> QED
  BY <1>2, <1>3, <1>4, <1>5, <1>6, <1>7

(* Nothing at all.                                                          *)
LEMMA RecordKept ==
  ASSUME NEW r, NEW res, NEW deliveries, Notes(r, res, deliveries), res.out = <<>>, NoProposal(deliveries),
         res.transition.kind # "Finalized", signed = [field \in HistoryFields |-> signed[field]]
  PROVE  signed' = signed
<1>1. \A kind : NoneOf(res.out, kind)
  BY DEF NoneOf, ToSet
<1>2. \A field \in HistoryFields : signed'[field] = signed[field]
  BY <1>1, RecordsNothing DEF HistoryFields
<1> QED
  BY <1>2 DEF Notes

(* The one output of a kind.                                                *)
LEMMA RecordsVote ==
  ASSUME NEW r, NEW res, NEW deliveries, Notes(r, res, deliveries), NEW h, NEW b,
         Of(res.out, "Vote") = {[kind |-> "Vote", view |-> h, block |-> b]}
  PROVE  signed'.votes = signed.votes \cup {[signer |-> r, block |-> b]}
<1>1. PICK S, y : S = Of(res.out, "Vote") /\ y = [kind |-> "Vote", view |-> h, block |-> b]
  OBVIOUS
<1>2. S = {y} /\ y.block = b
  BY <1>1
<1>3. signed'.votes = signed.votes \cup {[signer |-> r, block |-> out.block] : out \in S}
  BY <1>1 DEF Notes
<1>4. {[signer |-> r, block |-> out.block] : out \in S} = {[signer |-> r, block |-> b]}
  BY <1>2, ImageOfOne
<1> QED
  BY <1>3, <1>4

LEMMA RecordsDummy ==
  ASSUME NEW r, NEW res, NEW deliveries, Notes(r, res, deliveries), NEW h,
         Of(res.out, "NullifyVote") = {[kind |-> "NullifyVote", view |-> h]}
  PROVE  signed'.nullifies = signed.nullifies \cup {[signer |-> r, view |-> h]}
<1>1. PICK S, y : S = Of(res.out, "NullifyVote") /\ y = [kind |-> "NullifyVote", view |-> h]
  OBVIOUS
<1>2. S = {y} /\ y.view = h
  BY <1>1
<1>3. signed'.nullifies = signed.nullifies \cup {[signer |-> r, view |-> out.view] : out \in S}
  BY <1>1 DEF Notes
<1>4. {[signer |-> r, view |-> out.view] : out \in S} = {[signer |-> r, view |-> h]}
  BY <1>2, ImageOfOne
<1> QED
  BY <1>3, <1>4

LEMMA RecordsFinal ==
  ASSUME NEW r, NEW res, NEW deliveries, Notes(r, res, deliveries), NEW h,
         Of(res.out, "FinalizeVote") = {[kind |-> "FinalizeVote", view |-> h]}
  PROVE  signed'.finalizes = signed.finalizes \cup {[signer |-> r, view |-> h]}
<1>1. PICK S, y : S = Of(res.out, "FinalizeVote") /\ y = [kind |-> "FinalizeVote", view |-> h]
  OBVIOUS
<1>2. S = {y} /\ y.view = h
  BY <1>1
<1>3. signed'.finalizes = signed.finalizes \cup {[signer |-> r, view |-> out.view] : out \in S}
  BY <1>1 DEF Notes
<1>4. {[signer |-> r, view |-> out.view] : out \in S} = {[signer |-> r, view |-> h]}
  BY <1>2, ImageOfOne
<1> QED
  BY <1>3, <1>4

LEMMA RecordsRelay ==
  ASSUME NEW r, NEW res, NEW deliveries, Notes(r, res, deliveries), NEW b,
         Of(res.out, "RelayNotarization") = {Relay(b)}
  PROVE  signed'.relays = signed.relays \cup {b}
<1>1. PICK S, y : S = Of(res.out, "RelayNotarization") /\ y = Relay(b)
  OBVIOUS
<1>2. S = {y} /\ y.block = b
  BY <1>1 DEF Relay
<1>3. signed'.relays = signed.relays \cup {out.block : out \in S}
  BY <1>1 DEF Notes
<1>4. {out.block : out \in S} = {b}
  BY <1>2, ImageOfOne
<1> QED
  BY <1>3, <1>4

(* What announces a notarization, alone or behind a vote.                   *)
Tells(s, res, b) ==
  /\ Of(res.out, "RelayNotarization") = {Relay(b)}
  /\ Of(res.out, "FinalizeVote") =
       IF s.dummy_sent THEN {} ELSE {[kind |-> "FinalizeVote", view |-> s.view]}
  /\ NoneOf(res.out, "Proposal") /\ NoneOf(res.out, "NullifyVote")

LEMMA TellsIs ==
  ASSUME NEW s, s.dummy_sent \in BOOLEAN, NEW res, NEW b
  PROVE  /\ ToSet(res.out) = Announced(s, b) => Tells(s, res, b) /\ NoneOf(res.out, "Vote")
         /\ ToSet(res.out) = {VoteOut(s, b)} \cup Announced(s, b)
              => Tells(s, res, b) /\ Of(res.out, "Vote") = {VoteOut(s, b)}
BY DEF Tells, NoneOf, Of, Announced, VoteOut, Relay

(* Replica r takes b for notarized, in Simplex and in the record.           *)
LEMMA SameNotarized ==
  ASSUME NEW r \in Node, NEW res, NEW b, Becomes(r, res.state), LeftBehind(replica[r], res.state),
         res.state.tip = b, NEW deliveries, Notes(r, res, deliveries), NoProposal(deliveries),
         Tells(replica[r], res, b), replica[r].dummy_sent \in BOOLEAN
  PROVE  /\ Async!Notarized(r, b)
         /\ signed'.proposals = signed.proposals /\ signed'.nullifies = signed.nullifies
         /\ NoneOf(res.out, "Vote") => signed'.votes = signed.votes
         /\ res.transition.kind # "Finalized" => signed'.finalized = signed.finalized
         /\ EachOf("seed")' = [EachOf("seed") EXCEPT ![r] = res.state.seed]
<1> DEFINE s == replica[r]
<1>1. signed'.relays = signed.relays \cup {b}
  BY RecordsRelay DEF Tells
<1>2. signed'.finalizes = IF s.dummy_sent THEN signed.finalizes
                          ELSE signed.finalizes \cup {[signer |-> r, view |-> s.view]}
  <2>1. CASE s.dummy_sent = TRUE
    <3>1. Of(res.out, "FinalizeVote") = {}
      BY <2>1 DEF Tells
    <3>2. NoneOf(res.out, "FinalizeVote")
      BY <3>1 DEF NoneOf, Of
    <3> QED
      BY <2>1, <3>2, RecordsNothing
  <2>2. CASE s.dummy_sent = FALSE
    <3>1. Of(res.out, "FinalizeVote") = {[kind |-> "FinalizeVote", view |-> s.view]}
      BY <2>2 DEF Tells
    <3>2. signed'.finalizes = signed.finalizes \cup {[signer |-> r, view |-> s.view]}
      BY <3>1, RecordsFinal
    <3> QED
      BY <2>2, <3>2
  <2>3. s.dummy_sent = TRUE \/ s.dummy_sent = FALSE
    OBVIOUS
  <2> QED
    BY <2>1, <2>2, <2>3
<1>3. Async!AdvanceView(r)
  BY SameAdvance
<1>4. /\ EachOf("tip")' = [EachOf("tip") EXCEPT ![r] = b]
      /\ EachOf("seed")' = [EachOf("seed") EXCEPT ![r] = res.state.seed]
  BY DEF Becomes, Shared
<1>5. EachOf("dummy_sent")[r] = s.dummy_sent /\ EachOf("view")[r] = s.view
  BY DEF EachOf
<1>6. Async!Notarized(r, b)
  BY <1>1, <1>2, <1>3, <1>4, <1>5 DEF Async!Notarized
<1> QED
  BY <1>4, <1>6, RecordsNothing DEF Tells

(* Quorums of Simplex.                                                      *)
LEMMA SameQuorum == \A S : Async!Quorum(S) <=> Cardinality(S) >= T
<1>1. \A S : Async!Cardinality(S) = Cardinality(S)
  BY DEF Async!Cardinality, Cardinality
<1> QED
  BY <1>1 DEF Async!Quorum

LEMMA LargerQuorum ==
  ASSUME NEW S, NEW U, S \subseteq U, U \subseteq Node, T <= Cardinality(S)
  PROVE  Async!Quorum(U)
<1>1. IsFiniteSet(U) /\ Cardinality(U) \in Nat /\ Cardinality(S) \in Nat /\ T \in Nat
  BY NodeFacts
<1>2. Cardinality(S) <= Cardinality(U)
  BY <1>1, FS_Subset
<1> QED
  BY <1>1, <1>2, SameQuorum

(* What replica r may have in its lists, by the record.                     *)
LEMMA SeenAs ==
  ASSUME behavior = Presets, NEW r \in Node
  PROVE  /\ \A b : Async!VotesSeen(r, b) =
                {q \in Node \ {r} : VoteHeard(q, b)} \cup (IF replica[r].voted_block = b THEN {r} ELSE {})
         /\ Async!NullifiesSeen(r) =
                {q \in Node \ {r} : DummyBy(q, replica[r].view)} \cup (IF replica[r].dummy_sent THEN {r} ELSE {})
         /\ \A h : Async!Finalizers(h) = {q \in Node : FinalBy(q, h)}
<1>1. /\ EachOf("voted_block")[r] = replica[r].voted_block /\ EachOf("view")[r] = replica[r].view
      /\ EachOf("dummy_sent")[r] = replica[r].dummy_sent
  BY DEF EachOf
<1>2. Async!Node = Node /\ \A q, h : Async!Withholds(q, h) <=> Withholds(q, h)
  BY SamePresets
<1>3. \A b : Async!ViewOf(b) = ViewOf(b)
  BY DEF Async!ViewOf, ViewOf, Async!Last, Last
<1>4. ASSUME NEW b
      PROVE  Async!VotesSeen(r, b) =
               {q \in Node \ {r} : VoteHeard(q, b)} \cup (IF replica[r].voted_block = b THEN {r} ELSE {})
  <2>1. Async!Voters(b) = {q \in Node : SignedBy(q, b)}
    BY <1>2 DEF Async!Voters, SignedBy
  <2>2. {q \in Async!Voters(b) \ {r} : ~Async!Withholds(q, Async!ViewOf(b))} = {q \in Node \ {r} : VoteHeard(q, b)}
    BY <1>2, <1>3, <2>1 DEF VoteHeard
  <2> QED
    BY <1>1, <2>2 DEF Async!VotesSeen
<1>5. \A h : Async!Nullifiers(h) = {q \in Node : DummyBy(q, h)}
  BY <1>2 DEF Async!Nullifiers, DummyBy
<1>6. \A h : Async!Finalizers(h) = {q \in Node : FinalBy(q, h)}
  BY <1>2 DEF Async!Finalizers, FinalBy
<1>7. Async!NullifiesSeen(r) =
        {q \in Node \ {r} : DummyBy(q, replica[r].view)} \cup (IF replica[r].dummy_sent THEN {r} ELSE {})
  <2>1. Async!Nullifiers(EachOf("view")[r]) \ {r} = {q \in Node \ {r} : DummyBy(q, replica[r].view)}
    BY <1>1, <1>5
  <2> QED
    BY <1>1, <2>1 DEF Async!NullifiesSeen
<1> QED
  BY <1>4, <1>6, <1>7

(* So a list of the engine is no more than Simplex allows.                  *)
LEMMA ListsSeen ==
  ASSUME behavior = Presets, Lists, NEW r \in Node, NodeState(r, replica[r])
  PROVE  /\ \A b : /\ ToSet(VotesFor(replica[r], b)) \subseteq Async!VotesSeen(r, b)
                   /\ Async!VotesSeen(r, b) \subseteq Node
         /\ ToSet(replica[r].nullify_votes) \subseteq Async!NullifiesSeen(r)
         /\ Async!NullifiesSeen(r) \subseteq Node
         /\ ToSet(replica[r].finalize_votes) \subseteq
              (Async!Finalizers(replica[r].view) \cup Async!Finalizers(replica[r].view - 1)) \ {r}
<1> DEFINE s == replica[r]
<1>1. ASSUME NEW b PROVE ToSet(VotesFor(s, b)) \subseteq Async!VotesSeen(r, b) /\ Async!VotesSeen(r, b) \subseteq Node
  <2>1. Async!VotesSeen(r, b) =
           {q \in Node \ {r} : VoteHeard(q, b)} \cup (IF s.voted_block = b THEN {r} ELSE {})
    BY SeenAs
  <2>2. /\ ToSet(VotesFor(s, b)) \subseteq Node
        /\ r \in ToSet(VotesFor(s, b)) => s.voted_block = b
        /\ \A q \in ToSet(VotesFor(s, b)) : q # r => VoteHeard(q, b)
    BY DEF NodeState, Lists
  <2> HIDE DEF s
  <2> QED
    BY <2>1, <2>2
<1>2. ToSet(s.nullify_votes) \subseteq Async!NullifiesSeen(r) /\ Async!NullifiesSeen(r) \subseteq Node
  <2>1. Async!NullifiesSeen(r) =
           {q \in Node \ {r} : DummyBy(q, s.view)} \cup (IF s.dummy_sent THEN {r} ELSE {})
    BY SeenAs
  <2>2. /\ ToSet(s.nullify_votes) \subseteq Node
        /\ r \in ToSet(s.nullify_votes) => s.dummy_sent = TRUE
        /\ \A q \in ToSet(s.nullify_votes) : DummyBy(q, s.view)
    BY DEF NodeState, Lists
  <2>3. s.dummy_sent = TRUE \/ s.dummy_sent = FALSE
    BY DEF NodeState
  <2> HIDE DEF s
  <2> QED
    BY <2>1, <2>2, <2>3
<1>3. ToSet(s.finalize_votes) \subseteq (Async!Finalizers(s.view) \cup Async!Finalizers(s.view - 1)) \ {r}
  <2>1. /\ ToSet(s.finalize_votes) \subseteq Node \ {r}
        /\ \A q \in ToSet(s.finalize_votes) : FinalBy(q, s.view) \/ FinalBy(q, s.view - 1)
    BY DEF NodeState, Lists
  <2>2. \A h : Async!Finalizers(h) = {q \in Node : FinalBy(q, h)}
    BY SeenAs
  <2> HIDE DEF s
  <2> QED
    BY <2>1, <2>2
<1> QED
  BY <1>1, <1>2, <1>3

(* Replica r, in state s, takes d and becomes what res says.                *)
Takes(d, r, s, res, deliveries) ==
  /\ behavior = Presets /\ oracle = Oracle /\ Capitulators = {}
  /\ d.to = r /\ r \in Node /\ s = replica[r] /\ NodeState(r, s)
  /\ Becomes(r, res.state) /\ Notes(r, res, deliveries)
  /\ signed = [field \in HistoryFields |-> signed[field]]
  /\ Lists /\ OnRecord(d) /\ Deliverable(d, view, phase) /\ view \in 1..Rounds
  /\ Rounds \in Nat

Handlers(r) ==
  \/ Async!HandleProposeRequest(r)
  \/ \E p \in signed.proposals : Async!HandleProposal(r, p.block)
  \/ Async!HandleTimeout(r)
  \/ \E b \in replica[r].known_blocks : Async!HandleVote(r, b)
  \/ Async!HandleNullifyVote(r)
  \/ \E b \in signed.relays : Async!HandleNotarization(r, b)

LEMMA NodeSteps ==
  ASSUME NEW r \in Node, behavior = Presets, replica[r].view <= Rounds, Handlers(r)
  PROVE  Async!Next
<1>1. /\ EachOf("view")[r] <= Rounds /\ EachOf("known_blocks")[r] = replica[r].known_blocks
      /\ r \in Async!Node
  BY SamePresets DEF EachOf
<1>2. r \in {s \in Async!Node : EachOf("view")[s] <= Rounds}
  BY <1>1
<1> QED
  BY <1>1, <1>2 DEF Async!Next, Handlers

(* The last vote for a block a replica has.                                 *)
LEMMA VoteStep ==
  ASSUME NEW d, NEW r, NEW s, NEW res, NEW deliveries, Takes(d, r, s, res, deliveries),
         d.message.kind = "Vote", d.message.view = s.view, NEW b, b = d.message.block,
         d.message.signer \notin ToSet(VotesFor(s, b)), b \in s.known_blocks,
         T <= Len(VotesFor(s, b)) + 1, LeavesWith(s, res, b, NotarySeed(b)), NoProposal(deliveries)
  PROVE  Async!Next
<1>1. PICK q : q = d.message.signer
  OBVIOUS
<1>2. /\ q \in Node \ {r} /\ VoteHeard(q, b) /\ BlockOf(b, view) /\ r \in Node /\ s = replica[r]
      /\ behavior = Presets /\ NodeState(r, s) /\ Lists /\ view \in 1..Rounds /\ s.view = view /\ Rounds \in Nat
  BY <1>1 DEF Takes, Deliverable, OnRecord
<1>3. q \in Async!VotesSeen(r, b) \ {r}
  BY <1>2, SeenAs
<1>4. Async!Quorum(Async!VotesSeen(r, b))
  <2>1. PICK v : v = VotesFor(s, b)
    OBVIOUS
  <2>2. Listed(v) /\ ToSet(v) \subseteq Node /\ q \notin ToSet(v) /\ T <= Len(v) + 1
    BY <1>1, <1>2, <2>1 DEF NodeState
  <2>3. T <= Cardinality(ToSet(v) \cup {q})
    BY <1>2, <2>2, Quorate
  <2>4. ToSet(v) \subseteq Async!VotesSeen(r, b) /\ Async!VotesSeen(r, b) \subseteq Node
    BY <1>2, <2>1, ListsSeen
  <2> QED
    BY <1>3, <2>3, <2>4, LargerQuorum
<1>5. Tells(s, res, b) /\ NoneOf(res.out, "Vote") /\ s.dummy_sent \in BOOLEAN
  <2>1. s.dummy_sent \in BOOLEAN
    BY <1>2 DEF NodeState
  <2>2. ToSet(res.out) = Announced(s, b)
    BY DEF LeavesWith
  <2> QED
    BY <2>1, <2>2, TellsIs
<1>6. /\ Async!Notarized(r, b) /\ signed'.proposals = signed.proposals /\ signed'.nullifies = signed.nullifies
      /\ signed'.votes = signed.votes /\ signed'.finalized = signed.finalized
      /\ EachOf("seed")' = [EachOf("seed") EXCEPT ![r] = NotarySeed(b)]
  BY <1>2, <1>5, SameNotarized DEF Takes, LeavesWith
<1>7. NotarySeed(b) = Async!NotarySeed(b)
  BY DEF NotarySeed, Async!NotarySeed, ViewOf, Async!ViewOf, Last, Async!Last
<1>8. b \in EachOf("known_blocks")[r]
  BY <1>2 DEF EachOf
<1>9. Async!HandleVote(r, b)
  BY <1>3, <1>4, <1>6, <1>7, <1>8 DEF Async!HandleVote
<1> QED
  BY <1>2, <1>9, NodeSteps DEF Handlers

(* A relay.                                                                 *)
LEMMA RelayStep ==
  ASSUME NEW d, NEW r, NEW s, NEW res, NEW deliveries, Takes(d, r, s, res, deliveries),
         d.message.kind = "Notarization", d.message.view = s.view, NEW b, b = d.message.block,
         LeavesWith(s, res, b, s.seed), NoProposal(deliveries)
  PROVE  Async!Next
<1>1. /\ b \in signed.relays /\ BlockOf(b, view) /\ r \in Node /\ s = replica[r] /\ s.view = view
      /\ behavior = Presets /\ NodeState(r, s) /\ view \in 1..Rounds /\ Rounds \in Nat
  BY DEF Takes, Deliverable, OnRecord
<1>2. Tells(s, res, b) /\ NoneOf(res.out, "Vote") /\ s.dummy_sent \in BOOLEAN
  <2>1. s.dummy_sent \in BOOLEAN
    BY <1>1 DEF NodeState
  <2>2. ToSet(res.out) = Announced(s, b)
    BY DEF LeavesWith
  <2> QED
    BY <2>1, <2>2, TellsIs
<1>3. /\ Async!Notarized(r, b) /\ signed'.proposals = signed.proposals /\ signed'.nullifies = signed.nullifies
      /\ signed'.votes = signed.votes /\ signed'.finalized = signed.finalized
  BY <1>1, <1>2, SameNotarized DEF Takes, LeavesWith
<1>4. EachOf("seed")' = EachOf("seed")
  BY <1>1, SameField DEF Takes, LeavesWith, Shared
<1>5. Async!ViewOf(b) = EachOf("view")[r]
  BY <1>1 DEF Async!ViewOf, ViewOf, Async!Last, Last, EachOf, BlockOf
<1>6. Async!HandleNotarization(r, b)
  BY <1>3, <1>4, <1>5 DEF Async!HandleNotarization
<1> QED
  BY <1>1, <1>6, NodeSteps DEF Handlers

(* The dummy vote that makes the quorum.                                    *)
LEMMA DummyStep ==
  ASSUME NEW d, NEW r, NEW s, NEW res, NEW deliveries, Takes(d, r, s, res, deliveries),
         d.message.kind = "NullifyVote", d.message.view = s.view,
         d.message.signer \notin ToSet(s.nullify_votes), T <= Len(s.nullify_votes) + 1, GivesUp(s, res),
         NoProposal(deliveries)
  PROVE  Async!Next
<1>1. PICK q : q = d.message.signer
  OBVIOUS
<1>2. /\ q \in Node \ {r} /\ DummyBy(q, s.view) /\ r \in Node /\ s = replica[r] /\ s.view = view
      /\ behavior = Presets /\ NodeState(r, s) /\ Lists /\ view \in 1..Rounds /\ Rounds \in Nat
  BY <1>1 DEF Takes, Deliverable, OnRecord
<1>3. q \in Async!NullifiesSeen(r) \ {r}
  BY <1>2, SeenAs
<1>4. Async!Quorum(Async!NullifiesSeen(r))
  <2>1. PICK v : v = s.nullify_votes
    OBVIOUS
  <2>2. Listed(v) /\ ToSet(v) \subseteq Node /\ q \notin ToSet(v) /\ T <= Len(v) + 1
    BY <1>1, <1>2, <2>1 DEF NodeState
  <2>3. T <= Cardinality(ToSet(v) \cup {q})
    BY <1>2, <2>2, Quorate
  <2>4. ToSet(v) \subseteq Async!NullifiesSeen(r) /\ Async!NullifiesSeen(r) \subseteq Node
    BY <1>2, <2>1, ListsSeen
  <2> QED
    BY <1>3, <2>3, <2>4, LargerQuorum
<1>5. signed' = signed
  BY RecordKept DEF Takes, GivesUp
<1>6. Async!AdvanceView(r)
  BY <1>2, SameAdvance DEF Takes, GivesUp
<1>7. EachOf("seed")' = [EachOf("seed") EXCEPT ![r] = Async!DummySeed(EachOf("view")[r])]
  BY <1>2 DEF Takes, GivesUp, Becomes, Shared, DummySeed, Async!DummySeed, EachOf, Genesis, Async!Genesis
<1>8. EachOf("tip")' = EachOf("tip")
  BY <1>2, SameField DEF Takes, GivesUp, Shared
<1>9. Async!HandleNullifyVote(r)
  BY <1>3, <1>4, <1>5, <1>6, <1>7, <1>8 DEF Async!HandleNullifyVote, Async!Nullified, Async!networkVars
<1> QED
  BY <1>2, <1>9, NodeSteps DEF Handlers

(* A finalize vote that makes the list T long.                              *)
LEMMA FinalStep ==
  ASSUME NEW d, NEW r, NEW s, NEW res, NEW deliveries, Takes(d, r, s, res, deliveries),
         d.message.kind = "FinalizeVote", NEW h, h = d.message.view, h \in {s.view, s.view - 1},
         d.message.signer \notin ToSet(s.finalize_votes), CountsFinal(s, res, h, d.message.signer),
         res.transition.kind = "Finalized", NoProposal(deliveries)
  PROVE  Async!Next
<1>1. PICK q : q = d.message.signer
  OBVIOUS
<1>2. /\ q \in Node \ {r} /\ FinalBy(q, h) /\ r \in Node /\ s = replica[r] /\ h = view
      /\ behavior = Presets /\ NodeState(r, s) /\ Lists /\ view \in 1..Rounds /\ Rounds \in Nat
  BY <1>1 DEF Takes, Deliverable, OnRecord
<1>3. /\ res.transition = [kind |-> "Finalized", view |-> h] /\ res.out = <<>>
      /\ T <= Len(Append(s.finalize_votes, q)) /\ \A f \in Shared : res.state[f] = s[f]
  BY <1>1 DEF CountsFinal, Kept, Shared, Fields
<1>4. EachOf("view")[r] = s.view
  BY <1>2 DEF EachOf
<1>5. \A i : Async!Finalizers(i) = {x \in Node : FinalBy(x, i)}
  BY <1>2, SeenAs
<1>6. q \in Async!Finalizers(h) \ {r}
  BY <1>2, <1>5
<1>7. PICK U : U = (Async!Finalizers(s.view) \cup Async!Finalizers(s.view - 1)) \ {r}
  OBVIOUS
<1>8. Async!Quorum(U)
  <2>1. PICK v : v = s.finalize_votes
    OBVIOUS
  <2>2. Listed(v) /\ ToSet(v) \subseteq Node /\ q \notin ToSet(v)
    BY <1>1, <1>2, <2>1 DEF NodeState
  <2>3. T <= Len(v) + 1
    BY <1>3, <2>1, <2>2, ListLength
  <2>4. T <= Cardinality(ToSet(v) \cup {q})
    BY <1>2, <2>2, <2>3, Quorate
  <2>5. ToSet(v) \subseteq U
    BY <1>2, <1>7, <2>1, ListsSeen
  <2>6. q \in U /\ U \subseteq Node
    BY <1>2, <1>5, <1>7
  <2> QED
    BY <2>4, <2>5, <2>6, LargerQuorum
<1>9. /\ signed'.proposals = signed.proposals /\ signed'.votes = signed.votes
      /\ signed'.nullifies = signed.nullifies /\ signed'.finalizes = signed.finalizes
      /\ signed'.relays = signed.relays
  <2>1. \A kind : NoneOf(res.out, kind)
    BY <1>3 DEF NoneOf, ToSet
  <2> QED
    BY <2>1, RecordsNothing DEF Takes
<1>10. signed'.finalized = signed.finalized \cup {h}
  BY <1>3 DEF Takes, Notes
<1>11. \A f \in Shared : EachOf(f)' = EachOf(f)
  BY <1>2, <1>3, SameField DEF Takes
<1>12. Async!HandleFinalizeVote(r, h)
  BY <1>4, <1>6, <1>7, <1>8, <1>9, <1>10, <1>11
     DEF Async!HandleFinalizeVote, Async!replicaVars, Async!networkVars, Shared
<1>13. r \in Async!Node /\ h \in Async!View
  BY <1>2, SamePresets DEF Async!View
<1> QED
  BY <1>12, <1>13 DEF Async!Next

(* Nobody's dummy vote for the view is on record before the timer fires: there is
   room for one more.                                                       *)
LEMMA RoomForDummy ==
  ASSUME signed.nullifies \subseteq [signer : Node, view : 1..Rounds], Rounds \in Nat,
         NEW r \in Node, NEW h \in 1..Rounds, ~DummyBy(r, h)
  PROVE  Async!Cardinality(signed.nullifies) < N * Rounds
<1>1. PICK D : D = [signer : Node, view : 1..Rounds]
  OBVIOUS
<1>2. PICK P : P = Node \X (1..Rounds)
  OBVIOUS
<1>3. IsFiniteSet(P) /\ Cardinality(P) = N * Rounds
  <2>1. IsFiniteSet(Node) /\ Cardinality(Node) = N /\ N \in Nat
    BY NodeFacts
  <2>2. IsFiniteSet(1..Rounds) /\ Cardinality(1..Rounds) = Rounds
    BY FS_Interval
  <2> QED
    BY <1>2, <2>1, <2>2, FS_Product
<1>4. IsFiniteSet(D) /\ Cardinality(D) = N * Rounds
  <2>1. PICK f : f = [p \in P |-> [signer |-> p[1], view |-> p[2]]]
    OBVIOUS
  <2>2. f \in Bijection(P, D)
    <3>1. f \in [P -> D]
      BY <1>1, <1>2, <2>1
    <3>2. \A p, q \in P : f[p] = f[q] => p = q
      BY <1>2, <2>1
    <3>3. \A y \in D : \E p \in P : f[p] = y
      <4> SUFFICES ASSUME NEW y \in D PROVE \E p \in P : f[p] = y
        OBVIOUS
      <4>1. <<y.signer, y.view>> \in P /\ y = [signer |-> y.signer, view |-> y.view]
        BY <1>1, <1>2
      <4>2. f[<<y.signer, y.view>>] = y
        BY <2>1, <4>1
      <4> QED
        BY <4>1, <4>2
    <3> QED
      BY <3>1, <3>2, <3>3 DEF Bijection, Injection, Surjection, IsInjective
  <2> QED
    BY <1>3, <2>2, FS_Bijection DEF ExistsBijection
<1>5. signed.nullifies \subseteq D /\ [signer |-> r, view |-> h] \in D /\ [signer |-> r, view |-> h] \notin signed.nullifies
  BY <1>1 DEF DummyBy
<1>6. Cardinality(signed.nullifies) < Cardinality(D)
  <2>1. PICK S : S = signed.nullifies
    OBVIOUS
  <2>2. S \subseteq D /\ S # D
    BY <1>5, <2>1
  <2>3. IsFiniteSet(S) /\ Cardinality(S) <= Cardinality(D) /\ (Cardinality(D) = Cardinality(S) => D = S)
    BY <1>4, <2>2, FS_Subset
  <2>4. Cardinality(S) \in Nat /\ Cardinality(D) \in Nat
    BY <1>4, <2>3, FS_CardinalityType
  <2> QED
    BY <2>1, <2>2, <2>3, <2>4
<1>7. Async!Cardinality(signed.nullifies) = Cardinality(signed.nullifies)
  BY DEF Async!Cardinality, Cardinality
<1> QED
  BY <1>4, <1>6, <1>7

(* The timer.                                                               *)
LEMMA TimeoutStep ==
  ASSUME NEW d, NEW r, NEW s, NEW res, NEW deliveries, Takes(d, r, s, res, deliveries),
         d.message.kind = "Timeout", d.message.view = s.view, s.dummy_sent = FALSE,
         TimesOut(s, res, r) \/ TimesOutLast(s, res), NoProposal(deliveries), Timers,
         signed.nullifies \subseteq [signer : Node, view : 1..Rounds]
  PROVE  Async!Next
<1>1. /\ r \in Node /\ s = replica[r] /\ s.view = view
      /\ behavior = Presets /\ NodeState(r, s) /\ Lists /\ view \in 1..Rounds /\ Rounds \in Nat
  BY DEF Takes, Deliverable
<1>2. EachOf("view")[r] = s.view /\ EachOf("dummy_sent")[r] = FALSE
  BY <1>1 DEF EachOf
<1>3. Async!Cardinality(signed.nullifies) < N * Rounds
  <2>1. ~DummyBy(r, view)
    BY <1>1 DEF Timers
  <2> QED
    BY <1>1, <2>1, RoomForDummy
<1>4. res.out = <<[kind |-> "NullifyVote", view |-> s.view]>> /\ res.transition.kind # "Finalized"
  BY DEF TimesOut, TimesOutLast
<1>5. ToSet(res.out) = {[kind |-> "NullifyVote", view |-> s.view]}
  BY <1>4, PairIs
<1>6. /\ signed'.proposals = signed.proposals /\ signed'.votes = signed.votes
      /\ signed'.finalizes = signed.finalizes /\ signed'.relays = signed.relays
      /\ signed'.finalized = signed.finalized
  <2>1. NoneOf(res.out, "Vote") /\ NoneOf(res.out, "FinalizeVote") /\ NoneOf(res.out, "RelayNotarization")
    BY <1>5 DEF NoneOf
  <2> QED
    BY <1>4, <2>1, RecordsNothing DEF Takes
<1>7. signed'.nullifies = signed.nullifies \cup {[signer |-> r, view |-> s.view]}
  <2>1. Of(res.out, "NullifyVote") = {[kind |-> "NullifyVote", view |-> s.view]}
    BY <1>5 DEF Of
  <2>2. Notes(r, res, deliveries)
    BY DEF Takes
  <2> QED
    BY <2>1, <2>2, RecordsDummy
<1>8. EachOf("tip")' = EachOf("tip")
  BY <1>1, SameField DEF Takes, TimesOut, TimesOutLast, Kept, Shared, Fields
<1>9. CASE TimesOut(s, res, r)
  <2>1. /\ \A f \in Shared \ {"dummy_sent"} : res.state[f] = s[f]
        /\ res.state.dummy_sent = TRUE
    BY <1>9 DEF TimesOut, Kept, Shared, Fields
  <2>2. /\ \A f \in Shared \ {"dummy_sent"} : EachOf(f)' = EachOf(f)
        /\ EachOf("dummy_sent")' = [EachOf("dummy_sent") EXCEPT ![r] = TRUE]
    BY <1>1, <2>1, SameField DEF Takes, Becomes, Shared
  <2>3. Async!HandleTimeout(r)
    BY <1>2, <1>3, <1>6, <1>7, <1>8, <2>2 DEF Async!HandleTimeout, Shared
  <2> QED
    BY <1>1, <2>3, NodeSteps DEF Handlers
<1>10. CASE TimesOutLast(s, res)
  <2>1. Async!Quorum(Async!NullifiesSeen(r) \cup {r})
    <3>1. PICK v : v = s.nullify_votes
      OBVIOUS
    <3>2. Listed(v) /\ ToSet(v) \subseteq Node /\ r \notin ToSet(v) /\ T <= Len(v) + 1
      BY <1>1, <1>10, <3>1 DEF NodeState, TimesOutLast
    <3>3. T <= Cardinality(ToSet(v) \cup {r})
      BY <1>1, <3>2, Quorate
    <3>4. ToSet(v) \subseteq Async!NullifiesSeen(r) /\ Async!NullifiesSeen(r) \subseteq Node
      BY <1>1, <3>1, ListsSeen
    <3> QED
      BY <1>1, <3>3, <3>4, LargerQuorum
  <2>2. Async!AdvanceView(r)
    BY <1>1, <1>10, SameAdvance DEF Takes, TimesOutLast
  <2>3. EachOf("seed")' = [EachOf("seed") EXCEPT ![r] = Async!DummySeed(EachOf("view")[r])]
    BY <1>2, <1>10 DEF Takes, TimesOutLast, Becomes, Shared, DummySeed, Async!DummySeed, Genesis, Async!Genesis
  <2>4. Async!HandleTimeout(r)
    BY <1>2, <1>3, <1>6, <1>7, <1>8, <2>1, <2>2, <2>3 DEF Async!HandleTimeout, Async!Nullified
  <2> QED
    BY <1>1, <2>4, NodeSteps DEF Handlers
<1> QED
  BY <1>9, <1>10

(* A proposal: refused, voted for, or voted for with the last vote.         *)
LEMMA SameFits ==
  ASSUME NEW r \in Node, oracle = Oracle, NEW b
  PROVE  Async!Acceptable(r, b) <=> Fits(replica[r], LeaderFor(r), b)
<1>1. /\ EachOf("seed")[r] = replica[r].seed /\ EachOf("voted_block")[r] = replica[r].voted_block
      /\ EachOf("tip")[r] = replica[r].tip
  BY DEF EachOf
<1>2. Async!LeaderFor(r) = LeaderFor(r)
  BY <1>1 DEF Async!LeaderFor, LeaderFor
<1>3. Async!Proposer(b) = Last(b).proposer /\ Async!Parent(b) = Parent(b) /\ Async!Genesis = Genesis
  BY DEF Async!Proposer, Async!Last, Last, Async!Parent, Parent, Async!Front, Front, Async!Genesis, Genesis
<1> QED
  BY <1>1, <1>2, <1>3 DEF Async!Acceptable, Fits

LEMMA RefuseStep ==
  ASSUME NEW d, NEW r, NEW s, NEW res, NEW deliveries, Takes(d, r, s, res, deliveries),
         d.message.kind = "Proposal", NEW b, b = d.message.block, ViewOf(b) = s.view,
         ~Fits(s, LeaderFor(r), b), Refuses(s, res, b), NoProposal(deliveries)
  PROVE  Async!Next
<1>1. /\ r \in Node /\ s = replica[r] /\ BlockOf(b, view) /\ s.view = view /\ oracle = Oracle
      /\ behavior = Presets /\ view \in 1..Rounds /\ Rounds \in Nat /\ [to |-> r, block |-> b] \in signed.proposals
  BY DEF Takes, Deliverable, OnRecord, BlockOf
<1>2. ~Async!Acceptable(r, b) /\ Async!ViewOf(b) = EachOf("view")[r]
  BY <1>1, SameFits DEF Async!ViewOf, ViewOf, Async!Last, Last, EachOf
<1>3. signed' = signed
  BY RecordKept DEF Takes, Refuses
<1>4. /\ \A f \in Shared \ {"known_blocks"} : EachOf(f)' = EachOf(f)
      /\ EachOf("known_blocks")' = [EachOf("known_blocks") EXCEPT ![r] = res.state.known_blocks]
  <2>1. \A f \in Shared \ {"known_blocks"} : res.state[f] = s[f]
    BY DEF Refuses, Kept, Shared, Fields
  <2> QED
    BY <1>1, <2>1, SameField DEF Takes, Becomes, Shared
<1>5. res.state.known_blocks = EachOf("known_blocks")[r] \cup {b}
  BY <1>1 DEF Refuses, EachOf
<1>6. Async!StoreRejected(r, b)
  BY <1>2, <1>3, <1>4, <1>5 DEF Async!StoreRejected, Async!networkVars, Shared
<1>7. Async!HandleProposal(r, b)
  BY <1>1, <1>2, <1>6 DEF Async!HandleProposal
<1> QED
  BY <1>1, <1>7, NodeSteps DEF Handlers

LEMMA VoteForStep ==
  ASSUME NEW d, NEW r, NEW s, NEW res, NEW deliveries, Takes(d, r, s, res, deliveries),
         d.message.kind = "Proposal", NEW b, b = d.message.block, ViewOf(b) = s.view,
         Fits(s, LeaderFor(r), b), VotesAndStays(s, res, b, r) \/ VotesAndLeaves(s, res, b),
         NoProposal(deliveries)
  PROVE  Async!Next
<1>1. /\ r \in Node /\ s = replica[r] /\ BlockOf(b, view) /\ s.view = view /\ oracle = Oracle
      /\ behavior = Presets /\ view \in 1..Rounds /\ Rounds \in Nat /\ [to |-> r, block |-> b] \in signed.proposals
      /\ NodeState(r, s) /\ Lists /\ Capitulators = {}
  BY DEF Takes, Deliverable, OnRecord, BlockOf
<1>2. Async!Acceptable(r, b) /\ Async!ViewOf(b) = EachOf("view")[r]
  BY <1>1, SameFits DEF Async!ViewOf, ViewOf, Async!Last, Last, EachOf
<1>3. \A hashes : Async!SignVotes(r, b, hashes) = {[signer |-> r, block |-> b]}
  BY <1>1, SameVotesSigned
<1>4. CASE VotesAndStays(s, res, b, r)
  <2>1. ToSet(res.out) = {VoteOut(s, b)} /\ res.transition.kind # "Finalized"
    BY <1>4 DEF VotesAndStays
  <2>2. /\ Of(res.out, "Vote") = {[kind |-> "Vote", view |-> s.view, block |-> b]}
        /\ \A kind : kind # "Vote" => NoneOf(res.out, kind)
    BY <2>1 DEF Of, NoneOf, VoteOut
  <2>3. signed'.votes = signed.votes \cup {[signer |-> r, block |-> b]}
    BY <2>2, RecordsVote DEF Takes
  <2>4. /\ signed'.proposals = signed.proposals /\ signed'.nullifies = signed.nullifies
        /\ signed'.finalizes = signed.finalizes /\ signed'.relays = signed.relays
        /\ signed'.finalized = signed.finalized
    BY <2>1, <2>2, RecordsNothing DEF Takes
  <2>5. /\ \A f \in Shared \ {"known_blocks", "voted_block"} : res.state[f] = s[f]
        /\ res.state.voted_block = b /\ res.state.known_blocks = EachOf("known_blocks")[r] \cup {b}
    BY <1>1, <1>4 DEF VotesAndStays, Ballot, BallotFields, Kept, Shared, Fields, EachOf
  <2>6. /\ \A f \in Shared \ {"known_blocks", "voted_block"} : EachOf(f)' = EachOf(f)
        /\ EachOf("known_blocks")' = [EachOf("known_blocks") EXCEPT ![r] = @ \cup {b}]
        /\ EachOf("voted_block")' = [EachOf("voted_block") EXCEPT ![r] = b]
    BY <1>1, <2>5, SameField DEF Takes, Becomes, Shared
  <2>7. Async!VoteFor(r, b)
    BY <1>2, <1>3, <2>3, <2>4, <2>6 DEF Async!VoteFor, Shared
  <2>8. Async!HandleProposal(r, b)
    BY <1>1, <1>2, <2>7 DEF Async!HandleProposal
  <2> QED
    BY <1>1, <2>8, NodeSteps DEF Handlers
<1>5. CASE VotesAndLeaves(s, res, b)
  <2>1. /\ ToSet(res.out) = {VoteOut(s, b)} \cup Announced(s, b) /\ res.transition.kind # "Finalized"
        /\ res.state.seed = NotarySeed(b) /\ res.state.tip = b /\ LeftBehind(s, res.state)
    BY <1>5 DEF VotesAndLeaves
  <2>2. s.dummy_sent \in BOOLEAN
    BY <1>1 DEF NodeState
  <2>3. Tells(s, res, b) /\ Of(res.out, "Vote") = {VoteOut(s, b)}
    <3>1. ToSet(res.out) = {VoteOut(s, b)} \cup Announced(s, b) => Tells(s, res, b) /\ Of(res.out, "Vote") = {VoteOut(s, b)}
      BY <2>2, TellsIs
    <3> QED
      BY <2>1, <3>1
  <2>4. /\ Async!Notarized(r, b) /\ signed'.proposals = signed.proposals /\ signed'.nullifies = signed.nullifies
        /\ signed'.finalized = signed.finalized
        /\ EachOf("seed")' = [EachOf("seed") EXCEPT ![r] = NotarySeed(b)]
    BY <1>1, <2>1, <2>2, <2>3, SameNotarized DEF Takes
  <2>5. signed'.votes = signed.votes \cup {[signer |-> r, block |-> b]}
    <3>1. Of(res.out, "Vote") = {[kind |-> "Vote", view |-> s.view, block |-> b]}
      BY <2>3 DEF VoteOut
    <3>2. Notes(r, res, deliveries)
      BY DEF Takes
    <3> QED
      BY <3>1, <3>2, RecordsVote
  <2>6. Async!Quorum(Async!VotesSeen(r, b) \cup {r})
    <3>1. PICK v : v = VotesFor(s, b)
      OBVIOUS
    <3>2. Listed(v) /\ ToSet(v) \subseteq Node /\ r \notin ToSet(v)
      BY <1>1, <3>1 DEF NodeState, Fits
    <3>3. T <= Len(v) + 1
      BY <1>5, <3>1 DEF VotesAndLeaves
    <3>4. T <= Cardinality(ToSet(v) \cup {r})
      BY <1>1, <3>2, <3>3, Quorate
    <3>5. ToSet(v) \subseteq Async!VotesSeen(r, b) /\ Async!VotesSeen(r, b) \subseteq Node
      BY <1>1, <3>1, ListsSeen
    <3> QED
      BY <1>1, <3>4, <3>5, LargerQuorum
  <2>7. NotarySeed(b) = Async!NotarySeed(b)
    BY DEF NotarySeed, Async!NotarySeed, ViewOf, Async!ViewOf, Last, Async!Last
  <2>8. Async!VoteFor(r, b)
    BY <1>2, <1>3, <2>4, <2>5, <2>6, <2>7 DEF Async!VoteFor
  <2>9. Async!HandleProposal(r, b)
    BY <1>1, <1>2, <2>8 DEF Async!HandleProposal
  <2> QED
    BY <1>1, <2>9, NodeSteps DEF Handlers
<1> QED
  BY <1>4, <1>5

(* A leader's proposal, as the record has it: the copies that leave.        *)
LEMMA ProposalsRecorded ==
  ASSUME NEW r \in Node, NEW b, NEW h, NEW outs, Sequence(outs), h = view,
         ToSet(outs) = {[kind |-> "Proposal", block |-> b], [kind |-> "Vote", view |-> h, block |-> b]}
  PROVE  {[to |-> e.to, block |-> e.message.block] :
            e \in {x \in ToSet(Filtered(outs, r)) : x.message.kind = "Proposal"}} = FilterProposal(r, view, b)
<1>1. PICK copies : copies = ToSet(Filtered(outs, r))
  OBVIOUS
<1>2. PICK p, v : p = [kind |-> "Proposal", block |-> b] /\ v = [kind |-> "Vote", view |-> h, block |-> b]
  OBVIOUS
<1>3. copies = Leaving(p, r) \cup Leaving(v, r)
  <2>1. copies = UNION {Leaving(out, r) : out \in ToSet(outs)}
    BY <1>1, FilteredIs
  <2>2. ToSet(outs) = {p, v}
    BY <1>2
  <2> QED
    BY <2>1, <2>2
<1>4. Leaving(p, r) = {[to |-> c.to, message |-> [kind |-> "Proposal", block |-> c.block]] :
                         c \in FilterProposal(r, view, b)}
  BY <1>2 DEF Leaving
<1>5. \A e \in Leaving(v, r) : e.message.kind = "Vote"
  <2>1. v.kind = "Vote" /\ AsMessage(v, r).kind = "Vote"
    BY <1>2 DEF AsMessage
  <2> QED
    BY <2>1 DEF Leaving
<1>6. {x \in copies : x.message.kind = "Proposal"} = Leaving(p, r)
  <2>1. \A e \in Leaving(p, r) : e.message.kind = "Proposal"
    BY <1>4
  <2> QED
    BY <1>3, <1>5, <2>1
<1>7. PICK C : C = FilterProposal(r, view, b)
  OBVIOUS
<1>8. \A c \in C : c = [to |-> c.to, block |-> c.block]
  BY <1>7 DEF FilterProposal
<1>9. {[to |-> e.to, block |-> e.message.block] : e \in Leaving(p, r)} = C
  <2>1. ASSUME NEW e \in Leaving(p, r) PROVE [to |-> e.to, block |-> e.message.block] \in C
    <3>1. PICK c \in C : e = [to |-> c.to, message |-> [kind |-> "Proposal", block |-> c.block]]
      BY <1>4, <1>7, <2>1
    <3> QED
      BY <1>8, <3>1
  <2>2. ASSUME NEW c \in C PROVE \E e \in Leaving(p, r) : c = [to |-> e.to, block |-> e.message.block]
    <3>1. PICK e : e = [to |-> c.to, message |-> [kind |-> "Proposal", block |-> c.block]]
      OBVIOUS
    <3>2. e \in Leaving(p, r)
      BY <1>4, <1>7, <3>1
    <3>3. c = [to |-> e.to, block |-> e.message.block]
      BY <1>8, <3>1
    <3> QED
      BY <3>2, <3>3
  <2> QED
    BY <2>1, <2>2
<1> QED
  BY <1>1, <1>6, <1>7, <1>9

LEMMA ProposeStep ==
  ASSUME NEW d, NEW r, NEW s, NEW res, Takes(d, r, s, res, Filtered(res.out, r)),
         d.message.kind = "ProposeRequest", d.message.view = s.view, LeaderFor(r) = r,
         s.voted_block = Genesis, Proposes(s, res, r, NextBlock(s, r, d.message.payload))
  PROVE  Async!Next
<1>1. PICK b : b = NextBlock(s, r, "block")
  OBVIOUS
<1>2. /\ r \in Node /\ s = replica[r] /\ s.view = view /\ oracle = Oracle /\ d.message.payload = "block"
      /\ behavior = Presets /\ view \in 1..Rounds /\ Rounds \in Nat /\ Capitulators = {}
  BY DEF Takes, Deliverable
<1>3. Proposes(s, res, r, b)
  BY <1>1, <1>2
<1>4. /\ EachOf("view")[r] = s.view /\ EachOf("tip")[r] = s.tip /\ EachOf("seed")[r] = s.seed
      /\ EachOf("voted_block")[r] = Genesis /\ EachOf("known_blocks")[r] = s.known_blocks
  BY <1>2 DEF EachOf
<1>5. Async!LeaderFor(r) = r /\ Async!Genesis = Genesis
  BY <1>2, <1>4 DEF Async!LeaderFor, LeaderFor, Async!Genesis, Genesis
<1>6. b = Append(EachOf("tip")[r], [view |-> EachOf("view")[r], payload |-> "block", proposer |-> r])
  BY <1>1, <1>4 DEF NextBlock
<1>7. ToSet(res.out) = {[kind |-> "Proposal", block |-> b], [kind |-> "Vote", view |-> s.view, block |-> b]}
  BY <1>3 DEF Proposes, VoteOut
<1>8. signed'.proposals = signed.proposals \cup Async!FilterProposal(r, EachOf("view")[r], b)
  <2>1. Sequence(res.out)
    BY <1>3 DEF Proposes
  <2>2. {[to |-> e.to, block |-> e.message.block] :
           e \in {x \in ToSet(Filtered(res.out, r)) : x.message.kind = "Proposal"}} = FilterProposal(r, view, b)
    BY <1>2, <1>7, <2>1, ProposalsRecorded
  <2>3. Async!FilterProposal(r, EachOf("view")[r], b) = FilterProposal(r, view, b)
    BY <1>2, <1>4, SamePresets
  <2> QED
    BY <2>2, <2>3 DEF Takes, Notes
<1>9. signed'.votes = signed.votes \cup {[signer |-> r, block |-> b]}
  <2>1. Of(res.out, "Vote") = {[kind |-> "Vote", view |-> s.view, block |-> b]}
    BY <1>7 DEF Of
  <2>2. Notes(r, res, Filtered(res.out, r))
    BY DEF Takes
  <2> QED
    BY <2>1, <2>2, RecordsVote
<1>10. \A hashes : Async!SignVotes(r, b, hashes) = {[signer |-> r, block |-> b]}
  BY <1>2, SameVotesSigned
<1>11. /\ signed'.nullifies = signed.nullifies /\ signed'.finalizes = signed.finalizes
       /\ signed'.relays = signed.relays /\ signed'.finalized = signed.finalized
  <2>1. NoneOf(res.out, "NullifyVote") /\ NoneOf(res.out, "FinalizeVote") /\ NoneOf(res.out, "RelayNotarization")
    BY <1>7 DEF NoneOf
  <2>2. res.transition.kind # "Finalized"
    BY <1>3 DEF Proposes
  <2> QED
    BY <2>1, <2>2, RecordsNothing DEF Takes
<1>12. /\ \A f \in Shared \ {"known_blocks", "voted_block"} : res.state[f] = s[f]
       /\ res.state.voted_block = b /\ res.state.known_blocks = EachOf("known_blocks")[r] \cup {b}
  BY <1>3, <1>4 DEF Proposes, Ballot, BallotFields, Kept, Shared, Fields
<1>13. /\ \A f \in Shared \ {"known_blocks", "voted_block"} : EachOf(f)' = EachOf(f)
       /\ EachOf("known_blocks")' = [EachOf("known_blocks") EXCEPT ![r] = @ \cup {b}]
       /\ EachOf("voted_block")' = [EachOf("voted_block") EXCEPT ![r] = b]
  BY <1>2, <1>12, SameField DEF Takes, Becomes, Shared
<1>14. Async!HandleProposeRequest(r)
  BY <1>4, <1>5, <1>6, <1>8, <1>9, <1>10, <1>11, <1>13 DEF Async!HandleProposeRequest, Shared
<1> QED
  BY <1>2, <1>14, NodeSteps DEF Handlers

(* Whatever a replica takes, and whatever it makes of it, is a step of Simplex, or
   one that Simplex does not see.                                           *)
LEMMA TakesStep ==
  ASSUME NEW d, NEW r, NEW s, NEW res, NEW deliveries, Takes(d, r, s, res, deliveries),
         Handled(r, d.message, s, res, LeaderFor(r)), Timers,
         signed.nullifies \subseteq [signer : Node, view : 1..Rounds],
         d.message.kind = "ProposeRequest" =>
           (d.message.view = s.view => s.voted_block = Genesis) /\ deliveries = Filtered(res.out, r),
         d.message.kind # "ProposeRequest" => NoProposal(deliveries),
         res.out = <<>> => NoProposal(deliveries)
  PROVE  Async!Next \/ UNCHANGED Async!vars
<1> DEFINE m == d.message
<1>1. /\ r \in Node /\ s = replica[r] /\ Becomes(r, res.state) /\ Notes(r, res, deliveries)
      /\ signed = [field \in HistoryFields |-> signed[field]]
  BY DEF Takes
<1>2. ASSUME res.out = <<>>, res.transition.kind # "Finalized", \A f \in Shared : res.state[f] = s[f]
      PROVE  UNCHANGED Async!vars
  <2>1. signed' = signed
    BY <1>1, <1>2, RecordKept
  <2> QED
    BY <1>1, <1>2, <2>1, HiddenStep
<1>3. CASE Quiet(s, res)
  BY <1>2, <1>3 DEF Quiet
<1>4. CASE m.kind = "ProposeRequest" /\ m.view = s.view /\ LeaderFor(r) = r
           /\ Proposes(s, res, r, NextBlock(s, r, m.payload))
  BY <1>4, ProposeStep
<1>5. CASE /\ m.kind = "Proposal" /\ ViewOf(m.block) = s.view
           /\ \/ ~Fits(s, LeaderFor(r), m.block) /\ Refuses(s, res, m.block)
              \/ Fits(s, LeaderFor(r), m.block) /\ VotesAndStays(s, res, m.block, r)
              \/ Fits(s, LeaderFor(r), m.block) /\ VotesAndLeaves(s, res, m.block)
  <2>1. PICK b : b = m.block
    OBVIOUS
  <2>2. m.kind = "Proposal" /\ b = d.message.block /\ ViewOf(b) = s.view /\ NoProposal(deliveries)
    BY <1>5, <2>1
  <2>3. CASE ~Fits(s, LeaderFor(r), b) /\ Refuses(s, res, b)
    BY <2>2, <2>3, RefuseStep
  <2>4. CASE Fits(s, LeaderFor(r), b) /\ (VotesAndStays(s, res, b, r) \/ VotesAndLeaves(s, res, b))
    BY <2>2, <2>4, VoteForStep
  <2> QED
    BY <1>5, <2>1, <2>3, <2>4
<1>6. CASE /\ m.kind = "Vote" /\ m.view = s.view /\ m.signer \notin ToSet(VotesFor(s, m.block))
           /\ \/ Counts(s, res, m.block, m.signer)
              \/ /\ m.block \in s.known_blocks /\ T <= Len(VotesFor(s, m.block)) + 1
                 /\ LeavesWith(s, res, m.block, NotarySeed(m.block))
  <2>1. CASE Counts(s, res, m.block, m.signer)
    BY <1>2, <2>1 DEF Counts, Kept, Shared, Fields
  <2>2. CASE /\ m.block \in s.known_blocks /\ T <= Len(VotesFor(s, m.block)) + 1
             /\ LeavesWith(s, res, m.block, NotarySeed(m.block))
    <3>1. PICK b : b = m.block
      OBVIOUS
    <3> QED
      BY <1>6, <2>2, <3>1, VoteStep
  <2> QED
    BY <1>6, <2>1, <2>2
<1>7. CASE m.kind = "Timeout" /\ m.view = s.view /\ s.dummy_sent = FALSE
           /\ (TimesOut(s, res, r) \/ TimesOutLast(s, res))
  BY <1>7, TimeoutStep
<1>8. CASE /\ m.kind = "NullifyVote" /\ m.view = s.view /\ m.signer \notin ToSet(s.nullify_votes)
           /\ \/ CountsDummy(s, res, m.signer)
              \/ GivesUp(s, res) /\ T <= Len(s.nullify_votes) + 1
  <2>1. CASE CountsDummy(s, res, m.signer)
    BY <1>2, <2>1 DEF CountsDummy, Kept, Shared, Fields
  <2>2. CASE GivesUp(s, res) /\ T <= Len(s.nullify_votes) + 1
    BY <1>8, <2>2, DummyStep
  <2> QED
    BY <1>8, <2>1, <2>2
<1>9. CASE /\ m.kind = "FinalizeVote" /\ m.view \in {s.view, s.view - 1}
           /\ m.signer \notin ToSet(s.finalize_votes) /\ CountsFinal(s, res, m.view, m.signer)
  <2>1. CASE res.transition.kind = "Finalized"
    <3>1. PICK h : h = m.view
      OBVIOUS
    <3> QED
      BY <1>9, <2>1, <3>1, FinalStep
  <2>2. CASE res.transition.kind # "Finalized"
    BY <1>2, <1>9, <2>2 DEF CountsFinal, Kept, Shared, Fields
  <2> QED
    BY <2>1, <2>2
<1>10. CASE m.kind = "Notarization" /\ m.view = s.view /\ LeavesWith(s, res, m.block, s.seed)
  <2>1. PICK b : b = m.block
    OBVIOUS
  <2> QED
    BY <1>10, <2>1, RelayStep
<1> QED
  BY <1>3, <1>4, <1>5, <1>6, <1>7, <1>8, <1>9, <1>10 DEF Handled

(* The scenario and the leaders that Simplex is set up with.                *)
Compared == behavior = Presets /\ oracle = Oracle /\ Capitulators = {}

LEMMA DeliverStep ==
  ASSUME Compared, Sane, Recorded, Rounds \in Nat, Deliver
  PROVE  Async!Next \/ UNCHANGED Async!vars
<1>1. phase = "deliver" /\ queue # <<>>
  BY DEF Deliver
<1>2. PICK d, res, forged : DeliveredBy(d, res, forged)
  BY DeliverIs
<1>3. PICK r, s : r = d.to /\ s = replica[d.to]
  OBVIOUS
<1>4. /\ r \in Node /\ Answered(res.out) /\ NodeState(r, s)
      /\ Handled(r, d.message, s, res, LeaderFor(r)) /\ d \in ToSet(queue)
      /\ Deliverable(d, view, "deliver")
      /\ d.message.kind = "ProposeRequest" => (s.view = view => s.voted_block = Genesis)
      /\ replica'[r] = res.state /\ \A x \in Node : x # r => replica'[x] = replica[x]
  BY <1>1, <1>2, <1>3, DeliverDeed DEF DeliveredBy
<1>5. forged = <<>>
  BY <1>1, <1>2, VotesAfter DEF Compared
<1>6. Notes(r, res, Filtered(res.out, r))
  BY <1>2, <1>3, <1>5, RecordIs DEF DeliveredBy
<1>7. Becomes(r, res.state)
  BY <1>4, BecomesIs
<1>8. /\ OnRecord(d) /\ Lists /\ Timers /\ signed = [field \in HistoryFields |-> signed[field]]
      /\ signed.nullifies \subseteq [signer : Node, view : 1..Rounds]
  BY <1>4 DEF Recorded
<1>9. view \in 1..Rounds
  BY <1>1 DEF Sane
<1>10. Takes(d, r, s, res, Filtered(res.out, r))
  BY <1>1, <1>3, <1>4, <1>6, <1>7, <1>8, <1>9 DEF Takes, Compared
<1>11. NoneOf(res.out, "Proposal") => NoProposal(Filtered(res.out, r))
  BY <1>4, NoProposalLeaves
<1>12. d.message.kind # "ProposeRequest" => NoneOf(res.out, "Proposal")
  <2> SUFFICES ASSUME d.message.kind # "ProposeRequest" PROVE NoneOf(res.out, "Proposal")
    OBVIOUS
  <2>1. \/ Quiet(s, res)
        \/ \E b : Refuses(s, res, b) \/ VotesAndStays(s, res, b, r) \/ VotesAndLeaves(s, res, b)
        \/ \E b, q : Counts(s, res, b, q)
        \/ \E b, sd : LeavesWith(s, res, b, sd)
        \/ TimesOut(s, res, r) \/ TimesOutLast(s, res)
        \/ \E q : CountsDummy(s, res, q)
        \/ GivesUp(s, res)
        \/ \E h, q : CountsFinal(s, res, h, q)
    BY <1>4 DEF Handled
  <2>2. ASSUME res.out = <<>> PROVE NoneOf(res.out, "Proposal")
    BY <2>2 DEF NoneOf, ToSet
  <2>3. CASE \E b : VotesAndStays(s, res, b, r)
    BY <2>3 DEF VotesAndStays, NoneOf, VoteOut
  <2>4. CASE \E b : VotesAndLeaves(s, res, b)
    BY <2>4 DEF VotesAndLeaves, NoneOf, VoteOut, Announced, Relay
  <2>5. CASE \E b, sd : LeavesWith(s, res, b, sd)
    BY <2>5 DEF LeavesWith, NoneOf, Announced, Relay
  <2>6. CASE TimesOut(s, res, r) \/ TimesOutLast(s, res)
    <3>1. ToSet(res.out) = {[kind |-> "NullifyVote", view |-> s.view]}
      BY <2>6, PairIs DEF TimesOut, TimesOutLast
    <3> QED
      BY <3>1 DEF NoneOf
  <2> QED
    BY <2>1, <2>2, <2>3, <2>4, <2>5, <2>6 DEF Quiet, Refuses, Counts, CountsDummy, GivesUp, CountsFinal
<1>13. res.out = <<>> => NoneOf(res.out, "Proposal")
  BY DEF NoneOf, ToSet
<1>14. d.message.kind = "ProposeRequest" => d.message.view = view
  BY <1>4 DEF Deliverable
<1> QED
  BY <1>4, <1>8, <1>10, <1>11, <1>12, <1>13, <1>14, TakesStep

LEMMA FireTimerStep ==
  ASSUME Compared, Sane, Recorded, Rounds \in Nat, FireTimer
  PROVE  Async!Next \/ UNCHANGED Async!vars
<1>1. phase = "timeout" /\ queue # <<>>
  BY DEF FireTimer
<1>2. PICK d, res, r, s : d = Head(queue) /\ res = Apply(d) /\ r = d.to /\ s = replica[r]
  OBVIOUS
<1>3. Take(r, res) /\ Record(r, res, <<>>, <<>>)
  BY <1>2 DEF FireTimer
<1>4. Deliverable(d, view, "timeout") /\ r \in Node /\ NodeState(r, s) /\ d \in ToSet(queue)
  BY <1>1, <1>2, HeadFacts
<1>5. replica'[r] = res.state /\ \A x \in Node : x # r => replica'[x] = replica[x]
  BY <1>3, <1>4 DEF Sane, Take
<1>6. d.message.kind = "Timeout"
  BY <1>4 DEF Deliverable
<1>7. Handled(r, d.message, s, res, LeaderFor(r))
  BY <1>2, <1>4, HandledIs DEF Apply
<1>8. Notes(r, res, <<>>) /\ Becomes(r, res.state) /\ NoProposal(<<>>)
  BY <1>3, <1>4, <1>5, RecordIs, BecomesIs DEF NoProposal, ToSet
<1>9. /\ OnRecord(d) /\ Lists /\ Timers /\ signed = [field \in HistoryFields |-> signed[field]]
      /\ signed.nullifies \subseteq [signer : Node, view : 1..Rounds]
  BY <1>4 DEF Recorded
<1>10. view \in 1..Rounds
  BY <1>1 DEF Sane
<1>11. Takes(d, r, s, res, <<>>)
  BY <1>1, <1>2, <1>4, <1>8, <1>9, <1>10 DEF Takes, Compared
<1> QED
  BY <1>6, <1>7, <1>8, <1>9, <1>11, TakesStep

LEMMA RouteStep ==
  ASSUME Compared, Sane, Recorded, Rounds \in Nat, RouteDummyVote
  PROVE  Async!Next \/ UNCHANGED Async!vars
<1>1. phase = "route" /\ queue # <<>> /\ signed' = signed
  BY DEF RouteDummyVote
<1>2. PICK d, res, r, s : d = Head(queue) /\ res = Apply(d) /\ r = d.to /\ s = replica[r]
  OBVIOUS
<1>3. Take(r, res)
  BY <1>2 DEF RouteDummyVote
<1>4. Deliverable(d, view, "route") /\ r \in Node /\ NodeState(r, s) /\ d \in ToSet(queue)
  BY <1>1, <1>2, HeadFacts
<1>5. replica'[r] = res.state /\ \A x \in Node : x # r => replica'[x] = replica[x]
  BY <1>3, <1>4 DEF Sane, Take
<1>6. d.message.kind = "NullifyVote"
  BY <1>4 DEF Deliverable
<1>7. Handled(r, d.message, s, res, LeaderFor(r))
  BY <1>2, <1>4, HandledIs DEF Apply
<1>8. res.out = <<>> /\ res.transition.kind # "Finalized"
  BY <1>6, <1>7 DEF Handled, Quiet, CountsDummy, GivesUp
<1>9. /\ OnRecord(d) /\ Lists /\ Timers /\ signed = [field \in HistoryFields |-> signed[field]]
      /\ signed.nullifies \subseteq [signer : Node, view : 1..Rounds]
  BY <1>4 DEF Recorded
<1>10. Notes(r, res, <<>>)
  <2>1. \A kind : Of(res.out, kind) = {}
    BY <1>8 DEF Of, ToSet
  <2>2. {e \in ToSet(<<>>) : e.message.kind = "Proposal"} = {}
    BY DEF ToSet
  <2> QED
    BY <1>1, <1>8, <1>9, <2>1, <2>2 DEF Notes
<1>11. Becomes(r, res.state) /\ NoProposal(<<>>)
  BY <1>4, <1>5, BecomesIs DEF NoProposal, ToSet
<1>12. view \in 1..Rounds
  BY <1>1 DEF Sane
<1>13. Takes(d, r, s, res, <<>>)
  BY <1>1, <1>2, <1>4, <1>9, <1>10, <1>11, <1>12 DEF Takes, Compared
<1> QED
  BY <1>6, <1>7, <1>9, <1>11, <1>13, TakesStep

LEMMA NoMessage ==
  ASSUME Compared, Sane, Recorded, Next, ~Deliver, ~FireTimer, ~RouteDummyVote
  PROVE  UNCHANGED Async!vars
<1>1. replica' = replica
  BY DEF Next, AskLeader, EndDelivery, CollectDummyVotes, ReadStates
<1>2. signed' = signed
  <2>1. CASE CollectDummyVotes
    <3>1. ToSet(dummies') \subseteq ToSet(dummies)
      <4>1. ToSet(<<>>) = {}
        BY DEF ToSet
      <4>2. CASE stuck = {}
        BY <2>1, <4>1, <4>2 DEF CollectDummyVotes
      <4>3. CASE stuck # {}
        <5>1. InOrder(Capitulators) = <<>>
          <6>1. InOrder(Capitulators) \in Seq(Node) /\ ToSet(InOrder(Capitulators)) = {}
            BY InOrderIs DEF Compared
          <6> QED
            BY <6>1, SetOf, TailIs
        <5>2. dummies' = dummies \o <<>>
          BY <2>1, <4>3, <5>1 DEF CollectDummyVotes
        <5>3. dummies \in Seq(ToSet(dummies))
          BY SequenceOfSet DEF Sane
        <5> QED
          BY <5>2, <5>3
      <4> QED
        BY <4>2, <4>3
    <3>2. {[signer |-> c, view |-> view] : c \in ToSet(dummies') \ ToSet(dummies)} = {}
      BY <3>1
    <3> QED
      BY <2>1, <3>2 DEF CollectDummyVotes, Recorded, HistoryFields
  <2> QED
    BY <2>1 DEF Next, AskLeader, EndDelivery, ReadStates
<1> QED
  BY <1>1, <1>2 DEF Async!vars, EachOf

(* Every step of the engine is a step of Simplex, or one that Simplex does not see. *)
LEMMA EngineStep ==
  ASSUME Compared, Sane, Recorded, Rounds \in Nat, [Next]_vars
  PROVE  [Async!Next]_(Async!vars)
<1>1. CASE UNCHANGED vars
  BY <1>1 DEF vars, Async!vars, EachOf
<1>2. CASE Next
  BY <1>2, DeliverStep, FireTimerStep, RouteStep, NoMessage
<1> QED
  BY <1>1, <1>2

LEMMA EngineStart == behavior = Presets /\ Init => Async!Init
<1> SUFFICES ASSUME behavior = Presets, Init PROVE Async!Init
  OBVIOUS
<1>1. Async!Node = Node /\ Async!Genesis = Genesis /\ Async!GenesisSeed = GenesisSeed
  BY SamePresets DEF Async!Genesis, Genesis, Async!GenesisSeed, GenesisSeed
<1> QED
  BY <1>1 DEF Init, Async!Init, EachOf, NewReplica

(* What Simplex assumes of its constants, the engine has when no more nodes are
   naughty than it tolerates.                                               *)
LEMMA MeetsAssumptions ==
  ASSUME behavior = Presets, Assigned, Tolerated
  PROVE  /\ N \in Nat /\ T \in Nat /\ F \in Nat /\ Rounds \in Nat /\ F < T /\ N + F < 2 * T
         /\ Presets \in [Node -> Behaviors] /\ Cardinality(Node \ Async!Honest) <= F
<1>1. Async!Honest = Honest
  BY DEF Async!Honest, Honest, Async!Node, Node
<1>2. behavior \in [Node -> Behaviors]
  <2>1. PICK scenario \in AllScenarios : behavior = AssignBehaviors(scenario, F)
    BY EngineAssumption DEF Assigned
  <2>2. ASSUME NEW r \in Node PROVE behavior[r] \in Behaviors
    <3> DEFINE count == CASE scenario = "Happy" -> 0
                          [] scenario = "Capitulation" -> F + 1 [] OTHER -> F
    <3>1. ~(r > N - count) => behavior[r] = "Honest"
      BY <2>1 DEF AssignBehaviors
    <3>2. r > N - count /\ scenario # "Happy" => behavior[r] \in Behaviors
      BY <2>1 DEF AssignBehaviors, Behaviors, AllScenarios
    <3> HIDE DEF count
    <3>3. scenario = "Happy" => ~(r > N - count)
      BY EngineAssumption DEF Node, count
    <3> QED
      BY <3>1, <3>2, <3>3 DEF Behaviors
  <2> QED
    BY <2>1, <2>2 DEF AssignBehaviors
<1> QED
  BY <1>1, <1>2, EngineAssumption DEF Tolerated

(* The engine's replicas, with what the record holds of their messages, are replicas
   of Simplex under the presets of the scenario and its leaders: an engine with
   at most F naughty nodes is one schedule of the asynchronous network.     *)
THEOREM ImplementsAsync ==
  ElectsNodes /\ Spec => (behavior = Presets /\ oracle = Oracle /\ Tolerated => Async!Spec)
<1> SUFFICES ASSUME ElectsNodes PROVE Spec => (behavior = Presets /\ oracle = Oracle /\ Tolerated => Async!Spec)
  BY DEF ElectsNodes
<1> DEFINE C == behavior = Presets /\ oracle = Oracle /\ Tolerated
           I == Capitulators = {} => Recorded
<1>1. Init /\ C => Async!Init
  BY EngineStart
<1>2. C /\ Assigned /\ Running /\ I /\ [Next]_vars => C' /\ [Async!Next]_(Async!vars)
  <2> SUFFICES ASSUME C, Assigned, Running, I, [Next]_vars PROVE C' /\ [Async!Next]_(Async!vars)
    OBVIOUS
  <2>1. behavior' = behavior /\ oracle' = oracle
    BY DEF Next, vars, given, AskLeader, Deliver, EndDelivery, FireTimer, CollectDummyVotes, RouteDummyVote, ReadStates
  <2>2. Tolerated' <=> Tolerated
    BY <2>1 DEF Tolerated, Honest
  <2>3. Capitulators = {}
    BY NoCapitulators
  <2>4. Compared /\ Sane /\ Recorded /\ Rounds \in Nat
    BY <2>3, EngineAssumption DEF Compared, Running
  <2> QED
    BY <2>1, <2>2, <2>4, EngineStep
<1> HIDE DEF C, I
<1>3. Spec => [](Assigned /\ Running /\ I)
  BY RunningInv, AssignedInv, RecordedInv, PTL DEF I
<1>4. Spec /\ C => Async!Spec
  BY <1>1, <1>2, <1>3, PTL DEF Spec, Async!Spec
<1> QED
  BY <1>4 DEF C
=============================================================================

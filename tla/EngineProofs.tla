---------------------------- MODULE EngineProofs ----------------------------
(***************************************************************************)
(* Two layers. First what a replica promises its caller, for every quorum  *)
(* size and whatever it is handed: any message for any view, from any      *)
(* signer but itself, in any order and any number of times, under any      *)
(* leader. A handler first keeps the view (StayKeeps), then may leave it   *)
(* (LeaveKeeps), with all that belongs to the view reset. The invariant    *)
(* Good says what is still open in the current view and what is settled in *)
(* those before.                                                           *)
(*                                                                         *)
(* Then the simulator, for every number of nodes, assignment of presets    *)
(* and oracle: the strip tells the truth (StripInv); the queue drains      *)
(* (Sane, Bounded); every replica leaves every view (Ends); and within the *)
(* faults all have one tip (Ballots: two quorums share an honest voter).   *)
(***************************************************************************)
EXTENDS ReplicaCaller, SimplexEngine, FiniteSetTheorems, WellFoundedInduction, TLAPS

Sequence(v) == \E S : v \in Seq(S)

(* The signers the replica counts when it takes m in state s.               *)
EvidenceAt(s, m) ==
  CASE m.kind = "Vote"     -> ToSet(VotesFor(s, m.block)) \cup {m.signer}
    [] m.kind = "Proposal" -> ToSet(VotesFor(s, m.block)) \cup {Me}
    [] OTHER -> {}

(* What is returned so far, after transition t.                             *)
After(rt, t, by, e) ==
  IF t.kind \in {"Notarized", "Nullified", "Finalized"}
  THEN rt \cup {[kind |-> t.kind, view |-> t.view, by |-> by, evidence |-> e]} ELSE rt

(* A caller that may hand over anything: only the replica signs for itself, and it
   is not asked to propose when it has voted.                               *)
Legal(s, m) ==
  \/ m.kind = "ProposeRequest" /\ s.voted_block = Genesis
  \/ m.kind = "Proposal" /\ Sequence(m.block) /\ m.block # Genesis
  \/ m.kind = "Vote" /\ m.signer # Me /\ Sequence(m.block)
  \/ m.kind = "Notarization" /\ Sequence(m.block)
  \/ m.kind \in {"Timeout", "NullifyVote", "FinalizeVote"}

AnyDeliver(m, elected) ==
  LET res == ApplyMessage(state, Me, elected, m)
  IN  /\ state' = res.state
      /\ sent' = sent \cup ToSet(res.out)
      /\ returned' = After(returned, res.transition, m.kind, EvidenceAt(state, m))

AnyNext == \E m, elected : Legal(state, m) /\ AnyDeliver(m, elected)

AnySpec ==
  /\ state = NewReplica /\ sent = {} /\ returned = {}
  /\ [][AnyNext]_<<state, sent, returned>>

-----------------------------------------------------------------------------
(* The invariant, of a state s, all it has sent and all it has returned.     *)

Fields == {"view", "tip", "seed", "voted_block", "dummy_sent", "known_blocks", "notarize_votes",
           "nullify_votes", "finalize_votes", "finalized_count", "nullified_count"}

(* Nobody is twice in the list.                                             *)
Listed(v) == Sequence(v) /\ IsFiniteSet(ToSet(v)) /\ Cardinality(ToSet(v)) = Len(v)

StateOK(s) ==
  /\ DOMAIN s = Fields
  /\ s.view \in Nat \ {0} /\ s.nullified_count \in Nat /\ Sequence(s.tip)
  /\ \A b : /\ Listed(VotesFor(s, b))
            /\ Me \in ToSet(VotesFor(s, b)) => s.voted_block # Genesis

SignedOK(s, sg) ==
  /\ \A o \in sg : o.kind = "Vote" =>
       o.view \in Nat /\ o.view <= s.view /\ (o.view = s.view => s.voted_block # Genesis)
  /\ \A o, q \in sg : o.kind = "Vote" /\ q.kind = "Vote" /\ o.view = q.view => o = q
  /\ \A o \in sg : o.kind = "NullifyVote" =>
       o.view \in Nat /\ o.view <= s.view /\ (o.view = s.view => s.dummy_sent = TRUE)
  /\ \A o \in sg : o.kind = "FinalizeVote" => o.view \in Nat /\ o.view < s.view
  /\ \A o, q \in sg : o.kind = "FinalizeVote" /\ q.kind = "NullifyVote" => o.view # q.view

Left == {"Notarized", "Nullified"}

ReturnedOK(s, rt) ==
  /\ IsFiniteSet(rt)
  /\ \A r \in rt : r.kind \in Left \cup {"Finalized"}
  /\ \A r \in rt : r.kind \in Left => r.view \in Nat /\ r.view < s.view
  /\ \A h \in 1..s.view - 1 : \E r \in rt : r.kind \in Left /\ r.view = h
  /\ \A r, q \in rt : r.kind \in Left /\ q.kind \in Left /\ r.view = q.view => r.kind = q.kind
  /\ s.nullified_count = Cardinality({r \in rt : r.kind = "Nullified"})
  /\ \A r \in rt : r.kind = "Notarized" /\ r.by # "Notarization" => Cardinality(r.evidence) >= T

Good(s, sg, rt) == StateOK(s) /\ SignedOK(s, sg) /\ ReturnedOK(s, rt)

-----------------------------------------------------------------------------
(* Lists of votes.                                                          *)

LEMMA EmptyListed == Listed(<<>>) /\ ToSet(<<>>) = {} /\ Sequence(<<>>)
<1>1. <<>> \in Seq({}) /\ Len(<<>>) = 0 /\ ToSet(<<>>) = {}
  BY DEF ToSet
<1>2. IsFiniteSet({}) /\ Cardinality({}) = 0
  BY FS_EmptySet
<1> QED
  BY <1>1, <1>2 DEF Listed, Sequence

LEMMA AppendListed ==
  ASSUME NEW v, Listed(v), NEW x, x \notin ToSet(v)
  PROVE  Listed(Append(v, x)) /\ ToSet(Append(v, x)) = ToSet(v) \cup {x}
<1>1. PICK S : v \in Seq(S)
  BY DEF Listed, Sequence
<1>2. v \in Seq(S \cup {x}) /\ x \in S \cup {x}
  BY <1>1
<1>3. /\ Append(v, x) \in Seq(S \cup {x}) /\ Len(Append(v, x)) = Len(v) + 1 /\ Len(v) \in Nat
      /\ DOMAIN Append(v, x) = (DOMAIN v) \cup {Len(v) + 1} /\ Append(v, x)[Len(v) + 1] = x
      /\ \A k \in DOMAIN v : Append(v, x)[k] = v[k]
  BY <1>2
<1>4. ToSet(Append(v, x)) = ToSet(v) \cup {x}
  BY <1>3 DEF ToSet
<1>5. IsFiniteSet(ToSet(v) \cup {x}) /\ Cardinality(ToSet(v) \cup {x}) = Cardinality(ToSet(v)) + 1
  <2>1. IsFiniteSet(ToSet(v))
    BY DEF Listed
  <2> QED
    BY <2>1, FS_AddElement
<1> QED
  BY <1>3, <1>4, <1>5 DEF Listed, Sequence

LEMMA PushedVotes ==
  ASSUME NEW s, DOMAIN s = Fields, NEW b, NEW x
  PROVE  /\ DOMAIN Push(s, b, x) = Fields
         /\ \A f \in Fields \ {"notarize_votes"} : Push(s, b, x)[f] = s[f]
         /\ VotesFor(Push(s, b, x), b) = Append(VotesFor(s, b), x)
         /\ \A c : c # b => VotesFor(Push(s, b, x), c) = VotesFor(s, c)
<1> DEFINE votes == [c \in (DOMAIN s.notarize_votes) \cup {b} |->
                       IF c = b THEN Append(VotesFor(s, b), x) ELSE s.notarize_votes[c]]
<1>1. Push(s, b, x) = [s EXCEPT !.notarize_votes = votes]
  BY DEF Push
<1>2. DOMAIN votes = (DOMAIN s.notarize_votes) \cup {b} /\ votes[b] = Append(VotesFor(s, b), x)
        /\ \A c \in DOMAIN s.notarize_votes : c # b => votes[c] = s.notarize_votes[c]
  OBVIOUS
<1> HIDE DEF votes
<1>3. /\ DOMAIN Push(s, b, x) = Fields /\ Push(s, b, x).notarize_votes = votes
      /\ \A f \in Fields \ {"notarize_votes"} : Push(s, b, x)[f] = s[f]
  BY <1>1 DEF Fields
<1>4. VotesFor(Push(s, b, x), b) = Append(VotesFor(s, b), x)
  BY <1>2, <1>3 DEF VotesFor
<1>5. \A c : c # b => VotesFor(Push(s, b, x), c) = VotesFor(s, c)
  BY <1>2, <1>3 DEF VotesFor
<1> QED
  BY <1>3, <1>4, <1>5

-----------------------------------------------------------------------------
(* What a handler sends while it keeps the view, and when it leaves it.      *)

StaySends(s, x, out) ==
  /\ \A o \in out : o.kind # "FinalizeVote"
  /\ \A o \in out : o.kind = "Vote" => o.view = s.view /\ s.voted_block = Genesis /\ x.voted_block # Genesis
  /\ \A o, q \in out : o.kind = "Vote" /\ q.kind = "Vote" => o = q
  /\ \A o \in out : o.kind = "NullifyVote" => o.view = s.view /\ x.dummy_sent = TRUE

LEMMA StayKeeps ==
  ASSUME NEW s, NEW sg, NEW rt, NEW x, NEW out, Good(s, sg, rt), StateOK(x),
         x.view = s.view, x.nullified_count = s.nullified_count,
         s.voted_block # Genesis => x.voted_block # Genesis,
         s.dummy_sent = TRUE => x.dummy_sent = TRUE,
         StaySends(s, x, out)
  PROVE  Good(x, sg \cup out, rt)
<1>1. s.view \in Nat
  BY DEF Good, StateOK
<1>2. SignedOK(x, sg \cup out)
  <2>1. \A o \in sg \cup out : o.kind = "Vote" =>
          o.view \in Nat /\ o.view <= x.view /\ (o.view = x.view => x.voted_block # Genesis)
    BY <1>1 DEF Good, SignedOK, StaySends
  <2>2. \A o, q \in sg \cup out : o.kind = "Vote" /\ q.kind = "Vote" /\ o.view = q.view => o = q
    BY DEF Good, SignedOK, StaySends
  <2>3. \A o \in sg \cup out : o.kind = "NullifyVote" =>
          o.view \in Nat /\ o.view <= x.view /\ (o.view = x.view => x.dummy_sent = TRUE)
    BY <1>1 DEF Good, SignedOK, StaySends
  <2>4. \A o \in sg \cup out : o.kind = "FinalizeVote" => o \in sg /\ o.view \in Nat /\ o.view < x.view
    BY DEF Good, SignedOK, StaySends
  <2>5. \A o, q \in sg \cup out : o.kind = "FinalizeVote" /\ q.kind = "NullifyVote" => o.view # q.view
    BY <1>1, <2>4 DEF Good, SignedOK, StaySends
  <2> QED
    BY <2>1, <2>2, <2>3, <2>4, <2>5 DEF SignedOK
<1>3. ReturnedOK(x, rt)
  BY DEF Good, ReturnedOK
<1> QED
  BY <1>2, <1>3 DEF Good

LeaveSends(s, out) ==
  \A o \in out : /\ o.kind \notin {"Vote", "NullifyVote"}
                 /\ o.kind = "FinalizeVote" => o.view = s.view /\ s.dummy_sent # TRUE

LEMMA LeaveKeeps ==
  ASSUME NEW s, NEW sg, NEW rt, NEW x, NEW out, NEW t, NEW by, NEW e,
         Good(s, sg, rt), StateOK(x), x.view = s.view + 1, LeaveSends(s, out), t.view = s.view,
         \/ /\ t.kind = "Notarized" /\ x.nullified_count = s.nullified_count
            /\ by # "Notarization" => Cardinality(e) >= T
         \/ t.kind = "Nullified" /\ x.nullified_count = s.nullified_count + 1
  PROVE  Good(x, sg \cup out, After(rt, t, by, e))
<1>1. s.view \in Nat \ {0} /\ s.nullified_count \in Nat
  BY DEF Good, StateOK
<1>2. SignedOK(x, sg \cup out)
  <2>1. \A o \in sg \cup out : o.kind = "Vote" => o \in sg /\ o.view \in Nat /\ o.view <= s.view
    BY DEF Good, SignedOK, LeaveSends
  <2>2. \A o, q \in sg \cup out : o.kind = "Vote" /\ q.kind = "Vote" /\ o.view = q.view => o = q
    BY <2>1 DEF Good, SignedOK
  <2>3. \A o \in sg \cup out : o.kind = "NullifyVote" =>
          o \in sg /\ o.view \in Nat /\ o.view <= s.view /\ (o.view = s.view => s.dummy_sent = TRUE)
    BY DEF Good, SignedOK, LeaveSends
  <2>4. ASSUME NEW o \in sg \cup out, o.kind = "FinalizeVote"
        PROVE  o.view \in Nat /\ o.view < x.view
    <3>1. o.view \in Nat /\ (o.view < s.view \/ o.view = s.view)
      BY <1>1, <2>4 DEF Good, SignedOK, LeaveSends
    <3> QED
      BY <1>1, <3>1
  <2>5. \A o, q \in sg \cup out : o.kind = "FinalizeVote" /\ q.kind = "NullifyVote" => o.view # q.view
    BY <1>1, <2>3 DEF Good, SignedOK, LeaveSends
  <2>6. \A n \in Nat : n <= s.view => n <= x.view /\ n # x.view
    BY <1>1
  <2> QED
    BY <2>1, <2>2, <2>3, <2>4, <2>5, <2>6 DEF SignedOK
<1> DEFINE r == [kind |-> t.kind, view |-> t.view, by |-> by, evidence |-> e]
           new == rt \cup {r}
<1>3. After(rt, t, by, e) = new /\ r.kind = t.kind /\ r.view = s.view /\ r.by = by /\ r.evidence = e
  BY DEF After
<1> HIDE DEF r
<1>4. ReturnedOK(x, new)
  <2>1. IsFiniteSet(new)
    BY FS_AddElement DEF Good, ReturnedOK
  <2>2. \A q \in new : q.kind \in Left \cup {"Finalized"}
    BY <1>3 DEF Good, ReturnedOK, Left
  <2>3. \A q \in rt : q.kind \in Left => q.view \in Nat /\ q.view < s.view
    BY DEF Good, ReturnedOK
  <2>4. \A q \in new : q.kind \in Left => q.view \in Nat /\ q.view < x.view
    BY <1>1, <1>3, <2>3
  <2>5. ASSUME NEW h \in 1..x.view - 1
        PROVE  \E q \in new : q.kind \in Left /\ q.view = h
    <3>1. CASE h = s.view
      BY <1>3, <3>1 DEF Left
    <3>2. CASE h # s.view
      <4>1. h \in 1..s.view - 1
        BY <1>1, <3>2
      <4> QED
        BY <4>1 DEF Good, ReturnedOK
    <3> QED
      BY <3>1, <3>2
  <2>6. \A q \in rt : q.kind \in Left => q.view # r.view
    BY <1>1, <1>3, <2>3
  <2>7. \A p, q \in new : p.kind \in Left /\ q.kind \in Left /\ p.view = q.view => p.kind = q.kind
    BY <2>6 DEF Good, ReturnedOK
  <2>8. x.nullified_count = Cardinality({q \in new : q.kind = "Nullified"})
    <3> DEFINE old == {q \in rt : q.kind = "Nullified"}
    <3>1. IsFiniteSet(old) /\ s.nullified_count = Cardinality(old)
      <4>1. IsFiniteSet(rt) /\ old \in SUBSET rt
        BY DEF Good, ReturnedOK
      <4> QED
        BY <4>1, FS_Subset DEF Good, ReturnedOK
    <3>2. CASE t.kind = "Notarized"
      <4>1. {q \in new : q.kind = "Nullified"} = old
        BY <1>3, <3>2
      <4> QED
        BY <3>1, <3>2, <4>1
    <3>3. CASE t.kind = "Nullified"
      <4>1. {q \in new : q.kind = "Nullified"} = old \cup {r}
        BY <1>3, <3>3
      <4>2. r \notin old
        BY <1>3, <2>6, <3>3 DEF Left
      <4>3. Cardinality(old \cup {r}) = Cardinality(old) + 1
        BY <3>1, <4>2, FS_AddElement
      <4> QED
        BY <3>1, <3>3, <4>1, <4>3
    <3> QED
      BY <3>2, <3>3
  <2>9. \A q \in new : q.kind = "Notarized" /\ q.by # "Notarization" => Cardinality(q.evidence) >= T
    BY <1>3 DEF Good, ReturnedOK
  <2> HIDE DEF new
  <2> QED
    BY <2>1, <2>2, <2>4, <2>5, <2>7, <2>8, <2>9 DEF ReturnedOK
<1> QED
  BY <1>2, <1>3, <1>4 DEF Good

-----------------------------------------------------------------------------
(* The stages that may end a view.                                          *)

(* What a handler returns keeps the invariant, whatever by is and if e are the
   signers behind a block notarized by votes.                               *)
Keeps(res, sg, rt, by, e) ==
  Good(res.state, sg \cup ToSet(res.out), After(rt, res.transition, by, e))

LEMMA ResultFields ==
  ASSUME NEW s, NEW t, NEW out
  PROVE  /\ Result(s, t, out).state = s /\ Result(s, t, out).transition = t /\ Result(s, t, out).out = out
         /\ Ignored(s).state = s /\ Ignored(s).transition = Pending /\ Ignored(s).out = <<>>
         /\ Pending.kind = "Pending"
         /\ \A reason : Rejected(reason).kind = "Rejected"
BY DEF Result, Ignored, Pending, Rejected

(* A handler that keeps the view.                                           *)
LEMMA Stays ==
  ASSUME NEW sg, NEW rt, NEW by, NEW e, NEW res, Good(res.state, sg \cup ToSet(res.out), rt),
         res.transition.kind \notin {"Notarized", "Nullified", "Finalized"}
  PROVE  Keeps(res, sg, rt, by, e)
BY DEF Keeps, After

LEMMA IgnoredKeeps ==
  ASSUME NEW s, NEW sg, NEW rt, NEW by, NEW e, Good(s, sg, rt)
  PROVE  Keeps(Ignored(s), sg, rt, by, e) /\ \A reason : Keeps(Result(s, Rejected(reason), <<>>), sg, rt, by, e)
<1>1. sg \cup ToSet(<<>>) = sg
  BY EmptyListed
<1>2. \A res : res.state = s /\ res.out = <<>> /\ res.transition.kind \in {"Pending", "Rejected"} =>
        Keeps(res, sg, rt, by, e)
  <2> SUFFICES ASSUME NEW res, res.state = s, res.out = <<>>, res.transition.kind \in {"Pending", "Rejected"}
               PROVE  Keeps(res, sg, rt, by, e)
    OBVIOUS
  <2> QED
    BY <1>1, Stays
<1>3. Keeps(Ignored(s), sg, rt, by, e)
  <2>1. Ignored(s).state = s /\ Ignored(s).out = <<>> /\ Ignored(s).transition.kind = "Pending"
    BY ResultFields
  <2> QED
    BY <1>2, <2>1
<1>4. ASSUME NEW reason PROVE Keeps(Result(s, Rejected(reason), <<>>), sg, rt, by, e)
  <2> DEFINE res == Result(s, Rejected(reason), <<>>)
  <2>1. res.state = s /\ res.out = <<>> /\ res.transition.kind = "Rejected"
    BY ResultFields
  <2> HIDE DEF res
  <2>2. Keeps(res, sg, rt, by, e)
    BY <1>2, <2>1
  <2> QED
    BY <2>2 DEF res
<1> QED
  BY <1>3, <1>4

(* The state after the view: the invariant looks at nothing else in it.     *)
LEMMA LeftState ==
  ASSUME NEW s, StateOK(s), NEW x, DOMAIN x = Fields, x.view = s.view + 1, x.nullified_count \in Nat,
         Sequence(x.tip), x.notarize_votes = <<>>
  PROVE  StateOK(x)
<1>1. \A b : VotesFor(x, b) = <<>>
  BY DEF VotesFor
<1>2. x.view \in Nat \ {0}
  BY DEF StateOK
<1> QED
  BY <1>1, <1>2, EmptyListed DEF StateOK

LEMMA NotarizedIs ==
  ASSUME NEW s, StateOK(s), NEW b
  PROVE  LET res == Notarized(s, b)
         IN  /\ DOMAIN res.state = Fields /\ DOMAIN res = {"state", "transition", "out"}
             /\ res.state.view = s.view + 1 /\ res.state.nullified_count = s.nullified_count
             /\ res.state.tip = b /\ res.state.notarize_votes = <<>>
             /\ res.transition = [kind |-> "Notarized", view |-> s.view]
             /\ LeaveSends(s, ToSet(res.out))
<1> DEFINE res == Notarized(s, b)
           x == [AdvanceView(s) EXCEPT !.tip = b]
           final == [kind |-> "FinalizeVote", view |-> s.view]
<1>1. /\ res.state = x /\ res.transition = [kind |-> "Notarized", view |-> s.view]
      /\ DOMAIN res = {"state", "transition", "out"}
      /\ res.out = (IF s.dummy_sent THEN <<>> ELSE <<final>>) \o <<Relay(b)>>
  BY DEF Notarized, Result
<1>2. /\ DOMAIN x = Fields /\ x.view = s.view + 1 /\ x.nullified_count = s.nullified_count
      /\ x.tip = b /\ x.notarize_votes = <<>>
  BY DEF AdvanceView, StateOK, Fields
<1>3. LeaveSends(s, ToSet(res.out))
  <2> DEFINE relay == Relay(b)
  <2>1. relay.kind = "RelayNotarization" /\ final.kind = "FinalizeVote" /\ final.view = s.view
    BY DEF Relay
  <2> HIDE DEF relay, final, res
  <2>2. CASE s.dummy_sent
    <3>1. res.out = <<relay>>
      BY <1>1, <2>2 DEF relay
    <3>2. ToSet(res.out) = {relay}
      BY <3>1 DEF ToSet
    <3> QED
      BY <2>1, <3>2 DEF LeaveSends
  <2>3. CASE ~s.dummy_sent
    <3>1. res.out = <<final>> \o <<relay>>
      BY <1>1, <2>3 DEF relay
    <3>2. ToSet(res.out) = {final, relay}
      <4>1. /\ DOMAIN res.out = 1..2 /\ res.out[1] = final /\ res.out[2] = relay
        <5>1. <<final>> \in Seq({final, relay}) /\ <<relay>> \in Seq({final, relay})
          OBVIOUS
        <5>2. Len(<<final>>) = 1 /\ Len(<<relay>>) = 1 /\ <<final>>[1] = final /\ <<relay>>[1] = relay
          OBVIOUS
        <5> QED
          BY <3>1, <5>1, <5>2
      <4> QED
        BY <4>1 DEF ToSet
    <3>3. s.dummy_sent # TRUE
      BY <2>3
    <3> QED
      BY <2>1, <3>2, <3>3 DEF LeaveSends
  <2> QED
    BY <2>2, <2>3
<1> QED
  BY <1>1, <1>2, <1>3

LEMMA NotarizedKeeps ==
  ASSUME NEW s, NEW sg, NEW rt, NEW by, NEW e, Good(s, sg, rt), NEW b, Sequence(b), NEW res,
         DOMAIN res.state = Fields, res.state.view = s.view + 1, res.state.tip = b,
         res.state.nullified_count = s.nullified_count, res.state.notarize_votes = <<>>,
         res.transition = [kind |-> "Notarized", view |-> s.view], LeaveSends(s, ToSet(res.out)),
         by # "Notarization" => Cardinality(e) >= T
  PROVE  Keeps(res, sg, rt, by, e)
<1>1. StateOK(s) /\ s.nullified_count \in Nat
  BY DEF Good, StateOK
<1>2. PICK x, t, out : x = res.state /\ t = res.transition /\ out = ToSet(res.out)
  OBVIOUS
<1>3. t.kind = "Notarized" /\ t.view = s.view
  BY <1>2
<1>4. StateOK(x)
  BY <1>1, <1>2, LeftState
<1>5. x.view = s.view + 1 /\ x.nullified_count = s.nullified_count /\ LeaveSends(s, out)
  BY <1>2
<1>6. Good(x, sg \cup out, After(rt, t, by, e))
  BY <1>3, <1>4, <1>5, LeaveKeeps
<1> QED
  BY <1>2, <1>6 DEF Keeps

LEMMA TryNotarizeKeeps ==
  ASSUME NEW s, NEW sg, NEW rt, NEW by, NEW e, Good(s, sg, rt), NEW b, Sequence(b),
         Len(VotesFor(s, b)) >= T => Cardinality(e) >= T
  PROVE  Keeps(TryNotarize(s, b), sg, rt, by, e)
<1>1. Len(VotesFor(s, b)) \in Nat
  <2>1. PICK S : VotesFor(s, b) \in Seq(S)
    BY DEF Good, StateOK, Listed, Sequence
  <2> QED
    BY <2>1
<1>2. CASE Len(VotesFor(s, b)) < T
  BY <1>2, IgnoredKeeps DEF TryNotarize
<1>3. CASE ~(Len(VotesFor(s, b)) < T)
  <2> DEFINE r0 == Notarized(s, b)
             seed == Combined(VotesFor(s, b), NotarySeed(b))
             res == [r0 EXCEPT !.state.seed = seed]
  <2>1. TryNotarize(s, b) = res
    BY <1>3 DEF TryNotarize
  <2>2. /\ DOMAIN r0.state = Fields /\ DOMAIN r0 = {"state", "transition", "out"}
        /\ r0.state.view = s.view + 1 /\ r0.state.nullified_count = s.nullified_count
        /\ r0.state.tip = b /\ r0.state.notarize_votes = <<>>
        /\ r0.transition = [kind |-> "Notarized", view |-> s.view]
        /\ LeaveSends(s, ToSet(r0.out))
    BY NotarizedIs DEF Good
  <2> HIDE DEF r0, seed
  <2>3. /\ res.state = [r0.state EXCEPT !.seed = seed]
        /\ res.transition = r0.transition /\ res.out = r0.out
    BY <2>2
  <2> HIDE DEF res
  <2>4. /\ DOMAIN res.state = Fields /\ res.state.view = s.view + 1 /\ res.state.tip = b
        /\ res.state.nullified_count = s.nullified_count /\ res.state.notarize_votes = <<>>
    BY <2>2, <2>3 DEF Fields
  <2>5. res.transition = [kind |-> "Notarized", view |-> s.view] /\ LeaveSends(s, ToSet(res.out))
    BY <2>2, <2>3
  <2>6. Cardinality(e) >= T
    BY <1>1, <1>3, QuorumAssumption
  <2>7. Keeps(res, sg, rt, by, e)
    BY <2>4, <2>5, <2>6, NotarizedKeeps
  <2> QED
    BY <2>1, <2>7
<1> QED
  BY <1>2, <1>3

LEMMA TryNullifyKeeps ==
  ASSUME NEW s, NEW sg, NEW rt, NEW by, NEW e, Good(s, sg, rt)
  PROVE  Keeps(TryNullify(s), sg, rt, by, e)
<1>1. CASE Len(s.nullify_votes) < T
  BY <1>1, IgnoredKeeps DEF TryNullify
<1>2. CASE ~(Len(s.nullify_votes) < T)
  <2> DEFINE seed == Combined(s.nullify_votes, DummySeed(s.view))
             x == [AdvanceView(s) EXCEPT !.seed = seed, !.nullified_count = @ + 1]
             t == [kind |-> "Nullified", view |-> s.view]
  <2>1. TryNullify(s) = Result(x, t, <<>>)
    BY <1>2 DEF TryNullify
  <2>2. StateOK(s) /\ DOMAIN s = Fields /\ s.nullified_count \in Nat
    BY DEF Good, StateOK
  <2> HIDE DEF seed
  <2>3. /\ DOMAIN x = Fields /\ x.view = s.view + 1 /\ x.tip = s.tip
        /\ x.nullified_count = s.nullified_count + 1 /\ x.notarize_votes = <<>>
    BY <2>2 DEF AdvanceView, Fields
  <2>4. t.kind = "Nullified" /\ t.view = s.view
    OBVIOUS
  <2> HIDE DEF x, t
  <2>5. x.nullified_count \in Nat /\ Sequence(x.tip)
    BY <2>2, <2>3 DEF StateOK
  <2>6. StateOK(x)
    BY <2>2, <2>3, <2>5, LeftState
  <2>7. LeaveSends(s, {})
    BY DEF LeaveSends
  <2>8. Good(x, sg \cup {}, After(rt, t, by, e))
    BY <2>3, <2>4, <2>6, <2>7, LeaveKeeps
  <2>9. PICK res : res = Result(x, t, <<>>)
    OBVIOUS
  <2>10. res.state = x /\ res.transition = t /\ ToSet(res.out) = {}
    BY <2>9, ResultFields, EmptyListed
  <2>11. Keeps(res, sg, rt, by, e)
    BY <2>8, <2>10 DEF Keeps
  <2> QED
    BY <2>1, <2>9, <2>11
<1> QED
  BY <1>1, <1>2

-----------------------------------------------------------------------------
(* Steps within a view.                                                     *)

(* A state that differs in what the invariant does not look at, or has fired its
   timer.                                                                   *)
LEMMA CoreState ==
  ASSUME NEW s, NEW sg, NEW rt, Good(s, sg, rt), NEW x, DOMAIN x = Fields,
         x.view = s.view, x.tip = s.tip, x.nullified_count = s.nullified_count,
         x.notarize_votes = s.notarize_votes, x.voted_block = s.voted_block,
         s.dummy_sent = TRUE => x.dummy_sent = TRUE
  PROVE  StateOK(x) /\ Good(x, sg, rt)
<1>1. \A b : VotesFor(x, b) = VotesFor(s, b)
  BY DEF VotesFor
<1>2. StateOK(x)
  BY <1>1 DEF Good, StateOK
<1>3. StaySends(s, x, {})
  BY DEF StaySends
<1>4. Good(x, sg \cup {}, rt)
  BY <1>2, <1>3, StayKeeps
<1> QED
  BY <1>2, <1>4

(* A state with one vote more.                                              *)
LEMMA PushState ==
  ASSUME NEW s, StateOK(s), NEW b, NEW signer, signer \notin ToSet(VotesFor(s, b)), NEW x, DOMAIN x = Fields,
         x.view = s.view, x.tip = s.tip, x.nullified_count = s.nullified_count,
         x.notarize_votes = Push(s, b, signer).notarize_votes,
         signer = Me => x.voted_block # Genesis,
         s.voted_block # Genesis => x.voted_block # Genesis
  PROVE  StateOK(x) /\ VotesFor(x, b) = Append(VotesFor(s, b), signer)
<1>1. \A c : VotesFor(x, c) = VotesFor(Push(s, b, signer), c)
  BY DEF VotesFor
<1>2. DOMAIN s = Fields /\ Listed(VotesFor(s, b))
  BY DEF StateOK
<1>3. VotesFor(x, b) = Append(VotesFor(s, b), signer) /\ \A c : c # b => VotesFor(x, c) = VotesFor(s, c)
  BY <1>1, <1>2, PushedVotes
<1>4. Listed(VotesFor(x, b)) /\ ToSet(VotesFor(x, b)) = ToSet(VotesFor(s, b)) \cup {signer}
  BY <1>2, <1>3, AppendListed
<1>5. ASSUME NEW c
      PROVE  Listed(VotesFor(x, c)) /\ (Me \in ToSet(VotesFor(x, c)) => x.voted_block # Genesis)
  <2>1. CASE c = b
    BY <1>4, <2>1 DEF StateOK
  <2>2. CASE c # b
    BY <1>3, <2>2 DEF StateOK
  <2> QED
    BY <2>1, <2>2
<1>6. StateOK(x)
  BY <1>5 DEF StateOK
<1> QED
  BY <1>3, <1>6

LEMMA TryShape ==
  ASSUME NEW s, NEW b
  PROVE  /\ DOMAIN TryNotarize(s, b) = {"state", "transition", "out"} /\ Sequence(TryNotarize(s, b).out)
         /\ DOMAIN TryNullify(s) = {"state", "transition", "out"} /\ Sequence(TryNullify(s).out)
<1>1. \A p, q, r : /\ DOMAIN Result(p, q, r) = {"state", "transition", "out"} /\ Result(p, q, r).out = r
                   /\ Ignored(p) = Result(p, Pending, <<>>)
  BY DEF Result, Ignored
<1>2. Sequence(<<>>)
  BY EmptyListed
<1>3. DOMAIN TryNullify(s) = {"state", "transition", "out"} /\ Sequence(TryNullify(s).out)
  <2> HIDE DEF Result, Ignored
  <2>1. \E p, q : TryNullify(s) = Result(p, q, <<>>)
    BY <1>1 DEF TryNullify
  <2> QED
    BY <1>1, <1>2, <2>1
<1>4. DOMAIN TryNotarize(s, b) = {"state", "transition", "out"} /\ Sequence(TryNotarize(s, b).out)
  <2>1. CASE Len(VotesFor(s, b)) < T
    BY <1>1, <1>2, <2>1 DEF TryNotarize
  <2>2. CASE ~(Len(VotesFor(s, b)) < T)
    <3> DEFINE final == [kind |-> "FinalizeVote", view |-> s.view]
               relay == Relay(b)
               out == (IF s.dummy_sent THEN <<>> ELSE <<final>>) \o <<relay>>
               r0 == Notarized(s, b)
               seed == Combined(VotesFor(s, b), NotarySeed(b))
    <3>1. DOMAIN r0 = {"state", "transition", "out"} /\ r0.out = out
      BY DEF Notarized, Result
    <3>2. Sequence(out)
      <4> HIDE DEF final, relay
      <4>1. out \in Seq({final, relay})
        <5>1. <<>> \in Seq({final, relay}) /\ <<final>> \in Seq({final, relay}) /\ <<relay>> \in Seq({final, relay})
          OBVIOUS
        <5>2. \A p, q \in Seq({final, relay}) : p \o q \in Seq({final, relay})
          OBVIOUS
        <5>3. (IF s.dummy_sent THEN <<>> ELSE <<final>>) \in Seq({final, relay})
          BY <5>1
        <5> QED
          BY <5>1, <5>2, <5>3
      <4> QED
        BY <4>1 DEF Sequence
    <3>3. TryNotarize(s, b) = [r0 EXCEPT !.state.seed = seed]
      BY <2>2 DEF TryNotarize
    <3> HIDE DEF r0, seed, out
    <3> QED
      BY <3>1, <3>2, <3>3
  <2> QED
    BY <2>1, <2>2
<1> QED
  BY <1>3, <1>4

LEMMA PrefixKeeps ==
  ASSUME NEW sg, NEW rt, NEW by, NEW e, NEW o, NEW res, Keeps(res, sg \cup {o}, rt, by, e),
         Sequence(res.out), DOMAIN res = {"state", "transition", "out"}
  PROVE  Keeps([res EXCEPT !.out = <<o>> \o @], sg, rt, by, e)
<1>1. PICK S : res.out \in Seq(S)
  BY DEF Sequence
<1>2. PICK r : r = [res EXCEPT !.out = <<o>> \o @]
  OBVIOUS
<1>3. r.state = res.state /\ r.transition = res.transition /\ r.out = <<o>> \o res.out
  BY <1>2
<1>4. ToSet(r.out) = {o} \cup ToSet(res.out)
  <2> DEFINE v == res.out
  <2>1. v \in Seq(S \cup {o}) /\ <<o>> \in Seq(S \cup {o}) /\ Len(<<o>>) = 1 /\ <<o>>[1] = o
    BY <1>1
  <2> HIDE DEF v
  <2>2. /\ DOMAIN v = 1..Len(v) /\ Len(v) \in Nat /\ DOMAIN (<<o>> \o v) = 1..Len(v) + 1
        /\ (<<o>> \o v)[1] = o /\ \A k \in 1..Len(v) : (<<o>> \o v)[k + 1] = v[k]
    BY <2>1
  <2>3. \A k \in 1..Len(v) + 1 : k = 1 \/ (k - 1 \in 1..Len(v) /\ (<<o>> \o v)[k] = v[k - 1])
    <3> SUFFICES ASSUME NEW k \in 1..Len(v) + 1, k # 1
                 PROVE  k - 1 \in 1..Len(v) /\ (<<o>> \o v)[k] = v[k - 1]
      OBVIOUS
    <3>1. k - 1 \in 1..Len(v) /\ (k - 1) + 1 = k
      BY <2>2
    <3> QED
      BY <2>2, <3>1
  <2>4. \A k \in 1..Len(v) : k + 1 \in 1..Len(v) + 1
    BY <2>2
  <2>5. 1 \in 1..Len(v) + 1
    BY <2>2
  <2>6. {(<<o>> \o v)[k] : k \in DOMAIN (<<o>> \o v)} = {o} \cup {v[k] : k \in DOMAIN v}
    <3>1. ASSUME NEW y \in {o} \cup {v[k] : k \in DOMAIN v}
          PROVE  \E k \in DOMAIN (<<o>> \o v) : y = (<<o>> \o v)[k]
      <4>1. CASE y = o
        BY <2>2, <2>5, <4>1
      <4>2. CASE y # o
        <5>1. PICK l \in 1..Len(v) : y = v[l]
          BY <2>2, <3>1, <4>2
        <5> QED
          BY <2>2, <2>4, <5>1
      <4> QED
        BY <4>1, <4>2
    <3>2. ASSUME NEW k \in DOMAIN (<<o>> \o v)
          PROVE  (<<o>> \o v)[k] \in {o} \cup {v[l] : l \in DOMAIN v}
      BY <2>2, <2>3
    <3> QED
      BY <3>1, <3>2
  <2> QED
    BY <1>3, <2>6 DEF ToSet, v
<1>5. sg \cup ({o} \cup ToSet(res.out)) = (sg \cup {o}) \cup ToSet(res.out)
  OBVIOUS
<1> QED
  BY <1>2, <1>3, <1>4, <1>5 DEF Keeps

-----------------------------------------------------------------------------
(* The handlers.                                                            *)

LEMMA ProposeRequestKeeps ==
  ASSUME NEW s, NEW sg, NEW rt, NEW e, Good(s, sg, rt), s.voted_block = Genesis,
         NEW elected, NEW h, NEW payload
  PROVE  Keeps(HandleProposeRequest(s, Me, elected, h, payload), sg, rt, "ProposeRequest", e)
<1> DEFINE entry == [view |-> h, payload |-> payload, proposer |-> Me]
           b == Append(s.tip, entry)
           voted == [Push(s, b, Me) EXCEPT !.voted_block = b, !.known_blocks = @ \cup {b}]
           proposal == [kind |-> "Proposal", block |-> b]
           vote == [kind |-> "Vote", view |-> h, block |-> b]
<1>1. CASE h # s.view \/ elected # Me
  BY <1>1, IgnoredKeeps DEF HandleProposeRequest
<1>2. CASE ~(h # s.view \/ elected # Me)
  <2>1. HandleProposeRequest(s, Me, elected, h, payload) = Result(voted, Pending, <<proposal, vote>>)
    BY <1>2 DEF HandleProposeRequest
  <2>2. StateOK(s) /\ DOMAIN s = Fields /\ Me \notin ToSet(VotesFor(s, b))
    BY DEF Good, StateOK
  <2>3. b # Genesis
    <3>1. PICK S : s.tip \in Seq(S)
      BY <2>2 DEF StateOK, Sequence
    <3> HIDE DEF entry
    <3>2. s.tip \in Seq(S \cup {entry}) /\ entry \in S \cup {entry}
      BY <3>1
    <3>3. Len(b) = Len(s.tip) + 1 /\ Len(s.tip) \in Nat
      BY <3>2
    <3> QED
      BY <3>3 DEF Genesis
  <2>4. vote.kind = "Vote" /\ vote.view = h /\ proposal.kind = "Proposal"
    OBVIOUS
  <2> HIDE DEF b, vote, proposal
  <2>a. ToSet(<<proposal, vote>>) = {proposal, vote}
    <3>1. DOMAIN <<proposal, vote>> = 1..2 /\ <<proposal, vote>>[1] = proposal /\ <<proposal, vote>>[2] = vote
      OBVIOUS
    <3> QED
      BY <3>1 DEF ToSet
  <2>5. /\ DOMAIN Push(s, b, Me) = Fields
        /\ \A f \in Fields \ {"notarize_votes"} : Push(s, b, Me)[f] = s[f]
    BY <2>2, PushedVotes
  <2>6. /\ DOMAIN voted = Fields /\ voted.voted_block = b
        /\ voted.view = s.view /\ voted.tip = s.tip /\ voted.nullified_count = s.nullified_count
        /\ voted.dummy_sent = s.dummy_sent /\ voted.notarize_votes = Push(s, b, Me).notarize_votes
    BY <2>5 DEF Fields
  <2> HIDE DEF voted
  <2>7. StateOK(voted)
    BY <2>2, <2>3, <2>6, PushState
  <2>8. StaySends(s, voted, {proposal, vote})
    BY <1>2, <2>3, <2>4, <2>6 DEF StaySends
  <2>9. Good(voted, sg \cup {proposal, vote}, rt)
    BY <2>3, <2>6, <2>7, <2>8, StayKeeps
  <2>10. PICK res : res = Result(voted, Pending, <<proposal, vote>>)
    OBVIOUS
  <2>11. res.state = voted /\ res.transition.kind = "Pending" /\ ToSet(res.out) = {proposal, vote}
    BY <2>a, <2>10, ResultFields
  <2>12. Keeps(res, sg, rt, "ProposeRequest", e)
    BY <2>9, <2>11, Stays
  <2> QED
    BY <2>1, <2>10, <2>12
<1> QED
  BY <1>1, <1>2

LEMMA ProposalKeeps ==
  ASSUME NEW s, NEW sg, NEW rt, Good(s, sg, rt), NEW elected, NEW b, Sequence(b), b # Genesis
  PROVE  Keeps(HandleProposal(s, Me, elected, b), sg, rt, "Proposal", ToSet(VotesFor(s, b)) \cup {Me})
<1> DEFINE e == ToSet(VotesFor(s, b)) \cup {Me}
           stored == [s EXCEPT !.known_blocks = @ \cup {b}]
           voted == [Push(stored, b, Me) EXCEPT !.voted_block = b]
           vote == [kind |-> "Vote", view |-> s.view, block |-> b]
           res == TryNotarize(voted, b)
<1>1. StateOK(s) /\ DOMAIN s = Fields
  BY DEF Good, StateOK
<1>2. /\ DOMAIN stored = Fields /\ stored.notarize_votes = s.notarize_votes
      /\ stored.view = s.view /\ stored.tip = s.tip /\ stored.nullified_count = s.nullified_count
      /\ stored.dummy_sent = s.dummy_sent /\ stored.voted_block = s.voted_block
  BY <1>1 DEF Fields
<1> HIDE DEF stored
<1>3. StateOK(stored) /\ Good(stored, sg, rt)
  BY <1>2, CoreState
<1>4. CASE ViewOf(b) # s.view
  BY <1>4, IgnoredKeeps DEF HandleProposal
<1>5. CASE ViewOf(b) = s.view /\ (Last(b).proposer # elected \/ s.voted_block # Genesis \/ Parent(b) # s.tip)
  <2>1. \E reason : HandleProposal(s, Me, elected, b) = Result(stored, Rejected(reason), <<>>)
    BY <1>5 DEF HandleProposal, stored
  <2> QED
    BY <1>3, <2>1, IgnoredKeeps, ZenonT(60)
<1>6. CASE ViewOf(b) = s.view /\ Last(b).proposer = elected /\ s.voted_block = Genesis /\ Parent(b) = s.tip
  <2>1. HandleProposal(s, Me, elected, b) = [res EXCEPT !.out = <<vote>> \o @]
    BY <1>6 DEF HandleProposal, stored
  <2>2. /\ DOMAIN Push(stored, b, Me) = Fields
        /\ \A f \in Fields \ {"notarize_votes"} : Push(stored, b, Me)[f] = stored[f]
    BY <1>2, PushedVotes
  <2>3. /\ DOMAIN voted = Fields /\ voted.voted_block = b
        /\ voted.view = s.view /\ voted.tip = s.tip /\ voted.nullified_count = s.nullified_count
        /\ voted.dummy_sent = s.dummy_sent /\ voted.notarize_votes = Push(stored, b, Me).notarize_votes
    BY <1>2, <2>2 DEF Fields
  <2>4. vote.kind = "Vote" /\ vote.view = s.view
    OBVIOUS
  <2> HIDE DEF voted, vote
  <2>5. VotesFor(stored, b) = VotesFor(s, b) /\ Me \notin ToSet(VotesFor(s, b))
    BY <1>1, <1>2, <1>6 DEF VotesFor, StateOK
  <2>6. StateOK(voted) /\ Cardinality(e) = Len(VotesFor(voted, b))
    <3>1. Me \notin ToSet(VotesFor(stored, b)) /\ voted.voted_block # Genesis
      BY <2>3, <2>5
    <3>2. voted.view = stored.view /\ voted.tip = stored.tip /\ voted.nullified_count = stored.nullified_count
      BY <1>2, <2>3
    <3>3. StateOK(voted)
      BY <1>3, <2>3, <3>1, <3>2, PushState
    <3>4. VotesFor(voted, b) = Append(VotesFor(s, b), Me) /\ Listed(VotesFor(s, b))
      BY <1>1, <1>3, <2>3, <2>5, <3>1, <3>2, PushState DEF StateOK
    <3>5. Listed(VotesFor(voted, b)) /\ ToSet(VotesFor(voted, b)) = e
      BY <2>5, <3>4, AppendListed
    <3> QED
      BY <3>3, <3>5 DEF Listed
  <2>7. StaySends(s, voted, {vote})
    BY <1>6, <2>3, <2>4 DEF StaySends
  <2>8. Good(voted, sg \cup {vote}, rt)
    BY <2>3, <2>6, <2>7, StayKeeps
  <2>9. Keeps(res, sg \cup {vote}, rt, "Proposal", e)
    <3> HIDE DEF e
    <3> QED
      BY <2>6, <2>8, TryNotarizeKeeps
  <2>10. DOMAIN res = {"state", "transition", "out"} /\ Sequence(res.out)
    BY TryShape
  <2> HIDE DEF res, e
  <2>11. Keeps([res EXCEPT !.out = <<vote>> \o @], sg, rt, "Proposal", e)
    BY <2>9, <2>10, PrefixKeeps
  <2> QED
    BY <2>1, <2>11 DEF e
<1> QED
  BY <1>4, <1>5, <1>6

LEMMA VoteKeeps ==
  ASSUME NEW s, NEW sg, NEW rt, Good(s, sg, rt), NEW h, NEW b, Sequence(b), NEW signer, signer # Me
  PROVE  Keeps(HandleVote(s, h, b, signer), sg, rt, "Vote", ToSet(VotesFor(s, b)) \cup {signer})
<1> DEFINE e == ToSet(VotesFor(s, b)) \cup {signer}
           x == Push(s, b, signer)
<1>1. CASE h # s.view \/ signer \in ToSet(VotesFor(s, b))
  BY <1>1, IgnoredKeeps DEF HandleVote
<1>2. CASE ~(h # s.view \/ signer \in ToSet(VotesFor(s, b)))
  <2>1. StateOK(s) /\ DOMAIN s = Fields
    BY DEF Good, StateOK
  <2>2. DOMAIN x = Fields /\ \A f \in Fields \ {"notarize_votes"} : x[f] = s[f]
    BY <2>1, PushedVotes
  <2>3. /\ x.view = s.view /\ x.tip = s.tip /\ x.nullified_count = s.nullified_count
        /\ x.dummy_sent = s.dummy_sent /\ x.voted_block = s.voted_block
    BY <2>2 DEF Fields
  <2>4. x.notarize_votes = Push(s, b, signer).notarize_votes
    OBVIOUS
  <2>5. HandleVote(s, h, b, signer) = IF b \in s.known_blocks THEN TryNotarize(x, b) ELSE Ignored(x)
    BY <1>2 DEF HandleVote
  <2> HIDE DEF x
  <2>6. StateOK(x) /\ Cardinality(e) = Len(VotesFor(x, b))
    <3>1. signer \notin ToSet(VotesFor(s, b)) /\ (s.voted_block # Genesis => x.voted_block # Genesis)
      BY <1>2, <2>3
    <3>2. StateOK(x)
      BY <2>1, <2>2, <2>3, <2>4, <3>1, PushState
    <3>3. VotesFor(x, b) = Append(VotesFor(s, b), signer) /\ Listed(VotesFor(s, b))
      BY <2>1, <2>2, <2>3, <2>4, <3>1, PushState DEF StateOK
    <3>4. Listed(VotesFor(x, b)) /\ ToSet(VotesFor(x, b)) = e
      BY <3>1, <3>3, AppendListed
    <3> QED
      BY <3>2, <3>4 DEF Listed
  <2>7. StaySends(s, x, {})
    BY DEF StaySends
  <2>8. Good(x, sg \cup {}, rt)
    BY <2>3, <2>6, <2>7, StayKeeps
  <2>9. Good(x, sg, rt)
    BY <2>8
  <2> HIDE DEF e
  <2>10. Keeps(TryNotarize(x, b), sg, rt, "Vote", e)
    BY <2>6, <2>9, TryNotarizeKeeps
  <2>11. Keeps(Ignored(x), sg, rt, "Vote", e)
    BY <2>9, IgnoredKeeps
  <2> QED
    BY <2>5, <2>10, <2>11 DEF e
<1> QED
  BY <1>1, <1>2

LEMMA TimeoutKeeps ==
  ASSUME NEW s, NEW sg, NEW rt, NEW e, Good(s, sg, rt), NEW h
  PROVE  Keeps(HandleTimeout(s, Me, h), sg, rt, "Timeout", e)
<1> DEFINE x == [s EXCEPT !.dummy_sent = TRUE, !.nullify_votes = Append(@, Me)]
           dummy == [kind |-> "NullifyVote", view |-> h]
           res == TryNullify(x)
<1>1. CASE h # s.view \/ s.dummy_sent
  BY <1>1, IgnoredKeeps DEF HandleTimeout
<1>2. CASE ~(h # s.view \/ s.dummy_sent)
  <2>1. HandleTimeout(s, Me, h) = [res EXCEPT !.out = <<dummy>> \o @]
    BY <1>2 DEF HandleTimeout
  <2>2. StateOK(s) /\ DOMAIN s = Fields
    BY DEF Good, StateOK
  <2>3. /\ DOMAIN x = Fields /\ x.notarize_votes = s.notarize_votes
        /\ x.view = s.view /\ x.tip = s.tip /\ x.nullified_count = s.nullified_count
        /\ x.dummy_sent = TRUE /\ x.voted_block = s.voted_block
    BY <2>2 DEF Fields
  <2>4. dummy.kind = "NullifyVote" /\ dummy.view = s.view
    BY <1>2
  <2> HIDE DEF x, dummy
  <2>5. StateOK(x)
    BY <2>3, CoreState
  <2>6. StaySends(s, x, {dummy})
    BY <2>3, <2>4 DEF StaySends
  <2>7. Good(x, sg \cup {dummy}, rt)
    BY <2>3, <2>5, <2>6, StayKeeps
  <2>8. Keeps(res, sg \cup {dummy}, rt, "Timeout", e)
    BY <2>7, TryNullifyKeeps
  <2>9. DOMAIN res = {"state", "transition", "out"} /\ Sequence(res.out)
    BY TryShape
  <2> HIDE DEF res
  <2>10. Keeps([res EXCEPT !.out = <<dummy>> \o @], sg, rt, "Timeout", e)
    BY <2>8, <2>9, PrefixKeeps
  <2> QED
    BY <2>1, <2>10
<1> QED
  BY <1>1, <1>2

LEMMA NullifyVoteKeeps ==
  ASSUME NEW s, NEW sg, NEW rt, NEW e, Good(s, sg, rt), NEW h, NEW signer
  PROVE  Keeps(HandleNullifyVote(s, h, signer), sg, rt, "NullifyVote", e)
<1> DEFINE x == [s EXCEPT !.nullify_votes = Append(@, signer)]
<1>1. CASE h # s.view \/ signer \in ToSet(s.nullify_votes)
  BY <1>1, IgnoredKeeps DEF HandleNullifyVote
<1>2. CASE ~(h # s.view \/ signer \in ToSet(s.nullify_votes))
  <2>1. HandleNullifyVote(s, h, signer) = TryNullify(x)
    BY <1>2 DEF HandleNullifyVote
  <2>2. DOMAIN s = Fields
    BY DEF Good, StateOK
  <2>3. /\ DOMAIN x = Fields /\ x.notarize_votes = s.notarize_votes
        /\ x.view = s.view /\ x.tip = s.tip /\ x.nullified_count = s.nullified_count
        /\ x.dummy_sent = s.dummy_sent /\ x.voted_block = s.voted_block
    BY <2>2 DEF Fields
  <2> HIDE DEF x
  <2>4. Good(x, sg, rt)
    BY <2>3, CoreState
  <2> QED
    BY <2>1, <2>4, TryNullifyKeeps
<1> QED
  BY <1>1, <1>2

(* A finalize quorum changes no view and takes nothing back.                *)
LEMMA FinalizeVoteKeeps ==
  ASSUME NEW s, NEW sg, NEW rt, NEW e, Good(s, sg, rt), NEW h, NEW signer
  PROVE  Keeps(HandleFinalizeVote(s, h, signer), sg, rt, "FinalizeVote", e)
<1> DEFINE x == [s EXCEPT !.finalize_votes = Append(@, signer)]
<1>1. CASE h \notin {s.view, s.view - 1} \/ signer \in ToSet(s.finalize_votes)
  BY <1>1, IgnoredKeeps DEF HandleFinalizeVote
<1>2. CASE ~(h \notin {s.view, s.view - 1} \/ signer \in ToSet(s.finalize_votes))
  <2>1. HandleFinalizeVote(s, h, signer) = TryFinalize(x, h)
    BY <1>2 DEF HandleFinalizeVote
  <2>2. DOMAIN s = Fields
    BY DEF Good, StateOK
  <2>3. /\ DOMAIN x = Fields /\ x.notarize_votes = s.notarize_votes
        /\ x.view = s.view /\ x.tip = s.tip /\ x.nullified_count = s.nullified_count
        /\ x.dummy_sent = s.dummy_sent /\ x.voted_block = s.voted_block
    BY <2>2 DEF Fields
  <2> HIDE DEF x
  <2>4. Good(x, sg, rt)
    BY <2>3, CoreState
  <2>5. CASE Len(x.finalize_votes) < T
    BY <2>1, <2>4, <2>5, IgnoredKeeps DEF TryFinalize
  <2>6. CASE ~(Len(x.finalize_votes) < T)
    <3> DEFINE y == [x EXCEPT !.finalized_count = @ + 1]
               t == [kind |-> "Finalized", view |-> h]
               r == [kind |-> t.kind, view |-> t.view, by |-> "FinalizeVote", evidence |-> e]
    <3>1. TryFinalize(x, h) = Result(y, t, <<>>)
      BY <2>6 DEF TryFinalize
    <3>2. /\ DOMAIN y = Fields /\ y.notarize_votes = x.notarize_votes
          /\ y.view = x.view /\ y.tip = x.tip /\ y.nullified_count = x.nullified_count
          /\ y.dummy_sent = x.dummy_sent /\ y.voted_block = x.voted_block
      BY <2>3 DEF Fields
    <3>3. t.kind = "Finalized" /\ r.kind = "Finalized" /\ After(rt, t, "FinalizeVote", e) = rt \cup {r}
      BY DEF After
    <3> HIDE DEF y, r, t
    <3>4. StateOK(y) /\ Good(y, sg, rt)
      BY <2>4, <3>2, CoreState
    <3>5. ReturnedOK(y, rt \cup {r})
      <4>1. IsFiniteSet(rt \cup {r})
        BY <3>4, FS_AddElement DEF Good, ReturnedOK
      <4>2. {q \in rt \cup {r} : q.kind = "Nullified"} = {q \in rt : q.kind = "Nullified"}
        BY <3>3
      <4>3. \A q \in rt \cup {r} : q.kind \in Left \cup {"Notarized"} => q \in rt
        BY <3>3 DEF Left
      <4> QED
        BY <3>3, <3>4, <4>1, <4>2, <4>3, ZenonT(60) DEF Good, ReturnedOK, Left
    <3>6. Good(y, sg, rt \cup {r})
      BY <3>4, <3>5 DEF Good
    <3>7. PICK res : res = Result(y, t, <<>>)
      OBVIOUS
    <3>8. res.state = y /\ res.transition = t /\ ToSet(res.out) = {}
      BY <3>7, ResultFields, EmptyListed
    <3>9. Keeps(res, sg, rt, "FinalizeVote", e)
      BY <3>3, <3>6, <3>8 DEF Keeps
    <3> QED
      BY <2>1, <3>1, <3>7, <3>9
  <2> QED
    BY <2>5, <2>6
<1> QED
  BY <1>1, <1>2

LEMMA NotarizationKeeps ==
  ASSUME NEW s, NEW sg, NEW rt, NEW e, Good(s, sg, rt), NEW h, NEW b, Sequence(b)
  PROVE  Keeps(HandleNotarization(s, h, b), sg, rt, "Notarization", e)
<1> DEFINE res == Notarized(s, b)
<1>1. CASE h # s.view
  BY <1>1, IgnoredKeeps DEF HandleNotarization
<1>2. CASE h = s.view
  <2>1. HandleNotarization(s, h, b) = res
    BY <1>2 DEF HandleNotarization
  <2>2. /\ DOMAIN res.state = Fields
        /\ res.state.view = s.view + 1 /\ res.state.nullified_count = s.nullified_count
        /\ res.state.tip = b /\ res.state.notarize_votes = <<>>
        /\ res.transition = [kind |-> "Notarized", view |-> s.view]
        /\ LeaveSends(s, ToSet(res.out))
    BY NotarizedIs DEF Good
  <2> HIDE DEF res
  <2> QED
    BY <2>1, <2>2, NotarizedKeeps
<1> QED
  BY <1>1, <1>2

-----------------------------------------------------------------------------
(* A message at a time.                                                     *)

LEMMA MessageKeeps ==
  ASSUME NEW s, NEW sg, NEW rt, Good(s, sg, rt), NEW m, Legal(s, m), NEW elected
  PROVE  Keeps(ApplyMessage(s, Me, elected, m), sg, rt, m.kind, EvidenceAt(s, m))
<1> DEFINE res == ApplyMessage(s, Me, elected, m)
           e == EvidenceAt(s, m)
<1>1. CASE m.kind = "ProposeRequest"
  <2>1. res = HandleProposeRequest(s, Me, elected, m.view, m.payload) /\ s.voted_block = Genesis
    BY <1>1 DEF ApplyMessage, Legal
  <2> HIDE DEF res, e
  <2>2. Keeps(res, sg, rt, "ProposeRequest", e)
    BY <2>1, ProposeRequestKeeps
  <2> QED
    BY <1>1, <2>2 DEF res, e
<1>2. CASE m.kind = "Proposal"
  <2>1. /\ res = HandleProposal(s, Me, elected, m.block) /\ e = ToSet(VotesFor(s, m.block)) \cup {Me}
        /\ Sequence(m.block) /\ m.block # Genesis
    BY <1>2 DEF ApplyMessage, EvidenceAt, Legal
  <2> HIDE DEF res, e
  <2>2. Keeps(res, sg, rt, "Proposal", e)
    BY <2>1, ProposalKeeps
  <2> QED
    BY <1>2, <2>2 DEF res, e
<1>3. CASE m.kind = "Vote"
  <2>1. /\ res = HandleVote(s, m.view, m.block, m.signer)
        /\ e = ToSet(VotesFor(s, m.block)) \cup {m.signer}
        /\ Sequence(m.block) /\ m.signer # Me
    BY <1>3 DEF ApplyMessage, EvidenceAt, Legal
  <2> HIDE DEF res, e
  <2>2. Keeps(res, sg, rt, "Vote", e)
    BY <2>1, VoteKeeps
  <2> QED
    BY <1>3, <2>2 DEF res, e
<1>4. CASE m.kind = "Timeout"
  <2>1. res = HandleTimeout(s, Me, m.view)
    BY <1>4 DEF ApplyMessage
  <2> HIDE DEF res, e
  <2>2. Keeps(res, sg, rt, "Timeout", e)
    BY <2>1, TimeoutKeeps
  <2> QED
    BY <1>4, <2>2 DEF res, e
<1>5. CASE m.kind = "NullifyVote"
  <2>1. res = HandleNullifyVote(s, m.view, m.signer)
    BY <1>5 DEF ApplyMessage
  <2> HIDE DEF res, e
  <2>2. Keeps(res, sg, rt, "NullifyVote", e)
    BY <2>1, NullifyVoteKeeps
  <2> QED
    BY <1>5, <2>2 DEF res, e
<1>6. CASE m.kind = "FinalizeVote"
  <2>1. res = HandleFinalizeVote(s, m.view, m.signer)
    BY <1>6 DEF ApplyMessage
  <2> HIDE DEF res, e
  <2>2. Keeps(res, sg, rt, "FinalizeVote", e)
    BY <2>1, FinalizeVoteKeeps
  <2> QED
    BY <1>6, <2>2 DEF res, e
<1>7. CASE m.kind = "Notarization"
  <2>1. res = HandleNotarization(s, m.view, m.block) /\ Sequence(m.block)
    BY <1>7 DEF ApplyMessage, Legal
  <2> HIDE DEF res, e
  <2>2. Keeps(res, sg, rt, "Notarization", e)
    BY <2>1, NotarizationKeeps
  <2> QED
    BY <1>7, <2>2 DEF res, e
<1> QED
  BY <1>1, <1>2, <1>3, <1>4, <1>5, <1>6, <1>7 DEF Legal

LEMMA NewIsGood == Good(NewReplica, {}, {})
<1> DEFINE s == NewReplica
<1>1. /\ DOMAIN s = Fields /\ s.view = 1 /\ s.nullified_count = 0 /\ s.tip = <<>>
      /\ s.notarize_votes = <<>>
  BY DEF NewReplica, Fields, Genesis
<1> HIDE DEF s
<1>2. \A b : VotesFor(s, b) = <<>>
  BY <1>1 DEF VotesFor
<1>3. StateOK(s)
  BY <1>1, <1>2, EmptyListed DEF StateOK
<1>4. SignedOK(s, {})
  BY DEF SignedOK
<1>5. ReturnedOK(s, {})
  <2>1. IsFiniteSet({}) /\ Cardinality({}) = 0
    BY FS_EmptySet
  <2>2. {r \in {} : r.kind = "Nullified"} = {}
    OBVIOUS
  <2>3. 1..s.view - 1 = {}
    BY <1>1
  <2> QED
    BY <1>1, <2>1, <2>2, <2>3 DEF ReturnedOK
<1>6. Good(s, {}, {})
  BY <1>3, <1>4, <1>5 DEF Good
<1> QED
  BY <1>6 DEF s

(* replica, signed and returned, as the invariant has them.                 *)
Inv == Good(state, sent, returned)

LEMMA AnyStepKeeps == Inv /\ [AnyNext]_<<state, sent, returned>> => Inv'
<1> SUFFICES ASSUME Inv, [AnyNext]_<<state, sent, returned>> PROVE Inv'
  OBVIOUS
<1>1. CASE UNCHANGED <<state, sent, returned>>
  BY <1>1 DEF Inv
<1>2. CASE AnyNext
  <2>1. PICK m, elected : Legal(state, m) /\ AnyDeliver(m, elected)
    BY <1>2 DEF AnyNext
  <2>2. PICK res : res = ApplyMessage(state, Me, elected, m)
    OBVIOUS
  <2>3. Keeps(res, sent, returned, m.kind, EvidenceAt(state, m))
    BY <2>1, <2>2, MessageKeeps DEF Inv
  <2>4. /\ state' = res.state /\ sent' = sent \cup ToSet(res.out)
        /\ returned' = After(returned, res.transition, m.kind, EvidenceAt(state, m))
    BY <2>1, <2>2 DEF AnyDeliver
  <2>5. Good(state', sent', returned')
    BY <2>3, <2>4 DEF Keeps
  <2> QED
    BY <2>5 DEF Inv
<1> QED
  BY <1>1, <1>2

-----------------------------------------------------------------------------
(* What the invariant says.                                                 *)

LEMMA AtMostOne ==
  ASSUME NEW S, \A x, y \in S : x = y
  PROVE  Cardinality(S) <= 1
<1>1. CASE S = {}
  BY <1>1, FS_EmptySet
<1>2. CASE S # {}
  <2>1. PICK x : x \in S
    BY <1>2
  <2>2. S = {x}
    BY <2>1
  <2>3. Cardinality({x}) = 1
    BY FS_Singleton
  <2> QED
    BY <2>2, <2>3
<1> QED
  BY <1>1, <1>2

LEMMA InvImplies == Inv => SignsOnce /\ NotarizedByQuorum /\ ViewsAccounted
<1> SUFFICES ASSUME Inv PROVE SignsOnce /\ NotarizedByQuorum /\ ViewsAccounted
  OBVIOUS
<1>1. VotesOnce
  <2>1. \A h : \A o, q \in Sent("Vote", h) : o = q
    BY DEF Inv, Good, SignedOK, Sent
  <2> QED
    BY <2>1, AtMostOne DEF VotesOnce
<1>2. NeverBoth
  BY DEF Inv, Good, SignedOK, NeverBoth, Sent
<1>3. NotarizedByQuorum
  BY DEF Inv, Good, ReturnedOK, NotarizedByQuorum
<1>4. ViewsAccounted
  <2>1. ASSUME NEW h \in 1..state.view - 1
        PROVE  Cardinality({r.kind : r \in {q \in returned : q.view = h}} \ {"Finalized"}) = 1
    <3> DEFINE kinds == {r.kind : r \in {q \in returned : q.view = h}} \ {"Finalized"}
    <3>1. PICK r \in returned : r.kind \in Left /\ r.view = h
      BY <2>1 DEF Inv, Good, ReturnedOK
    <3>2. r.kind \in kinds
      BY <3>1 DEF Left
    <3>3. ASSUME NEW k \in kinds PROVE k = r.kind
      <4>1. PICK q \in returned : q.view = h /\ q.kind = k /\ k # "Finalized"
        OBVIOUS
      <4>2. q.kind \in Left
        BY <4>1 DEF Inv, Good, ReturnedOK
      <4> QED
        BY <3>1, <4>1, <4>2 DEF Inv, Good, ReturnedOK
    <3> HIDE DEF kinds
    <3>4. kinds = {r.kind}
      BY <3>2, <3>3
    <3>5. Cardinality({r.kind}) = 1
      BY FS_Singleton
    <3> QED
      BY <3>4, <3>5 DEF kinds
  <2> QED
    BY <2>1 DEF Inv, Good, ReturnedOK, ViewsAccounted
<1> QED
  BY <1>1, <1>2, <1>3, <1>4 DEF SignsOnce

(* The caller of the runs is such a caller: its leader's blocks extend the
   replica's tip or Genesis, and nobody else signs for the replica.         *)
LEMMA CallerIsLegal == Inv /\ [CallerNext]_callerVars => [AnyNext]_<<state, sent, returned>>
<1> SUFFICES ASSUME Inv, [CallerNext]_callerVars PROVE [AnyNext]_<<state, sent, returned>>
  OBVIOUS
<1>1. \A m : Legal(state, m) /\ HandOver(m) => AnyNext
  <2> SUFFICES ASSUME NEW m, Legal(state, m), HandOver(m) PROVE AnyDeliver(m, Leader)
    BY DEF AnyNext
  <2>1. Evidence(m) = EvidenceAt(state, m)
    BY DEF Evidence, EvidenceAt
  <2> QED
    BY <2>1 DEF HandOver, AnyDeliver, After
<1>2. \A b \in Blocks : Sequence(b) /\ b # Genesis
  <2> SUFFICES ASSUME NEW b \in Blocks PROVE Sequence(b) /\ b # Genesis
    OBVIOUS
  <2>1. PICK tip, entry : b = Append(tip, entry) /\ tip \in {state.tip, Genesis}
    <3>1. PICK fork \in {<<state.tip, "block">>, <<state.tip, "equivocation">>, <<Genesis, "block">>} :
            b = Append(fork[1], [view |-> state.view, payload |-> fork[2], proposer |-> Leader])
      BY DEF Blocks
    <3>2. fork[1] \in {state.tip, Genesis}
      OBVIOUS
    <3> QED
      BY <3>1, <3>2
  <2>2. Sequence(tip)
    BY <2>1, EmptyListed DEF Inv, Good, StateOK, Genesis
  <2>3. PICK S : tip \in Seq(S)
    BY <2>2 DEF Sequence
  <2>4. tip \in Seq(S \cup {entry}) /\ entry \in S \cup {entry}
    BY <2>3
  <2>5. b \in Seq(S \cup {entry}) /\ Len(b) = Len(tip) + 1 /\ Len(tip) \in Nat
    BY <2>1, <2>4
  <2> QED
    BY <2>5 DEF Sequence, Genesis
<1>3. \A list : \A signer \in Signers(list) : signer # Me
  BY DEF Signers, Newcomers
<1>4. CASE AskToPropose
  <2>1. PICK payload : HandOver([kind |-> "ProposeRequest", view |-> state.view, payload |-> payload])
    BY <1>4 DEF AskToPropose
  <2>2. Legal(state, [kind |-> "ProposeRequest", view |-> state.view, payload |-> payload])
    BY <1>4 DEF AskToPropose, Legal
  <2> QED
    BY <1>1, <2>1, <2>2
<1>5. CASE SendProposal
  <2>1. PICK b \in Blocks : HandOver([kind |-> "Proposal", block |-> b])
    BY <1>5 DEF SendProposal
  <2>2. Legal(state, [kind |-> "Proposal", block |-> b])
    BY <1>2, <2>1 DEF Legal
  <2> QED
    BY <1>1, <2>1, <2>2
<1>6. CASE SendVote
  <2>1. PICK b \in Blocks : \E signer \in Signers(VotesFor(state, b)) :
          HandOver([kind |-> "Vote", view |-> state.view, block |-> b, signer |-> signer])
    BY <1>6 DEF SendVote
  <2>a. PICK signer \in Signers(VotesFor(state, b)) :
          HandOver([kind |-> "Vote", view |-> state.view, block |-> b, signer |-> signer])
    BY <2>1
  <2>2. Legal(state, [kind |-> "Vote", view |-> state.view, block |-> b, signer |-> signer])
    BY <1>2, <1>3, <2>1, <2>a DEF Legal
  <2> QED
    BY <1>1, <2>a, <2>2
<1>7. CASE SendTimeout
  <2>1. Legal(state, [kind |-> "Timeout", view |-> state.view])
    BY DEF Legal
  <2> QED
    BY <1>1, <1>7, <2>1 DEF SendTimeout
<1>8. CASE SendNullifyVote
  <2>1. \A signer : Legal(state, [kind |-> "NullifyVote", view |-> state.view, signer |-> signer])
    BY DEF Legal
  <2> QED
    BY <1>1, <1>8, <2>1 DEF SendNullifyVote
<1>9. CASE SendFinalizeVote
  <2>1. \A h, signer : Legal(state, [kind |-> "FinalizeVote", view |-> h, signer |-> signer])
    BY DEF Legal
  <2> QED
    BY <1>1, <1>9, <2>1 DEF SendFinalizeVote
<1>10. CASE SendNotarization
  <2>1. PICK b \in Blocks : HandOver([kind |-> "Notarization", view |-> state.view, block |-> b])
    BY <1>10 DEF SendNotarization
  <2>2. Legal(state, [kind |-> "Notarization", view |-> state.view, block |-> b])
    BY <1>2, <2>1 DEF Legal
  <2> QED
    BY <1>1, <2>1, <2>2
<1>11. CASE UNCHANGED callerVars
  BY <1>11 DEF callerVars
<1> QED
  BY <1>4, <1>5, <1>6, <1>7, <1>8, <1>9, <1>10, <1>11 DEF CallerNext

-----------------------------------------------------------------------------
(* replica.rs:7-8, "The caller is responsible for delivering messages and triggering
   timeouts": whatever it delivers, and whenever, the replica signs once
   (replica.rs:24-29), a block it notarizes by votes has a quorum of them
   (replica.rs:520-521) and each view it leaves is told of once (advance_view). *)
THEOREM AnyCaller == AnySpec => [](SignsOnce /\ NotarizedByQuorum /\ ViewsAccounted)
<1>1. state = NewReplica /\ sent = {} /\ returned = {} => Inv
  BY NewIsGood DEF Inv
<1> QED
  BY <1>1, AnyStepKeeps, InvImplies, PTL DEF AnySpec

LEMMA Invariant == CallerSpec => []Inv
<1>1. CallerInit => Inv
  BY NewIsGood DEF CallerInit, Inv
<1>2. Inv /\ [CallerNext]_callerVars => Inv'
  BY CallerIsLegal, AnyStepKeeps
<1> QED
  BY <1>1, <1>2, PTL DEF CallerSpec

(* Lemmas 3.2 and 3.3 (replica.rs:24-29): one vote for a block in a view, and never
   both a finalize vote and a dummy vote, by the flags that advance_view resets. *)
THEOREM Signs == CallerSpec => []SignsOnce
BY Invariant, InvImplies, PTL

(* replica.rs:520-521: a block is notarized by the votes of T "unique processes",
   for the list of its votes has nobody twice.                              *)
THEOREM Quorums == CallerSpec => []NotarizedByQuorum
BY Invariant, InvImplies, PTL

(* advance_view (replica.rs:639): a view is left once, notarized or nullified, and
   nullified_count counts the nullified ones.                               *)
THEOREM Accounts == CallerSpec => []ViewsAccounted
BY Invariant, InvImplies, PTL

-----------------------------------------------------------------------------
(* Sequences: a set that has 0 and with each number the next has all; what
   FlattenSeq puts in order.                                                *)

LEMMA AllNumbers ==
  ASSUME NEW A, 0 \in A, \A n \in Nat : n \in A => n + 1 \in A
  PROVE  \A n \in Nat : n \in A
<1> DEFINE Missing == {n \in Nat : n \notin A}
           Less == OpToRel(<, Nat)
<1> SUFFICES ASSUME Missing # {} PROVE FALSE
  OBVIOUS
<1>1. PICK n \in Missing : \A m \in Missing : ~(<<m, n>> \in Less)
  <2> HIDE DEF Missing, Less
  <2>1. IsWellFoundedOn(Less, Nat)
    BY NatLessThanWellFounded DEF Less
  <2>2. Missing \subseteq Nat
    BY DEF Missing
  <2> QED
    BY <2>1, <2>2, WFMin, Zenon
<1>2. n \in Nat /\ n # 0 /\ n - 1 \in Nat /\ n - 1 < n /\ n = (n - 1) + 1
  OBVIOUS
<1>3. <<n - 1, n>> \in Less
  BY <1>2 DEF OpToRel
<1>4. n - 1 \in A
  BY <1>1, <1>2, <1>3
<1> QED
  BY <1>2, <1>4

LEMMA SetOf == ASSUME NEW A, NEW q \in Seq(A)
               PROVE  ToSet(q) = {q[i] : i \in 1..Len(q)} /\ ToSet(q) \subseteq A /\ Len(q) \in Nat
BY DEF ToSet

LEMMA EmptyIs == ASSUME NEW A, NEW q \in Seq(A), Len(q) = 0
                 PROVE  q = <<>>
OBVIOUS

LEMMA ConcatIs ==
  ASSUME NEW A, NEW p \in Seq(A), NEW q \in Seq(A)
  PROVE  p \o q \in Seq(A) /\ ToSet(p \o q) = ToSet(p) \cup ToSet(q) /\ Len(p \o q) = Len(p) + Len(q)
<1>1. PICK r : r = p \o q
  OBVIOUS
<1>2. /\ r \in Seq(A) /\ Len(r) = Len(p) + Len(q) /\ Len(p) \in Nat /\ Len(q) \in Nat
      /\ \A i \in 1..Len(p) + Len(q) : r[i] = IF i <= Len(p) THEN p[i] ELSE q[i - Len(p)]
  BY <1>1
<1>3. /\ ToSet(r) = {r[i] : i \in 1..Len(r)}
      /\ ToSet(p) = {p[k] : k \in 1..Len(p)} /\ ToSet(q) = {q[k] : k \in 1..Len(q)}
  BY <1>2, SetOf
<1>4. ASSUME NEW x \in ToSet(p) \cup ToSet(q) PROVE x \in ToSet(r)
  <2>1. CASE x \in ToSet(p)
    <3>1. PICK i \in 1..Len(p) : x = p[i]
      BY <2>1, <1>3
    <3>2. i \in 1..Len(r) /\ r[i] = x
      BY <1>2, <3>1
    <3> QED
      BY <1>3, <3>2
  <2>2. CASE x \in ToSet(q)
    <3>1. PICK i \in 1..Len(q) : x = q[i]
      BY <2>2, <1>3
    <3>2. /\ i + Len(p) \in 1..Len(p) + Len(q) /\ ~(i + Len(p) <= Len(p))
          /\ (i + Len(p)) - Len(p) = i
      BY <1>2, <3>1
    <3>3. i + Len(p) \in 1..Len(r) /\ r[i + Len(p)] = x
      BY <1>2, <3>1, <3>2
    <3> QED
      BY <1>3, <3>3
  <2> QED
    BY <1>4, <2>1, <2>2
<1>5. ASSUME NEW x \in ToSet(r) PROVE x \in ToSet(p) \cup ToSet(q)
  <2>1. PICK i \in 1..Len(r) : x = r[i]
    BY <1>3, <1>5
  <2>2. CASE i <= Len(p)
    <3>1. i \in 1..Len(p) /\ x = p[i]
      BY <1>2, <2>1, <2>2
    <3> QED
      BY <1>3, <3>1
  <2>3. CASE ~(i <= Len(p))
    <3>1. i - Len(p) \in 1..Len(q) /\ x = q[i - Len(p)]
      BY <1>2, <2>1, <2>3
    <3> QED
      BY <1>3, <3>1
  <2> QED
    BY <2>2, <2>3
<1> QED
  BY <1>1, <1>2, <1>4, <1>5

LEMMA TailIs ==
  ASSUME NEW A, NEW q \in Seq(A), q # <<>>
  PROVE  /\ Head(q) \in ToSet(q) /\ Head(q) \in A
         /\ Tail(q) \in Seq(A) /\ Len(Tail(q)) = Len(q) - 1
         /\ ToSet(q) = ToSet(Tail(q)) \cup {Head(q)}
<1>1. /\ Head(q) = q[1] /\ 1 \in 1..Len(q) /\ Tail(q) \in Seq(A) /\ Len(Tail(q)) = Len(q) - 1 /\ Len(q) \in Nat
      /\ \A i \in 1..Len(q) - 1 : Tail(q)[i] = q[i + 1]
  OBVIOUS
<1>2. ToSet(q) = {q[i] : i \in 1..Len(q)} /\ ToSet(Tail(q)) = {Tail(q)[i] : i \in 1..Len(q) - 1}
  BY <1>1, SetOf
<1>3. ASSUME NEW x \in ToSet(q) PROVE x \in ToSet(Tail(q)) \cup {Head(q)}
  <2>1. PICK i \in 1..Len(q) : x = q[i]
    BY <1>2
  <2>2. i = 1 \/ (i - 1 \in 1..Len(q) - 1 /\ Tail(q)[i - 1] = x)
    BY <1>1, <2>1
  <2> QED
    BY <1>1, <1>2, <2>1, <2>2
<1>4. ASSUME NEW x \in ToSet(Tail(q)) PROVE x \in ToSet(q)
  <2>1. PICK i \in 1..Len(q) - 1 : x = Tail(q)[i]
    BY <1>2
  <2>2. i + 1 \in 1..Len(q) /\ x = q[i + 1]
    BY <1>1, <2>1
  <2> QED
    BY <1>2, <2>2
<1>5. Head(q) \in ToSet(q) /\ Head(q) \in A
  BY <1>1, <1>2
<1> QED
  BY <1>1, <1>3, <1>4, <1>5

(* What FlattenSeq has put together after each of the sequences.            *)
Joins(ss, A, h) ==
  /\ h \in [0..Len(ss) -> Seq(A)] /\ h[0] = <<>>
  /\ \A k \in 1..Len(ss) : h[k] = h[k - 1] \o ss[k]

LEMMA JoinExists ==
  ASSUME NEW A, NEW ss \in Seq(Seq(A))
  PROVE  \E h : Joins(ss, A, h)
<1> DEFINE n == Len(ss)
           Upto(h, m) == \A k \in 1..n : k <= m => h[k] = h[k - 1] \o ss[k]
           Made(m) == \E h \in [0..n -> Seq(A)] : h[0] = <<>> /\ Upto(h, m)
           B == {m \in Nat : Made(m)}
<1>0. n \in Nat /\ \A k \in 1..n : ss[k] \in Seq(A)
  OBVIOUS
<1>1. 0 \in B
  <2>1. [k \in 0..n |-> <<>>] \in [0..n -> Seq(A)] /\ [k \in 0..n |-> <<>>][0] = <<>>
    BY <1>0
  <2>2. Upto([k \in 0..n |-> <<>>], 0)
    BY <1>0
  <2> HIDE DEF Upto, n
  <2> QED
    BY <2>1, <2>2
<1>2. ASSUME NEW m \in Nat, m \in B
      PROVE  m + 1 \in B
  <2>1. PICK h \in [0..n -> Seq(A)] : h[0] = <<>> /\ Upto(h, m)
    BY <1>2
  <2> DEFINE j == [k \in 0..n |-> IF k = m + 1 THEN h[k - 1] \o ss[k] ELSE h[k]]
  <2>2. j \in [0..n -> Seq(A)] /\ j[0] = <<>>
    <3>1. ASSUME NEW k \in 0..n PROVE (IF k = m + 1 THEN h[k - 1] \o ss[k] ELSE h[k]) \in Seq(A)
      <4>1. CASE k = m + 1
        <5>1. k - 1 \in 0..n /\ k \in 1..n
          BY <1>0, <4>1
        <5>2. h[k - 1] \in Seq(A) /\ ss[k] \in Seq(A)
          BY <1>0, <5>1
        <5> QED
          BY <4>1, <5>2
      <4> QED
        BY <4>1
    <3>2. 0 \in 0..n /\ 0 # m + 1
      BY <1>0
    <3> HIDE DEF n
    <3> QED
      BY <3>1, <3>2, <2>1
  <2>3. Upto(j, m + 1)
    <3> SUFFICES ASSUME NEW k \in 1..n, k <= m + 1
                 PROVE  j[k] = j[k - 1] \o ss[k]
      OBVIOUS
    <3>1. k \in 0..n /\ k - 1 \in 0..n /\ k - 1 # m + 1
      BY <1>0
    <3>2. j[k - 1] = h[k - 1]
      BY <3>1
    <3>3. CASE k = m + 1
      BY <3>1, <3>2, <3>3
    <3>4. CASE k # m + 1
      <4>1. j[k] = h[k] /\ k <= m
        BY <3>1, <3>4
      <4>2. h[k] = h[k - 1] \o ss[k]
        BY <2>1, <4>1
      <4> QED
        BY <4>1, <4>2, <3>2
    <3> QED
      BY <3>3, <3>4
  <2>4. Made(m + 1)
    <3> HIDE DEF j, Upto, n
    <3> QED
      BY <2>2, <2>3
  <2> HIDE DEF Made
  <2> QED
    BY <2>4
<1>3. n \in B
  <2> HIDE DEF B
  <2> QED
    BY <1>0, <1>1, <1>2, AllNumbers
<1>4. PICK h \in [0..n -> Seq(A)] : h[0] = <<>> /\ Upto(h, n)
  BY <1>3
<1>5. ASSUME NEW k \in 1..n PROVE h[k] = h[k - 1] \o ss[k]
  <2>1. k <= n
    BY <1>0
  <2> HIDE DEF n
  <2> QED
    BY <1>4, <2>1
<1>6. Joins(ss, A, h)
  BY <1>4, <1>5, Zenon DEF Joins
<1> QED
  BY <1>6

LEMMA FlattenJoins ==
  ASSUME NEW A, NEW ss \in Seq(Seq(A)), NEW h, Joins(ss, A, h)
  PROVE  FlattenSeq(ss) = h[Len(ss)]
<1>1. PICK n \in Nat : n = Len(ss) /\ \A k \in 1..n : ss[k] \in Seq(A)
  <2>1. Len(ss) \in Nat /\ \A k \in 1..Len(ss) : ss[k] \in Seq(A)
    OBVIOUS
  <2> QED
    BY <2>1
<1>a. h[0] = <<>> /\ \A k \in 1..n : h[k] = h[k - 1] \o ss[k]
  BY <1>1, Zenon DEF Joins
<1>2. CASE n = 0
  <2>1. ss = <<>>
    BY <1>1, <1>2, EmptyIs
  <2>2. h[n] = <<>>
    BY <1>2, <1>a
  <2> QED
    BY <1>1, <1>2, <2>1, <2>2 DEF FlattenSeq
<1>3. CASE n # 0
  <2> DEFINE Round(f) == [i \in 1..Len(ss) |-> IF i = 1 THEN ss[i] ELSE f[i - 1] \o ss[i]]
             joined == CHOOSE f : f = Round(f)
             mine == [i \in 1..n |-> h[i]]
  <2>1. mine = Round(mine)
    <3>1. ASSUME NEW i \in 1..n
          PROVE  mine[i] = IF i = 1 THEN ss[i] ELSE mine[i - 1] \o ss[i]
      <4>1. h[i] = h[i - 1] \o ss[i] /\ ss[i] \in Seq(A)
        BY <1>1, <1>a
      <4>2. CASE i = 1
        <5>1. h[i - 1] = <<>> /\ <<>> \o ss[i] = ss[i]
          BY <1>a, <4>1, <4>2
        <5> QED
          BY <4>1, <4>2, <5>1
      <4>3. CASE i # 1
        <5>1. i - 1 \in 1..n
          BY <4>3
        <5> QED
          BY <4>1, <4>3, <5>1
      <4> QED
        BY <4>2, <4>3
    <3> QED
      BY <1>1, <3>1
  <2>2. joined = Round(joined)
    BY <2>1
  <2>3. FlattenSeq(ss) = joined[n]
    BY <1>1, <1>3 DEF FlattenSeq
  <2> HIDE DEF joined
  <2>4. \A i \in 1..n : joined[i] = IF i = 1 THEN ss[i] ELSE joined[i - 1] \o ss[i]
    BY <1>1, <2>2
  <2> DEFINE B == {k \in Nat : k + 1 \in 1..n => joined[k + 1] = h[k + 1]}
  <2>5. 0 \in B
    <3>1. 1 \in 1..n
      BY <1>3
    <3>2. h[1] = h[1 - 1] \o ss[1] /\ 1 - 1 = 0 /\ h[0] = <<>> /\ ss[1] \in Seq(A)
      <4>1. ss[1] \in Seq(A)
        BY <1>1, <3>1
      <4>2. h[1] = h[1 - 1] \o ss[1]
        BY <1>a, <3>1
      <4> QED
        BY <4>1, <4>2, <1>a
    <3>3. joined[1] = ss[1]
      BY <2>4, <3>1
    <3>4. h[1] = <<>> \o ss[1]
      BY <3>2
    <3>5. <<>> \o ss[1] = ss[1]
      BY <3>2
    <3>6. joined[0 + 1] = h[0 + 1]
      BY <3>3, <3>4, <3>5
    <3> HIDE DEF joined
    <3> QED
      BY <3>6
  <2>6. ASSUME NEW k \in Nat, k \in B PROVE k + 1 \in B
    <3>1. SUFFICES ASSUME (k + 1) + 1 \in 1..n PROVE joined[(k + 1) + 1] = h[(k + 1) + 1]
      OBVIOUS
    <3>2. PICK i \in 1..n : i = (k + 1) + 1 /\ i # 1 /\ i - 1 = k + 1 /\ k + 1 \in 1..n
      BY <3>1
    <3>3. joined[k + 1] = h[k + 1]
      BY <2>6, <3>2
    <3>4. h[i] = h[i - 1] \o ss[i] /\ joined[i] = joined[i - 1] \o ss[i]
      BY <1>a, <2>4, <3>2
    <3> QED
      BY <3>2, <3>3, <3>4
  <2>7. n - 1 \in Nat /\ (n - 1) + 1 = n /\ n \in 1..n
    BY <1>3
  <2>8. n - 1 \in B
    <3> HIDE DEF B
    <3> QED
      BY <2>5, <2>6, <2>7, AllNumbers
  <2> QED
    BY <1>1, <2>3, <2>7, <2>8
<1> QED
  BY <1>2, <1>3

LEMMA FlattenIs ==
  ASSUME NEW A, NEW ss \in Seq(Seq(A))
  PROVE  /\ FlattenSeq(ss) \in Seq(A)
         /\ ToSet(FlattenSeq(ss)) = UNION {ToSet(ss[k]) : k \in 1..Len(ss)}
<1>1. PICK h : Joins(ss, A, h)
  BY JoinExists
<1>2. PICK n \in Nat : n = Len(ss) /\ \A k \in 1..n : ss[k] \in Seq(A)
  <2>1. Len(ss) \in Nat /\ \A k \in 1..Len(ss) : ss[k] \in Seq(A)
    OBVIOUS
  <2> QED
    BY <2>1
<1>3. h \in [0..n -> Seq(A)] /\ h[0] = <<>> /\ \A k \in 1..n : h[k] = h[k - 1] \o ss[k]
  BY <1>1, <1>2, Zenon DEF Joins
<1> DEFINE Holds(k) == ToSet(h[k]) = UNION {ToSet(ss[i]) : i \in 1..k}
           B == {k \in Nat : k \in 0..n => Holds(k)}
<1>4. 0 \in B
  <2>1. ToSet(h[0]) = {}
    BY <1>3 DEF ToSet
  <2>2. UNION {ToSet(ss[i]) : i \in 1..0} = {}
    OBVIOUS
  <2>3. Holds(0)
    BY <2>1, <2>2, Zenon
  <2> HIDE DEF Holds
  <2> QED
    BY <2>3
<1>5. ASSUME NEW k \in Nat, k \in B PROVE k + 1 \in B
  <2>1. SUFFICES ASSUME k + 1 \in 0..n PROVE Holds(k + 1)
    OBVIOUS
  <2>2. k \in 0..n /\ k + 1 \in 1..n /\ (k + 1) - 1 = k /\ 1..k + 1 = (1..k) \cup {k + 1}
    BY <1>2, <2>1
  <2>3. h[k] \in Seq(A) /\ ss[k + 1] \in Seq(A) /\ h[k + 1] = h[k] \o ss[k + 1]
    <3>1. h[k + 1] = h[(k + 1) - 1] \o ss[k + 1]
      BY <1>3, <2>2
    <3> QED
      BY <1>2, <1>3, <2>2, <3>1
  <2>4. ToSet(h[k + 1]) = ToSet(h[k]) \cup ToSet(ss[k + 1])
    BY <2>3, ConcatIs
  <2>5. Holds(k)
    BY <1>5, <2>2
  <2> QED
    BY <2>2, <2>4, <2>5
<1>6. n \in B
  <2> HIDE DEF B
  <2> QED
    BY <1>4, <1>5, AllNumbers
<1>7. FlattenSeq(ss) = h[n]
  BY <1>1, <1>2, FlattenJoins
<1>8. Holds(n) /\ h[n] \in Seq(A)
  BY <1>2, <1>3, <1>6
<1> QED
  BY <1>2, <1>7, <1>8

(* Sequences of at most w each.                                             *)
LEMMA FlattenLength ==
  ASSUME NEW A, NEW ss \in Seq(Seq(A)), NEW w \in Nat, \A k \in 1..Len(ss) : Len(ss[k]) <= w
  PROVE  Len(FlattenSeq(ss)) <= Len(ss) * w
<1>1. PICK h : Joins(ss, A, h)
  BY JoinExists
<1>2. PICK n \in Nat : n = Len(ss) /\ \A k \in 1..n : ss[k] \in Seq(A)
  <2>1. Len(ss) \in Nat /\ \A k \in 1..Len(ss) : ss[k] \in Seq(A)
    OBVIOUS
  <2> QED
    BY <2>1
<1>3. h \in [0..n -> Seq(A)] /\ h[0] = <<>> /\ \A k \in 1..n : h[k] = h[k - 1] \o ss[k]
  BY <1>1, <1>2, Zenon DEF Joins
<1> DEFINE B == {k \in Nat : k \in 0..n => Len(h[k]) <= k * w}
<1>4. 0 \in B
  BY <1>3
<1>5. ASSUME NEW k \in Nat, k \in B PROVE k + 1 \in B
  <2>1. SUFFICES ASSUME k + 1 \in 0..n PROVE Len(h[k + 1]) <= (k + 1) * w
    OBVIOUS
  <2>2. k \in 0..n /\ k + 1 \in 1..n /\ (k + 1) - 1 = k
    BY <1>2, <2>1
  <2>3. h[k] \in Seq(A) /\ ss[k + 1] \in Seq(A) /\ h[k + 1] = h[k] \o ss[k + 1]
    <3>1. h[k + 1] = h[(k + 1) - 1] \o ss[k + 1]
      BY <1>3, <2>2
    <3> QED
      BY <1>2, <1>3, <2>2, <3>1
  <2>4. Len(h[k + 1]) = Len(h[k]) + Len(ss[k + 1]) /\ Len(h[k]) \in Nat /\ Len(ss[k + 1]) \in Nat
    BY <2>3, ConcatIs
  <2>5. Len(h[k]) <= k * w /\ Len(ss[k + 1]) <= w
    BY <1>2, <1>5, <2>2
  <2>6. PICK kw \in Nat : kw = k * w
    OBVIOUS
  <2>7. (k + 1) * w = kw + w
    BY <2>6
  <2>8. Len(h[k + 1]) <= kw + w
    <3>1. PICK a \in Nat, b \in Nat : a = Len(h[k]) /\ b = Len(ss[k + 1])
      BY <2>4
    <3>2. a <= kw /\ b <= w /\ Len(h[k + 1]) = a + b
      BY <2>4, <2>5, <2>6, <3>1
    <3> QED
      BY <3>2
  <2> QED
    BY <2>7, <2>8, Zenon
<1>6. n \in B
  <2> HIDE DEF B
  <2> QED
    BY <1>4, <1>5, AllNumbers
<1>7. FlattenSeq(ss) = h[n]
  BY <1>1, <1>2, FlattenJoins
<1>8. Len(h[n]) <= n * w
  BY <1>6
<1> QED
  BY <1>2, <1>7, <1>8


LEMMA SequenceOfSet ==
  ASSUME NEW q, Sequence(q)
  PROVE  /\ q \in Seq(ToSet(q)) /\ Len(q) \in Nat /\ DOMAIN q = 1..Len(q)
         /\ \A A : ToSet(q) \subseteq A => q \in Seq(A)
<1>1. PICK S : q \in Seq(S)
  BY DEF Sequence
<1>2. Len(q) \in Nat /\ DOMAIN q = 1..Len(q) /\ ToSet(q) = {q[i] : i \in 1..Len(q)} /\ q \in [1..Len(q) -> S]
  BY <1>1, SetOf
<1>3. ASSUME NEW A, ToSet(q) \subseteq A PROVE q \in Seq(A)
  <2>1. \A i \in 1..Len(q) : q[i] \in A
    BY <1>2, <1>3
  <2>2. q \in [1..Len(q) -> A]
    BY <1>2, <2>1
  <2> QED
    BY <1>2, <2>2
<1> QED
  BY <1>2, <1>3

LEMMA ConcatSequence ==
  ASSUME NEW p, NEW q, Sequence(p), Sequence(q)
  PROVE  Sequence(p \o q) /\ ToSet(p \o q) = ToSet(p) \cup ToSet(q) /\ Len(p \o q) = Len(p) + Len(q)
<1>1. PICK A : p \in Seq(A) /\ q \in Seq(A)
  BY SequenceOfSet, ToSet(p) \subseteq ToSet(p) \cup ToSet(q), ToSet(q) \subseteq ToSet(p) \cup ToSet(q)
<1> QED
  BY <1>1, ConcatIs DEF Sequence

LEMMA TailSequence ==
  ASSUME NEW q, Sequence(q), q # <<>>
  PROVE  /\ Sequence(Tail(q)) /\ Len(Tail(q)) = Len(q) - 1 /\ Len(q) \in Nat
         /\ Head(q) \in ToSet(q) /\ ToSet(q) = ToSet(Tail(q)) \cup {Head(q)}
<1>1. PICK A : q \in Seq(A)
  BY DEF Sequence
<1> QED
  BY <1>1, TailIs DEF Sequence

LEMMA FlattenSequence ==
  ASSUME NEW n \in Nat, NEW ss, ss = [k \in 1..n |-> ss[k]], \A k \in 1..n : Sequence(ss[k])
  PROVE  /\ Sequence(FlattenSeq(ss))
         /\ ToSet(FlattenSeq(ss)) = UNION {ToSet(ss[k]) : k \in 1..n}
         /\ \A w \in Nat : (\A k \in 1..n : Len(ss[k]) <= w) => Len(FlattenSeq(ss)) <= n * w
<1> DEFINE A == UNION {ToSet(ss[k]) : k \in 1..n}
<1>1. \A k \in 1..n : ss[k] \in Seq(A)
  BY SequenceOfSet
<1>2. PICK V : V = Seq(A)
  OBVIOUS
<1>3. ss \in Seq(V) /\ Len(ss) = n
  <2>1. ss \in [1..n -> V]
    BY <1>1, <1>2
  <2> QED
    BY <2>1
<1>4. ss \in Seq(Seq(A))
  BY <1>2, <1>3
<1>5. /\ FlattenSeq(ss) \in Seq(A)
      /\ ToSet(FlattenSeq(ss)) = UNION {ToSet(ss[k]) : k \in 1..Len(ss)}
  BY <1>4, FlattenIs
<1>6. ASSUME NEW w \in Nat, \A k \in 1..n : Len(ss[k]) <= w PROVE Len(FlattenSeq(ss)) <= n * w
  <2>1. Len(FlattenSeq(ss)) <= Len(ss) * w
    BY <1>3, <1>4, <1>6, FlattenLength
  <2> QED
    BY <1>3, <2>1
<1>7. Sequence(FlattenSeq(ss))
  BY <1>5 DEF Sequence
<1>8. ToSet(FlattenSeq(ss)) = UNION {ToSet(ss[k]) : k \in 1..n}
  BY <1>3, <1>5, Zenon
<1> QED
  BY <1>6, <1>7, <1>8

(* Of many sequences at most one is not empty.                              *)
LEMMA FlattenOne ==
  ASSUME NEW n \in Nat, NEW ss, ss = [k \in 1..n |-> ss[k]], \A k \in 1..n : Sequence(ss[k]),
         NEW w \in Nat, \A k \in 1..n : Len(ss[k]) <= w,
         \A i, j \in 1..n : i # j => ss[i] = <<>> \/ ss[j] = <<>>
  PROVE  Len(FlattenSeq(ss)) <= w
<1> DEFINE A == UNION {ToSet(ss[k]) : k \in 1..n}
<1>1. \A k \in 1..n : ss[k] \in Seq(A)
  BY SequenceOfSet
<1>2. ss \in Seq(Seq(A)) /\ Len(ss) = n
  <2>1. PICK V : V = Seq(A)
    OBVIOUS
  <2>2. ss \in [1..n -> V]
    BY <1>1, <2>1
  <2>3. ss \in Seq(V) /\ Len(ss) = n
    BY <2>2
  <2> QED
    BY <2>1, <2>3
<1> HIDE DEF A
<1>3. PICK h : Joins(ss, A, h)
  BY <1>2, JoinExists
<1>4. /\ FlattenSeq(ss) = h[n] /\ h \in [0..n -> Seq(A)] /\ h[0] = <<>>
      /\ \A k \in 1..n : h[k] = h[k - 1] \o ss[k]
  BY <1>2, <1>3, FlattenJoins, Zenon DEF Joins
<1> DEFINE Short(k) == Len(h[k]) <= w /\ (h[k] = <<>> \/ \A i \in k + 1..n : ss[i] = <<>>)
           B == {k \in Nat : k \in 0..n => Short(k)}
<1>5. 0 \in B
  <2>1. Len(<<>>) = 0
    OBVIOUS
  <2> QED
    BY <1>4, <2>1
<1>6. ASSUME NEW k \in Nat, k \in B PROVE k + 1 \in B
  <2>1. SUFFICES ASSUME k + 1 \in 0..n PROVE Short(k + 1)
    <3> HIDE DEF Short
    <3> QED
      OBVIOUS
  <2>2. k \in 0..n /\ k + 1 \in 1..n /\ (k + 1) - 1 = k
    BY <2>1
  <2>3. h[k] \in Seq(A) /\ ss[k + 1] \in Seq(A) /\ h[k + 1] = h[k] \o ss[k + 1]
    <3>1. h[k + 1] = h[(k + 1) - 1] \o ss[k + 1]
      BY <1>4, <2>2
    <3> QED
      BY <1>1, <1>4, <2>2, <3>1
  <2>4. Len(h[k]) <= w /\ (h[k] = <<>> \/ \A i \in k + 1..n : ss[i] = <<>>)
    BY <1>6, <2>2
  <2>5. CASE ss[k + 1] = <<>>
    <3>0. PICK p \in Seq(A) : p = h[k]
      BY <2>3
    <3>3. p \o <<>> = p
      OBVIOUS
    <3>1. h[k + 1] = h[k]
      BY <2>3, <2>5, <3>0, <3>3
    <3>2. \A i \in (k + 1) + 1..n : i \in k + 1..n
      BY <2>2
    <3> QED
      BY <2>4, <3>1, <3>2
  <2>6. CASE ss[k + 1] # <<>>
    <3>1. k + 1 \in k + 1..n
      BY <2>2
    <3>2. h[k] = <<>>
      BY <2>4, <2>6, <3>1
    <3>3. h[k + 1] = ss[k + 1]
      BY <2>3, <3>2
    <3>4. \A i \in (k + 1) + 1..n : i \in 1..n /\ i # k + 1
      BY <2>2
    <3>5. \A i \in (k + 1) + 1..n : ss[i] = <<>>
      BY <2>2, <2>6, <3>4
    <3> QED
      BY <2>2, <3>3, <3>5
  <2> QED
    BY <2>5, <2>6
<1>7. n \in B
  <2> HIDE DEF B
  <2> QED
    BY <1>5, <1>6, AllNumbers
<1> QED
  BY <1>4, <1>7

LEMMA SetToSeqIs ==
  ASSUME NEW S, IsFiniteSet(S)
  PROVE  Cardinality(S) \in Nat /\ SetToSeq(S) \in [1..Cardinality(S) -> S]
<1>1. Cardinality(S) \in Nat /\ ExistsBijection(1..Cardinality(S), S)
  BY FS_CardinalityType
<1>2. PICK f : f \in Bijection(1..Cardinality(S), S)
  BY <1>1 DEF ExistsBijection
<1>3. f \in [1..Cardinality(S) -> S] /\ \A a, b \in 1..Cardinality(S) : f[a] = f[b] => a = b
  BY <1>2 DEF Bijection, Injection, Surjection, IsInjective
<1>4. DOMAIN f = 1..Cardinality(S)
  BY <1>3
<1>5. \E g \in [1..Cardinality(S) -> S] : IsInjective(g)
  BY <1>3, <1>4 DEF IsInjective
<1> QED
  BY <1>1, <1>5 DEF SetToSeq

LEMMA FlattenTwo ==
  ASSUME NEW a, NEW b, Sequence(a), Sequence(b)
  PROVE  FlattenSeq(<<a, b>>) = a \o b
<1>1. PICK A : a \in Seq(A) /\ b \in Seq(A)
  <2>1. PICK S : a \in Seq(S)
    BY DEF Sequence
  <2>2. PICK R : b \in Seq(R)
    BY DEF Sequence
  <2>3. a \in Seq(S \cup R) /\ b \in Seq(S \cup R)
    BY <2>1, <2>2
  <2> QED
    BY <2>3
<1>2. PICK ss : ss = <<a, b>>
  OBVIOUS
<1>3. ss \in Seq(Seq(A)) /\ Len(ss) = 2 /\ ss[1] = a /\ ss[2] = b
  BY <1>1, <1>2
<1>4. PICK h : Joins(ss, A, h)
  BY <1>3, JoinExists
<1>5. FlattenSeq(ss) = h[2] /\ h[0] = <<>> /\ h[1] = h[0] \o a /\ h[2] = h[1] \o b
  <2>1. h[0] = <<>> /\ \A k \in 1..2 : h[k] = h[k - 1] \o ss[k]
    BY <1>3, <1>4 DEF Joins
  <2>2. FlattenSeq(ss) = h[Len(ss)]
    BY <1>3, <1>4, FlattenJoins
  <2>3. h[1] = h[0] \o a
    <3>1. 1 \in 1..2 /\ 1 - 1 = 0
      OBVIOUS
    <3> QED
      BY <3>1, <2>1, <1>3, Zenon
  <2>4. h[2] = h[1] \o b
    <3>1. 2 \in 1..2 /\ 2 - 1 = 1
      OBVIOUS
    <3> QED
      BY <3>1, <2>1, <1>3, Zenon
  <2> QED
    BY <2>1, <2>2, <2>3, <2>4, <1>3
<1>6. <<>> \o a = a
  BY <1>1
<1> QED
  BY <1>2, <1>5, <1>6

LEMMA ImageOfOne ==
  ASSUME NEW S, NEW y, S = {y}, NEW r
  PROVE  /\ {[signer |-> r, block |-> out.block] : out \in S} = {[signer |-> r, block |-> y.block]}
         /\ {[signer |-> r, view |-> out.view] : out \in S} = {[signer |-> r, view |-> y.view]}
         /\ {out.block : out \in S} = {y.block}
OBVIOUS

-----------------------------------------------------------------------------
(* The queue of a view in which nobody equivocates is in the order proposals, votes,
   and what announces a notarization: every vote is counted before anybody is
   told to leave.                                                           *)

Rank(e) == CASE e.message.kind = "ProposeRequest" -> 0
             [] e.message.kind = "Proposal" -> 1
             [] e.message.kind = "Vote" -> 2
             [] OTHER -> 3
Sorted(q) == \A i, j \in 1..Len(q) : i < j => Rank(q[i]) <= Rank(q[j])

LEMMA RankIs == \A e : Rank(e) \in 0..3
BY DEF Rank

LEMMA TailSorted ==
  ASSUME NEW q, Sequence(q), q # <<>>, Sorted(q)
  PROVE  Sorted(Tail(q)) /\ \A e \in ToSet(Tail(q)) : Rank(Head(q)) <= Rank(e)
<1>1. PICK S : q \in Seq(S)
  BY DEF Sequence
<1>2. PICK n \in Nat : n = Len(q) /\ n >= 1
  BY <1>1
<1>3. /\ Len(Tail(q)) = n - 1 /\ \A i \in 1..n - 1 : Tail(q)[i] = q[i + 1]
      /\ Head(q) = q[1]
  BY <1>1, <1>2
<1>4. Sorted(Tail(q))
  BY <1>2, <1>3 DEF Sorted
<1>5. ASSUME NEW e \in ToSet(Tail(q)) PROVE Rank(Head(q)) <= Rank(e)
  <2>1. PICK i \in 1..n - 1 : e = Tail(q)[i]
    BY <1>1, <1>2, <1>3 DEF ToSet
  <2> QED
    BY <2>1, <1>2, <1>3 DEF Sorted
<1> QED
  BY <1>4, <1>5

LEMMA ConcatSorted ==
  ASSUME NEW p, NEW q, Sequence(p), Sequence(q), Sorted(p), Sorted(q),
         \A a \in ToSet(p) : \A c \in ToSet(q) : Rank(a) <= Rank(c)
  PROVE  Sorted(p \o q)
<1>1. PICK m, n \in Nat : m = Len(p) /\ n = Len(q)
  BY SequenceOfSet
<1>2. /\ Len(p \o q) = m + n /\ \A i \in 1..m : (p \o q)[i] = p[i] /\ p[i] \in ToSet(p)
      /\ \A i \in m + 1..m + n : (p \o q)[i] = q[i - m] /\ q[i - m] \in ToSet(q)
  <2>1. PICK S : p \in Seq(S)
    BY DEF Sequence
  <2>2. PICK R : q \in Seq(R)
    BY DEF Sequence
  <2>3. p \in Seq(S \cup R) /\ q \in Seq(S \cup R)
    BY <2>1, <2>2
  <2>4. DOMAIN p = 1..m /\ DOMAIN q = 1..n
    BY <1>1, <2>1, <2>2
  <2>5. Len(p \o q) = m + n /\ \A i \in 1..m : (p \o q)[i] = p[i]
    BY <1>1, <2>3, <2>4
  <2>6. \A i \in m + 1..m + n : (p \o q)[i] = q[i - m] /\ i - m \in 1..n
    BY <1>1, <2>3, <2>4
  <2>7. (\A i \in 1..m : p[i] \in ToSet(p)) /\ \A i \in 1..n : q[i] \in ToSet(q)
    BY <2>4 DEF ToSet
  <2> QED
    BY <2>5, <2>6, <2>7
<1>3. PICK c : c = p \o q
  OBVIOUS
<1> SUFFICES ASSUME NEW i \in 1..m + n, NEW j \in 1..m + n, i < j PROVE Rank(c[i]) <= Rank(c[j])
  BY <1>2, <1>3 DEF Sorted
<1>4. CASE j <= m
  <2>1. i \in 1..m /\ j \in 1..m /\ c[i] = p[i] /\ c[j] = p[j]
    BY <1>2, <1>3, <1>4
  <2>2. Rank(p[i]) <= Rank(p[j])
    BY <2>1, <1>1 DEF Sorted
  <2>3. Rank(c[i]) = Rank(p[i]) /\ Rank(c[j]) = Rank(p[j])
    BY <2>1
  <2> QED
    BY <2>2, <2>3, RankIs
<1>5. CASE i > m
  <2>1. PICK k, l \in 1..n : k = i - m /\ l = j - m
    BY <1>5
  <2>2. c[i] = q[k] /\ c[j] = q[l] /\ k < l
    BY <2>1, <1>2, <1>3, <1>5
  <2> QED
    BY <2>2, <1>1 DEF Sorted
<1>6. CASE i <= m /\ j > m
  <2>1. i \in 1..m /\ c[i] \in ToSet(p)
    BY <1>2, <1>3, <1>6
  <2>2. j \in m + 1..m + n /\ c[j] \in ToSet(q)
    BY <1>2, <1>3, <1>6
  <2> QED
    BY <2>1, <2>2
<1> QED
  BY <1>4, <1>5, <1>6

LEMMA OneRank ==
  ASSUME NEW q, Sequence(q), NEW k, \A e \in ToSet(q) : Rank(e) = k
  PROVE  Sorted(q)
<1>1. DOMAIN q = 1..Len(q)
  BY SequenceOfSet
<1>2. \A i \in 1..Len(q) : Rank(q[i]) = k
  BY <1>1 DEF ToSet
<1> SUFFICES ASSUME NEW i \in 1..Len(q), NEW j \in 1..Len(q) PROVE Rank(q[i]) <= Rank(q[j])
  BY DEF Sorted
<1>3. Rank(q[i]) = k /\ Rank(q[j]) = k /\ Rank(q[i]) \in 0..3
  BY <1>2, RankIs
<1> QED
  BY <1>3

(* The queue stays in order when what is added is of one rank.              *)
LEMMA QueueSorted ==
  ASSUME NEW q, Sequence(q), q # <<>>, Sorted(q), NEW g, Sequence(g), NEW k,
         \A e \in ToSet(g) : Rank(e) = k, \A e \in ToSet(Tail(q)) : Rank(e) <= k
  PROVE  Sorted(Tail(q) \o g \o <<>>)
<1>1. Sequence(Tail(q)) /\ Sorted(Tail(q))
  BY TailSequence, TailSorted
<1>2. Sorted(g)
  BY OneRank
<1>3. Sorted(Tail(q) \o g) /\ Sequence(Tail(q) \o g)
  BY <1>1, <1>2, ConcatSorted, ConcatSequence
<1>4. Sequence(<<>>) /\ Sorted(<<>>) /\ ToSet(<<>>) = {}
  BY DEF Sequence, Sorted, ToSet
<1> QED
  BY <1>3, <1>4, ConcatSorted

-----------------------------------------------------------------------------
(* What the handlers make of a state, field by field.                        *)

Kept(s, x, changed) == DOMAIN x = Fields /\ \A f \in Fields \ changed : x[f] = s[f]

(* The view is left and everything that belongs to it reset.                *)
LeftBehind(s, x) ==
  /\ DOMAIN x = Fields /\ x.view = s.view + 1
  /\ x.voted_block = Genesis /\ x.dummy_sent = FALSE /\ x.known_blocks = {}
  /\ x.notarize_votes = <<>> /\ x.nullify_votes = <<>> /\ x.finalize_votes = <<>>

(* One output of each kind at most.                                         *)
Distinct(outs) == \A i, j \in DOMAIN outs : outs[i].kind = outs[j].kind => i = j

Announced(s, b) ==
  (IF s.dummy_sent THEN {} ELSE {[kind |-> "FinalizeVote", view |-> s.view]}) \cup {Relay(b)}

LeavesWith(s, res, b, sd) ==
  /\ DOMAIN res = {"state", "transition", "out"}
  /\ LeftBehind(s, res.state) /\ res.state.tip = b /\ res.state.seed = sd
  /\ res.transition = [kind |-> "Notarized", view |-> s.view]
  /\ Sequence(res.out) /\ ToSet(res.out) = Announced(s, b) /\ Distinct(res.out)
  /\ Len(res.out) \in Nat /\ Len(res.out) <= 2

GivesUp(s, res) ==
  /\ DOMAIN res = {"state", "transition", "out"}
  /\ LeftBehind(s, res.state) /\ res.state.tip = s.tip /\ res.state.seed = DummySeed(s.view)
  /\ res.transition = [kind |-> "Nullified", view |-> s.view] /\ res.out = <<>>

LEMMA PairIs ==
  ASSUME NEW a, NEW b
  PROVE  /\ Sequence(<<a>>) /\ ToSet(<<a>>) = {a} /\ Len(<<a>>) = 1
         /\ Sequence(<<a, b>>) /\ ToSet(<<a, b>>) = {a, b} /\ Len(<<a, b>>) = 2
         /\ Sequence(<<a>> \o <<b>>) /\ ToSet(<<a>> \o <<b>>) = {a, b} /\ Len(<<a>> \o <<b>>) = 2
         /\ <<>> \o <<b>> = <<b>> /\ <<a>> \o <<>> = <<a>>
<1>1. <<a>> \in Seq({a}) /\ <<a, b>> \in Seq({a, b}) /\ Len(<<a>>) = 1 /\ Len(<<a, b>>) = 2 /\ <<b>> \in Seq({b})
      /\ Len(<<b>>) = 1
  OBVIOUS
<1>2. ToSet(<<a>>) = {a} /\ ToSet(<<a, b>>) = {a, b} /\ ToSet(<<b>>) = {b}
  <2>1. DOMAIN <<a>> = 1..1 /\ DOMAIN <<a, b>> = 1..2 /\ <<a, b>>[1] = a /\ <<a, b>>[2] = b /\ <<a>>[1] = a
    OBVIOUS
  <2>2. DOMAIN <<b>> = 1..1 /\ <<b>>[1] = b
    OBVIOUS
  <2>3. 1..1 = {1} /\ 1..2 = {1, 2}
    OBVIOUS
  <2> QED
    BY <2>1, <2>2, <2>3 DEF ToSet
<1>3. Sequence(<<a>>) /\ Sequence(<<b>>) /\ Sequence(<<a, b>>)
  BY <1>1 DEF Sequence
<1>4. Sequence(<<a>> \o <<b>>) /\ ToSet(<<a>> \o <<b>>) = {a, b} /\ Len(<<a>> \o <<b>>) = 2
  <2>1. Sequence(<<a>> \o <<b>>) /\ ToSet(<<a>> \o <<b>>) = ToSet(<<a>>) \cup ToSet(<<b>>)
        /\ Len(<<a>> \o <<b>>) = Len(<<a>>) + Len(<<b>>)
    BY <1>3, ConcatSequence
  <2> QED
    BY <1>1, <1>2, <2>1
<1>5. <<>> \o <<b>> = <<b>> /\ <<a>> \o <<>> = <<a>>
  BY <1>1
<1> QED
  BY <1>1, <1>2, <1>3, <1>4, <1>5

LEMMA OneIs ==
  ASSUME NEW a
  PROVE  ToSet(<<a>>) = {a}
BY PairIs

LEMMA TwoIs ==
  ASSUME NEW a, NEW b
  PROVE  ToSet(<<a, b>>) = {a, b}
BY PairIs

LEMMA DistinctIs ==
  ASSUME NEW a, NEW q, Sequence(q), Distinct(q), \A o \in ToSet(q) : o.kind # a.kind
  PROVE  Distinct(<<a>>) /\ Distinct(<<a>> \o q) /\ Distinct(<<>>)
<1>1. PICK S : q \in Seq(S)
  BY DEF Sequence
<1>2. PICK n \in Nat : n = Len(q) /\ DOMAIN q = 1..n /\ ToSet(q) = {q[i] : i \in 1..n}
  BY <1>1, SetOf
<1>3. PICK p : p = <<a>> \o q
  OBVIOUS
<1>4. DOMAIN p = 1..n + 1 /\ p[1] = a /\ \A i \in 2..n + 1 : p[i] = q[i - 1] /\ i - 1 \in 1..n
  <2>1. q \in Seq(S \cup {a}) /\ <<a>> \in Seq(S \cup {a}) /\ Len(<<a>>) = 1 /\ <<a>>[1] = a
    BY <1>1
  <2> QED
    BY <1>2, <1>3, <2>1
<1>5. Distinct(p)
  <2> SUFFICES ASSUME NEW i \in 1..n + 1, NEW j \in 1..n + 1, p[i].kind = p[j].kind PROVE i = j
    BY <1>4 DEF Distinct
  <2>1. \A k \in 2..n + 1 : p[k].kind # a.kind
    BY <1>2, <1>4
  <2>2. CASE i = 1 \/ j = 1
    BY <1>4, <2>1, <2>2
  <2>3. CASE i # 1 /\ j # 1
    <3>1. i \in 2..n + 1 /\ j \in 2..n + 1
      BY <1>2, <2>3
    <3>2. q[i - 1].kind = q[j - 1].kind /\ i - 1 \in 1..n /\ j - 1 \in 1..n
      BY <1>4, <3>1
    <3>3. i - 1 = j - 1
      BY <1>2, <3>2 DEF Distinct
    <3> QED
      BY <3>3
  <2> QED
    BY <2>2, <2>3
<1>6. Distinct(<<a>>) /\ Distinct(<<>>)
  BY DEF Distinct
<1> QED
  BY <1>3, <1>5, <1>6

LEMMA ImageIs ==
  ASSUME NEW S, IsFiniteSet(S), NEW f, f = [x \in S |-> f[x]]
  PROVE  /\ IsFiniteSet({f[x] : x \in S}) /\ Cardinality({f[x] : x \in S}) \in Nat
         /\ Cardinality({f[x] : x \in S}) <= Cardinality(S)
<1> DEFINE A == {f[x] : x \in S}
<1>1. f \in Surjection(S, A)
  <2>1. f \in [S -> A]
    OBVIOUS
  <2>2. \A y \in A : \E x \in S : f[x] = y
    OBVIOUS
  <2> QED
    BY <2>1, <2>2 DEF Surjection
<1> HIDE DEF A
<1>2. IsFiniteSet(A) /\ Cardinality(A) <= Cardinality(S)
  BY <1>1, FS_Surjection
<1> QED
  BY <1>2, FS_CardinalityType DEF A

(* A seed combined from a list without repetition is the seed of its message. *)
LEMMA CombinedIs ==
  ASSUME NEW v, Listed(v), Len(v) >= T, NEW sd
  PROVE  Combined(v, sd) = sd
<1>1. PICK S : v \in Seq(S)
  BY DEF Listed, Sequence
<1>2. PICK n \in Nat : n = Len(v) /\ DOMAIN v = 1..n /\ ToSet(v) = {v[i] : i \in 1..n}
  BY <1>1, SetOf
<1>3. T \in Nat /\ T <= n
  BY <1>2, QuorumAssumption
<1> DEFINE p == SubSeq(v, 1, T)
<1>4. p \in Seq(S) /\ Len(p) = T /\ \A i \in 1..T : p[i] = v[i]
  BY <1>1, <1>2, <1>3
<1> HIDE DEF p
<1>5. ToSet(p) = {p[i] : i \in 1..T}
  BY <1>4, SetOf
<1> DEFINE first == {v[i] : i \in 1..T}
           rest == {v[i] : i \in T + 1..n}
<1>6. ToSet(p) = first /\ ToSet(v) = first \cup rest
  BY <1>2, <1>3, <1>4, <1>5
<1>7. /\ IsFiniteSet(first) /\ Cardinality(first) \in Nat /\ Cardinality(first) <= T
      /\ IsFiniteSet(rest) /\ Cardinality(rest) \in Nat /\ Cardinality(rest) <= n - T
  <2>1. IsFiniteSet(1..T) /\ Cardinality(1..T) = T /\ IsFiniteSet(T + 1..n) /\ Cardinality(T + 1..n) = n - T
    <3>1. /\ IsFiniteSet(1..T) /\ IsFiniteSet(T + 1..n)
          /\ Cardinality(1..T) = (IF 1 > T THEN 0 ELSE T - 1 + 1)
          /\ Cardinality(T + 1..n) = (IF T + 1 > n THEN 0 ELSE n - (T + 1) + 1)
      BY <1>3, FS_Interval
    <3> QED
      BY <1>2, <1>3, <3>1
  <2>2. IsFiniteSet(first) /\ Cardinality(first) <= Cardinality(1..T)
    <3>1. PICK f : f = [i \in 1..T |-> v[i]]
      OBVIOUS
    <3>2. {f[i] : i \in 1..T} = first /\ f = [i \in 1..T |-> f[i]]
      BY <3>1
    <3>3. PICK S1 : S1 = 1..T
      OBVIOUS
    <3>4. f = [i \in S1 |-> f[i]] /\ IsFiniteSet(S1)
      BY <2>1, <3>2, <3>3
    <3>5. IsFiniteSet({f[i] : i \in S1}) /\ Cardinality({f[i] : i \in S1}) <= Cardinality(S1)
      BY <3>4, ImageIs
    <3>6. {f[i] : i \in S1} = first
      BY <3>2, <3>3
    <3> HIDE DEF first
    <3> QED
      BY <3>3, <3>5, <3>6
  <2>3. IsFiniteSet(rest) /\ Cardinality(rest) <= Cardinality(T + 1..n)
    <3>1. PICK f : f = [i \in T + 1..n |-> v[i]]
      OBVIOUS
    <3>2. {f[i] : i \in T + 1..n} = rest /\ f = [i \in T + 1..n |-> f[i]]
      BY <3>1
    <3>3. PICK S1 : S1 = T + 1..n
      OBVIOUS
    <3>4. f = [i \in S1 |-> f[i]] /\ IsFiniteSet(S1)
      BY <2>1, <3>2, <3>3
    <3>5. IsFiniteSet({f[i] : i \in S1}) /\ Cardinality({f[i] : i \in S1}) <= Cardinality(S1)
      BY <3>4, ImageIs
    <3>6. {f[i] : i \in S1} = rest
      BY <3>2, <3>3
    <3> HIDE DEF rest
    <3> QED
      BY <3>3, <3>5, <3>6
  <2> QED
    BY <2>1, <2>2, <2>3, FS_CardinalityType
<1>8. Cardinality(first \cup rest) = n
  BY <1>2, <1>6 DEF Listed
<1>9. Cardinality(first) = T
  <2> HIDE DEF first, rest
  <2>1. /\ Cardinality(first \cup rest) = Cardinality(first) + Cardinality(rest) - Cardinality(first \cap rest)
        /\ IsFiniteSet(first \cap rest)
    BY <1>7, FS_Union, FS_Intersection
  <2>2. Cardinality(first \cap rest) \in Nat
    BY <2>1, FS_CardinalityType
  <2> QED
    BY <1>2, <1>3, <1>7, <1>8, <2>1, <2>2
<1> QED
  BY <1>6, <1>9 DEF Combined, p

LEMMA NotarizedShape ==
  ASSUME NEW s, DOMAIN s = Fields, NEW b
  PROVE  LeavesWith(s, Notarized(s, b), b, s.seed)
<1> DEFINE res == Notarized(s, b)
           x == [AdvanceView(s) EXCEPT !.tip = b]
           final == [kind |-> "FinalizeVote", view |-> s.view]
           relay == Relay(b)
           out == (IF s.dummy_sent THEN <<>> ELSE <<final>>) \o <<relay>>
<1>1. /\ res.state = x /\ res.transition = [kind |-> "Notarized", view |-> s.view]
      /\ DOMAIN res = {"state", "transition", "out"} /\ res.out = out
  BY DEF Notarized, Result
<1>2. LeftBehind(s, x) /\ x.tip = b /\ x.seed = s.seed
  BY DEF AdvanceView, Fields, LeftBehind
<1>3. Sequence(out) /\ ToSet(out) = Announced(s, b) /\ Distinct(out) /\ Len(out) \in Nat /\ Len(out) <= 2
  <2>0. final.kind # relay.kind
    BY DEF Relay
  <2> HIDE DEF final, relay
  <2>3. Sequence(<<relay>>) /\ ToSet(<<relay>>) = {relay} /\ Distinct(<<relay>>) /\ Distinct(<<final>> \o <<relay>>)
    <3>1. Sequence(<<relay>>) /\ ToSet(<<relay>>) = {relay}
      BY PairIs
    <3>2. Distinct(<<relay>>)
      BY DEF Distinct
    <3> QED
      BY <2>0, <3>1, <3>2, DistinctIs
  <2>1. CASE s.dummy_sent
    <3>1. out = <<relay>>
      BY <2>1, PairIs
    <3>2. Announced(s, b) = {relay} /\ 1 \in Nat /\ 1 <= 2
      BY <2>1 DEF Announced, relay
    <3>3. Sequence(<<relay>>) /\ ToSet(<<relay>>) = {relay} /\ Len(<<relay>>) = 1
      BY PairIs
    <3> HIDE DEF out
    <3> QED
      BY <2>3, <3>1, <3>2, <3>3
  <2>2. CASE ~s.dummy_sent
    <3>1. out = <<final>> \o <<relay>>
      BY <2>2
    <3>2. Announced(s, b) = {final, relay} /\ 2 \in Nat /\ 2 <= 2
      BY <2>2 DEF Announced, relay, final
    <3>3. PICK q : q = <<final>> \o <<relay>>
      OBVIOUS
    <3>4. Sequence(q) /\ ToSet(q) = {final, relay} /\ Len(q) = 2
      BY <3>3, PairIs
    <3>5. out = q
      BY <3>1, <3>3
    <3>6. Distinct(q)
      BY <2>3, <3>3
    <3> HIDE DEF out
    <3> QED
      BY <3>2, <3>4, <3>5, <3>6
  <2> QED
    BY <2>1, <2>2
<1> HIDE DEF res, x, out
<1> QED
  BY <1>1, <1>2, <1>3 DEF LeavesWith, res

LEMMA TryNotarizeIs ==
  ASSUME NEW s, DOMAIN s = Fields, NEW b, Listed(VotesFor(s, b))
  PROVE  \/ Len(VotesFor(s, b)) < T /\ TryNotarize(s, b) = Ignored(s)
         \/ Len(VotesFor(s, b)) >= T /\ LeavesWith(s, TryNotarize(s, b), b, NotarySeed(b))
<1>1. Len(VotesFor(s, b)) \in Nat /\ T \in Nat
  BY SequenceOfSet, QuorumAssumption DEF Listed
<1>2. CASE Len(VotesFor(s, b)) < T
  BY <1>2 DEF TryNotarize
<1>3. CASE Len(VotesFor(s, b)) >= T
  <2> DEFINE n == Notarized(s, b)
             sd == NotarySeed(b)
             res == [n EXCEPT !.state.seed = sd]
  <2>1. TryNotarize(s, b) = res
    BY <1>1, <1>3, CombinedIs DEF TryNotarize
  <2>2. LeavesWith(s, n, b, s.seed)
    BY NotarizedShape
  <2> HIDE DEF n, sd
  <2>3. LeavesWith(s, res, b, sd)
    <3>1. /\ DOMAIN res = {"state", "transition", "out"} /\ res.transition = n.transition /\ res.out = n.out
          /\ res.state = [n.state EXCEPT !.seed = sd]
      BY <2>2 DEF LeavesWith
    <3>2. LeftBehind(s, res.state) /\ res.state.tip = b /\ res.state.seed = sd
      BY <2>2, <3>1 DEF LeavesWith, LeftBehind, Fields
    <3> HIDE DEF res
    <3> QED
      BY <2>2, <3>1, <3>2 DEF LeavesWith
  <2> QED
    BY <1>3, <2>1, <2>3 DEF sd
<1> QED
  BY <1>1, <1>2, <1>3

LEMMA TryNullifyIs ==
  ASSUME NEW s, DOMAIN s = Fields, Listed(s.nullify_votes)
  PROVE  \/ Len(s.nullify_votes) < T /\ TryNullify(s) = Ignored(s)
         \/ Len(s.nullify_votes) >= T /\ GivesUp(s, TryNullify(s))
<1>1. Len(s.nullify_votes) \in Nat /\ T \in Nat
  BY SequenceOfSet, QuorumAssumption DEF Listed
<1>2. CASE Len(s.nullify_votes) < T
  BY <1>2 DEF TryNullify
<1>3. CASE Len(s.nullify_votes) >= T
  <2> DEFINE sd == DummySeed(s.view)
             x == [AdvanceView(s) EXCEPT !.seed = sd, !.nullified_count = @ + 1]
  <2>1. Combined(s.nullify_votes, sd) = sd
    BY <1>3, CombinedIs
  <2> HIDE DEF sd
  <2>2. TryNullify(s) = Result(x, [kind |-> "Nullified", view |-> s.view], <<>>)
    BY <1>1, <1>3, <2>1 DEF TryNullify, sd
  <2>3. LeftBehind(s, x) /\ x.tip = s.tip /\ x.seed = sd
    BY DEF AdvanceView, LeftBehind, Fields
  <2> HIDE DEF x
  <2> QED
    BY <1>3, <2>2, <2>3 DEF GivesUp, Result, sd
<1> QED
  BY <1>1, <1>2, <1>3

-----------------------------------------------------------------------------
(* What a handler makes of a state, by the case it takes.                    *)

Quiet(s, res) ==
  res.state = s /\ res.out = <<>> /\ res.transition.kind \in {"Pending", "Rejected"}

Pushed(s, x, b, q) ==
  VotesFor(x, b) = Append(VotesFor(s, b), q) /\ \A c : c # b => VotesFor(x, c) = VotesFor(s, c)
VoteOut(s, b) == [kind |-> "Vote", view |-> s.view, block |-> b]
BallotFields == {"notarize_votes", "voted_block", "known_blocks"}

(* r votes for b and stays in the view.                                     *)
Ballot(s, x, b, r) ==
  /\ Kept(s, x, BallotFields) /\ Pushed(s, x, b, r)
  /\ x.voted_block = b /\ x.known_blocks = s.known_blocks \cup {b}
NextBlock(s, r, payload) == Append(s.tip, [view |-> s.view, payload |-> payload, proposer |-> r])

Proposes(s, res, r, b) ==
  /\ Ballot(s, res.state, b, r) /\ res.transition.kind = "Pending"
  /\ Sequence(res.out) /\ Len(res.out) = 2 /\ Distinct(res.out)
  /\ ToSet(res.out) = {[kind |-> "Proposal", block |-> b], VoteOut(s, b)}

Refuses(s, res, b) ==
  /\ Kept(s, res.state, {"known_blocks"}) /\ res.state.known_blocks = s.known_blocks \cup {b}
  /\ res.transition.kind = "Rejected" /\ res.out = <<>>

VotesAndStays(s, res, b, r) ==
  /\ Ballot(s, res.state, b, r) /\ Len(VotesFor(res.state, b)) < T
  /\ res.transition.kind = "Pending"
  /\ Sequence(res.out) /\ Len(res.out) = 1 /\ Distinct(res.out) /\ ToSet(res.out) = {VoteOut(s, b)}

VotesAndLeaves(s, res, b) ==
  /\ LeftBehind(s, res.state) /\ res.state.tip = b /\ res.state.seed = NotarySeed(b)
  /\ T <= Len(VotesFor(s, b)) + 1
  /\ res.transition.kind = "Notarized"
  /\ Sequence(res.out) /\ Len(res.out) \in Nat /\ Len(res.out) <= 3 /\ Distinct(res.out)
  /\ ToSet(res.out) = {VoteOut(s, b)} \cup Announced(s, b)

Counts(s, res, b, q) ==
  /\ Kept(s, res.state, {"notarize_votes"}) /\ Pushed(s, res.state, b, q)
  /\ b \in s.known_blocks => Len(VotesFor(res.state, b)) < T
  /\ res.transition.kind = "Pending" /\ res.out = <<>>

TimesOut(s, res, r) ==
  /\ Kept(s, res.state, {"dummy_sent", "nullify_votes"}) /\ res.state.dummy_sent = TRUE
  /\ res.state.nullify_votes = Append(s.nullify_votes, r) /\ Len(res.state.nullify_votes) < T
  /\ res.transition.kind = "Pending" /\ res.out = <<[kind |-> "NullifyVote", view |-> s.view]>>

TimesOutLast(s, res) ==
  /\ LeftBehind(s, res.state) /\ res.state.tip = s.tip /\ res.state.seed = DummySeed(s.view)
  /\ T <= Len(s.nullify_votes) + 1
  /\ res.transition.kind = "Nullified" /\ res.out = <<[kind |-> "NullifyVote", view |-> s.view]>>

CountsDummy(s, res, q) ==
  /\ Kept(s, res.state, {"nullify_votes"}) /\ res.state.nullify_votes = Append(s.nullify_votes, q)
  /\ Len(res.state.nullify_votes) < T
  /\ res.transition.kind = "Pending" /\ res.out = <<>>

CountsFinal(s, res, h, q) ==
  /\ Kept(s, res.state, {"finalize_votes", "finalized_count"})
  /\ res.state.finalize_votes = Append(s.finalize_votes, q) /\ res.out = <<>>
  /\ \/ res.transition.kind = "Pending"
     \/ res.transition = [kind |-> "Finalized", view |-> h] /\ T <= Len(res.state.finalize_votes)

LEMMA IgnoredIs == \A s : Quiet(s, Ignored(s))
BY DEF Quiet, Ignored, Result, Pending

LEMMA ListLength ==
  ASSUME NEW v, Listed(v), NEW x
  PROVE  Len(v) \in Nat /\ Len(Append(v, x)) = Len(v) + 1
<1>1. PICK S : v \in Seq(S)
  BY DEF Listed, Sequence
<1>2. v \in Seq(S \cup {x})
  BY <1>1
<1> QED
  BY <1>1, <1>2

LEMMA PushIs ==
  ASSUME NEW s, DOMAIN s = Fields, NEW b, NEW q
  PROVE  Kept(s, Push(s, b, q), {"notarize_votes"}) /\ Pushed(s, Push(s, b, q), b, q)
BY PushedVotes DEF Kept, Pushed

(* The votes of a state are those of another with the same map.             *)
LEMMA SameVotes ==
  ASSUME NEW s, NEW x, x.notarize_votes = s.notarize_votes
  PROVE  \A b : VotesFor(x, b) = VotesFor(s, b)
BY DEF VotesFor

LEMMA BallotIs ==
  ASSUME NEW s, DOMAIN s = Fields, NEW b, NEW r
  PROVE  /\ Ballot(s, [Push(s, b, r) EXCEPT !.voted_block = b, !.known_blocks = @ \cup {b}], b, r)
         /\ Ballot(s, [Push([s EXCEPT !.known_blocks = @ \cup {b}], b, r) EXCEPT !.voted_block = b], b, r)
<1> DEFINE p == Push(s, b, r)
           x == [p EXCEPT !.voted_block = b, !.known_blocks = @ \cup {b}]
           s2 == [s EXCEPT !.known_blocks = @ \cup {b}]
           p2 == Push(s2, b, r)
           x2 == [p2 EXCEPT !.voted_block = b]
<1>1. Ballot(s, x, b, r)
  <2>1. Kept(s, p, {"notarize_votes"}) /\ Pushed(s, p, b, r)
    BY PushIs
  <2> HIDE DEF p
  <2>2. Kept(s, x, BallotFields) /\ x.notarize_votes = p.notarize_votes /\ x.voted_block = b
        /\ x.known_blocks = s.known_blocks \cup {b}
    BY <2>1 DEF Kept, BallotFields, Fields
  <2> HIDE DEF x
  <2> QED
    BY <2>1, <2>2, SameVotes DEF Ballot, Pushed
<1>2. Ballot(s, x2, b, r)
  <2>0. Kept(s, s2, {"known_blocks"}) /\ s2.known_blocks = s.known_blocks \cup {b} /\ s2.notarize_votes = s.notarize_votes
    BY DEF Kept, Fields
  <2> HIDE DEF s2
  <2>1. Kept(s2, p2, {"notarize_votes"}) /\ Pushed(s2, p2, b, r)
    BY <2>0, PushIs DEF Kept
  <2> HIDE DEF p2
  <2>2. Kept(s, x2, BallotFields) /\ x2.notarize_votes = p2.notarize_votes /\ x2.voted_block = b
        /\ x2.known_blocks = s.known_blocks \cup {b}
    BY <2>0, <2>1 DEF Kept, BallotFields, Fields
  <2> HIDE DEF x2
  <2>3. \A c : VotesFor(x2, c) = VotesFor(p2, c) /\ VotesFor(s2, c) = VotesFor(s, c)
    BY <2>0, <2>2, SameVotes
  <2> QED
    BY <2>1, <2>2, <2>3 DEF Ballot, Pushed
<1> QED
  BY <1>1, <1>2

(* A block the replica votes for: the three checks of handle_proposal.       *)
Fits(s, l, b) == Last(b).proposer = l /\ s.voted_block = Genesis /\ Parent(b) = s.tip

LEMMA PushedIs ==
  ASSUME NEW s, NEW x, NEW b, NEW q, Pushed(s, x, b, q), Sequence(VotesFor(s, b))
  PROVE  \A p, c : p \in ToSet(VotesFor(x, c)) => p \in ToSet(VotesFor(s, c)) \/ (p = q /\ c = b)
<1> SUFFICES ASSUME NEW p, NEW c, p \in ToSet(VotesFor(x, c)), ~(p \in ToSet(VotesFor(s, c)))
             PROVE  p = q /\ c = b
  OBVIOUS
<1>1. c = b
  BY DEF Pushed
<1>2. PICK v : v = VotesFor(s, b)
  OBVIOUS
<1>3. ToSet(Append(v, q)) = ToSet(v) \cup {q}
  <2>1. Sequence(v) /\ Sequence(<<q>>) /\ ToSet(<<q>>) = {q}
    BY <1>1, <1>2, PairIs
  <2>2. Append(v, q) = v \o <<q>>
    BY <2>1 DEF Sequence
  <2> QED
    BY <2>1, <2>2, ConcatSequence
<1> QED
  BY <1>1, <1>2, <1>3 DEF Pushed

LEMMA AppendAdds ==
  ASSUME NEW v, Sequence(v), NEW q
  PROVE  ToSet(Append(v, q)) = ToSet(v) \cup {q}
<1>1. Sequence(<<q>>) /\ ToSet(<<q>>) = {q}
  BY PairIs
<1>2. Append(v, q) = v \o <<q>>
  BY DEF Sequence
<1> QED
  BY <1>1, <1>2, ConcatSequence

LEMMA OneVote ==
  ASSUME NEW outs, Distinct(outs), NEW s, NEW b, NEW c, VoteOut(s, b) \in ToSet(outs), VoteOut(s, c) \in ToSet(outs)
  PROVE  b = c
<1>1. PICK i \in DOMAIN outs : outs[i] = VoteOut(s, b)
  BY DEF ToSet
<1>2. PICK j \in DOMAIN outs : outs[j] = VoteOut(s, c)
  BY DEF ToSet
<1>3. outs[i].kind = outs[j].kind
  BY <1>1, <1>2 DEF VoteOut
<1>4. i = j
  BY <1>3 DEF Distinct
<1>5. VoteOut(s, b) = VoteOut(s, c)
  BY <1>1, <1>2, <1>4
<1> QED
  BY <1>5 DEF VoteOut

LEMMA NothingCast ==
  ASSUME NEW s, s.notarize_votes = <<>>
  PROVE  \A b : VotesFor(s, b) = <<>> /\ ToSet(VotesFor(s, b)) = {}
<1>1. DOMAIN s.notarize_votes = {}
  OBVIOUS
<1> QED
  BY <1>1 DEF VotesFor, ToSet

-----------------------------------------------------------------------------
(* What a delivery of m makes of the lists of replica r.                    *)

(* What is recorded, by what is sent.                                       *)
NoneOf(outs, kind) == \A out \in ToSet(outs) : out.kind # kind

(* What a delivery of m makes of the lists of replica r.                    *)
TimedOut(s, res) == [kind |-> "NullifyVote", view |-> s.view] \in ToSet(res.out)

Collects(r, m, s, res) ==
  /\ \A q, b : q \in ToSet(VotesFor(res.state, b)) /\ q # r =>
       q \in ToSet(VotesFor(s, b)) \/ (m.kind = "Vote" /\ q = m.signer /\ b = m.block)
  /\ \A q \in ToSet(res.state.nullify_votes) :
       /\ res.state.view = s.view
       /\ \/ q \in ToSet(s.nullify_votes)
          \/ q = r /\ TimedOut(s, res)
          \/ m.kind = "NullifyVote" /\ q = m.signer /\ m.view = s.view
  /\ \A q \in ToSet(res.state.finalize_votes) :
       /\ res.state.view = s.view
       /\ \/ q \in ToSet(s.finalize_votes)
          \/ m.kind = "FinalizeVote" /\ q = m.signer /\ m.view \in {s.view, s.view - 1}
  /\ \/ res.state.view = s.view /\ (s.dummy_sent = TRUE \/ TimedOut(s, res) => res.state.dummy_sent = TRUE)
     \/ res.state.view = s.view + 1

LEMMA LeftCollects ==
  ASSUME NEW r, NEW m, NEW s, NEW res, LeftBehind(s, res.state)
  PROVE  Collects(r, m, s, res)
<1>1. /\ res.state.view = s.view + 1 /\ res.state.notarize_votes = <<>> /\ res.state.nullify_votes = <<>>
      /\ res.state.finalize_votes = <<>>
  BY DEF LeftBehind
<1>2. ToSet(<<>>) = {}
  BY DEF ToSet
<1>3. \A b : VotesFor(res.state, b) = <<>>
  BY <1>1 DEF VotesFor
<1> QED
  BY <1>1, <1>2, <1>3 DEF Collects

(* Only votes for blocks are counted, or none.                              *)
LEMMA BallotCollects ==
  ASSUME NEW r, NEW m, NEW s, NEW res, NEW b, NEW q, Sequence(VotesFor(s, b)),
         Kept(s, res.state, BallotFields), Pushed(s, res.state, b, q),
         q = r \/ (m.kind = "Vote" /\ q = m.signer /\ b = m.block), ~TimedOut(s, res)
  PROVE  Collects(r, m, s, res)
<1>1. /\ res.state.view = s.view /\ res.state.nullify_votes = s.nullify_votes
      /\ res.state.finalize_votes = s.finalize_votes /\ res.state.dummy_sent = s.dummy_sent
  BY DEF Kept, BallotFields, Fields
<1>2. \A p, c : p \in ToSet(VotesFor(res.state, c)) => p \in ToSet(VotesFor(s, c)) \/ (p = q /\ c = b)
  <2> PICK x : x = res.state
    OBVIOUS
  <2>1. Pushed(s, x, b, q)
    OBVIOUS
  <2> QED
    BY <2>1, PushedIs
<1> QED
  BY <1>1, <1>2 DEF Collects

LEMMA SameCollects ==
  ASSUME NEW r, NEW m, NEW s, NEW res, \A b : VotesFor(res.state, b) = VotesFor(s, b),
         res.state.view = s.view, s.dummy_sent = TRUE \/ TimedOut(s, res) => res.state.dummy_sent = TRUE,
         \/ res.state.nullify_votes = s.nullify_votes
         \/ \E q : /\ res.state.nullify_votes = Append(s.nullify_votes, q) /\ Sequence(s.nullify_votes)
                   /\ (q = r /\ TimedOut(s, res)) \/ (m.kind = "NullifyVote" /\ q = m.signer /\ m.view = s.view),
         \/ res.state.finalize_votes = s.finalize_votes
         \/ \E q : /\ res.state.finalize_votes = Append(s.finalize_votes, q) /\ Sequence(s.finalize_votes)
                   /\ m.kind = "FinalizeVote" /\ q = m.signer /\ m.view \in {s.view, s.view - 1}
  PROVE  Collects(r, m, s, res)
<1>1. \A q \in ToSet(res.state.nullify_votes) :
        \/ q \in ToSet(s.nullify_votes)
        \/ q = r /\ TimedOut(s, res)
        \/ m.kind = "NullifyVote" /\ q = m.signer /\ m.view = s.view
  <2>1. CASE res.state.nullify_votes = s.nullify_votes
    BY <2>1
  <2>2. ASSUME NEW q, res.state.nullify_votes = Append(s.nullify_votes, q), Sequence(s.nullify_votes),
               (q = r /\ TimedOut(s, res)) \/ (m.kind = "NullifyVote" /\ q = m.signer /\ m.view = s.view)
        PROVE  \A p \in ToSet(res.state.nullify_votes) : p \in ToSet(s.nullify_votes) \/ p = q
    BY <2>2, AppendAdds
  <2> QED
    BY <2>1, <2>2
<1>2. \A q \in ToSet(res.state.finalize_votes) :
        \/ q \in ToSet(s.finalize_votes)
        \/ m.kind = "FinalizeVote" /\ q = m.signer /\ m.view \in {s.view, s.view - 1}
  <2>1. CASE res.state.finalize_votes = s.finalize_votes
    BY <2>1
  <2>2. ASSUME NEW q, res.state.finalize_votes = Append(s.finalize_votes, q), Sequence(s.finalize_votes)
        PROVE  \A p \in ToSet(res.state.finalize_votes) : p \in ToSet(s.finalize_votes) \/ p = q
    BY <2>2, AppendAdds
  <2> QED
    BY <2>1, <2>2
<1> QED
  BY <1>1, <1>2 DEF Collects

-----------------------------------------------------------------------------
(* Remainders: the slots of a ring.                                         *)

LEMMA ModIs ==
  ASSUME NEW a \in Nat
  PROVE  /\ a % STRIP_LEN \in Slot /\ (a < STRIP_LEN => a % STRIP_LEN = a)
         /\ \E x \in Nat : a = STRIP_LEN * x + (a % STRIP_LEN)
<1> DEFINE L == STRIP_LEN
<1> L \in Nat \ {0}
  BY StripAssumption
<1> PICK x \in Nat : x = a \div L
  BY SMT
<1>1. a = L * x + (a % L)
  BY SMT
<1>2. a % L \in 0..L - 1 /\ (a < L => a % L = a)
  BY SMT
<1> QED
  BY <1>1, <1>2 DEF Slot
LEMMA ModApart ==
  ASSUME NEW a \in Nat, NEW b \in Nat, a < b, b - a < STRIP_LEN
  PROVE  a % STRIP_LEN # b % STRIP_LEN
<1> DEFINE L == STRIP_LEN
<1> L \in Nat \ {0}
  BY StripAssumption
<1>1. PICK x \in Nat : a = L * x + (a % L)
  BY ModIs
<1>2. PICK y \in Nat : b = L * y + (b % L)
  BY ModIs
<1> SUFFICES ASSUME a % L = b % L PROVE FALSE
  OBVIOUS
<1> PICK u \in Nat, v \in Nat : u = L * x /\ v = L * y
  BY SMT
<1> PICK m \in Nat : m = a % L
  BY SMT
<1>3. b - a = v - u
  BY <1>1, <1>2
<1>4. v - u = L * (y - x)
  BY SMT
<1>5. y - x >= 1
  BY <1>3, <1>4, SMT
<1>6. L * (y - x) >= L
  BY <1>5, SMT
<1> QED
  BY <1>3, <1>4, <1>6
LEMMA ModUnique ==
  ASSUME NEW a \in Nat, NEW x \in Nat, NEW m \in 0..STRIP_LEN - 1, a = STRIP_LEN * x + m
  PROVE  a % STRIP_LEN = m
BY StripAssumption, SMT
LEMMA ModNext ==
  ASSUME NEW a \in Nat
  PROVE  (a + 1) % STRIP_LEN = ((a % STRIP_LEN) + 1) % STRIP_LEN
<1> DEFINE L == STRIP_LEN
<1> L \in Nat \ {0}
  BY StripAssumption
<1>1. PICK x \in Nat : a = L * x + (a % L)
  BY ModIs
<1> PICK m \in Nat : m = a % L /\ m \in 0..L - 1
  BY SMT
<1>2. CASE m + 1 < L
  <2>0. a + 1 = L * x + (m + 1) /\ m + 1 \in 0..L - 1 /\ a + 1 \in Nat
    BY <1>1, <1>2, SMT
  <2>1. (a + 1) % L = m + 1
    BY <2>0, ModUnique
  <2> QED
    BY <2>1, <1>2, ModIs
<1>3. CASE m + 1 = L
  <2>1. a + 1 = L * x + L
    BY <1>1, <1>3
  <2>2. L * x + L = L * (x + 1)
    BY SMT
  <2>6. a + 1 = L * (x + 1) + 0 /\ x + 1 \in Nat /\ 0 \in 0..L - 1 /\ a + 1 \in Nat
    BY <2>1, <2>2, SMT
  <2>3. (a + 1) % L = 0
    BY <2>6, ModUnique
  <2>4. L = L * 1 + 0
    BY SMT
  <2>5. L % L = 0
    BY <2>4, ModUnique, SMT
  <2> QED
    BY <2>3, <2>5, <1>3
<1> QED
  BY <1>2, <1>3

-----------------------------------------------------------------------------
(* What the slots show while the strip goes around. LastIn(i, v): v is the last
   view written to slot i; LastBlock(u): u is the last view with a block.   *)
Outcomes == {"Finalized", "Nullified"}
LastIn(i, v) ==
  v \in 1..total /\ (v - 1) % STRIP_LEN = i /\ \A w \in v + 1..total : (w - 1) % STRIP_LEN # i
LastBlock(u) ==
  u \in 1..total /\ outcomes[u] = "Finalized" /\ \A w \in u + 1..total : outcomes[w] = "Nullified"

StripInv ==
  /\ total \in Nat /\ cursor = total % STRIP_LEN
  /\ outcomes \in [1..total -> Outcomes] /\ outcomes \in Seq(Outcomes)
  /\ slots = [i \in Slot |-> slots[i]]
  /\ \A i \in Slot : Written(i) => \E v : LastIn(i, v)
  /\ \A i \in Slot : ~Written(i) => slots[i] = "None"
  /\ \/ last_notarized = -1 /\ \A v \in 1..total : outcomes[v] = "Nullified"
     \/ \E u : LastBlock(u) /\ last_notarized = (u - 1) % STRIP_LEN
  /\ NeverIdleAround => \A i \in Slot : \A v : LastIn(i, v) => slots[i] = ColourOf(v)

LEMMA StripStarts == StripInit => StripInv
<1> SUFFICES ASSUME StripInit PROVE StripInv
  OBVIOUS
<1>1. total = 0 /\ cursor = 0 /\ last_notarized = -1 /\ outcomes = <<>> /\ slots = [i \in Slot |-> "None"]
  BY DEF StripInit
<1>2. 0 % STRIP_LEN = 0
  BY StripAssumption, ModIs
<1>3. 1..total = {}
  BY <1>1
<1>4. outcomes \in [1..total -> Outcomes] /\ outcomes \in Seq(Outcomes)
  BY <1>1, <1>3
<1>5. \A i : ~Written(i)
  BY <1>3 DEF Written
<1>6. \A i, v : ~LastIn(i, v)
  BY <1>3 DEF LastIn
<1>7. \A i \in Slot : slots[i] = "None"
  BY <1>1
<1>8. slots = [i \in Slot |-> slots[i]]
  BY <1>1
<1> QED
  BY <1>1, <1>2, <1>3, <1>4, <1>5, <1>6, <1>7, <1>8 DEF StripInv

LEMMA Advances ==
  ASSUME StripInv, NEW outcome \in Outcomes, Advance(outcome)
  PROVE  /\ total' = total + 1 /\ total' \in Nat /\ cursor' = total' % STRIP_LEN
         /\ outcomes' \in [1..total' -> Outcomes] /\ outcomes' \in Seq(Outcomes)
         /\ outcomes'[total'] = outcome /\ \A v \in 1..total : outcomes'[v] = outcomes[v]
         /\ cursor \in Slot /\ cursor = (total' - 1) % STRIP_LEN
         /\ \A i \in Slot : Written(i)' <=> Written(i) \/ i = cursor
         /\ \A i \in Slot : \A v : LastIn(i, v)' <=> IF i = cursor THEN v = total + 1 ELSE LastIn(i, v)
<1>1. /\ total \in Nat /\ cursor = total % STRIP_LEN /\ outcomes \in Seq(Outcomes)
      /\ outcomes \in [1..total -> Outcomes]
  BY DEF StripInv
<1>2. total' = total + 1 /\ outcomes' = Append(outcomes, outcome) /\ cursor' = (cursor + 1) % STRIP_LEN
  BY DEF Advance
<1>3. total' \in Nat /\ cursor' = total' % STRIP_LEN
  BY <1>1, <1>2, ModNext
<1>4. Len(outcomes) = total
  BY <1>1
<1>5. /\ outcomes' \in Seq(Outcomes) /\ Len(outcomes') = total'
      /\ outcomes'[total'] = outcome /\ \A v \in 1..total : outcomes'[v] = outcomes[v]
  BY <1>1, <1>2, <1>4
<1>6. outcomes' \in [1..total' -> Outcomes]
  BY <1>5, <1>3
<1>7. cursor \in Slot /\ cursor = (total' - 1) % STRIP_LEN
  <2>1. total' - 1 = total
    BY <1>1, <1>2
  <2> QED
    BY <2>1, <1>1, ModIs
<1>8. 1..total' = 1..total \cup {total'}
  BY <1>1, <1>2
<1>9. \A i \in Slot : Written(i)' <=> Written(i) \/ i = cursor
  BY <1>7, <1>8 DEF Written
<1>12. \A v \in 1..total : v + 1..total' = v + 1..total \cup {total'}
  <2>1. total \in Nat /\ total' = total + 1
    BY <1>1, <1>2
  <2>2. ASSUME NEW v \in 1..total PROVE v + 1..total + 1 = v + 1..total \cup {total + 1}
    BY <2>1
  <2> QED
    BY <2>1, <2>2
<1>13. ASSUME NEW i \in Slot, NEW v
       PROVE  LastIn(i, v)' <=> IF i = cursor THEN v = total + 1 ELSE LastIn(i, v)
  <2>1. LastIn(i, v)' <=> /\ v \in 1..total' /\ (v - 1) % STRIP_LEN = i
                          /\ \A w \in v + 1..total' : (w - 1) % STRIP_LEN # i
    BY DEF LastIn
  <2>2. CASE v = total + 1
    <3>1. v = total' /\ v + 1..total' = {} /\ v \in 1..total' /\ v \notin 1..total
      BY <1>1, <1>2, <2>2
    <3> QED
      BY <2>1, <3>1, <2>2, <1>7 DEF LastIn
  <2>3. CASE v \in 1..total
    <3>1. v \in 1..total' /\ v # total + 1 /\ v + 1..total' = v + 1..total \cup {total'}
      BY <1>1, <1>2, <2>3
    <3> QED
      BY <2>1, <3>1, <2>3, <1>7 DEF LastIn
  <2>4. CASE v \notin 1..total /\ v # total + 1
    <3>1. v \notin 1..total'
      BY <1>2, <1>8, <2>4
    <3> QED
      BY <2>1, <3>1, <2>4 DEF LastIn
  <2> QED
    BY <2>2, <2>3, <2>4
<1> QED
  BY <1>2, <1>3, <1>5, <1>6, <1>7, <1>9, <1>13

(* The window before a view has a block, and so does the one of the view before. *)
LEMMA IdleBefore ==
  ASSUME StripInv, NEW outcome \in Outcomes, Advance(outcome)
  PROVE  NeverIdleAround' => NeverIdleAround
<1> SUFFICES ASSUME NeverIdleAround', NEW v \in STRIP_LEN..total
             PROVE  \E w \in v - STRIP_LEN + 1..v : outcomes[w] = "Finalized"
  BY DEF NeverIdleAround
<1>1. total' = total + 1 /\ total \in Nat /\ \A w \in 1..total : outcomes'[w] = outcomes[w]
  BY Advances DEF StripInv
<1>2. v \in STRIP_LEN..total' /\ v - STRIP_LEN + 1..v \subseteq 1..total
  BY <1>1, StripAssumption
<1> QED
  BY <1>1, <1>2 DEF NeverIdleAround

(* A slot written after the last block is not that block's.                 *)
LEMMA BlockSlot ==
  ASSUME StripInv, NeverIdleAround, NEW u, LastBlock(u), NEW v \in 1..total, u < v
  PROVE  (u - 1) % STRIP_LEN # (v - 1) % STRIP_LEN
<1>1. total \in Nat /\ u \in 1..total
  BY DEF StripInv, LastBlock
<1>2. v - u < STRIP_LEN
  <2>1. CASE total < STRIP_LEN
    BY <1>1, <2>1, StripAssumption
  <2>2. CASE total >= STRIP_LEN
    <3>1. total \in STRIP_LEN..total
      BY <1>1, <2>2, StripAssumption
    <3>2. PICK w \in total - STRIP_LEN + 1..total : outcomes[w] = "Finalized"
      BY <3>1 DEF NeverIdleAround
    <3>3. w <= u
      BY <1>1, <2>2, <3>2, StripAssumption DEF LastBlock
    <3> QED
      BY <1>1, <3>2, <3>3, StripAssumption
  <2> QED
    BY <1>1, <2>1, <2>2, StripAssumption
<1>3. u - 1 \in Nat /\ v - 1 \in Nat /\ u - 1 < v - 1 /\ (v - 1) - (u - 1) < STRIP_LEN
  BY <1>1, <1>2, StripAssumption
<1> QED
  BY <1>3, ModApart

LEMMA FinalizedKeepsStrip == StripInv /\ PushFinalized => StripInv'
<1> SUFFICES ASSUME StripInv, PushFinalized PROVE StripInv'
  OBVIOUS
<1>0. Advance("Finalized") /\ last_notarized' = cursor
      /\ slots' = [i \in Slot |-> IF i = cursor THEN "Notarized"
                                 ELSE IF i = last_notarized THEN "Finalized" ELSE slots[i]]
  BY DEF PushFinalized
<1>1. /\ total' = total + 1 /\ total' \in Nat /\ cursor' = total' % STRIP_LEN
      /\ outcomes' \in [1..total' -> Outcomes] /\ outcomes' \in Seq(Outcomes)
      /\ outcomes'[total'] = "Finalized" /\ \A v \in 1..total : outcomes'[v] = outcomes[v]
      /\ cursor \in Slot /\ cursor = (total' - 1) % STRIP_LEN
      /\ \A i \in Slot : Written(i)' <=> Written(i) \/ i = cursor
      /\ \A i \in Slot : \A v : LastIn(i, v)' <=> IF i = cursor THEN v = total + 1 ELSE LastIn(i, v)
  BY <1>0, Advances DEF Outcomes
<1>2. total \in Nat /\ outcomes \in [1..total -> Outcomes]
  BY DEF StripInv
<1>3. \A i \in Slot : Written(i)' => \E v : LastIn(i, v)'
  BY <1>1 DEF StripInv
<1>4. \E u : LastBlock(u)' /\ last_notarized' = (u - 1) % STRIP_LEN
  <2>1. PICK u : u = total'
    OBVIOUS
  <2>2. u \in 1..total' /\ u + 1..total' = {} /\ cursor = (u - 1) % STRIP_LEN
    BY <2>1, <1>1, <1>2
  <2> QED
    BY <2>1, <2>2, <1>0, <1>1 DEF LastBlock
<1>5. slots' = [i \in Slot |-> slots'[i]]
  BY <1>0
<1>6. ASSUME NEW i \in Slot, ~Written(i)'
      PROVE  slots'[i] = "None"
  <2>1. i # cursor /\ ~Written(i) /\ slots[i] = "None"
    BY <1>1, <1>6 DEF StripInv
  <2>2. i # last_notarized
    <3>1. CASE last_notarized = -1
      BY <3>1, StripAssumption DEF Slot
    <3>2. CASE \E u : LastBlock(u) /\ last_notarized = (u - 1) % STRIP_LEN
      BY <3>2, <2>1 DEF Written, LastBlock
    <3> QED
      BY <3>1, <3>2 DEF StripInv
  <2> QED
    BY <2>1, <2>2, <1>0
<1>7. ASSUME NeverIdleAround', NEW i \in Slot, NEW v, LastIn(i, v)'
      PROVE  slots'[i] = ColourOf(v)'
  <2> DEFINE c == ColourOf(v)'
  <2>1. c = IF outcomes'[v] = "Nullified" THEN "Nullified"
              ELSE IF \E w \in v + 1..total' : outcomes'[w] = "Finalized" THEN "Finalized"
              ELSE "Notarized"
    BY DEF ColourOf
  <2> HIDE DEF c
  <2>2. CASE i = cursor
    <3>1. v = total' /\ v + 1..total' = {}
      BY <1>1, <1>2, <1>7, <2>2
    <3>2. c = "Notarized"
      BY <2>1, <3>1, <1>1
    <3> QED
      BY <3>2, <2>2, <1>0 DEF c
  <2>3. CASE i # cursor
    <3>1. LastIn(i, v) /\ slots[i] = ColourOf(v)
      <4>1. NeverIdleAround
        BY <1>7, <1>0, IdleBefore DEF Outcomes
      <4>2. LastIn(i, v)
        BY <1>1, <1>7, <2>3
      <4> QED
        BY <4>1, <4>2 DEF StripInv
    <3>2. v \in 1..total /\ outcomes'[v] = outcomes[v] /\ outcomes[v] \in Outcomes /\ i = (v - 1) % STRIP_LEN
      BY <3>1, <1>1, <1>2 DEF LastIn
    <3>3. NeverIdleAround
      BY <1>7, <1>0, IdleBefore DEF Outcomes
    <3>4. CASE outcomes[v] = "Nullified"
      <4>1. c = "Nullified" /\ slots[i] = "Nullified"
        BY <3>1, <3>2, <3>4, <2>1 DEF ColourOf
      <4>2. i # last_notarized
        <5>1. CASE last_notarized = -1
          BY <5>1, StripAssumption DEF Slot
        <5>2. CASE \E u : LastBlock(u) /\ last_notarized = (u - 1) % STRIP_LEN
          <6>1. PICK u : LastBlock(u) /\ last_notarized = (u - 1) % STRIP_LEN
            BY <5>2
          <6>2. u \in 1..total /\ u # v
            BY <6>1, <3>4 DEF LastBlock
          <6>3. CASE u < v
            BY <6>1, <6>3, <3>2, <3>3, BlockSlot
          <6>4. CASE v < u
            <7>1. u \in v + 1..total
              BY <6>2, <6>4, <3>2, <1>2
            <7> QED
              BY <7>1, <6>1, <3>1 DEF LastIn
          <6> QED
            BY <6>2, <6>3, <6>4, <3>2, <1>2
        <5> QED
          BY <5>1, <5>2 DEF StripInv
      <4> QED
        BY <4>1, <4>2, <2>3, <1>0 DEF c
    <3>5. CASE outcomes[v] = "Finalized"
      <4>1. total' \in v + 1..total'
        BY <1>1, <1>2, <3>2
      <4>2. c = "Finalized"
        BY <4>1, <2>1, <3>2, <3>5, <1>1
      <4>3. i = last_notarized \/ slots[i] = "Finalized"
        <5> SUFFICES ASSUME slots[i] # "Finalized"
                     PROVE  i = last_notarized
          OBVIOUS
        <5>1. ~\E w \in v + 1..total : outcomes[w] = "Finalized"
          BY <3>1, <3>5 DEF ColourOf
        <5>2. PICK u : LastBlock(u) /\ last_notarized = (u - 1) % STRIP_LEN
          BY <3>2, <3>5 DEF StripInv
        <5>3. u = v
          <6>1. u \in 1..total /\ outcomes[u] = "Finalized" /\ v \notin u + 1..total /\ u \notin v + 1..total
            BY <5>1, <5>2, <3>5 DEF LastBlock
          <6> QED
            BY <6>1, <3>2, <1>2
        <5> QED
          BY <5>2, <5>3, <3>2
      <4> QED
        BY <4>2, <4>3, <2>3, <1>0 DEF c
    <3> QED
      BY <3>2, <3>4, <3>5 DEF Outcomes
  <2> QED
    BY <2>2, <2>3
<1> QED
  BY <1>1, <1>3, <1>4, <1>5, <1>6, <1>7 DEF StripInv

LEMMA NullifiedKeepsStrip == StripInv /\ PushNullified => StripInv'
<1> SUFFICES ASSUME StripInv, PushNullified PROVE StripInv'
  OBVIOUS
<1>0. Advance("Nullified") /\ last_notarized' = last_notarized
      /\ slots' = [slots EXCEPT ![cursor] = "Nullified"]
  BY DEF PushNullified
<1>1. /\ total' = total + 1 /\ total' \in Nat /\ cursor' = total' % STRIP_LEN
      /\ outcomes' \in [1..total' -> Outcomes] /\ outcomes' \in Seq(Outcomes)
      /\ outcomes'[total'] = "Nullified" /\ \A v \in 1..total : outcomes'[v] = outcomes[v]
      /\ cursor \in Slot /\ cursor = (total' - 1) % STRIP_LEN
      /\ \A i \in Slot : Written(i)' <=> Written(i) \/ i = cursor
      /\ \A i \in Slot : \A v : LastIn(i, v)' <=> IF i = cursor THEN v = total + 1 ELSE LastIn(i, v)
  BY <1>0, Advances DEF Outcomes
<1>2. total \in Nat /\ outcomes \in [1..total -> Outcomes] /\ slots = [i \in Slot |-> slots[i]]
  BY DEF StripInv
<1>3. \A i \in Slot : Written(i)' => \E v : LastIn(i, v)'
  BY <1>1 DEF StripInv
<1>4. 1..total' = 1..total \cup {total'}
  BY <1>1, <1>2
<1>5. \A v \in 1..total : v + 1..total' = v + 1..total \cup {total'}
  BY <1>1, <1>2
<1>6. \/ last_notarized' = -1 /\ \A v \in 1..total' : outcomes'[v] = "Nullified"
      \/ \E u : LastBlock(u)' /\ last_notarized' = (u - 1) % STRIP_LEN
  <2>1. CASE last_notarized = -1 /\ \A v \in 1..total : outcomes[v] = "Nullified"
    BY <2>1, <1>0, <1>1, <1>4
  <2>2. CASE \E u : LastBlock(u) /\ last_notarized = (u - 1) % STRIP_LEN
    <3>1. PICK u : LastBlock(u) /\ last_notarized = (u - 1) % STRIP_LEN
      BY <2>2
    <3>2. \A w \in u + 1..total : w \in 1..total
      BY <3>1, <1>2 DEF LastBlock
    <3>3. LastBlock(u)'
      BY <3>1, <3>2, <1>1, <1>4, <1>5 DEF LastBlock
    <3> QED
      BY <3>1, <3>3, <1>0
  <2> QED
    BY <2>1, <2>2 DEF StripInv
<1>7. slots' = [i \in Slot |-> slots'[i]] /\ slots'[cursor] = "Nullified"
      /\ \A i \in Slot : i # cursor => slots'[i] = slots[i]
  BY <1>0, <1>1, <1>2
<1>8. ASSUME NEW i \in Slot, ~Written(i)'
      PROVE  slots'[i] = "None"
  BY <1>1, <1>7, <1>8 DEF StripInv
<1>9. ASSUME NeverIdleAround', NEW i \in Slot, NEW v, LastIn(i, v)'
      PROVE  slots'[i] = ColourOf(v)'
  <2> DEFINE c == ColourOf(v)'
  <2>1. c = IF outcomes'[v] = "Nullified" THEN "Nullified"
              ELSE IF \E w \in v + 1..total' : outcomes'[w] = "Finalized" THEN "Finalized"
              ELSE "Notarized"
    BY DEF ColourOf
  <2> HIDE DEF c
  <2>2. CASE i = cursor
    <3>1. v = total'
      BY <1>1, <1>9, <2>2
    <3>2. c = "Nullified"
      BY <2>1, <3>1, <1>1
    <3> QED
      BY <3>2, <2>2, <1>7 DEF c
  <2>3. CASE i # cursor
    <3>1. LastIn(i, v) /\ slots[i] = ColourOf(v)
      <4>1. NeverIdleAround
        BY <1>9, <1>0, IdleBefore DEF Outcomes
      <4>2. LastIn(i, v)
        BY <1>1, <1>9, <2>3
      <4> QED
        BY <4>1, <4>2 DEF StripInv
    <3>2. v \in 1..total /\ outcomes'[v] = outcomes[v]
      BY <3>1, <1>1 DEF LastIn
    <3>3. \A w \in v + 1..total : w \in 1..total
      BY <3>2, <1>2
    <3>4. (\E w \in v + 1..total' : outcomes'[w] = "Finalized") <=> \E w \in v + 1..total : outcomes[w] = "Finalized"
      BY <1>1, <1>5, <3>2, <3>3
    <3>5. c = ColourOf(v)
      BY <2>1, <3>2, <3>4 DEF ColourOf
    <3> QED
      BY <3>1, <3>5, <1>7, <2>3 DEF c
  <2> QED
    BY <2>2, <2>3
<1> QED
  BY <1>1, <1>3, <1>6, <1>7, <1>8, <1>9 DEF StripInv

LEMMA StripInvShows == StripInv => StripTrue
<1> SUFFICES ASSUME StripInv, NeverIdleAround, NEW i \in Slot, Written(i)
             PROVE  slots[i] = ColourOf(ViewIn(i))
  BY DEF StripInv, StripTrue
<1>1. PICK v : LastIn(i, v)
  BY DEF StripInv
<1>2. LastIn(i, ViewIn(i))
  BY <1>1 DEF LastIn, ViewIn
<1> QED
  BY <1>2 DEF StripInv

(* The strip tells the truth about the views, around the ring, in every run of the
   simulator: no slot is promoted that does not hold the last block.        *)
THEOREM Strip == Spec => []StripTrue
<1>1. Init => StripInv
  BY StripStarts DEF Init
<1>2. StripInv /\ [Next]_vars => StripInv'
  <2> SUFFICES ASSUME StripInv, [Next]_vars PROVE StripInv'
    OBVIOUS
  <2>1. CASE UNCHANGED stripVars
    BY <2>1 DEF stripVars, StripInv, LastIn, LastBlock, Written, NeverIdleAround, ColourOf
  <2>2. CASE ReadStates
    BY <2>2, FinalizedKeepsStrip, NullifiedKeepsStrip DEF ReadStates
  <2> QED
    BY <2>1, <2>2 DEF Next, vars, AskLeader, Deliver, EndDelivery, FireTimer, CollectDummyVotes, RouteDummyVote
<1> QED
  BY <1>1, <1>2, StripInvShows, PTL DEF Spec

-----------------------------------------------------------------------------
(* Nodes in order, and what is sent to them.                                 *)

LEMMA NodeFacts == /\ N \in Nat /\ N >= 4 /\ T \in Nat /\ F \in Nat \ {0} /\ N = 3 * F + 1 /\ T = 2 * F + 1
                   /\ IsFiniteSet(Node) /\ Cardinality(Node) = N
                   /\ \A S : S \subseteq Node =>
                        IsFiniteSet(S) /\ Cardinality(S) \in Nat /\ Cardinality(S) <= N
<1>1. /\ N \in Nat /\ N >= 4 /\ T \in Nat /\ F \in Nat \ {0} /\ N = 3 * F + 1 /\ T = 2 * F + 1
  BY EngineAssumption
<1>2. IsFiniteSet(Node) /\ Cardinality(Node) = N
  BY <1>1, FS_Interval DEF Node
<1> QED
  BY <1>1, <1>2, FS_Subset, FS_CardinalityType

LEMMA InOrderIs ==
  ASSUME NEW S, S \subseteq Node
  PROVE  /\ InOrder(S) \in Seq(Node) /\ ToSet(InOrder(S)) = S
         /\ Len(InOrder(S)) <= Cardinality(S)
<1> DEFINE one(i) == IF i \in S THEN <<i>> ELSE <<>>
           ss == [i \in 1..N |-> one(i)]
<1>0. N \in Nat /\ Node = 1..N
  BY NodeFacts DEF Node
<1>1. \A i \in 1..N : one(i) \in Seq(Node) /\ ToSet(one(i)) = {i} \cap S
  <2> SUFFICES ASSUME NEW i \in 1..N PROVE one(i) \in Seq(Node) /\ ToSet(one(i)) = {i} \cap S
    OBVIOUS
  <2>1. ToSet(<<i>>) = {i} /\ ToSet(<<>>) = {}
    BY DEF ToSet
  <2>2. <<i>> \in Seq(Node) /\ <<>> \in Seq(Node)
    BY <1>0
  <2>3. CASE i \in S
    <3>1. one(i) = <<i>> /\ {i} \cap S = {i}
      BY <2>3
    <3> HIDE DEF one
    <3> QED
      BY <2>1, <2>2, <3>1, Zenon
  <2>4. CASE i \notin S
    <3>1. one(i) = <<>> /\ {i} \cap S = {}
      BY <2>4
    <3> HIDE DEF one
    <3> QED
      BY <2>1, <2>2, <3>1, Zenon
  <2> QED
    BY <2>3, <2>4
<1>2. ss \in Seq(Seq(Node)) /\ Len(ss) = N
  <2>1. PICK V : V = Seq(Node)
    OBVIOUS
  <2>2. ss \in [1..N -> V]
    BY <1>1, <2>1
  <2>3. ss \in Seq(V) /\ Len(ss) = N
    BY <1>0, <2>2
  <2> QED
    BY <2>1, <2>3
<1> HIDE DEF one
<1>3. InOrder(S) = FlattenSeq(ss)
  BY DEF InOrder, one
<1>4. InOrder(S) \in Seq(Node) /\ ToSet(InOrder(S)) = UNION {ToSet(ss[k]) : k \in 1..N}
  <2> HIDE DEF ss
  <2> QED
    BY <1>2, <1>3, FlattenIs
<1>5. UNION {ToSet(ss[k]) : k \in 1..N} = S
  <2>1. \A k \in 1..N : ToSet(ss[k]) = {k} \cap S
    BY <1>1
  <2> HIDE DEF ss
  <2>2. \A x : (\E k \in 1..N : x \in ToSet(ss[k])) <=> x \in S
    BY <1>0, <2>1
  <2>3. \A x : x \in UNION {ToSet(ss[k]) : k \in 1..N} <=> (\E k \in 1..N : x \in ToSet(ss[k]))
    OBVIOUS
  <2> QED
    BY <2>2, <2>3
<1>6. PICK h : Joins(ss, Node, h)
  <2> HIDE DEF ss
  <2> QED
    BY <1>2, JoinExists
<1>7. h \in [0..N -> Seq(Node)] /\ h[0] = <<>> /\ \A k \in 1..N : h[k] = h[k - 1] \o one(k)
  <2>1. h \in [0..N -> Seq(Node)] /\ h[0] = <<>> /\ \A k \in 1..N : h[k] = h[k - 1] \o ss[k]
    <3> HIDE DEF ss
    <3> QED
      BY <1>2, <1>6, Zenon DEF Joins
  <2> QED
    BY <2>1
<1> DEFINE B == {k \in Nat : k \in 0..N => Len(h[k]) = Cardinality(S \cap (1..k))}
<1>8. 0 \in B
  <2>1. S \cap (1..0) = {} /\ Cardinality({}) = 0 /\ Len(<<>>) = 0
    BY FS_EmptySet
  <2>2. Len(h[0]) = Cardinality(S \cap (1..0))
    BY <1>7, <2>1
  <2> QED
    BY <2>2
<1>9. ASSUME NEW k \in Nat, k \in B PROVE k + 1 \in B
  <2>1. SUFFICES ASSUME k + 1 \in 0..N PROVE Len(h[k + 1]) = Cardinality(S \cap (1..k + 1))
    OBVIOUS
  <2>2. k \in 0..N /\ k + 1 \in 1..N /\ (k + 1) - 1 = k /\ 1..k + 1 = (1..k) \cup {k + 1} /\ k + 1 \notin 1..k
    BY <1>0, <2>1
  <2>3. h[k] \in Seq(Node) /\ one(k + 1) \in Seq(Node) /\ h[k + 1] = h[k] \o one(k + 1)
    <3>1. h[k + 1] = h[(k + 1) - 1] \o one(k + 1)
      BY <1>7, <2>2
    <3> QED
      BY <1>1, <1>7, <2>2, <3>1
  <2>4. Len(h[k + 1]) = Len(h[k]) + Len(one(k + 1))
    BY <2>3, ConcatIs
  <2>5. Len(h[k]) = Cardinality(S \cap (1..k))
    BY <1>9, <2>2
  <2>6. IsFiniteSet(S \cap (1..k)) /\ Cardinality(S \cap (1..k)) \in Nat
    BY NodeFacts
  <2>9. PICK a \in Nat : a = Len(h[k])
    BY <2>3
  <2>7. CASE k + 1 \in S
    <3>1. S \cap (1..k + 1) = (S \cap (1..k)) \cup {k + 1} /\ Len(one(k + 1)) = 1
      BY <2>2, <2>7 DEF one
    <3>2. Cardinality((S \cap (1..k)) \cup {k + 1}) = Cardinality(S \cap (1..k)) + 1
      BY <2>2, <2>6, FS_AddElement
    <3>3. Len(h[k + 1]) = a + 1 /\ Cardinality(S \cap (1..k + 1)) = a + 1
      BY <2>4, <2>5, <2>9, <3>1, <3>2
    <3> QED
      BY <3>3
  <2>8. CASE k + 1 \notin S
    <3>1. S \cap (1..k + 1) = S \cap (1..k) /\ Len(one(k + 1)) = 0
      BY <2>2, <2>8 DEF one
    <3>3. Len(h[k + 1]) = a + 0 /\ Cardinality(S \cap (1..k + 1)) = a
      BY <2>4, <2>5, <2>9, <3>1
    <3> QED
      BY <3>3
  <2> QED
    BY <2>7, <2>8
<1>10. N \in B
  <2> HIDE DEF B
  <2> QED
    BY <1>0, <1>8, <1>9, AllNumbers
<1>11. InOrder(S) = h[N]
  <2> HIDE DEF ss
  <2> QED
    BY <1>2, <1>3, <1>6, FlattenJoins
<1>12. Len(h[N]) = Cardinality(S \cap (1..N)) /\ S \cap (1..N) = S /\ Cardinality(S) \in Nat
  <2>1. S \cap (1..N) = S
    BY <1>0
  <2>2. N \in 0..N
    BY <1>0
  <2>3. Len(h[N]) = Cardinality(S \cap (1..N))
    BY <1>10, <2>2
  <2> QED
    BY <2>1, <2>3, NodeFacts
<1>13. PICK c \in Nat : c = Cardinality(S)
  BY NodeFacts
<1>14. Len(InOrder(S)) = c
  BY <1>11, <1>12, <1>13
<1>15. Len(InOrder(S)) <= Cardinality(S)
  BY <1>13, <1>14
<1> QED
  BY <1>4, <1>5, <1>15

LEMMA ToAllIs ==
  ASSUME NEW S, S \subseteq Node, NEW m
  PROVE  /\ Sequence(ToAll(S, m)) /\ ToSet(ToAll(S, m)) = {[to |-> p, message |-> m] : p \in S}
         /\ Len(ToAll(S, m)) <= Cardinality(S)
<1>1. PICK q : q = InOrder(S) /\ q \in Seq(Node) /\ ToSet(q) = S /\ Len(q) <= Cardinality(S)
  BY InOrderIs
<1>2. PICK n \in Nat : n = Len(q) /\ DOMAIN q = 1..n /\ S = {q[i] : i \in 1..n}
  BY <1>1, SetOf
<1>3. ToAll(S, m) = [i \in 1..n |-> [to |-> q[i], message |-> m]]
  BY <1>1, <1>2 DEF ToAll
<1> DEFINE A == {[to |-> p, message |-> m] : p \in S}
           r == [i \in 1..n |-> [to |-> q[i], message |-> m]]
<1>4. r \in [1..n -> A]
  BY <1>2
<1>5. r \in Seq(A) /\ Len(r) = n
  <2> HIDE DEF r, A
  <2> QED
    BY <1>4
<1>6. ToSet(r) = {r[i] : i \in 1..n}
  <2> HIDE DEF r, A
  <2> QED
    BY <1>5, SetOf
<1>7. {r[i] : i \in 1..n} = A
  BY <1>2
<1>8. Sequence(r) /\ ToSet(r) = A /\ Len(r) <= Cardinality(S)
  <2> HIDE DEF r, A
  <2> QED
    BY <1>1, <1>2, <1>5, <1>6, <1>7 DEF Sequence
<1> QED
  BY <1>3, <1>8

(* What an output of sender is on the way to its peers, as a set.           *)
Leaving(out, sender) ==
  CASE out.kind = "Proposal" ->
         {[to |-> c.to, message |-> [kind |-> "Proposal", block |-> c.block]] :
            c \in FilterProposal(sender, view, out.block)}
    [] out.kind \in {"Vote", "NullifyVote"} /\ Withholds(sender, view) -> {}
    [] OTHER -> {[to |-> p, message |-> AsMessage(out, sender)] : p \in Node \ {sender}}

LEMMA OthersFacts ==
  ASSUME NEW r \in Node
  PROVE  Node \ {r} \subseteq Node /\ Cardinality(Node \ {r}) = N - 1
<1>1. Cardinality(Node \ {r}) = Cardinality(Node) - 1
  BY NodeFacts, FS_RemoveElement
<1> QED
  BY <1>1, NodeFacts

LEMMA ProposalsLeave ==
  ASSUME NEW sender \in Node, NEW out, out.kind = "Proposal"
  PROVE  /\ Sequence(FilterOutgoing(out, sender))
         /\ ToSet(FilterOutgoing(out, sender)) = Leaving(out, sender)
         /\ Len(FilterOutgoing(out, sender)) <= N - 1
<1> DEFINE copies == FilterProposal(sender, view, out.block)
           copy(p) == CHOOSE c \in copies : c.to = p
           S == {c.to : c \in copies}
           peers == InOrder(S)
           m(p) == [to |-> p, message |-> [kind |-> "Proposal", block |-> copy(p).block]]
           A == {m(p) : p \in S}
<1>1. /\ \A c \in copies : c = [to |-> c.to, block |-> c.block] /\ c.to \in Node \ {sender}
      /\ \A c, e \in copies : c.to = e.to => c = e
  BY DEF FilterProposal
<1>2. S \subseteq Node /\ S \subseteq Node \ {sender}
  BY <1>1
<1>3. peers \in Seq(Node) /\ ToSet(peers) = S /\ Len(peers) <= Cardinality(S)
  <2> HIDE DEF S
  <2> QED
    BY <1>2, InOrderIs
<1>4. PICK n \in Nat : n = Len(peers) /\ DOMAIN peers = 1..n /\ S = {peers[i] : i \in 1..n}
  <2> HIDE DEF S, peers
  <2>1. Len(peers) \in Nat /\ DOMAIN peers = 1..Len(peers) /\ ToSet(peers) = {peers[i] : i \in 1..Len(peers)}
    BY <1>3, SetOf
  <2> QED
    BY <1>3, <2>1
<1> DEFINE q == [i \in 1..n |-> m(peers[i])]
<1>5. FilterOutgoing(out, sender) = q
  BY <1>4 DEF FilterOutgoing
<1>6. q \in Seq(A) /\ Len(q) = n /\ ToSet(q) = {q[i] : i \in 1..n}
  <2>1. q \in [1..n -> A]
    <3> HIDE DEF peers, m, S
    <3> QED
      BY <1>4
  <2> HIDE DEF q, A
  <2>2. q \in Seq(A) /\ Len(q) = n
    BY <2>1
  <2> QED
    BY <2>2, SetOf
<1>7. {q[i] : i \in 1..n} = A
  <2> HIDE DEF peers, m, S
  <2> QED
    BY <1>4
<1>8. A = Leaving(out, sender)
  <2>1. \A c \in copies : copy(c.to) = c
    <3> HIDE DEF copies
    <3> QED
      BY <1>1
  <2>2. Leaving(out, sender) = {[to |-> c.to, message |-> [kind |-> "Proposal", block |-> c.block]] : c \in copies}
    BY DEF Leaving
  <2> HIDE DEF copies, copy
  <2> QED
    BY <2>1, <2>2
<1>9. n <= N - 1
  <2>1. Cardinality(S) <= N - 1 /\ Cardinality(S) \in Nat
    <3> HIDE DEF S
    <3>1. IsFiniteSet(Node \ {sender}) /\ Cardinality(Node \ {sender}) = N - 1
      BY NodeFacts, OthersFacts
    <3> QED
      BY <1>2, <3>1, FS_Subset, NodeFacts
  <2> HIDE DEF S, peers
  <2> QED
    BY <1>3, <1>4, <2>1, NodeFacts
<1> HIDE DEF q, A
<1> QED
  BY <1>5, <1>6, <1>7, <1>8, <1>9 DEF Sequence

LEMMA OutputsLeave ==
  ASSUME NEW sender \in Node, NEW out
  PROVE  /\ Sequence(FilterOutgoing(out, sender))
         /\ ToSet(FilterOutgoing(out, sender)) = Leaving(out, sender)
         /\ Len(FilterOutgoing(out, sender)) <= N - 1
<1>1. CASE out.kind = "Proposal"
  BY <1>1, ProposalsLeave
<1>2. CASE out.kind # "Proposal" /\ out.kind \in {"Vote", "NullifyVote"} /\ Withholds(sender, view)
  <2>1. FilterOutgoing(out, sender) = <<>> /\ Leaving(out, sender) = {}
    BY <1>2 DEF FilterOutgoing, Leaving
  <2>2. Len(<<>>) = 0 /\ N - 1 \in Nat
    BY NodeFacts
  <2> QED
    BY <2>1, <2>2, EmptyListed
<1>3. CASE out.kind # "Proposal" /\ ~(out.kind \in {"Vote", "NullifyVote"} /\ Withholds(sender, view))
  <2> DEFINE m == AsMessage(out, sender)
             others == Node \ {sender}
  <2>1. FilterOutgoing(out, sender) = ToAll(others, m) /\ Leaving(out, sender) = {[to |-> p, message |-> m] : p \in others}
    BY <1>3 DEF FilterOutgoing, Leaving
  <2>2. others \subseteq Node /\ Cardinality(others) = N - 1
    BY OthersFacts
  <2> HIDE DEF m, others
  <2> QED
    BY <2>1, <2>2, ToAllIs
<1> QED
  BY <1>1, <1>2, <1>3

LEMMA FilteredIs ==
  ASSUME NEW outs, Sequence(outs), NEW sender \in Node
  PROVE  /\ Sequence(Filtered(outs, sender))
         /\ ToSet(Filtered(outs, sender)) = UNION {Leaving(out, sender) : out \in ToSet(outs)}
         /\ Len(outs) \in Nat /\ Len(Filtered(outs, sender)) <= Len(outs) * (N - 1)
<1> DEFINE ss == [i \in DOMAIN outs |-> FilterOutgoing(outs[i], sender)]
<1>1. PICK n \in Nat : n = Len(outs) /\ DOMAIN outs = 1..n /\ ToSet(outs) = {outs[i] : i \in 1..n}
  <2>1. PICK S : outs \in Seq(S)
    BY DEF Sequence
  <2>2. Len(outs) \in Nat /\ DOMAIN outs = 1..Len(outs) /\ ToSet(outs) = {outs[i] : i \in 1..Len(outs)}
    BY <2>1, SetOf
  <2> QED
    BY <2>2
<1>2. ss = [k \in 1..n |-> ss[k]]
  BY <1>1
<1>3. \A k \in 1..n : ss[k] = FilterOutgoing(outs[k], sender)
  BY <1>1
<1> HIDE DEF ss
<1>4. \A k \in 1..n : Sequence(ss[k]) /\ ToSet(ss[k]) = Leaving(outs[k], sender) /\ Len(ss[k]) <= N - 1
  BY <1>3, OutputsLeave
<1>5. Filtered(outs, sender) = FlattenSeq(ss)
  BY DEF Filtered, ss
<1>6. /\ Sequence(FlattenSeq(ss)) /\ ToSet(FlattenSeq(ss)) = UNION {ToSet(ss[k]) : k \in 1..n}
      /\ \A w \in Nat : (\A k \in 1..n : Len(ss[k]) <= w) => Len(FlattenSeq(ss)) <= n * w
  BY <1>2, <1>4, FlattenSequence
<1>7. UNION {ToSet(ss[k]) : k \in 1..n} = UNION {Leaving(out, sender) : out \in ToSet(outs)}
  <2>1. \A x : (\E k \in 1..n : x \in ToSet(ss[k])) <=> (\E out \in ToSet(outs) : x \in Leaving(out, sender))
    BY <1>1, <1>4
  <2> QED
    BY <2>1
<1>8. Len(FlattenSeq(ss)) <= n * (N - 1)
  <2>1. PICK w \in Nat : w = N - 1
    BY NodeFacts
  <2>2. \A k \in 1..n : Len(ss[k]) <= w
    BY <1>4, <2>1
  <2>3. Len(FlattenSeq(ss)) <= n * w
    BY <1>6, <2>2
  <2> QED
    BY <2>1, <2>3
<1> QED
  BY <1>1, <1>5, <1>6, <1>7, <1>8

-----------------------------------------------------------------------------
(* What is always true of the state of node r, and what each handler makes of
   it.                                                                      *)

NodeState(r, s) ==
  /\ DOMAIN s = Fields /\ s.view \in Nat \ {0} /\ s.dummy_sent \in BOOLEAN /\ Sequence(s.tip)
  /\ \A b : /\ Listed(VotesFor(s, b)) /\ ToSet(VotesFor(s, b)) \subseteq Node
            /\ r \in ToSet(VotesFor(s, b)) => s.voted_block = b /\ b # Genesis
  /\ Listed(s.nullify_votes) /\ ToSet(s.nullify_votes) \subseteq Node
  /\ r \in ToSet(s.nullify_votes) => s.dummy_sent = TRUE
  /\ Listed(s.finalize_votes) /\ ToSet(s.finalize_votes) \subseteq Node \ {r}

LEMMA ProposeShape ==
  ASSUME NEW r, NEW s, NodeState(r, s), NEW l, NEW h, NEW payload
  PROVE  LET res == HandleProposeRequest(s, r, l, h, payload)
         IN  \/ Quiet(s, res) /\ ~(h = s.view /\ l = r)
             \/ h = s.view /\ l = r /\ Proposes(s, res, r, NextBlock(s, r, payload))
<1>1. CASE h # s.view \/ l # r
  BY <1>1, IgnoredIs DEF HandleProposeRequest
<1>2. CASE h = s.view /\ l = r
  <2> DEFINE b == NextBlock(s, r, payload)
             x == [Push(s, b, r) EXCEPT !.voted_block = b, !.known_blocks = @ \cup {b}]
             p == [kind |-> "Proposal", block |-> b]
             v == VoteOut(s, b)
             res == HandleProposeRequest(s, r, l, h, payload)
  <2>1. res = Result(x, Pending, <<p, v>>)
    BY <1>2 DEF HandleProposeRequest, NextBlock, VoteOut
  <2>2. Ballot(s, x, b, r)
    BY BallotIs DEF NodeState
  <2> HIDE DEF x, p, v, b
  <2>3. res.state = x /\ res.transition = Pending /\ res.out = <<p, v>> /\ Pending.kind = "Pending"
    BY <2>1 DEF Result, Pending
  <2> HIDE DEF res
  <2>4. Sequence(res.out) /\ Len(res.out) = 2 /\ ToSet(res.out) = {p, v} /\ Distinct(res.out)
    <3>1. PICK q : q = <<p, v>>
      OBVIOUS
    <3>2. Sequence(q) /\ Len(q) = 2 /\ ToSet(q) = {p, v}
      BY <3>1, PairIs
    <3>3. res.out = q
      BY <2>3, <3>1
    <3>4. Distinct(q)
      <4>1. DOMAIN q = {1, 2} /\ q[1].kind = "Proposal" /\ q[2].kind = "Vote"
        BY <3>1 DEF p, v, VoteOut
      <4> QED
        BY <4>1 DEF Distinct
    <3> QED
      BY <3>2, <3>3, <3>4
  <2>5. Proposes(s, res, r, b)
    BY <2>2, <2>3, <2>4 DEF Proposes, p, v
  <2> QED
    BY <1>2, <2>5 DEF res, b
<1> QED
  BY <1>1, <1>2

LEMMA ProposalShape ==
  ASSUME NEW r \in Node, NEW s, NodeState(r, s), NEW l, NEW b, b # Genesis
  PROVE  LET res == HandleProposal(s, r, l, b)
         IN  \/ Quiet(s, res) /\ ViewOf(b) # s.view
             \/ ViewOf(b) = s.view /\ ~Fits(s, l, b) /\ Refuses(s, res, b)
             \/ ViewOf(b) = s.view /\ Fits(s, l, b) /\ (VotesAndStays(s, res, b, r) \/ VotesAndLeaves(s, res, b))
<1> DEFINE res == HandleProposal(s, r, l, b)
           stored == [s EXCEPT !.known_blocks = @ \cup {b}]
<1>1. CASE ViewOf(b) # s.view
  <2>1. res = Result(s, Rejected("WrongView"), <<>>)
    BY <1>1 DEF HandleProposal
  <2> QED
    BY <1>1, <2>1 DEF Quiet, Result, Rejected
<1>2. CASE ViewOf(b) = s.view /\ ~Fits(s, l, b)
  <2>1. \E reason : res = Result(stored, Rejected(reason), <<>>)
    BY <1>2 DEF HandleProposal, Fits
  <2>2. Kept(s, stored, {"known_blocks"}) /\ stored.known_blocks = s.known_blocks \cup {b}
    BY DEF NodeState, Kept, Fields
  <2> HIDE DEF stored, res
  <2>3. Refuses(s, res, b)
    BY <2>1, <2>2 DEF Refuses, Result, Rejected
  <2> QED
    BY <1>2, <2>3 DEF res
<1>3. CASE ViewOf(b) = s.view /\ Fits(s, l, b)
  <2> DEFINE x == [Push(stored, b, r) EXCEPT !.voted_block = b]
             try == TryNotarize(x, b)
             v == VoteOut(s, b)
  <2>1. res = [try EXCEPT !.out = <<v>> \o @]
    BY <1>3 DEF HandleProposal, Fits, VoteOut
  <2>2. Ballot(s, x, b, r)
    BY BallotIs DEF NodeState
  <2>3. r \notin ToSet(VotesFor(s, b))
    BY <1>3 DEF NodeState, Fits
  <2> HIDE DEF x, v
  <2>4. /\ DOMAIN x = Fields /\ Listed(VotesFor(x, b)) /\ x.view = s.view /\ x.dummy_sent = s.dummy_sent
        /\ Len(VotesFor(x, b)) = Len(VotesFor(s, b)) + 1 /\ Len(VotesFor(s, b)) \in Nat
    <3>1. Listed(VotesFor(s, b)) /\ VotesFor(x, b) = Append(VotesFor(s, b), r)
      BY <2>2 DEF NodeState, Ballot, Pushed
    <3>2. Listed(VotesFor(x, b)) /\ Len(VotesFor(x, b)) = Len(VotesFor(s, b)) + 1 /\ Len(VotesFor(s, b)) \in Nat
      BY <2>3, <3>1, AppendListed, ListLength
    <3> QED
      BY <2>2, <3>2 DEF Ballot, Kept, BallotFields, Fields
  <2>5. CASE Len(VotesFor(x, b)) < T /\ try = Ignored(x)
    <3>1. res.state = x /\ res.transition = Pending /\ res.out = <<v>> \o <<>> /\ Pending.kind = "Pending"
      BY <2>1, <2>5 DEF Ignored, Result, Pending
    <3>2. res.out = <<v>>
      BY <3>1, PairIs
    <3>3. Sequence(res.out) /\ Len(res.out) = 1 /\ ToSet(res.out) = {v} /\ Distinct(res.out)
      <4>1. Distinct(<<v>>)
        BY DEF Distinct
      <4>2. Distinct(res.out)
        BY <3>2, <4>1
      <4>3. Sequence(res.out) /\ Len(res.out) = 1 /\ ToSet(res.out) = {v}
        BY <3>2, PairIs
      <4> QED
        BY <4>2, <4>3
    <3> HIDE DEF res
    <3>4. VotesAndStays(s, res, b, r)
      BY <2>2, <2>5, <3>1, <3>3 DEF VotesAndStays, v
    <3> QED
      BY <1>3, <3>4 DEF res
  <2>6. CASE Len(VotesFor(x, b)) >= T /\ LeavesWith(x, try, b, NotarySeed(b))
    <3> HIDE DEF try
    <3>1. /\ res.state = try.state /\ res.transition = try.transition /\ res.out = <<v>> \o try.out
      BY <2>1, <2>6 DEF LeavesWith
    <3>2. Sequence(try.out) /\ Len(try.out) \in Nat /\ Len(try.out) <= 2 /\ ToSet(try.out) = Announced(x, b)
      BY <2>6 DEF LeavesWith
    <3>3. Sequence(<<v>>) /\ Len(<<v>>) = 1 /\ ToSet(<<v>>) = {v}
      BY PairIs
    <3>4. Sequence(res.out) /\ Len(res.out) = 1 + Len(try.out) /\ ToSet(res.out) = {v} \cup Announced(x, b)
      BY <3>1, <3>2, <3>3, ConcatSequence
    <3>9. Distinct(res.out)
      <4>1. \A o \in ToSet(try.out) : o.kind # v.kind
        BY <3>2 DEF Announced, Relay, v, VoteOut
      <4>2. Distinct(try.out)
        BY <2>6 DEF LeavesWith
      <4> QED
        BY <3>1, <3>2, <4>1, <4>2, DistinctIs
    <3>5. Announced(x, b) = Announced(s, b)
      BY <2>4 DEF Announced
    <3>6. LeftBehind(s, res.state) /\ res.state.tip = b /\ res.state.seed = NotarySeed(b) /\ res.transition.kind = "Notarized"
      BY <2>4, <2>6, <3>1 DEF LeavesWith, LeftBehind
    <3>7. Len(res.out) \in Nat /\ Len(res.out) <= 3 /\ T <= Len(VotesFor(s, b)) + 1
      BY <2>4, <2>6, <3>2, <3>4
    <3> HIDE DEF res
    <3>8. VotesAndLeaves(s, res, b)
      BY <3>4, <3>5, <3>6, <3>7, <3>9 DEF VotesAndLeaves, v
    <3> QED
      BY <1>3, <3>8 DEF res
  <2> QED
    BY <2>4, <2>5, <2>6, TryNotarizeIs DEF try
<1> QED
  BY <1>1, <1>2, <1>3

LEMMA VoteShape ==
  ASSUME NEW r \in Node, NEW s, NodeState(r, s), NEW h, NEW b, NEW q
  PROVE  LET res == HandleVote(s, h, b, q)
         IN  \/ Quiet(s, res) /\ (h = s.view => q \in ToSet(VotesFor(s, b)))
             \/ /\ h = s.view /\ q \notin ToSet(VotesFor(s, b))
                /\ \/ Counts(s, res, b, q)
                   \/ /\ b \in s.known_blocks /\ T <= Len(VotesFor(s, b)) + 1
                      /\ LeavesWith(s, res, b, NotarySeed(b))
<1> DEFINE res == HandleVote(s, h, b, q)
           x == Push(s, b, q)
<1>1. CASE h # s.view \/ q \in ToSet(VotesFor(s, b))
  BY <1>1, IgnoredIs DEF HandleVote
<1>2. CASE h = s.view /\ q \notin ToSet(VotesFor(s, b))
  <2>1. res = IF b \in s.known_blocks THEN TryNotarize(x, b) ELSE Ignored(x)
    BY <1>2 DEF HandleVote
  <2>2. Kept(s, x, {"notarize_votes"}) /\ Pushed(s, x, b, q)
    BY PushIs DEF NodeState
  <2>3. Listed(VotesFor(s, b)) /\ VotesFor(x, b) = Append(VotesFor(s, b), q)
    BY <2>2 DEF NodeState, Pushed
  <2>4. Listed(VotesFor(x, b)) /\ Len(VotesFor(x, b)) = Len(VotesFor(s, b)) + 1 /\ Len(VotesFor(s, b)) \in Nat
    BY <1>2, <2>3, AppendListed, ListLength
  <2> HIDE DEF x, res
  <2>5. x.view = s.view /\ x.dummy_sent = s.dummy_sent /\ DOMAIN x = Fields
    BY <2>2 DEF Kept, Fields
  <2>6. CASE b \notin s.known_blocks \/ (Len(VotesFor(x, b)) < T /\ TryNotarize(x, b) = Ignored(x))
    <3>1. res = Ignored(x)
      BY <2>1, <2>6
    <3>2. res.state = x /\ res.transition.kind = "Pending" /\ res.out = <<>>
      BY <3>1 DEF Ignored, Result, Pending
    <3>3. Counts(s, res, b, q)
      BY <2>2, <2>6, <3>2 DEF Counts
    <3> QED
      BY <1>2, <3>3 DEF res
  <2>7. CASE b \in s.known_blocks /\ Len(VotesFor(x, b)) >= T /\ LeavesWith(x, TryNotarize(x, b), b, NotarySeed(b))
    <3>1. res = TryNotarize(x, b)
      BY <2>1, <2>7
    <3>2. LeavesWith(s, res, b, NotarySeed(b))
      BY <2>5, <2>7, <3>1 DEF LeavesWith, LeftBehind, Announced
    <3>3. T <= Len(VotesFor(s, b)) + 1
      BY <2>4, <2>7
    <3> QED
      BY <1>2, <2>7, <3>2, <3>3 DEF res
  <2> QED
    BY <2>4, <2>5, <2>6, <2>7, TryNotarizeIs
<1> QED
  BY <1>1, <1>2

LEMMA TimeoutShape ==
  ASSUME NEW r \in Node, NEW s, NodeState(r, s), NEW h
  PROVE  LET res == HandleTimeout(s, r, h)
         IN  \/ Quiet(s, res) /\ (h = s.view => s.dummy_sent = TRUE)
             \/ h = s.view /\ s.dummy_sent = FALSE /\ (TimesOut(s, res, r) \/ TimesOutLast(s, res))
<1> DEFINE res == HandleTimeout(s, r, h)
           x == [s EXCEPT !.dummy_sent = TRUE, !.nullify_votes = Append(@, r)]
           out == [kind |-> "NullifyVote", view |-> s.view]
           try == TryNullify(x)
<1>0. s.dummy_sent \in BOOLEAN
  BY DEF NodeState
<1>1. CASE h # s.view \/ s.dummy_sent
  BY <1>0, <1>1, IgnoredIs DEF HandleTimeout
<1>2. CASE h = s.view /\ ~s.dummy_sent
  <2>1. res = [try EXCEPT !.out = <<out>> \o @]
    BY <1>2 DEF HandleTimeout
  <2>2. /\ Kept(s, x, {"dummy_sent", "nullify_votes"}) /\ x.dummy_sent = TRUE
        /\ x.nullify_votes = Append(s.nullify_votes, r) /\ x.view = s.view /\ x.tip = s.tip /\ DOMAIN x = Fields
    BY DEF NodeState, Kept, Fields
  <2> HIDE DEF x, out
  <2>3. Listed(s.nullify_votes) /\ r \notin ToSet(s.nullify_votes)
    BY <1>2 DEF NodeState
  <2>4. Listed(x.nullify_votes) /\ Len(x.nullify_votes) = Len(s.nullify_votes) + 1 /\ Len(s.nullify_votes) \in Nat
    BY <2>2, <2>3, AppendListed, ListLength
  <2>5. <<out>> \o <<>> = <<out>>
    BY PairIs
  <2>6. CASE Len(x.nullify_votes) < T /\ try = Ignored(x)
    <3>1. res.state = x /\ res.transition.kind = "Pending" /\ res.out = <<out>>
      BY <2>1, <2>5, <2>6 DEF Ignored, Result, Pending
    <3> HIDE DEF res
    <3>2. TimesOut(s, res, r)
      BY <2>2, <2>6, <3>1 DEF TimesOut, out
    <3> QED
      BY <1>0, <1>2, <3>2 DEF res
  <2>7. CASE Len(x.nullify_votes) >= T /\ GivesUp(x, try)
    <3> HIDE DEF try
    <3>1. res.state = try.state /\ res.transition = try.transition /\ res.out = <<out>>
      BY <2>1, <2>5, <2>7 DEF GivesUp
    <3>2. T <= Len(s.nullify_votes) + 1
      BY <2>4, <2>7
    <3> HIDE DEF res
    <3>3. TimesOutLast(s, res)
      BY <2>2, <2>7, <3>1, <3>2 DEF TimesOutLast, GivesUp, LeftBehind, out
    <3> QED
      BY <1>0, <1>2, <3>3 DEF res
  <2> QED
    BY <2>2, <2>4, <2>6, <2>7, TryNullifyIs DEF try
<1> QED
  BY <1>0, <1>1, <1>2

LEMMA NullifyShape ==
  ASSUME NEW r \in Node, NEW s, NodeState(r, s), NEW h, NEW q
  PROVE  LET res == HandleNullifyVote(s, h, q)
         IN  \/ Quiet(s, res) /\ (h = s.view => q \in ToSet(s.nullify_votes))
             \/ /\ h = s.view /\ q \notin ToSet(s.nullify_votes)
                /\ \/ CountsDummy(s, res, q)
                   \/ GivesUp(s, res) /\ T <= Len(s.nullify_votes) + 1
<1> DEFINE res == HandleNullifyVote(s, h, q)
           x == [s EXCEPT !.nullify_votes = Append(@, q)]
           try == TryNullify(x)
<1>1. CASE h # s.view \/ q \in ToSet(s.nullify_votes)
  BY <1>1, IgnoredIs DEF HandleNullifyVote
<1>2. CASE h = s.view /\ q \notin ToSet(s.nullify_votes)
  <2>1. res = try
    BY <1>2 DEF HandleNullifyVote
  <2>2. /\ Kept(s, x, {"nullify_votes"}) /\ x.nullify_votes = Append(s.nullify_votes, q)
        /\ x.view = s.view /\ x.tip = s.tip /\ DOMAIN x = Fields
    BY DEF NodeState, Kept, Fields
  <2> HIDE DEF x
  <2>3. Listed(s.nullify_votes)
    BY DEF NodeState
  <2>4. Listed(x.nullify_votes) /\ Len(x.nullify_votes) = Len(s.nullify_votes) + 1 /\ Len(s.nullify_votes) \in Nat
    BY <1>2, <2>2, <2>3, AppendListed, ListLength
  <2>6. CASE Len(x.nullify_votes) < T /\ try = Ignored(x)
    <3>1. res.state = x /\ res.transition.kind = "Pending" /\ res.out = <<>>
      BY <2>1, <2>6 DEF Ignored, Result, Pending
    <3> HIDE DEF res
    <3>2. CountsDummy(s, res, q)
      BY <2>2, <2>6, <3>1 DEF CountsDummy
    <3> QED
      BY <1>2, <3>2 DEF res
  <2>7. CASE Len(x.nullify_votes) >= T /\ GivesUp(x, try)
    <3>1. GivesUp(s, try)
      BY <2>2, <2>7 DEF GivesUp, LeftBehind
    <3>2. T <= Len(s.nullify_votes) + 1
      BY <2>4, <2>7
    <3> HIDE DEF try, res
    <3> QED
      BY <1>2, <2>1, <3>1, <3>2 DEF res
  <2> QED
    BY <2>2, <2>4, <2>6, <2>7, TryNullifyIs DEF try
<1> QED
  BY <1>1, <1>2

LEMMA FinalizeShape ==
  ASSUME NEW r \in Node, NEW s, NodeState(r, s), NEW h, NEW q
  PROVE  LET res == HandleFinalizeVote(s, h, q)
         IN  \/ Quiet(s, res) /\ (h \in {s.view, s.view - 1} => q \in ToSet(s.finalize_votes))
             \/ /\ h \in {s.view, s.view - 1} /\ q \notin ToSet(s.finalize_votes)
                /\ CountsFinal(s, res, h, q)
<1> DEFINE res == HandleFinalizeVote(s, h, q)
           x == [s EXCEPT !.finalize_votes = Append(@, q)]
           try == TryFinalize(x, h)
           y == [x EXCEPT !.finalized_count = @ + 1]
<1>1. CASE h \notin {s.view, s.view - 1} \/ q \in ToSet(s.finalize_votes)
  BY <1>1, IgnoredIs DEF HandleFinalizeVote
<1>2. CASE h \in {s.view, s.view - 1} /\ q \notin ToSet(s.finalize_votes)
  <2>1. res = try
    BY <1>2 DEF HandleFinalizeVote
  <2>2. /\ Kept(s, x, {"finalize_votes", "finalized_count"}) /\ x.finalize_votes = Append(s.finalize_votes, q)
        /\ Kept(s, y, {"finalize_votes", "finalized_count"}) /\ y.finalize_votes = Append(s.finalize_votes, q)
    BY DEF NodeState, Kept, Fields
  <2>3. Listed(s.finalize_votes)
    BY DEF NodeState
  <2>4. try = IF Len(x.finalize_votes) < T THEN Ignored(x)
              ELSE Result(y, [kind |-> "Finalized", view |-> h], <<>>)
    BY DEF TryFinalize
  <2> HIDE DEF x, y, try
  <2>5. Len(x.finalize_votes) \in Nat /\ T \in Nat
    BY <2>2, <2>3, ListLength, NodeFacts
  <2>6. CountsFinal(s, try, h, q)
    <3>1. CASE Len(x.finalize_votes) < T
      <4>1. try.state = x /\ try.transition.kind = "Pending" /\ try.out = <<>>
        BY <2>4, <3>1 DEF Ignored, Result, Pending
      <4> QED
        BY <2>2, <4>1 DEF CountsFinal
    <3>2. CASE ~(Len(x.finalize_votes) < T)
      <4>1. try.state = y /\ try.transition = [kind |-> "Finalized", view |-> h] /\ try.out = <<>>
        BY <2>4, <3>2 DEF Result
      <4>2. T <= Len(y.finalize_votes)
        BY <2>2, <2>5, <3>2
      <4> QED
        BY <2>2, <4>1, <4>2 DEF CountsFinal
    <3> QED
      BY <3>1, <3>2
  <2> HIDE DEF res
  <2> QED
    BY <1>2, <2>1, <2>6 DEF res
<1> QED
  BY <1>1, <1>2

LEMMA NotarizationShape ==
  ASSUME NEW r, NEW s, NodeState(r, s), NEW h, NEW b
  PROVE  LET res == HandleNotarization(s, h, b)
         IN  \/ Quiet(s, res) /\ h # s.view
             \/ h = s.view /\ LeavesWith(s, res, b, s.seed)
<1>1. CASE h # s.view
  BY <1>1, IgnoredIs DEF HandleNotarization
<1>2. CASE h = s.view
  BY <1>2, NotarizedShape DEF HandleNotarization, NodeState
<1> QED
  BY <1>1, <1>2

Forgery(p, sender, out, c) ==
  [to |-> p, message |-> [kind |-> "Vote", view |-> out.view, signer |-> sender, block |-> c]]

LEMMA ForgedIs ==
  ASSUME NEW outs, Sequence(outs), NEW sender \in Node, NEW blocks, IsFiniteSet(blocks)
  PROVE  LET forged == ForgedVotes(outs, sender, blocks)
         IN  /\ Sequence(forged)
             /\ \A e \in ToSet(forged) :
                  \E p \in Node \ {sender}, out \in ToSet(outs), c \in blocks :
                     out.kind = "Vote" /\ e = Forgery(p, sender, out, c)
             /\ behavior[sender] # "Capitulator" => forged = <<>>
             /\ (/\ Distinct(outs)
                 /\ \A out \in ToSet(outs) : out.kind = "Vote" => Cardinality(blocks \ {out.block}) <= 1)
                => Len(forged) <= N - 1
<1> DEFINE forged == ForgedVotes(outs, sender, blocks)
           others == Node \ {sender}
           left(out) == blocks \ {out.block}
           m(out, i) == [kind |-> "Vote", view |-> out.view, signer |-> sender, block |-> SetToSeq(left(out))[i]]
           copies(out) == [i \in 1..Cardinality(left(out)) |-> ToAll(others, m(out, i))]
           forge(out) == FlattenSeq(copies(out))
           ss == [i \in DOMAIN outs |-> IF outs[i].kind = "Vote" THEN forge(outs[i]) ELSE <<>>]
<1>1. CASE behavior[sender] # "Capitulator"
  <2>1. forged = <<>> /\ Sequence(<<>>) /\ ToSet(<<>>) = {} /\ Len(<<>>) = 0 /\ 0 <= N - 1
    BY <1>1, EmptyListed, NodeFacts DEF ForgedVotes
  <2> HIDE DEF forged
  <2> QED
    BY <2>1 DEF forged
<1>2. CASE behavior[sender] = "Capitulator"
  <2>1. forged = FlattenSeq(ss)
    BY <1>2 DEF ForgedVotes
  <2>2. PICK n \in Nat : n = Len(outs) /\ DOMAIN outs = 1..n /\ ToSet(outs) = {outs[i] : i \in 1..n}
    <3>1. PICK S : outs \in Seq(S)
      BY DEF Sequence
    <3>2. Len(outs) \in Nat /\ DOMAIN outs = 1..Len(outs) /\ ToSet(outs) = {outs[i] : i \in 1..Len(outs)}
      BY <3>1, SetOf
    <3> QED
      BY <3>2
  <2> HIDE DEF forged
  <2>3. ASSUME NEW out
        PROVE  /\ Sequence(forge(out))
               /\ \A e \in ToSet(forge(out)) : \E p \in others, c \in blocks : e = Forgery(p, sender, out, c)
               /\ Cardinality(left(out)) <= 1 => Len(forge(out)) <= N - 1
    <3>1. IsFiniteSet(left(out))
      BY FS_Subset
    <3>2. Cardinality(left(out)) \in Nat /\ SetToSeq(left(out)) \in [1..Cardinality(left(out)) -> left(out)]
      BY <3>1, SetToSeqIs
    <3>3. PICK k \in Nat : k = Cardinality(left(out))
      BY <3>2
    <3>4. others \subseteq Node /\ Cardinality(others) = N - 1
      BY OthersFacts
    <3>5. copies(out) = [i \in 1..k |-> ToAll(others, m(out, i))]
      BY <3>3
    <3>6. \A i \in 1..k : SetToSeq(left(out))[i] \in blocks
      BY <3>2, <3>3
    <3>7. PICK cc : cc = copies(out)
      OBVIOUS
    <3>8. ASSUME NEW i \in 1..k
          PROVE  /\ Sequence(cc[i]) /\ Len(cc[i]) <= N - 1
                 /\ ToSet(cc[i]) = {[to |-> p, message |-> m(out, i)] : p \in others}
      <4>1. cc[i] = ToAll(others, m(out, i))
        BY <3>5, <3>7
      <4> HIDE DEF m, others, copies, forge
      <4> QED
        BY <3>4, <4>1, ToAllIs
    <3>9. cc = [i \in 1..k |-> cc[i]]
      BY <3>5, <3>7
    <3>10. /\ Sequence(FlattenSeq(cc)) /\ ToSet(FlattenSeq(cc)) = UNION {ToSet(cc[i]) : i \in 1..k}
           /\ \A w \in Nat : (\A i \in 1..k : Len(cc[i]) <= w) => Len(FlattenSeq(cc)) <= k * w
      <4> HIDE DEF m, others, copies, forge
      <4> QED
        BY <3>8, <3>9, FlattenSequence
    <3>11. ASSUME NEW e \in ToSet(FlattenSeq(cc))
           PROVE  \E p \in others, c \in blocks : e = Forgery(p, sender, out, c)
      <4>1. PICK i \in 1..k : e \in ToSet(cc[i])
        BY <3>10
      <4>2. PICK p \in others : e = [to |-> p, message |-> m(out, i)]
        BY <3>8, <4>1
      <4> QED
        BY <3>6, <4>2 DEF Forgery
    <3>12. ASSUME k <= 1 PROVE Len(FlattenSeq(cc)) <= N - 1
      <4>1. PICK w \in Nat : w = N - 1
        BY NodeFacts
      <4>2. Len(FlattenSeq(cc)) <= k * w
        BY <3>8, <3>10, <4>1
      <4>3. PICK l \in Nat : l = Len(FlattenSeq(cc))
        BY <3>10, SequenceOfSet
      <4>4. k = 0 \/ k = 1
        BY <3>12
      <4>5. l <= w
        BY <4>2, <4>3, <4>4
      <4> QED
        BY <4>1, <4>3, <4>5
    <3>13. forge(out) = FlattenSeq(cc)
      BY <3>7
    <3> HIDE DEF forge, copies, m, others
    <3> QED
      BY <3>3, <3>10, <3>11, <3>12, <3>13
  <2>4. ss = [k \in 1..n |-> ss[k]] /\ \A k \in 1..n : ss[k] = IF outs[k].kind = "Vote" THEN forge(outs[k]) ELSE <<>>
    BY <2>2
  <2> HIDE DEF ss, forge, others
  <2>5. \A k \in 1..n : Sequence(ss[k])
    BY <2>3, <2>4, EmptyListed
  <2>6. Sequence(forged) /\ ToSet(forged) = UNION {ToSet(ss[k]) : k \in 1..n}
    BY <2>1, <2>4, <2>5, FlattenSequence
  <2>7. ASSUME NEW e \in ToSet(forged)
        PROVE  \E p \in Node \ {sender}, out \in ToSet(outs), c \in blocks :
                  out.kind = "Vote" /\ e = Forgery(p, sender, out, c)
    <3>1. PICK k \in 1..n : e \in ToSet(ss[k])
      BY <2>6
    <3>2. outs[k].kind = "Vote"
      BY <2>4, <3>1, EmptyListed
    <3>3. e \in ToSet(forge(outs[k])) /\ outs[k] \in ToSet(outs)
      BY <2>2, <2>4, <3>1, <3>2
    <3>4. PICK p \in others, c \in blocks : e = Forgery(p, sender, outs[k], c)
      BY <2>3, <3>3
    <3> QED
      BY <3>2, <3>3, <3>4 DEF others
  <2>8. ASSUME Distinct(outs), \A out \in ToSet(outs) : out.kind = "Vote" => Cardinality(blocks \ {out.block}) <= 1
        PROVE  Len(forged) <= N - 1
    <3>1. PICK w \in Nat : w = N - 1
      BY NodeFacts
    <3>2. \A k \in 1..n : Len(ss[k]) <= w
      <4>1. SUFFICES ASSUME NEW k \in 1..n PROVE Len(ss[k]) <= w
        OBVIOUS
      <4>2. CASE outs[k].kind = "Vote"
        <5>1. outs[k] \in ToSet(outs)
          BY <2>2
        <5>2. Cardinality(left(outs[k])) <= 1
          BY <2>8, <4>2, <5>1
        <5> HIDE DEF left
        <5>3. Len(forge(outs[k])) <= N - 1
          BY <2>3, <5>2
        <5> QED
          BY <2>4, <3>1, <4>2, <5>3
      <4>3. CASE outs[k].kind # "Vote"
        <5>1. ss[k] = <<>> /\ Len(<<>>) = 0
          BY <2>4, <4>3
        <5> QED
          BY <5>1
      <4> QED
        BY <4>2, <4>3
    <3>3. \A i, j \in 1..n : i # j => ss[i] = <<>> \/ ss[j] = <<>>
      BY <2>2, <2>4, <2>8 DEF Distinct
    <3> QED
      BY <2>1, <2>4, <2>5, <3>1, <3>2, <3>3, FlattenOne
  <2> QED
    BY <1>2, <2>6, <2>7, <2>8 DEF forged
<1> QED
  BY <1>1, <1>2

-----------------------------------------------------------------------------
(* What the engine hands over and gets back in view h.                       *)

BlockOf(b, h) == Sequence(b) /\ b # Genesis /\ ViewOf(b) = h

(* The state of a replica that has just entered its view.                   *)
Fresh(s) ==
  /\ s.voted_block = Genesis /\ s.dummy_sent = FALSE /\ s.known_blocks = {}
  /\ s.notarize_votes = <<>> /\ s.nullify_votes = <<>>

Deliverable(d, h, p) ==
  /\ d.to \in Node
  /\ \/ /\ p = "deliver"
        /\ \/ d.message.kind = "ProposeRequest" /\ d.message.view = h /\ d.message.payload = "block"
           \/ d.message.kind = "Proposal" /\ BlockOf(d.message.block, h)
           \/ /\ d.message.kind = "Vote" /\ d.message.view = h
              /\ BlockOf(d.message.block, h) /\ d.message.signer \in Node \ {d.to}
           \/ d.message.kind = "FinalizeVote" /\ d.message.view = h /\ d.message.signer \in Node \ {d.to}
           \/ d.message.kind = "Notarization" /\ d.message.view = h /\ BlockOf(d.message.block, h)
     \/ p = "timeout" /\ d.message.kind = "Timeout" /\ d.message.view = h
     \/ p = "route" /\ d.message.kind = "NullifyVote" /\ d.message.view = h /\ d.message.signer \in Node \ {d.to}

Output(out, h) ==
  \/ \E b : /\ BlockOf(b, h)
           /\ out \in {[kind |-> "Proposal", block |-> b], [kind |-> "Vote", view |-> h, block |-> b], Relay(b)}
  \/ out = [kind |-> "FinalizeVote", view |-> h]

Outputs(outs, h, p) ==
  \A out \in ToSet(outs) : \/ Output(out, h)
                           \/ p = "timeout" /\ out = [kind |-> "NullifyVote", view |-> h]

Answer(r, s, res, h, p) ==
  /\ NodeState(r, res.state)
  /\ \/ res.state.view = s.view
     \/ s.view = h /\ res.state.view = h + 1 /\ Fresh(res.state)
  /\ s.view # h => Kept(s, res.state, {"finalize_votes", "finalized_count"}) /\ res.out = <<>>
  /\ Sequence(res.out) /\ Distinct(res.out) /\ Len(res.out) \in Nat /\ Len(res.out) <= 3
  /\ Outputs(res.out, h, p)

LEMMA LeftIs ==
  ASSUME NEW r, NEW s, NodeState(r, s), NEW x, LeftBehind(s, x), Sequence(x.tip)
  PROVE  NodeState(r, x) /\ Fresh(x)
<1>1. \A b : VotesFor(x, b) = <<>>
  BY DEF VotesFor, LeftBehind
<1>3. PICK n \in Nat : n = s.view
  BY DEF NodeState
<1>4. x.view = n + 1
  BY <1>3 DEF LeftBehind
<1>2. x.view \in Nat \ {0} /\ x.dummy_sent \in BOOLEAN /\ DOMAIN x = Fields
      /\ x.nullify_votes = <<>> /\ x.finalize_votes = <<>>
  <2>1. x.view \in Nat \ {0}
    BY <1>4
  <2>2. x.dummy_sent = FALSE /\ DOMAIN x = Fields /\ x.nullify_votes = <<>> /\ x.finalize_votes = <<>>
    BY DEF LeftBehind
  <2> QED
    BY <2>1, <2>2
<1> QED
  BY <1>1, <1>2, EmptyListed DEF NodeState, Fresh, LeftBehind

LEMMA BallotState ==
  ASSUME NEW r \in Node, NEW s, NodeState(r, s), NEW b, b # Genesis, s.voted_block = Genesis,
         NEW x, Ballot(s, x, b, r)
  PROVE  NodeState(r, x) /\ x.view = s.view
<1>1. /\ DOMAIN x = Fields /\ x.view = s.view /\ x.dummy_sent = s.dummy_sent /\ x.tip = s.tip
      /\ x.nullify_votes = s.nullify_votes /\ x.finalize_votes = s.finalize_votes /\ x.voted_block = b
  BY DEF Ballot, Kept, BallotFields, Fields
<1>2. r \notin ToSet(VotesFor(s, b)) /\ Listed(VotesFor(s, b)) /\ ToSet(VotesFor(s, b)) \subseteq Node
  BY DEF NodeState
<1>3. Listed(VotesFor(x, b)) /\ ToSet(VotesFor(x, b)) \subseteq Node
  BY <1>2, AppendListed DEF Ballot, Pushed
<1>4. \A c : c # b => VotesFor(x, c) = VotesFor(s, c)
  BY DEF Ballot, Pushed
<1>5. \A c : /\ Listed(VotesFor(x, c)) /\ ToSet(VotesFor(x, c)) \subseteq Node
             /\ r \in ToSet(VotesFor(x, c)) => x.voted_block = c /\ c # Genesis
  <2> SUFFICES ASSUME NEW c
               PROVE  /\ Listed(VotesFor(x, c)) /\ ToSet(VotesFor(x, c)) \subseteq Node
                      /\ r \in ToSet(VotesFor(x, c)) => x.voted_block = c /\ c # Genesis
    OBVIOUS
  <2>1. CASE c = b
    BY <1>1, <1>3, <2>1
  <2>2. CASE c # b
    BY <1>4, <2>2 DEF NodeState
  <2> QED
    BY <2>1, <2>2
<1> QED
  BY <1>1, <1>5 DEF NodeState

LEMMA CountsState ==
  ASSUME NEW r \in Node, NEW s, NodeState(r, s), NEW b, NEW q \in Node \ {r}, q \notin ToSet(VotesFor(s, b)),
         NEW res, Counts(s, res, b, q)
  PROVE  NodeState(r, res.state) /\ res.state.view = s.view
<1> DEFINE x == res.state
<1>1. /\ DOMAIN x = Fields /\ x.view = s.view /\ x.dummy_sent = s.dummy_sent /\ x.tip = s.tip
      /\ x.nullify_votes = s.nullify_votes /\ x.finalize_votes = s.finalize_votes /\ x.voted_block = s.voted_block
  BY DEF Counts, Kept, Fields
<1>2. Listed(VotesFor(s, b)) /\ ToSet(VotesFor(s, b)) \subseteq Node
  BY DEF NodeState
<1>3. VotesFor(x, b) = Append(VotesFor(s, b), q) /\ \A c : c # b => VotesFor(x, c) = VotesFor(s, c)
  BY DEF Counts, Pushed
<1>4. Listed(VotesFor(x, b)) /\ ToSet(VotesFor(x, b)) = ToSet(VotesFor(s, b)) \cup {q}
  BY <1>2, <1>3, AppendListed
<1> HIDE DEF x
<1>5. \A c : /\ Listed(VotesFor(x, c)) /\ ToSet(VotesFor(x, c)) \subseteq Node
             /\ r \in ToSet(VotesFor(x, c)) => x.voted_block = c /\ c # Genesis
  <2> SUFFICES ASSUME NEW c
               PROVE  /\ Listed(VotesFor(x, c)) /\ ToSet(VotesFor(x, c)) \subseteq Node
                      /\ r \in ToSet(VotesFor(x, c)) => x.voted_block = c /\ c # Genesis
    OBVIOUS
  <2>1. CASE c = b
    BY <1>1, <1>2, <1>4, <2>1 DEF NodeState
  <2>2. CASE c # b
    BY <1>1, <1>3, <2>2 DEF NodeState
  <2> QED
    BY <2>1, <2>2
<1>6. NodeState(r, x)
  BY <1>1, <1>5 DEF NodeState
<1> QED
  BY <1>1, <1>6 DEF x

(* The vote map is the same, and the lists are as given.                    *)
LEMMA KeptState ==
  ASSUME NEW r \in Node, NEW s, NodeState(r, s), NEW x, DOMAIN x = Fields, x.view = s.view, x.tip = s.tip,
         x.voted_block = s.voted_block, x.notarize_votes = s.notarize_votes, x.dummy_sent \in BOOLEAN,
         Listed(x.nullify_votes), ToSet(x.nullify_votes) \subseteq Node,
         r \in ToSet(x.nullify_votes) => x.dummy_sent = TRUE,
         Listed(x.finalize_votes), ToSet(x.finalize_votes) \subseteq Node \ {r}
  PROVE  NodeState(r, x)
<1>1. \A b : VotesFor(x, b) = VotesFor(s, b)
  BY SameVotes
<1> QED
  BY <1>1 DEF NodeState

LEMMA RefusesState ==
  ASSUME NEW r \in Node, NEW s, NodeState(r, s), NEW b, NEW res, Refuses(s, res, b)
  PROVE  NodeState(r, res.state) /\ res.state.view = s.view
<1> DEFINE x == res.state
<1>1. /\ DOMAIN x = Fields /\ x.view = s.view /\ x.dummy_sent = s.dummy_sent /\ x.tip = s.tip
      /\ x.nullify_votes = s.nullify_votes /\ x.finalize_votes = s.finalize_votes /\ x.voted_block = s.voted_block
      /\ x.notarize_votes = s.notarize_votes
  BY DEF Refuses, Kept, Fields
<1> HIDE DEF x
<1>2. NodeState(r, x)
  BY <1>1, KeptState DEF NodeState
<1> QED
  BY <1>1, <1>2 DEF x

LEMMA FinalState ==
  ASSUME NEW r \in Node, NEW s, NodeState(r, s), NEW h, NEW q \in Node \ {r}, q \notin ToSet(s.finalize_votes),
         NEW res, CountsFinal(s, res, h, q)
  PROVE  /\ NodeState(r, res.state) /\ res.state.view = s.view
         /\ ToSet(res.state.finalize_votes) = ToSet(s.finalize_votes) \cup {q}
<1> DEFINE x == res.state
<1>1. /\ DOMAIN x = Fields /\ x.view = s.view /\ x.dummy_sent = s.dummy_sent /\ x.tip = s.tip
      /\ x.nullify_votes = s.nullify_votes /\ x.finalize_votes = Append(s.finalize_votes, q)
      /\ x.voted_block = s.voted_block /\ x.notarize_votes = s.notarize_votes
  BY DEF CountsFinal, Kept, Fields
<1>2. Listed(s.finalize_votes) /\ ToSet(s.finalize_votes) \subseteq Node \ {r}
  BY DEF NodeState
<1> HIDE DEF x
<1>3. Listed(x.finalize_votes) /\ ToSet(x.finalize_votes) = ToSet(s.finalize_votes) \cup {q}
  BY <1>1, <1>2, AppendListed
<1>4. NodeState(r, x)
  BY <1>1, <1>2, <1>3, KeptState DEF NodeState
<1> QED
  BY <1>1, <1>3, <1>4 DEF x

FlagKept(s, x, own) == x.dummy_sent \in BOOLEAN /\ (s.dummy_sent = TRUE \/ own => x.dummy_sent = TRUE)

(* The list of dummy votes, with q more.                                    *)
LEMMA DummyState ==
  ASSUME NEW r \in Node, NEW s, NodeState(r, s), NEW q \in Node, q \notin ToSet(s.nullify_votes),
         NEW x, Kept(s, x, {"dummy_sent", "nullify_votes"}), x.nullify_votes = Append(s.nullify_votes, q),
         FlagKept(s, x, q = r)
  PROVE  /\ NodeState(r, x) /\ x.view = s.view /\ x.voted_block = s.voted_block
         /\ ToSet(x.nullify_votes) = ToSet(s.nullify_votes) \cup {q}
<1>1. /\ DOMAIN x = Fields /\ x.view = s.view /\ x.tip = s.tip
      /\ x.nullify_votes = Append(s.nullify_votes, q) /\ x.finalize_votes = s.finalize_votes
      /\ x.voted_block = s.voted_block /\ x.notarize_votes = s.notarize_votes
  BY DEF Kept, Fields
<1>2. Listed(s.nullify_votes) /\ ToSet(s.nullify_votes) \subseteq Node
      /\ (r \in ToSet(s.nullify_votes) => s.dummy_sent = TRUE)
  BY DEF NodeState
<1>3. Listed(x.nullify_votes) /\ ToSet(x.nullify_votes) = ToSet(s.nullify_votes) \cup {q}
  BY <1>1, <1>2, AppendListed
<1>4. Listed(x.finalize_votes) /\ ToSet(x.finalize_votes) \subseteq Node \ {r}
  BY <1>1 DEF NodeState
<1>6. x.dummy_sent \in BOOLEAN /\ (r \in ToSet(x.nullify_votes) => x.dummy_sent = TRUE)
  BY <1>2, <1>3 DEF FlagKept
<1>5. NodeState(r, x)
  BY <1>1, <1>2, <1>3, <1>4, <1>6, KeptState
<1> QED
  BY <1>1, <1>3, <1>5

LEMMA QuietAnswer ==
  ASSUME NEW p, NEW r, NEW s, NodeState(r, s), NEW res, Quiet(s, res), NEW h
  PROVE  Answer(r, s, res, h, p)
<1>1. res.state = s /\ res.out = <<>>
  BY DEF Quiet
<1>2. Kept(s, s, {"finalize_votes", "finalized_count"})
  BY DEF Kept, NodeState
<1>3. Sequence(<<>>) /\ Distinct(<<>>) /\ Len(<<>>) = 0 /\ ToSet(<<>>) = {} /\ Outputs(<<>>, h, p)
  BY EmptyListed DEF Distinct, Outputs
<1> QED
  BY <1>1, <1>2, <1>3 DEF Answer

LEMMA ProposeAnswer ==
  ASSUME NEW p, NEW r \in Node, NEW s, NodeState(r, s), NEW h \in Nat, NEW l, NEW payload,
         s.view = h => s.voted_block = Genesis
  PROVE  Answer(r, s, HandleProposeRequest(s, r, l, h, payload), h, p)
<1> DEFINE res == HandleProposeRequest(s, r, l, h, payload)
           b == NextBlock(s, r, payload)
<1>1. \/ Quiet(s, res)
      \/ h = s.view /\ Proposes(s, res, r, b)
  BY ProposeShape
<1>2. BlockOf(b, s.view)
  <2>1. Sequence(s.tip)
    BY DEF NodeState
  <2>2. PICK S : s.tip \in Seq(S)
    BY <2>1 DEF Sequence
  <2> DEFINE e == [view |-> s.view, payload |-> payload, proposer |-> r]
  <2>3. s.tip \in Seq(S \cup {e}) /\ e \in S \cup {e}
    BY <2>2
  <2>4. e.view = s.view
    OBVIOUS
  <2> HIDE DEF e
  <2>5. Append(s.tip, e) \in Seq(S \cup {e}) /\ Append(s.tip, e) # <<>> /\ Last(Append(s.tip, e)) = e
    BY <2>3 DEF Last
  <2> QED
    BY <2>4, <2>5 DEF e, BlockOf, NextBlock, Sequence, ViewOf, Genesis
<1>3. CASE h = s.view /\ Proposes(s, res, r, b)
  <2> HIDE DEF res, b
  <2>1. NodeState(r, res.state) /\ res.state.view = s.view
    BY <1>2, <1>3, BallotState DEF Proposes, BlockOf
  <2>2. Outputs(res.out, h, p)
    <3>1. \A out \in ToSet(res.out) : Output(out, h)
      BY <1>2, <1>3 DEF Proposes, Output, VoteOut
    <3> QED
      BY <3>1 DEF Outputs
  <2> QED
    BY <1>3, <2>1, <2>2 DEF Answer, Proposes, res
<1> QED
  BY <1>1, <1>3, QuietAnswer

LEMMA AnnouncedOut ==
  ASSUME NEW s, NEW b, BlockOf(b, s.view)
  PROVE  \A out \in Announced(s, b) \cup {VoteOut(s, b)} : Output(out, s.view)
BY DEF Announced, VoteOut, Output

LEMMA ProposalAnswer ==
  ASSUME NEW p, NEW r \in Node, NEW s, NodeState(r, s), NEW h \in Nat, NEW l, NEW b, BlockOf(b, h)
  PROVE  Answer(r, s, HandleProposal(s, r, l, b), h, p)
<1> DEFINE res == HandleProposal(s, r, l, b)
<1>1. b # Genesis /\ ViewOf(b) = h
  BY DEF BlockOf
<1>2. \/ Quiet(s, res) /\ ViewOf(b) # s.view
      \/ ViewOf(b) = s.view /\ ~Fits(s, l, b) /\ Refuses(s, res, b)
      \/ ViewOf(b) = s.view /\ Fits(s, l, b) /\ (VotesAndStays(s, res, b, r) \/ VotesAndLeaves(s, res, b))
  BY <1>1, ProposalShape
<1>3. CASE s.view = h /\ Refuses(s, res, b)
  <2> HIDE DEF res
  <2>1. NodeState(r, res.state) /\ res.state.view = s.view /\ res.out = <<>>
    <3>1. NodeState(r, res.state) /\ res.state.view = s.view
      BY <1>3, RefusesState
    <3> QED
      BY <1>3, <3>1 DEF Refuses
  <2>2. Sequence(<<>>) /\ Distinct(<<>>) /\ Len(<<>>) = 0 /\ ToSet(<<>>) = {} /\ Outputs(<<>>, h, p)
    BY EmptyListed DEF Distinct, Outputs
  <2> QED
    BY <1>3, <2>1, <2>2 DEF Answer, res
<1>4. CASE s.view = h /\ Fits(s, l, b) /\ VotesAndStays(s, res, b, r)
  <2> HIDE DEF res
  <2>1. NodeState(r, res.state) /\ res.state.view = s.view
    BY <1>4, <1>1, BallotState DEF VotesAndStays, Fits
  <2>2. Outputs(res.out, h, p)
    <3>1. \A out \in ToSet(res.out) : Output(out, h)
      BY <1>4, AnnouncedOut DEF VotesAndStays
    <3> QED
      BY <3>1 DEF Outputs
  <2> QED
    BY <1>4, <2>1, <2>2 DEF Answer, VotesAndStays, res
<1>5. CASE s.view = h /\ Fits(s, l, b) /\ VotesAndLeaves(s, res, b)
  <2> HIDE DEF res
  <2>1. LeftBehind(s, res.state) /\ res.state.tip = b /\ Sequence(b)
    BY <1>5 DEF VotesAndLeaves, BlockOf
  <2>2. NodeState(r, res.state) /\ Fresh(res.state) /\ res.state.view = h + 1
    BY <1>5, <2>1, LeftIs DEF LeftBehind
  <2>3. Outputs(res.out, h, p)
    <3>1. \A out \in ToSet(res.out) : Output(out, h)
      BY <1>5, AnnouncedOut DEF VotesAndLeaves
    <3> QED
      BY <3>1 DEF Outputs
  <2> QED
    BY <1>5, <2>2, <2>3 DEF Answer, VotesAndLeaves, res
<1> QED
  BY <1>1, <1>2, <1>3, <1>4, <1>5, QuietAnswer

LEMMA LeavesAnswer ==
  ASSUME NEW p, NEW r \in Node, NEW s, NodeState(r, s), NEW b, BlockOf(b, s.view), NEW sd, NEW res,
         LeavesWith(s, res, b, sd)
  PROVE  Answer(r, s, res, s.view, p)
<1>1. LeftBehind(s, res.state) /\ res.state.tip = b /\ Sequence(b)
  BY DEF LeavesWith, BlockOf
<1>2. NodeState(r, res.state) /\ Fresh(res.state) /\ res.state.view = s.view + 1
  BY <1>1, LeftIs DEF LeftBehind
<1>3. Outputs(res.out, s.view, p)
  <2>1. \A out \in ToSet(res.out) : Output(out, s.view)
    BY AnnouncedOut DEF LeavesWith
  <2> QED
    BY <2>1 DEF Outputs
<1>4. Len(res.out) \in Nat /\ Len(res.out) <= 3
  BY DEF LeavesWith
<1> QED
  BY <1>2, <1>3, <1>4 DEF Answer, LeavesWith

LEMMA VoteAnswer ==
  ASSUME NEW p, NEW r \in Node, NEW s, NodeState(r, s), NEW h \in Nat, NEW b, BlockOf(b, h), NEW q \in Node \ {r}
  PROVE  Answer(r, s, HandleVote(s, h, b, q), h, p)
<1> DEFINE res == HandleVote(s, h, b, q)
<1>1. \/ Quiet(s, res)
      \/ h = s.view /\ q \notin ToSet(VotesFor(s, b)) /\ Counts(s, res, b, q)
      \/ h = s.view /\ LeavesWith(s, res, b, NotarySeed(b))
  BY VoteShape
<1>2. CASE h = s.view /\ q \notin ToSet(VotesFor(s, b)) /\ Counts(s, res, b, q)
  <2> HIDE DEF res
  <2>1. NodeState(r, res.state) /\ res.state.view = s.view /\ res.out = <<>>
    BY <1>2, CountsState DEF Counts
  <2>2. Sequence(<<>>) /\ Distinct(<<>>) /\ Len(<<>>) = 0 /\ ToSet(<<>>) = {} /\ Outputs(<<>>, h, p)
    BY EmptyListed DEF Distinct, Outputs
  <2> QED
    BY <1>2, <2>1, <2>2 DEF Answer, res
<1> QED
  BY <1>1, <1>2, QuietAnswer, LeavesAnswer

LEMMA NotarizationAnswer ==
  ASSUME NEW p, NEW r \in Node, NEW s, NodeState(r, s), NEW h \in Nat, NEW b, BlockOf(b, h)
  PROVE  Answer(r, s, HandleNotarization(s, h, b), h, p)
BY NotarizationShape, QuietAnswer, LeavesAnswer

LEMMA FinalizeAnswer ==
  ASSUME NEW p, NEW r \in Node, NEW s, NodeState(r, s), NEW h \in Nat, NEW q \in Node \ {r}
  PROVE  Answer(r, s, HandleFinalizeVote(s, h, q), h, p)
<1> DEFINE res == HandleFinalizeVote(s, h, q)
<1>1. Quiet(s, res) \/ (q \notin ToSet(s.finalize_votes) /\ CountsFinal(s, res, h, q))
  BY FinalizeShape
<1>2. CASE q \notin ToSet(s.finalize_votes) /\ CountsFinal(s, res, h, q)
  <2> HIDE DEF res
  <2>1. NodeState(r, res.state) /\ res.state.view = s.view /\ res.out = <<>>
        /\ Kept(s, res.state, {"finalize_votes", "finalized_count"})
    BY <1>2, FinalState DEF CountsFinal
  <2>2. Sequence(<<>>) /\ Distinct(<<>>) /\ Len(<<>>) = 0 /\ ToSet(<<>>) = {} /\ Outputs(<<>>, h, p)
    BY EmptyListed DEF Distinct, Outputs
  <2> QED
    BY <1>2, <2>1, <2>2 DEF Answer, res
<1> QED
  BY <1>1, <1>2, QuietAnswer

LEMMA GivesUpAnswer ==
  ASSUME NEW r \in Node, NEW s, NodeState(r, s), NEW x, LeftBehind(s, x), x.tip = s.tip
  PROVE  NodeState(r, x) /\ Fresh(x) /\ x.view = s.view + 1
<1>1. Sequence(x.tip)
  BY DEF NodeState
<1> QED
  BY <1>1, LeftIs DEF LeftBehind

LEMMA TimeoutAnswer ==
  ASSUME NEW r \in Node, NEW s, NodeState(r, s), NEW h \in Nat
  PROVE  Answer(r, s, HandleTimeout(s, r, h), h, "timeout")
<1> DEFINE res == HandleTimeout(s, r, h)
           o == [kind |-> "NullifyVote", view |-> s.view]
<1>1. \/ Quiet(s, res)
      \/ h = s.view /\ s.dummy_sent = FALSE /\ (TimesOut(s, res, r) \/ TimesOutLast(s, res))
  BY TimeoutShape
<1>2. Sequence(<<o>>) /\ ToSet(<<o>>) = {o} /\ Len(<<o>>) = 1
  BY PairIs
<1>3. Distinct(<<o>>) /\ Outputs(<<o>>, s.view, "timeout")
  BY <1>2 DEF Distinct, Outputs
<1>4. CASE h = s.view /\ s.dummy_sent = FALSE /\ TimesOut(s, res, r)
  <2> HIDE DEF res
  <2>1. r \notin ToSet(s.nullify_votes)
    BY <1>4 DEF NodeState
  <2>2. /\ Kept(s, res.state, {"dummy_sent", "nullify_votes"}) /\ res.state.dummy_sent = TRUE
        /\ res.state.nullify_votes = Append(s.nullify_votes, r) /\ res.out = <<o>>
    BY <1>4 DEF TimesOut
  <2> PICK x : x = res.state
    OBVIOUS
  <2>4. /\ Kept(s, x, {"dummy_sent", "nullify_votes"}) /\ x.nullify_votes = Append(s.nullify_votes, r)
        /\ FlagKept(s, x, r = r)
    BY <2>2 DEF FlagKept
  <2>5. NodeState(r, x) /\ x.view = s.view
    BY <2>1, <2>4, DummyState
  <2>3. NodeState(r, res.state) /\ res.state.view = s.view
    BY <2>5
  <2> HIDE DEF o
  <2> QED
    BY <1>2, <1>3, <1>4, <2>2, <2>3 DEF Answer, res
<1>5. CASE h = s.view /\ s.dummy_sent = FALSE /\ TimesOutLast(s, res)
  <2> HIDE DEF res
  <2>1. NodeState(r, res.state) /\ Fresh(res.state) /\ res.state.view = s.view + 1 /\ res.out = <<o>>
    BY <1>5, GivesUpAnswer DEF TimesOutLast
  <2> HIDE DEF o
  <2> QED
    BY <1>2, <1>3, <1>5, <2>1 DEF Answer, res
<1> QED
  BY <1>1, <1>4, <1>5, QuietAnswer

LEMMA NullifyAnswer ==
  ASSUME NEW p, NEW r \in Node, NEW s, NodeState(r, s), NEW h \in Nat, NEW q \in Node \ {r}
  PROVE  Answer(r, s, HandleNullifyVote(s, h, q), h, p)
<1> DEFINE res == HandleNullifyVote(s, h, q)
<1>1. \/ Quiet(s, res)
      \/ /\ h = s.view /\ q \notin ToSet(s.nullify_votes)
         /\ CountsDummy(s, res, q) \/ GivesUp(s, res)
  BY NullifyShape
<1>2. Sequence(<<>>) /\ Distinct(<<>>) /\ Len(<<>>) = 0 /\ ToSet(<<>>) = {} /\ Outputs(<<>>, h, p)
  BY EmptyListed DEF Distinct, Outputs
<1>3. CASE h = s.view /\ q \notin ToSet(s.nullify_votes) /\ CountsDummy(s, res, q)
  <2> HIDE DEF res
  <2>1. /\ Kept(s, res.state, {"nullify_votes"}) /\ res.out = <<>>
        /\ res.state.nullify_votes = Append(s.nullify_votes, q)
    BY <1>3 DEF CountsDummy
  <2>2. Kept(s, res.state, {"dummy_sent", "nullify_votes"}) /\ res.state.dummy_sent = s.dummy_sent
    BY <2>1 DEF Kept, Fields
  <2>3. s.dummy_sent \in BOOLEAN
    BY DEF NodeState
  <2> PICK x : x = res.state
    OBVIOUS
  <2>5. /\ Kept(s, x, {"dummy_sent", "nullify_votes"}) /\ x.nullify_votes = Append(s.nullify_votes, q)
        /\ FlagKept(s, x, q = r)
    BY <1>3, <2>1, <2>2, <2>3 DEF FlagKept, NodeState
  <2>6. NodeState(r, x) /\ x.view = s.view
    BY <1>3, <2>5, DummyState
  <2>4. NodeState(r, res.state) /\ res.state.view = s.view
    BY <2>6
  <2> QED
    BY <1>2, <1>3, <2>1, <2>4 DEF Answer, res
<1>4. CASE h = s.view /\ GivesUp(s, res)
  <2> HIDE DEF res
  <2>1. NodeState(r, res.state) /\ Fresh(res.state) /\ res.state.view = s.view + 1 /\ res.out = <<>>
    BY <1>4, GivesUpAnswer DEF GivesUp
  <2> QED
    BY <1>2, <1>4, <2>1 DEF Answer, res
<1> QED
  BY <1>1, <1>3, <1>4, QuietAnswer

(* Whatever the engine hands to a replica, the state stays one of that node, the
   view is left for the next alone, and what it sends is of the view.      *)
LEMMA AnswerTo ==
  ASSUME NEW d, NEW h \in Nat, NEW p, Deliverable(d, h, p), NEW s, NodeState(d.to, s), NEW l,
         d.message.kind = "ProposeRequest" => (s.view = h => s.voted_block = Genesis)
  PROVE  Answer(d.to, s, ApplyMessage(s, d.to, l, d.message), h, p)
<1> DEFINE m == d.message
<1> d.to \in Node
  BY DEF Deliverable
<1>1. CASE m.kind = "ProposeRequest"
  BY <1>1, ProposeAnswer DEF Deliverable, ApplyMessage
<1>2. CASE m.kind = "Proposal"
  BY <1>2, ProposalAnswer DEF Deliverable, ApplyMessage
<1>3. CASE m.kind = "Vote"
  BY <1>3, VoteAnswer DEF Deliverable, ApplyMessage
<1>4. CASE m.kind = "FinalizeVote"
  BY <1>4, FinalizeAnswer DEF Deliverable, ApplyMessage
<1>5. CASE m.kind = "Notarization"
  BY <1>5, NotarizationAnswer DEF Deliverable, ApplyMessage
<1>6. CASE m.kind = "Timeout"
  BY <1>6, TimeoutAnswer DEF Deliverable, ApplyMessage
<1>7. CASE m.kind = "NullifyVote"
  BY <1>7, NullifyAnswer DEF Deliverable, ApplyMessage
<1> QED
  BY <1>1, <1>2, <1>3, <1>4, <1>5, <1>6, <1>7 DEF Deliverable

-----------------------------------------------------------------------------
(* What is on the way is of the view.                                       *)

LEMMA EquivocationIs ==
  ASSUME NEW b, NEW h, BlockOf(b, h)
  PROVE  BlockOf(Equivocation(b), h)
<1> DEFINE e == [view |-> Last(b).view, payload |-> "equivocation", proposer |-> Last(b).proposer]
<1>1. PICK S : b \in Seq(S)
  BY DEF BlockOf, Sequence
<1>2. b # <<>> /\ e.view = h
  BY DEF BlockOf, Genesis, ViewOf
<1> HIDE DEF e
<1>3. Front(b) \in Seq(S)
  BY <1>1, <1>2 DEF Front
<1>4. Front(b) \in Seq(S \cup {e}) /\ e \in S \cup {e}
  BY <1>3
<1>5. Append(Front(b), e) \in Seq(S \cup {e}) /\ Append(Front(b), e) # <<>> /\ Last(Append(Front(b), e)) = e
  BY <1>4 DEF Last
<1> QED
  BY <1>2, <1>5 DEF e, BlockOf, Equivocation, Sequence, ViewOf, Genesis

(* What node r sends when it answers in view h, by the output it answers with. *)
Sends(e, out, r, h) ==
  /\ e.to \in Node \ {r}
  /\ \/ \E b : /\ BlockOf(b, h) /\ out = [kind |-> "Proposal", block |-> b]
               /\ [to |-> e.to, block |-> e.message.block] \in FilterProposal(r, h, b)
               /\ e.message.block \in {b, Equivocation(b)}
               /\ e.message = [kind |-> "Proposal", block |-> e.message.block]
     \/ \E b : /\ BlockOf(b, h) /\ out = [kind |-> "Vote", view |-> h, block |-> b] /\ ~Withholds(r, h)
               /\ e.message = [kind |-> "Vote", view |-> h, block |-> b, signer |-> r]
     \/ \E b : /\ BlockOf(b, h) /\ out = Relay(b)
               /\ e.message = [kind |-> "Notarization", view |-> h, block |-> b]
     \/ /\ out = [kind |-> "FinalizeVote", view |-> h]
        /\ e.message = [kind |-> "FinalizeVote", view |-> h, signer |-> r]

LEMMA LeavingIs ==
  ASSUME NEW r \in Node, NEW out, Output(out, view), NEW e, e \in Leaving(out, r)
  PROVE  Sends(e, out, r, view)
<1>1. CASE \E b : BlockOf(b, view) /\ out = [kind |-> "Proposal", block |-> b]
  <2>1. PICK b : BlockOf(b, view) /\ out = [kind |-> "Proposal", block |-> b]
    BY <1>1
  <2>2. PICK c \in FilterProposal(r, view, b) :
          e = [to |-> c.to, message |-> [kind |-> "Proposal", block |-> c.block]]
    BY <2>1 DEF Leaving
  <2>3. c.to \in Node \ {r} /\ c.block \in {b, Equivocation(b)} /\ c = [to |-> c.to, block |-> c.block]
    BY <2>2 DEF FilterProposal
  <2>4. e.to = c.to /\ e.message = [kind |-> "Proposal", block |-> c.block] /\ e.message.block = c.block
    BY <2>2
  <2> QED
    BY <2>1, <2>2, <2>3, <2>4 DEF Sends
<1>2. CASE \E b : BlockOf(b, view) /\ out = [kind |-> "Vote", view |-> view, block |-> b]
  <2>1. PICK b : BlockOf(b, view) /\ out = [kind |-> "Vote", view |-> view, block |-> b]
    BY <1>2
  <2>2. out.kind = "Vote"
    BY <2>1
  <2>3. ~Withholds(r, view) /\ e \in {[to |-> p, message |-> AsMessage(out, r)] : p \in Node \ {r}}
    BY <2>2 DEF Leaving
  <2>4. AsMessage(out, r) = [kind |-> "Vote", view |-> view, block |-> b, signer |-> r]
    <3> PICK g : g = view
      OBVIOUS
    <3>2. AsMessage([kind |-> "Vote", view |-> g, block |-> b], r)
            = [kind |-> "Vote", view |-> g, block |-> b, signer |-> r]
      BY DEF AsMessage
    <3> QED
      BY <2>1, <3>2
  <2>5. e.to \in Node \ {r} /\ e.message = AsMessage(out, r)
    BY <2>3
  <2> QED
    BY <2>1, <2>3, <2>4, <2>5 DEF Sends
<1>3. CASE \E b : BlockOf(b, view) /\ out = Relay(b)
  <2>1. PICK b : BlockOf(b, view) /\ out = Relay(b)
    BY <1>3
  <2>2. out.kind = "RelayNotarization"
    BY <2>1 DEF Relay
  <2>3. e \in {[to |-> p, message |-> AsMessage(out, r)] : p \in Node \ {r}}
    BY <2>2 DEF Leaving
  <2>4. AsMessage(out, r) = [kind |-> "Notarization", view |-> view, block |-> b]
    <3> PICK g : g = view
      OBVIOUS
    <3>1. ViewOf(b) = g
      BY <2>1 DEF BlockOf
    <3>2. AsMessage(Relay(b), r) = [kind |-> "Notarization", view |-> g, block |-> b]
      BY <3>1 DEF AsMessage, Relay
    <3> QED
      BY <2>1, <3>2
  <2>5. e.to \in Node \ {r} /\ e.message = AsMessage(out, r)
    BY <2>3
  <2> QED
    BY <2>1, <2>4, <2>5 DEF Sends
<1>5. CASE out = [kind |-> "FinalizeVote", view |-> view]
  <2>1. out.kind = "FinalizeVote"
    BY <1>5
  <2>2. e \in {[to |-> p, message |-> AsMessage(out, r)] : p \in Node \ {r}}
    BY <2>1 DEF Leaving
  <2>3. AsMessage(out, r) = [kind |-> "FinalizeVote", view |-> view, signer |-> r]
    BY <1>5 DEF AsMessage
  <2>4. e.to \in Node \ {r} /\ e.message = AsMessage(out, r)
    BY <2>2
  <2> QED
    BY <1>5, <2>3, <2>4 DEF Sends
<1> QED
  BY <1>1, <1>2, <1>3, <1>5 DEF Output

LEMMA SentIsDeliverable ==
  ASSUME NEW r \in Node, NEW h, NEW e, NEW out, Sends(e, out, r, h)
  PROVE  Deliverable(e, h, "deliver") /\ e.message.kind # "ProposeRequest"
<1>1. e.to \in Node /\ r \in Node \ {e.to}
  BY DEF Sends
<1>2. CASE e.message = [kind |-> "Proposal", block |-> e.message.block]
           /\ \E b : BlockOf(b, h) /\ e.message.block \in {b, Equivocation(b)}
  <2>1. e.message.kind = "Proposal"
    BY <1>2
  <2>2. BlockOf(e.message.block, h)
    BY <1>2, EquivocationIs
  <2> QED
    BY <1>1, <2>1, <2>2 DEF Deliverable
<1>3. CASE \E b : BlockOf(b, h) /\ e.message = [kind |-> "Vote", view |-> h, block |-> b, signer |-> r]
  <2>1. PICK b : BlockOf(b, h) /\ e.message = [kind |-> "Vote", view |-> h, block |-> b, signer |-> r]
    BY <1>3
  <2>2. e.message.kind = "Vote" /\ e.message.view = h /\ e.message.block = b /\ e.message.signer = r
    BY <2>1
  <2> QED
    BY <1>1, <2>1, <2>2 DEF Deliverable
<1>4. CASE \E b : BlockOf(b, h) /\ e.message = [kind |-> "Notarization", view |-> h, block |-> b]
  <2>1. PICK b : BlockOf(b, h) /\ e.message = [kind |-> "Notarization", view |-> h, block |-> b]
    BY <1>4
  <2>2. e.message.kind = "Notarization" /\ e.message.view = h /\ e.message.block = b
    BY <2>1
  <2> QED
    BY <1>1, <2>1, <2>2 DEF Deliverable
<1>5. CASE e.message = [kind |-> "FinalizeVote", view |-> h, signer |-> r]
  <2>1. e.message.kind = "FinalizeVote" /\ e.message.view = h /\ e.message.signer = r
    BY <1>5
  <2> QED
    BY <1>1, <2>1 DEF Deliverable
<1> QED
  BY <1>2, <1>3, <1>4, <1>5 DEF Sends

-----------------------------------------------------------------------------
(* The engine between two steps: what is yet to be delivered is of the view, and
   no replica is further than the next one. It has not touched that view: only
   the leader, asked first, is sure to find its own view as it entered it.   *)

Asked == \E e \in ToSet(queue) : e.message.kind = "ProposeRequest"
Reach == IF phase = "ask" \/ Asked THEN view ELSE view + 1

Sane ==
  /\ view \in Nat \ {0} /\ phase \in {"ask", "deliver", "timeout", "route", "halted"}
  /\ phase \in {"deliver", "timeout", "route"} => view <= Rounds
  /\ replica = [r \in Node |-> replica[r]]
  /\ \A r \in Node : /\ NodeState(r, replica[r]) /\ replica[r].view <= Reach
                     /\ replica[r].view = Reach => Fresh(replica[r])
  /\ Sequence(queue) /\ \A d \in ToSet(queue) : Deliverable(d, view, phase)
  /\ Asked => Tail(queue) = <<>>
  /\ IsFiniteSet(known) /\ \A b \in known : phase = "deliver" => BlockOf(b, view)
  /\ stuck \subseteq Node /\ Sequence(dummies) /\ ToSet(dummies) \subseteq Node
  /\ iterations \in Nat

(* elect_leader takes the seed modulo the number of nodes.                  *)
ElectsNodes == \A o \in Oracles : \A s : Elect(o, s) \in Node

LEMMA SaneInit == Init => Sane
<1> SUFFICES ASSUME Init PROVE Sane
  OBVIOUS
<1>1. /\ view = 1 /\ phase = "ask" /\ queue = <<>> /\ known = {} /\ stuck = {} /\ dummies = <<>>
      /\ iterations = 0 /\ replica = [r \in Node |-> NewReplica]
  BY DEF Init
<1>2. DOMAIN NewReplica = Fields
  BY DEF NewReplica, Fields
<1>3. /\ NewReplica.view = 1 /\ NewReplica.dummy_sent = FALSE /\ NewReplica.tip = <<>>
      /\ NewReplica.voted_block = Genesis /\ NewReplica.known_blocks = {} /\ NewReplica.notarize_votes = <<>>
      /\ NewReplica.nullify_votes = <<>> /\ NewReplica.finalize_votes = <<>>
  BY DEF NewReplica, Genesis
<1>4. \A b : VotesFor(NewReplica, b) = <<>>
  BY <1>3 DEF VotesFor
<1>6. Fresh(NewReplica)
  BY <1>3 DEF Fresh
<1>11. NewReplica.view \in Nat \ {0} /\ NewReplica.dummy_sent \in BOOLEAN
  <2> HIDE DEF NewReplica
  <2>1. NewReplica.view \in Nat \ {0}
    BY <1>3
  <2>2. NewReplica.dummy_sent \in BOOLEAN
    BY <1>3, Zenon
  <2> QED
    BY <2>1, <2>2
<1> PICK n : n = NewReplica
  OBVIOUS
<1>13. \A r \in Node : NodeState(r, n)
  <2> HIDE DEF NewReplica
  <2> QED
    BY <1>2, <1>3, <1>4, <1>11, EmptyListed, Zenon DEF NodeState
<1>5. \A r \in Node : NodeState(r, NewReplica)
  BY <1>13
<1>7. Reach = 1 /\ ~Asked
  BY <1>1, EmptyListed DEF Reach, Asked
<1>8. IsFiniteSet({})
  BY FS_EmptySet
<1>9. \A r \in Node : replica[r] = NewReplica
  <2> HIDE DEF NewReplica
  <2> QED
    BY <1>1
<1>10. replica = [r \in Node |-> replica[r]]
  BY <1>1
<1> QED
  BY <1>1, <1>3, <1>5, <1>6, <1>7, <1>8, <1>9, <1>10, EmptyListed DEF Sane

LEMMA AskSane == ElectsNodes /\ oracle \in Oracles /\ Sane /\ AskLeader => Sane'
<1> SUFFICES ASSUME ElectsNodes, oracle \in Oracles, Sane, AskLeader PROVE Sane'
  OBVIOUS
<1> DEFINE d == [to |-> leader', message |-> [kind |-> "ProposeRequest", view |-> view, payload |-> "block"]]
<1>1. /\ phase = "ask" /\ view <= Rounds /\ queue' = <<d>> /\ phase' = "deliver" /\ view' = view
      /\ replica' = replica /\ known' = {} /\ stuck' = {} /\ dummies' = <<>> /\ iterations' = 0
  BY DEF AskLeader
<1>2. leader' \in Node
  BY DEF AskLeader, ElectsNodes, LeaderFor
<1>3. Deliverable(d, view, "deliver") /\ d.message.kind = "ProposeRequest"
  BY <1>2 DEF Deliverable
<1> HIDE DEF d
<1>4. Sequence(queue') /\ ToSet(queue') = {d} /\ Tail(queue') = <<>>
  <2>1. Sequence(<<d>>) /\ ToSet(<<d>>) = {d}
    BY PairIs
  <2>2. Tail(<<d>>) = <<>>
    OBVIOUS
  <2> QED
    BY <1>1, <2>1, <2>2
<1>5. Reach' = view /\ Reach = view
  BY <1>1, <1>3, <1>4 DEF Reach, Asked
<1>6. IsFiniteSet({})
  BY FS_EmptySet
<1> QED
  BY <1>1, <1>3, <1>4, <1>5, <1>6, EmptyListed DEF Sane

-----------------------------------------------------------------------------
(* One delivery: d from the head of the queue.                              *)

LEMMA HeadFacts ==
  ASSUME Sane, queue # <<>>
  PROVE  /\ Head(queue) \in ToSet(queue) /\ Deliverable(Head(queue), view, phase) /\ Head(queue).to \in Node
         /\ Sequence(Tail(queue)) /\ ToSet(queue) = ToSet(Tail(queue)) \cup {Head(queue)}
         /\ \A e \in ToSet(Tail(queue)) : Deliverable(e, view, phase) /\ e.message.kind # "ProposeRequest"
         /\ view \in Nat /\ NodeState(Head(queue).to, replica[Head(queue).to])
         /\ Answer(Head(queue).to, replica[Head(queue).to], Apply(Head(queue)), view, phase)
<1> DEFINE d == Head(queue)
<1>1. /\ Sequence(Tail(queue)) /\ d \in ToSet(queue) /\ ToSet(queue) = ToSet(Tail(queue)) \cup {d}
  BY TailSequence DEF Sane
<1>2. Deliverable(d, view, phase) /\ d.to \in Node /\ view \in Nat
  BY <1>1 DEF Sane, Deliverable
<1>3. \A e \in ToSet(Tail(queue)) : Deliverable(e, view, phase) /\ e.message.kind # "ProposeRequest"
  <2> SUFFICES ASSUME NEW e \in ToSet(Tail(queue))
               PROVE  Deliverable(e, view, phase) /\ e.message.kind # "ProposeRequest"
    OBVIOUS
  <2>1. e \in ToSet(queue) /\ Tail(queue) # <<>>
    BY <1>1, EmptyListed
  <2> QED
    BY <2>1 DEF Sane, Asked
<1>4. NodeState(d.to, replica[d.to])
  BY <1>2 DEF Sane
<1>5. d.message.kind = "ProposeRequest" => (replica[d.to].view = view => replica[d.to].voted_block = Genesis)
  <2> SUFFICES ASSUME d.message.kind = "ProposeRequest"
               PROVE  replica[d.to].view = view => replica[d.to].voted_block = Genesis
    OBVIOUS
  <2>1. Reach = view
    BY <1>1 DEF Reach, Asked
  <2> QED
    BY <1>2, <2>1 DEF Sane, Fresh
<1>6. Answer(d.to, replica[d.to], ApplyMessage(replica[d.to], d.to, LeaderFor(d.to), d.message), view, phase)
  <2> HIDE DEF d
  <2>1. PICK s, l : s = replica[d.to] /\ l = LeaderFor(d.to)
    OBVIOUS
  <2> QED
    BY <1>2, <1>4, <1>5, <2>1, AnswerTo
<1> QED
  BY <1>1, <1>2, <1>3, <1>4, <1>6 DEF Apply

(* The replicas after one of them took a message.                           *)
LEMMA TakeSane ==
  ASSUME Sane, NEW r \in Node, NEW res, NEW p, Answer(r, replica[r], res, view, p), Take(r, res),
         view' = view, phase' = phase, phase # "ask", ~Asked'
  PROVE  /\ replica' = [x \in Node |-> replica'[x]] /\ replica'[r] = res.state
         /\ \A x \in Node : x # r => replica'[x] = replica[x]
         /\ \A x \in Node : /\ NodeState(x, replica'[x]) /\ replica'[x].view <= Reach'
                            /\ replica'[x].view = Reach' => Fresh(replica'[x])
<1>1. replica = [x \in Node |-> replica[x]] /\ replica' = [replica EXCEPT ![r] = res.state]
  BY DEF Sane, Take
<1>2. replica' = [x \in Node |-> replica'[x]] /\ replica'[r] = res.state
      /\ \A x \in Node : x # r => replica'[x] = replica[x]
  BY <1>1
<1>3. Reach' = view + 1 /\ view \in Nat
  BY DEF Reach, Sane
<1>4. \A x \in Node : replica[x].view \in Nat /\ replica[x].view <= view + 1
                      /\ (replica[x].view = view + 1 => Fresh(replica[x]))
  <2> SUFFICES ASSUME NEW x \in Node
               PROVE  replica[x].view \in Nat /\ replica[x].view <= view + 1
                      /\ (replica[x].view = view + 1 => Fresh(replica[x]))
    OBVIOUS
  <2>1. /\ replica[x].view \in Nat /\ replica[x].view <= Reach
        /\ replica[x].view = Reach => Fresh(replica[x])
    BY DEF Sane, NodeState
  <2>2. Reach = view \/ Reach = view + 1
    BY DEF Reach
  <2> QED
    BY <1>3, <2>1, <2>2
<1>5. NodeState(r, res.state) /\ res.state.view <= view + 1 /\ (res.state.view = view + 1 => Fresh(res.state))
  <2>1. CASE res.state.view = replica[r].view /\ replica[r].view # view
    <3>1. Kept(replica[r], res.state, {"finalize_votes", "finalized_count"})
      BY <2>1 DEF Answer
    <3>2. Fresh(replica[r]) => Fresh(res.state)
      BY <3>1 DEF Fresh, Kept, Fields
    <3> QED
      BY <2>1, <3>2, <1>4 DEF Answer
  <2>2. CASE res.state.view = replica[r].view /\ replica[r].view = view
    BY <2>2, <1>3 DEF Answer
  <2>3. CASE res.state.view = view + 1 /\ Fresh(res.state)
    BY <2>3, <1>3 DEF Answer
  <2> QED
    BY <2>1, <2>2, <2>3 DEF Answer
<1>6. \A x \in Node : NodeState(x, replica[x])
  BY DEF Sane
<1> QED
  BY <1>2, <1>3, <1>4, <1>5, <1>6

Answered(outs) == Sequence(outs) /\ Distinct(outs) /\ \A out \in ToSet(outs) : Output(out, view)

LEMMA FilteredSends ==
  ASSUME NEW r \in Node, NEW outs, Answered(outs)
  PROVE  /\ Sequence(Filtered(outs, r))
         /\ \A e \in ToSet(Filtered(outs, r)) : \E out \in ToSet(outs) : Sends(e, out, r, view)
BY FilteredIs, LeavingIs DEF Answered

(* One proposal, and maybe its second block.                                *)
LEMMA SeenIs ==
  ASSUME NEW r \in Node, NEW outs, Answered(outs)
  PROVE  \/ Seen(outs, r) = {} /\ \A out \in ToSet(outs) : out.kind # "Proposal"
         \/ \E b : /\ BlockOf(b, view) /\ [kind |-> "Proposal", block |-> b] \in ToSet(outs)
                   /\ b \in Seen(outs, r) /\ Seen(outs, r) \subseteq {b, Equivocation(b)}
<1> DEFINE S == {out.block : out \in {o \in ToSet(outs) : o.kind = "Proposal"}}
           B == BlocksIn(Filtered(outs, r))
<1>1. Seen(outs, r) = S \cup B
  BY DEF Seen
<1>2. \A out \in ToSet(outs) : out.kind = "Proposal" => \E b : BlockOf(b, view) /\ out = [kind |-> "Proposal", block |-> b]
  BY DEF Answered, Output, Relay
<1>3. \A c \in B : \E b : /\ BlockOf(b, view) /\ [kind |-> "Proposal", block |-> b] \in ToSet(outs)
                          /\ c \in {b, Equivocation(b)}
  <2> SUFFICES ASSUME NEW c \in B
               PROVE  \E b : /\ BlockOf(b, view) /\ [kind |-> "Proposal", block |-> b] \in ToSet(outs)
                             /\ c \in {b, Equivocation(b)}
    OBVIOUS
  <2>1. PICK e \in ToSet(Filtered(outs, r)) : e.message.kind = "Proposal" /\ c = e.message.block
    BY DEF BlocksIn
  <2>2. PICK out \in ToSet(outs) : Sends(e, out, r, view)
    BY FilteredSends
  <2>3. \E b : BlockOf(b, view) /\ out = [kind |-> "Proposal", block |-> b] /\ e.message.block \in {b, Equivocation(b)}
    <3>1. CASE \E b : e.message = [kind |-> "Vote", view |-> view, block |-> b, signer |-> r]
      BY <2>1, <3>1
    <3>2. CASE \E b : e.message = [kind |-> "Notarization", view |-> view, block |-> b]
      BY <2>1, <3>2
    <3>3. CASE e.message = [kind |-> "FinalizeVote", view |-> view, signer |-> r]
      BY <2>1, <3>3
    <3> QED
      BY <2>2, <3>1, <3>2, <3>3 DEF Sends
  <2> QED
    BY <2>1, <2>2, <2>3
<1>4. \A a, b : [kind |-> "Proposal", block |-> a] \in ToSet(outs) /\ [kind |-> "Proposal", block |-> b] \in ToSet(outs)
                => a = b
  <2> SUFFICES ASSUME NEW a, NEW b, [kind |-> "Proposal", block |-> a] \in ToSet(outs),
                      [kind |-> "Proposal", block |-> b] \in ToSet(outs)
               PROVE  a = b
    OBVIOUS
  <2>1. PICK n \in Nat : DOMAIN outs = 1..n /\ ToSet(outs) = {outs[k] : k \in 1..n}
    BY SequenceOfSet DEF Answered, ToSet
  <2>2. PICK i \in 1..n : outs[i] = [kind |-> "Proposal", block |-> a]
    BY <2>1
  <2>3. PICK j \in 1..n : outs[j] = [kind |-> "Proposal", block |-> b]
    BY <2>1
  <2>4. outs[i].kind = outs[j].kind
    BY <2>2, <2>3
  <2>5. i = j
    BY <2>1, <2>4 DEF Answered, Distinct
  <2>6. outs[i].block = a /\ outs[j].block = b
    BY <2>2, <2>3
  <2> QED
    BY <2>5, <2>6
<1>5. \A b : [kind |-> "Proposal", block |-> b] \in ToSet(outs) => b \in S
  <2> SUFFICES ASSUME NEW b, [kind |-> "Proposal", block |-> b] \in ToSet(outs)
               PROVE  b \in S
    OBVIOUS
  <2> DEFINE o == [kind |-> "Proposal", block |-> b]
  <2>1. o.kind = "Proposal" /\ o.block = b
    OBVIOUS
  <2> HIDE DEF o
  <2>2. o \in ToSet(outs)
    BY DEF o
  <2> QED
    BY <2>1, <2>2
<1>6. \A c \in S : [kind |-> "Proposal", block |-> c] \in ToSet(outs) /\ BlockOf(c, view)
  <2> SUFFICES ASSUME NEW c \in S
               PROVE  [kind |-> "Proposal", block |-> c] \in ToSet(outs) /\ BlockOf(c, view)
    OBVIOUS
  <2>1. PICK out \in ToSet(outs) : out.kind = "Proposal" /\ c = out.block
    OBVIOUS
  <2>2. PICK b : BlockOf(b, view) /\ out = [kind |-> "Proposal", block |-> b]
    BY <1>2, <2>1
  <2>3. b = c
    BY <2>1, <2>2
  <2> QED
    BY <2>1, <2>2, <2>3
<1> HIDE DEF S, B
<1>7. CASE S = {}
  <2>1. B = {}
    BY <1>3, <1>5, <1>7
  <2>2. \A out \in ToSet(outs) : out.kind # "Proposal"
    BY <1>2, <1>5, <1>7
  <2> QED
    BY <1>1, <1>7, <2>1, <2>2
<1>8. CASE S # {}
  <2>1. PICK b \in S : TRUE
    BY <1>8
  <2>2. [kind |-> "Proposal", block |-> b] \in ToSet(outs) /\ BlockOf(b, view)
    BY <1>6
  <2>3. \A c \in S : c = b
    BY <1>4, <1>6, <2>2
  <2>4. \A c \in B : c \in {b, Equivocation(b)}
    BY <1>3, <1>4, <2>2
  <2> QED
    BY <1>1, <2>2, <2>3, <2>4
<1> QED
  BY <1>7, <1>8

LEMMA SeenFinite ==
  ASSUME NEW r \in Node, NEW outs, Answered(outs)
  PROVE  IsFiniteSet(Seen(outs, r)) /\ \A c \in Seen(outs, r) : BlockOf(c, view)
<1>1. CASE Seen(outs, r) = {}
  BY <1>1, FS_EmptySet
<1>2. CASE \E b : BlockOf(b, view) /\ Seen(outs, r) \subseteq {b, Equivocation(b)}
  <2>1. PICK b : BlockOf(b, view) /\ Seen(outs, r) \subseteq {b, Equivocation(b)}
    BY <1>2
  <2>2. IsFiniteSet({b, Equivocation(b)})
    <3>1. IsFiniteSet({b}) /\ IsFiniteSet({Equivocation(b)})
      BY FS_Singleton
    <3>2. IsFiniteSet({b} \cup {Equivocation(b)})
      BY <3>1, FS_Union
    <3>3. {b, Equivocation(b)} = {b} \cup {Equivocation(b)}
      OBVIOUS
    <3> QED
      BY <3>2, <3>3
  <2>3. IsFiniteSet(Seen(outs, r))
    BY <2>1, <2>2, FS_Subset
  <2> QED
    BY <2>1, <2>3, EquivocationIs
<1> QED
  BY <1>1, <1>2, SeenIs

(* What a delivery does, by what the replica answers.                       *)
DeliveredBy(d, res, forged) ==
  /\ d = Head(queue) /\ res = Apply(d) /\ Answered(res.out)
  /\ Answer(d.to, replica[d.to], res, view, "deliver")
  /\ Take(d.to, res) /\ known' = known \cup Seen(res.out, d.to)
  /\ Record(d.to, res, Filtered(res.out, d.to), forged)
  /\ queue' = Tail(queue) \o Filtered(res.out, d.to) \o forged
  /\ forged = ForgedVotes(res.out, d.to, known')

LEMMA DeliverIs ==
  ASSUME Sane, Deliver
  PROVE  \E d, res, forged : DeliveredBy(d, res, forged)
<1>1. phase = "deliver" /\ queue # <<>> /\ DeliverOnce(Head(queue))
  BY DEF Deliver
<1> DEFINE d == Head(queue)
           res == Apply(d)
           forged == ForgedVotes(res.out, d.to, known')
<1>2. Answer(d.to, replica[d.to], res, view, "deliver")
  BY <1>1, HeadFacts
<1>3. /\ Take(d.to, res) /\ known' = known \cup Seen(res.out, d.to)
      /\ Record(d.to, res, Filtered(res.out, d.to), forged)
      /\ queue' = Tail(queue) \o Filtered(res.out, d.to) \o forged
  BY <1>1 DEF DeliverOnce
<1>4. Answered(res.out)
  <2> HIDE DEF res
  <2> QED
    BY <1>2 DEF Answered, Answer, Outputs
<1>5. DeliveredBy(d, res, forged)
  BY <1>2, <1>3, <1>4 DEF DeliveredBy
<1> QED
  BY <1>5

LEMMA ForgedDeliverable ==
  ASSUME NEW r \in Node, NEW outs, Answered(outs), NEW blocks, IsFiniteSet(blocks),
         \A b \in blocks : BlockOf(b, view)
  PROVE  /\ Sequence(ForgedVotes(outs, r, blocks))
         /\ \A e \in ToSet(ForgedVotes(outs, r, blocks)) :
              /\ Deliverable(e, view, "deliver") /\ e.message.kind = "Vote" /\ e.message.signer = r
              /\ e.message.block \in blocks /\ e.to \in Node \ {r}
<1> DEFINE forged == ForgedVotes(outs, r, blocks)
<1>1. /\ Sequence(forged)
      /\ \A e \in ToSet(forged) : \E p \in Node \ {r}, out \in ToSet(outs), c \in blocks :
            out.kind = "Vote" /\ e = Forgery(p, r, out, c)
  BY ForgedIs DEF Answered
<1> HIDE DEF forged
<1>2. ASSUME NEW e \in ToSet(forged)
      PROVE  /\ Deliverable(e, view, "deliver") /\ e.message.kind = "Vote" /\ e.message.signer = r
             /\ e.message.block \in blocks /\ e.to \in Node \ {r}
  <2>1. PICK p \in Node \ {r}, out \in ToSet(outs), c \in blocks : out.kind = "Vote" /\ e = Forgery(p, r, out, c)
    BY <1>1
  <2>2. out.view = view
    <3>1. CASE \E b : out \in {[kind |-> "Proposal", block |-> b], [kind |-> "Vote", view |-> view, block |-> b], Relay(b)}
      BY <2>1, <3>1 DEF Relay
    <3>2. CASE out = [kind |-> "FinalizeVote", view |-> view]
      BY <2>1, <3>2
    <3> QED
      BY <3>1, <3>2 DEF Answered, Output
  <2>3. /\ e.to = p /\ e.message.kind = "Vote" /\ e.message.view = view /\ e.message.signer = r
        /\ e.message.block = c
    BY <2>1, <2>2 DEF Forgery
  <2> QED
    BY <2>3 DEF Deliverable
<1> QED
  BY <1>1, <1>2 DEF forged

(* The queue after a delivery, and the blocks known.                        *)
LEMMA QueueAfter ==
  ASSUME Sane, phase = "deliver", queue # <<>>, NEW d, NEW res, NEW forged, DeliveredBy(d, res, forged)
  PROVE  /\ IsFiniteSet(known') /\ \A b \in known' : BlockOf(b, view)
         /\ Sequence(forged) /\ Sequence(queue') /\ Sequence(Filtered(res.out, d.to)) /\ d.to \in Node
         /\ ToSet(queue') = (ToSet(Tail(queue)) \cup ToSet(Filtered(res.out, d.to))) \cup ToSet(forged)
         /\ Len(queue') = Len(Tail(queue)) + Len(Filtered(res.out, d.to)) + Len(forged)
         /\ \A e \in ToSet(queue') : Deliverable(e, view, "deliver") /\ e.message.kind # "ProposeRequest"
<1> DEFINE r == d.to
           outs == res.out
           fl == Filtered(outs, r)
<1>1. r \in Node /\ Sequence(Tail(queue)) /\ Answered(outs)
  BY HeadFacts DEF DeliveredBy
<1>2. IsFiniteSet(known) /\ \A b \in known : BlockOf(b, view)
  BY DEF Sane
<1>3. known' = known \cup Seen(outs, r) /\ queue' = Tail(queue) \o fl \o forged
      /\ forged = ForgedVotes(outs, r, known')
  BY DEF DeliveredBy
<1> HIDE DEF r, outs
<1>4. IsFiniteSet(Seen(outs, r)) /\ \A b \in Seen(outs, r) : BlockOf(b, view)
  BY <1>1, SeenFinite
<1>5. IsFiniteSet(known') /\ \A b \in known' : BlockOf(b, view)
  <2>1. IsFiniteSet(known \cup Seen(outs, r))
    BY <1>2, <1>4, FS_Union
  <2> QED
    BY <2>1, <1>2, <1>3, <1>4
<1> PICK blocks : blocks = known'
  OBVIOUS
<1>6. /\ Sequence(forged)
      /\ \A e \in ToSet(forged) : Deliverable(e, view, "deliver") /\ e.message.kind = "Vote"
  <2>1. IsFiniteSet(blocks) /\ (\A b \in blocks : BlockOf(b, view)) /\ forged = ForgedVotes(outs, r, blocks)
    BY <1>3, <1>5
  <2> QED
    BY <2>1, <1>1, ForgedDeliverable
<1>7. /\ Sequence(fl)
      /\ \A e \in ToSet(fl) : Deliverable(e, view, "deliver") /\ e.message.kind # "ProposeRequest"
  BY <1>1, FilteredSends, SentIsDeliverable
<1> HIDE DEF fl
<1>8. /\ Sequence(Tail(queue) \o fl) /\ ToSet(Tail(queue) \o fl) = ToSet(Tail(queue)) \cup ToSet(fl)
      /\ Len(Tail(queue) \o fl) = Len(Tail(queue)) + Len(fl)
  BY <1>1, <1>7, ConcatSequence
<1>9. /\ Sequence(queue') /\ ToSet(queue') = (ToSet(Tail(queue)) \cup ToSet(fl)) \cup ToSet(forged)
      /\ Len(queue') = Len(Tail(queue)) + Len(fl) + Len(forged)
  <2> PICK q : q = Tail(queue) \o fl
    OBVIOUS
  <2>1. /\ Sequence(q \o forged) /\ ToSet(q \o forged) = ToSet(q) \cup ToSet(forged)
        /\ Len(q \o forged) = Len(q) + Len(forged)
    BY <1>6, <1>8, ConcatSequence
  <2> QED
    BY <2>1, <1>3, <1>8
<1>10. \A e \in ToSet(Tail(queue)) : Deliverable(e, view, "deliver") /\ e.message.kind # "ProposeRequest"
  BY HeadFacts
<1>11. \A e \in ToSet(queue') : Deliverable(e, view, "deliver") /\ e.message.kind # "ProposeRequest"
  BY <1>6, <1>7, <1>9, <1>10
<1> QED
  BY <1>1, <1>5, <1>6, <1>7, <1>9, <1>11 DEF r, outs, fl

LEMMA DeliverSane == Sane /\ Deliver => Sane'
<1> SUFFICES ASSUME Sane, Deliver PROVE Sane'
  OBVIOUS
<1>1. /\ phase = "deliver" /\ queue # <<>> /\ view' = view /\ phase' = phase /\ stuck' = stuck
      /\ dummies' = dummies /\ iterations' = iterations + 1
  BY DEF Deliver
<1>2. PICK d, res, forged : DeliveredBy(d, res, forged)
  BY DeliverIs
<1>3. d.to \in Node /\ Sequence(queue') /\ IsFiniteSet(known') /\ (\A b \in known' : BlockOf(b, view))
      /\ \A e \in ToSet(queue') : Deliverable(e, view, "deliver") /\ e.message.kind # "ProposeRequest"
  BY <1>1, <1>2, QueueAfter
<1>4. ~Asked'
  BY <1>3 DEF Asked
<1>5. /\ replica' = [x \in Node |-> replica'[x]]
      /\ \A x \in Node : /\ NodeState(x, replica'[x]) /\ replica'[x].view <= Reach'
                         /\ replica'[x].view = Reach' => Fresh(replica'[x])
  BY <1>1, <1>2, <1>3, <1>4, TakeSane DEF DeliveredBy
<1>6. iterations' \in Nat
  BY <1>1 DEF Sane
<1> QED
  BY <1>1, <1>3, <1>4, <1>5, <1>6 DEF Sane

LEMMA EndDeliverySane == Sane /\ EndDelivery => Sane'
<1> SUFFICES ASSUME Sane, EndDelivery PROVE Sane'
  OBVIOUS
<1>1. /\ phase = "deliver" /\ view' = view /\ phase' = "timeout" /\ replica' = replica /\ known' = known
      /\ dummies' = dummies /\ iterations' = iterations
      /\ stuck' = {r \in Node : replica[r].view = view}
      /\ queue' = ToAll(stuck', [kind |-> "Timeout", view |-> view])
  BY DEF EndDelivery
<1>0. PICK S, m : S = stuck' /\ m = [kind |-> "Timeout", view |-> view]
  OBVIOUS
<1>6. S \subseteq Node /\ queue' = ToAll(S, m)
  BY <1>0, <1>1
<1>2. Sequence(queue') /\ ToSet(queue') = {[to |-> p, message |-> m] : p \in S}
  <2>1. Sequence(ToAll(S, m)) /\ ToSet(ToAll(S, m)) = {[to |-> p, message |-> m] : p \in S}
    <3>1. S \subseteq Node
      BY <1>6
    <3>2. Sequence(ToAll(S, m))
      BY <3>1, ToAllIs
    <3>3. ToSet(ToAll(S, m)) = {[to |-> p, message |-> m] : p \in S}
      BY <3>1, ToAllIs, Zenon
    <3> QED
      BY <3>2, <3>3
  <2> QED
    BY <1>6, <2>1
<1>3. \A e \in ToSet(queue') : Deliverable(e, view, "timeout") /\ e.message.kind = "Timeout"
  <2> SUFFICES ASSUME NEW e \in ToSet(queue')
               PROVE  Deliverable(e, view, "timeout") /\ e.message.kind = "Timeout"
    OBVIOUS
  <2>1. PICK p \in S : e = [to |-> p, message |-> m]
    BY <1>2
  <2>2. e.to = p /\ e.message.kind = "Timeout" /\ e.message.view = view /\ p \in Node
    BY <2>1, <1>0, <1>1
  <2> QED
    BY <2>2 DEF Deliverable
<1>4. ~Asked' /\ Reach' = view + 1
  BY <1>1, <1>3 DEF Asked, Reach
<1>5. \A r \in Node : /\ NodeState(r, replica[r]) /\ replica[r].view <= view + 1
                      /\ replica[r].view = view + 1 => Fresh(replica[r])
  <2> SUFFICES ASSUME NEW r \in Node
               PROVE  /\ NodeState(r, replica[r]) /\ replica[r].view <= view + 1
                      /\ replica[r].view = view + 1 => Fresh(replica[r])
    OBVIOUS
  <2>1. /\ NodeState(r, replica[r]) /\ replica[r].view \in Nat /\ view \in Nat
        /\ replica[r].view <= Reach /\ (replica[r].view = Reach => Fresh(replica[r]))
    BY DEF Sane, NodeState
  <2>2. Reach = view \/ Reach = view + 1
    BY DEF Reach
  <2> QED
    BY <2>1, <2>2
<1> QED
  BY <1>1, <1>2, <1>3, <1>4, <1>5 DEF Sane

LEMMA FireTimerSane == Sane /\ FireTimer => Sane'
<1> SUFFICES ASSUME Sane, FireTimer PROVE Sane'
  OBVIOUS
<1> PICK d, res : d = Head(queue) /\ res = Apply(d)
  OBVIOUS
<1>1. /\ phase = "timeout" /\ queue # <<>> /\ view' = view /\ phase' = phase /\ stuck' = stuck
      /\ iterations' = iterations /\ known' = known /\ queue' = Tail(queue) /\ Take(d.to, res)
      /\ dummies' = IF res.out = <<>> THEN dummies ELSE Append(dummies, d.to)
  BY DEF FireTimer
<1>2. d.to \in Node /\ Answer(d.to, replica[d.to], res, view, phase) /\ Sequence(queue')
      /\ \A e \in ToSet(queue') : Deliverable(e, view, phase) /\ e.message.kind # "ProposeRequest"
  BY <1>1, HeadFacts
<1>3. ~Asked'
  BY <1>2 DEF Asked
<1>4. /\ replica' = [x \in Node |-> replica'[x]]
      /\ \A x \in Node : /\ NodeState(x, replica'[x]) /\ replica'[x].view <= Reach'
                         /\ replica'[x].view = Reach' => Fresh(replica'[x])
  BY <1>1, <1>2, <1>3, TakeSane
<1>5. Sequence(dummies') /\ ToSet(dummies') \subseteq Node
  <2>1. Sequence(dummies) /\ ToSet(dummies) \subseteq Node
    BY DEF Sane
  <2>2. Sequence(<<d.to>>) /\ ToSet(<<d.to>>) = {d.to}
    BY PairIs
  <2>3. Append(dummies, d.to) = dummies \o <<d.to>>
    BY <2>1 DEF Sequence
  <2>4. Sequence(dummies \o <<d.to>>) /\ ToSet(dummies \o <<d.to>>) = ToSet(dummies) \cup {d.to}
    BY <2>1, <2>2, ConcatSequence
  <2> QED
    BY <1>1, <1>2, <2>1, <2>3, <2>4
<1> QED
  BY <1>1, <1>2, <1>3, <1>4, <1>5 DEF Sane

LEMMA CollectSane == Sane /\ CollectDummyVotes => Sane'
<1> SUFFICES ASSUME Sane, CollectDummyVotes PROVE Sane'
  OBVIOUS
<1>1. /\ phase = "timeout" /\ view' = view /\ phase' = "route" /\ replica' = replica /\ known' = known
      /\ stuck' = stuck /\ iterations' = iterations /\ queue = <<>>
      /\ dummies' = IF stuck = {} THEN <<>> ELSE dummies \o InOrder(Capitulators)
      /\ queue' = FlattenSeq([i \in DOMAIN dummies' |-> RouteTo(dummies'[i])])
  BY DEF CollectDummyVotes
<1>2. Sequence(dummies') /\ ToSet(dummies') \subseteq Node
  <2>1. Sequence(dummies) /\ ToSet(dummies) \subseteq Node
    BY DEF Sane
  <2>2. Capitulators \subseteq Node
    BY DEF Capitulators
  <2>3. Sequence(InOrder(Capitulators)) /\ ToSet(InOrder(Capitulators)) \subseteq Node
    BY <2>2, InOrderIs DEF Sequence
  <2>4. /\ Sequence(dummies \o InOrder(Capitulators))
        /\ ToSet(dummies \o InOrder(Capitulators)) = ToSet(dummies) \cup ToSet(InOrder(Capitulators))
    BY <2>1, <2>3, ConcatSequence
  <2> QED
    BY <1>1, <2>1, <2>3, <2>4, EmptyListed
<1> PICK ds : ds = dummies'
  OBVIOUS
<1>3. PICK n \in Nat : n = Len(ds) /\ DOMAIN ds = 1..n /\ ToSet(ds) = {ds[k] : k \in 1..n}
  BY <1>2, SequenceOfSet DEF ToSet
<1> DEFINE ss == [i \in 1..n |-> RouteTo(ds[i])]
<1>4. queue' = FlattenSeq(ss)
  BY <1>1, <1>3
<1>5. \A k \in 1..n : /\ Sequence(ss[k])
                      /\ \A e \in ToSet(ss[k]) : Deliverable(e, view, "route") /\ e.message.kind = "NullifyVote"
  <2> SUFFICES ASSUME NEW k \in 1..n
               PROVE  /\ Sequence(ss[k])
                      /\ \A e \in ToSet(ss[k]) : Deliverable(e, view, "route") /\ e.message.kind = "NullifyVote"
    OBVIOUS
  <2>0. PICK x, m, S : x = ds[k] /\ m = [kind |-> "NullifyVote", view |-> view, signer |-> x] /\ S = stuck \ {x}
    OBVIOUS
  <2>1. x \in Node /\ S \subseteq Node /\ x \notin S /\ ss[k] = ToAll(S, m)
    BY <1>2, <1>3, <2>0 DEF RouteTo, Sane
  <2> HIDE DEF ss
  <2>2. Sequence(ss[k]) /\ ToSet(ss[k]) = {[to |-> p, message |-> m] : p \in S}
    <3>1. S \subseteq Node
      BY <2>1
    <3>2. Sequence(ToAll(S, m))
      BY <3>1, ToAllIs
    <3>3. ToSet(ToAll(S, m)) = {[to |-> p, message |-> m] : p \in S}
      BY <3>1, ToAllIs, Zenon
    <3> QED
      BY <2>1, <3>2, <3>3
  <2>3. ASSUME NEW e \in ToSet(ss[k])
        PROVE  Deliverable(e, view, "route") /\ e.message.kind = "NullifyVote"
    <3>1. PICK p \in S : e = [to |-> p, message |-> m]
      BY <2>2
    <3>2. e.to = p /\ e.message.kind = "NullifyVote" /\ e.message.view = view /\ e.message.signer = x
      BY <2>0, <3>1
    <3>3. p \in Node /\ x \in Node \ {p}
      BY <2>0, <2>1
    <3> QED
      BY <3>2, <3>3 DEF Deliverable
  <2> QED
    BY <2>2, <2>3
<1>6. ss = [k \in 1..n |-> ss[k]]
  OBVIOUS
<1> HIDE DEF ss
<1>7. Sequence(FlattenSeq(ss)) /\ ToSet(FlattenSeq(ss)) = UNION {ToSet(ss[k]) : k \in 1..n}
  BY <1>5, <1>6, FlattenSequence
<1>8. Sequence(queue') /\ \A e \in ToSet(queue') : Deliverable(e, view, "route") /\ e.message.kind = "NullifyVote"
  BY <1>4, <1>5, <1>7
<1>9. ~Asked' /\ ~Asked /\ Reach' = Reach
  BY <1>1, <1>8, EmptyListed DEF Asked, Reach
<1> QED
  BY <1>1, <1>2, <1>8, <1>9 DEF Sane

LEMMA RouteSane == Sane /\ RouteDummyVote => Sane'
<1> SUFFICES ASSUME Sane, RouteDummyVote PROVE Sane'
  OBVIOUS
<1> PICK d, res : d = Head(queue) /\ res = Apply(d)
  OBVIOUS
<1>1. /\ phase = "route" /\ queue # <<>> /\ view' = view /\ phase' = phase /\ stuck' = stuck
      /\ iterations' = iterations /\ known' = known /\ queue' = Tail(queue) /\ Take(d.to, res)
      /\ dummies' = dummies
  BY DEF RouteDummyVote
<1>2. d.to \in Node /\ Answer(d.to, replica[d.to], res, view, phase) /\ Sequence(queue')
      /\ \A e \in ToSet(queue') : Deliverable(e, view, phase) /\ e.message.kind # "ProposeRequest"
  BY <1>1, HeadFacts
<1>3. ~Asked'
  BY <1>2 DEF Asked
<1>4. /\ replica' = [x \in Node |-> replica'[x]]
      /\ \A x \in Node : /\ NodeState(x, replica'[x]) /\ replica'[x].view <= Reach'
                         /\ replica'[x].view = Reach' => Fresh(replica'[x])
  BY <1>1, <1>2, <1>3, TakeSane
<1> QED
  BY <1>1, <1>2, <1>3, <1>4 DEF Sane

LEMMA ReadSane == Sane /\ ReadStates => Sane'
<1> SUFFICES ASSUME Sane, ReadStates PROVE Sane'
  OBVIOUS
<1>1. /\ phase = "route" /\ queue = <<>> /\ queue' = queue /\ replica' = replica /\ known' = known
      /\ stuck' = stuck /\ dummies' = dummies /\ iterations' = iterations
      /\ \/ phase' = "halted" /\ view' = view
         \/ phase' = "ask" /\ view' = view + 1
  BY DEF ReadStates, engineVars
<1>2. ~Asked /\ ~Asked' /\ ToSet(queue) = {} /\ Sequence(queue)
  BY <1>1, EmptyListed DEF Asked
<1>3. Reach = view + 1 /\ Reach' = view + 1
  BY <1>1, <1>2 DEF Reach
<1>4. view' \in Nat \ {0}
  BY <1>1 DEF Sane
<1> QED
  BY <1>1, <1>2, <1>3, <1>4 DEF Sane

LEMMA StepSane == ElectsNodes /\ oracle \in Oracles /\ Sane /\ [Next]_vars => Sane' /\ oracle' \in Oracles
<1> SUFFICES ASSUME ElectsNodes, oracle \in Oracles, Sane, [Next]_vars PROVE Sane' /\ oracle' \in Oracles
  OBVIOUS
<1>1. oracle' = oracle
  BY DEF Next, vars, given, AskLeader, Deliver, EndDelivery, FireTimer, CollectDummyVotes, RouteDummyVote, ReadStates
<1>2. CASE UNCHANGED vars
  <2>1. /\ view' = view /\ phase' = phase /\ replica' = replica /\ queue' = queue /\ known' = known
        /\ stuck' = stuck /\ dummies' = dummies /\ iterations' = iterations
    BY <1>2 DEF vars
  <2>2. Asked' = Asked /\ Reach' = Reach
    BY <2>1 DEF Asked, Reach
  <2> QED
    BY <2>1, <2>2, <1>1 DEF Sane
<1> QED
  BY <1>1, <1>2, AskSane, DeliverSane, EndDeliverySane, FireTimerSane, CollectSane, RouteSane, ReadSane DEF Next

-----------------------------------------------------------------------------
(* All that a replica can make of message m, in state s, when it takes l for the
   leader.                                                                  *)
Needless(r, m, s, l) ==
  CASE m.kind = "ProposeRequest" -> ~(m.view = s.view /\ l = r)
    [] m.kind = "Proposal"       -> ViewOf(m.block) # s.view
    [] m.kind = "Vote"           -> m.view = s.view => m.signer \in ToSet(VotesFor(s, m.block))
    [] m.kind = "Timeout"        -> m.view = s.view => s.dummy_sent = TRUE
    [] m.kind = "NullifyVote"    -> m.view = s.view => m.signer \in ToSet(s.nullify_votes)
    [] m.kind = "FinalizeVote"   -> m.view \in {s.view, s.view - 1} => m.signer \in ToSet(s.finalize_votes)
    [] m.kind = "Notarization"   -> m.view # s.view

Handled(r, m, s, res, l) ==
  \/ Quiet(s, res) /\ Needless(r, m, s, l)
  \/ /\ m.kind = "ProposeRequest" /\ m.view = s.view /\ l = r
     /\ Proposes(s, res, r, NextBlock(s, r, m.payload))
  \/ /\ m.kind = "Proposal" /\ ViewOf(m.block) = s.view
     /\ \/ ~Fits(s, l, m.block) /\ Refuses(s, res, m.block)
        \/ Fits(s, l, m.block) /\ VotesAndStays(s, res, m.block, r)
        \/ Fits(s, l, m.block) /\ VotesAndLeaves(s, res, m.block)
  \/ /\ m.kind = "Vote" /\ m.view = s.view /\ m.signer \notin ToSet(VotesFor(s, m.block))
     /\ \/ Counts(s, res, m.block, m.signer)
        \/ /\ m.block \in s.known_blocks /\ T <= Len(VotesFor(s, m.block)) + 1
           /\ LeavesWith(s, res, m.block, NotarySeed(m.block))
  \/ /\ m.kind = "Timeout" /\ m.view = s.view /\ s.dummy_sent = FALSE
     /\ TimesOut(s, res, r) \/ TimesOutLast(s, res)
  \/ /\ m.kind = "NullifyVote" /\ m.view = s.view /\ m.signer \notin ToSet(s.nullify_votes)
     /\ \/ CountsDummy(s, res, m.signer)
        \/ GivesUp(s, res) /\ T <= Len(s.nullify_votes) + 1
  \/ /\ m.kind = "FinalizeVote" /\ m.view \in {s.view, s.view - 1}
     /\ m.signer \notin ToSet(s.finalize_votes) /\ CountsFinal(s, res, m.view, m.signer)
  \/ m.kind = "Notarization" /\ m.view = s.view /\ LeavesWith(s, res, m.block, s.seed)

LEMMA HandledIs ==
  ASSUME NEW d, NEW h, NEW p, Deliverable(d, h, p), NEW s, NodeState(d.to, s), NEW l
  PROVE  Handled(d.to, d.message, s, ApplyMessage(s, d.to, l, d.message), l)
<1> PICK r, m : r \in Node /\ r = d.to /\ m = d.message
  BY DEF Deliverable
<1> DEFINE res == ApplyMessage(s, r, l, m)
<1>1. CASE m.kind = "ProposeRequest"
  <2>1. res = HandleProposeRequest(s, r, l, m.view, m.payload)
    BY <1>1 DEF ApplyMessage
  <2>2. Needless(r, m, s, l) <=> ~(m.view = s.view /\ l = r)
    BY <1>1 DEF Needless
  <2> HIDE DEF res
  <2>3. \/ Quiet(s, res) /\ ~(m.view = s.view /\ l = r)
        \/ m.view = s.view /\ l = r /\ Proposes(s, res, r, NextBlock(s, r, m.payload))
    BY <2>1, ProposeShape
  <2> QED
    BY <1>1, <2>2, <2>3 DEF Handled, res
<1>2. CASE m.kind = "Proposal"
  <2>1. res = HandleProposal(s, r, l, m.block) /\ m.block # Genesis
    BY <1>2 DEF ApplyMessage, Deliverable, BlockOf
  <2>2. Needless(r, m, s, l) <=> ViewOf(m.block) # s.view
    BY <1>2 DEF Needless
  <2> HIDE DEF res
  <2>3. \/ Quiet(s, res) /\ ViewOf(m.block) # s.view
        \/ ViewOf(m.block) = s.view /\ ~Fits(s, l, m.block) /\ Refuses(s, res, m.block)
        \/ /\ ViewOf(m.block) = s.view /\ Fits(s, l, m.block)
           /\ VotesAndStays(s, res, m.block, r) \/ VotesAndLeaves(s, res, m.block)
    BY <2>1, ProposalShape
  <2> QED
    BY <1>2, <2>2, <2>3 DEF Handled, res
<1>3. CASE m.kind = "Vote"
  <2>1. res = HandleVote(s, m.view, m.block, m.signer)
    BY <1>3 DEF ApplyMessage
  <2>2. Needless(r, m, s, l) <=> (m.view = s.view => m.signer \in ToSet(VotesFor(s, m.block)))
    BY <1>3 DEF Needless
  <2> HIDE DEF res
  <2>3. \/ Quiet(s, res) /\ (m.view = s.view => m.signer \in ToSet(VotesFor(s, m.block)))
        \/ /\ m.view = s.view /\ m.signer \notin ToSet(VotesFor(s, m.block))
           /\ \/ Counts(s, res, m.block, m.signer)
              \/ /\ m.block \in s.known_blocks /\ T <= Len(VotesFor(s, m.block)) + 1
                 /\ LeavesWith(s, res, m.block, NotarySeed(m.block))
    BY <2>1, VoteShape
  <2> QED
    BY <1>3, <2>2, <2>3 DEF Handled, res
<1>4. CASE m.kind = "Timeout"
  <2>1. res = HandleTimeout(s, r, m.view)
    BY <1>4 DEF ApplyMessage
  <2>2. Needless(r, m, s, l) <=> (m.view = s.view => s.dummy_sent = TRUE)
    BY <1>4 DEF Needless
  <2> HIDE DEF res
  <2>3. \/ Quiet(s, res) /\ (m.view = s.view => s.dummy_sent = TRUE)
        \/ m.view = s.view /\ s.dummy_sent = FALSE /\ (TimesOut(s, res, r) \/ TimesOutLast(s, res))
    BY <2>1, TimeoutShape
  <2> QED
    BY <1>4, <2>2, <2>3 DEF Handled, res
<1>5. CASE m.kind = "NullifyVote"
  <2>1. res = HandleNullifyVote(s, m.view, m.signer)
    BY <1>5 DEF ApplyMessage
  <2>2. Needless(r, m, s, l) <=> (m.view = s.view => m.signer \in ToSet(s.nullify_votes))
    BY <1>5 DEF Needless
  <2> HIDE DEF res
  <2>3. \/ Quiet(s, res) /\ (m.view = s.view => m.signer \in ToSet(s.nullify_votes))
        \/ /\ m.view = s.view /\ m.signer \notin ToSet(s.nullify_votes)
           /\ \/ CountsDummy(s, res, m.signer)
              \/ GivesUp(s, res) /\ T <= Len(s.nullify_votes) + 1
    BY <2>1, NullifyShape
  <2> QED
    BY <1>5, <2>2, <2>3 DEF Handled, res
<1>6. CASE m.kind = "FinalizeVote"
  <2>1. res = HandleFinalizeVote(s, m.view, m.signer)
    BY <1>6 DEF ApplyMessage
  <2>2. Needless(r, m, s, l) <=> (m.view \in {s.view, s.view - 1} => m.signer \in ToSet(s.finalize_votes))
    BY <1>6 DEF Needless
  <2> HIDE DEF res
  <2>3. \/ Quiet(s, res) /\ (m.view \in {s.view, s.view - 1} => m.signer \in ToSet(s.finalize_votes))
        \/ /\ m.view \in {s.view, s.view - 1} /\ m.signer \notin ToSet(s.finalize_votes)
           /\ CountsFinal(s, res, m.view, m.signer)
    BY <2>1, FinalizeShape
  <2> QED
    BY <1>6, <2>2, <2>3 DEF Handled, res
<1>7. CASE m.kind = "Notarization"
  <2>1. res = HandleNotarization(s, m.view, m.block)
    BY <1>7 DEF ApplyMessage
  <2>2. Needless(r, m, s, l) <=> m.view # s.view
    BY <1>7 DEF Needless
  <2> HIDE DEF res
  <2>3. \/ Quiet(s, res) /\ m.view # s.view
        \/ m.view = s.view /\ LeavesWith(s, res, m.block, s.seed)
    BY <2>1, NotarizationShape
  <2> QED
    BY <1>7, <2>2, <2>3 DEF Handled, res
<1> QED
  BY <1>1, <1>2, <1>3, <1>4, <1>5, <1>6, <1>7 DEF Deliverable

-----------------------------------------------------------------------------
(* The deliveries of a view. Each is paid for by what made it: the proposal, once;
   the vote of a node and a Capitulator's second one; what a node announces when
   it leaves.                                                               *)
Gone   == {r \in Node : replica[r].view # view}
Voting == {r \in Node : replica[r].view # view \/ replica[r].voted_block # Genesis}

Paid == 1 + (IF known = {} THEN 0 ELSE N - 1)
          + (2 * (N - 1)) * Cardinality(Voting) + (2 * (N - 1)) * Cardinality(Gone)

Bounded ==
  /\ phase = "deliver" =>
       /\ \E b : known \subseteq {b, Equivocation(b)}
       /\ Asked => known = {}
       /\ \A e \in ToSet(queue) : e.message.kind = "Proposal" => e.message.block \in known
       /\ iterations + Len(queue) <= Paid
  /\ iterations <= N + 4 * N * (N - 1)

LEMMA Grown ==
  ASSUME NEW A, NEW B, A \subseteq B, B \subseteq Node
  PROVE  /\ Cardinality(A) \in Nat /\ Cardinality(B) \in Nat /\ Cardinality(A) <= Cardinality(B)
         /\ Cardinality(B) <= N
         /\ \A r \in B : r \notin A => Cardinality(A) + 1 <= Cardinality(B)
<1>1. IsFiniteSet(A) /\ IsFiniteSet(B) /\ Cardinality(A) \in Nat /\ Cardinality(B) \in Nat /\ Cardinality(B) <= N
  BY NodeFacts
<1>2. Cardinality(A) <= Cardinality(B)
  BY <1>1, FS_Subset
<1>3. ASSUME NEW r \in B, r \notin A
      PROVE  Cardinality(A) + 1 <= Cardinality(B)
  <2>1. Cardinality(A \cup {r}) = Cardinality(A) + 1
    BY <1>1, <1>3, FS_AddElement
  <2>2. Cardinality(A \cup {r}) <= Cardinality(B)
    BY <1>1, <1>3, FS_Subset
  <2> QED
    BY <2>1, <2>2
<1> QED
  BY <1>1, <1>2, <1>3

LEMMA OneOther ==
  ASSUME NEW S, NEW b, S \subseteq {b, Equivocation(b)}, NEW v \in S
  PROVE  Cardinality(S \ {v}) <= 1
<1>1. \E c : S \ {v} \subseteq {c}
  OBVIOUS
<1>2. PICK c : S \ {v} \subseteq {c}
  BY <1>1
<1>3. Cardinality({c}) = 1 /\ IsFiniteSet({c})
  BY FS_Singleton
<1> QED
  BY <1>2, <1>3, FS_Subset

(* What a delivery adds to the queue, by what the replica answers.          *)

LEMMA AddsNothing ==
  ASSUME NEW r \in Node, NEW outs, outs = <<>>, NEW blocks, IsFiniteSet(blocks)
  PROVE  /\ Len(Filtered(outs, r)) = 0 /\ Len(ForgedVotes(outs, r, blocks)) = 0
         /\ Seen(outs, r) = {}
<1>1. Sequence(outs) /\ Len(outs) = 0 /\ ToSet(outs) = {}
  BY EmptyListed
<1>2. Sequence(Filtered(outs, r)) /\ ToSet(Filtered(outs, r)) = {} /\ Len(Filtered(outs, r)) <= 0 * (N - 1)
  <2>1. /\ Sequence(Filtered(outs, r)) /\ Len(Filtered(outs, r)) <= Len(outs) * (N - 1)
        /\ ToSet(Filtered(outs, r)) = UNION {Leaving(out, r) : out \in ToSet(outs)}
    BY <1>1, FilteredIs
  <2> QED
    BY <2>1, <1>1
<1>3. Len(Filtered(outs, r)) = 0
  <2>1. Len(Filtered(outs, r)) \in Nat
    BY <1>2, SequenceOfSet
  <2> QED
    BY <2>1, <1>2, NodeFacts
<1>4. Sequence(ForgedVotes(outs, r, blocks)) /\ ToSet(ForgedVotes(outs, r, blocks)) = {}
  BY <1>1, ForgedIs
<1>5. Len(ForgedVotes(outs, r, blocks)) = 0
  <2> PICK q : q = ForgedVotes(outs, r, blocks)
    OBVIOUS
  <2>1. Len(q) \in Nat /\ DOMAIN q = 1..Len(q) /\ ToSet(q) = {}
    BY <1>4, SequenceOfSet
  <2>2. 1 \notin DOMAIN q
    BY <2>1 DEF ToSet
  <2> QED
    BY <2>1, <2>2
<1>6. Seen(outs, r) = {}
  BY <1>1, <1>2 DEF Seen, BlocksIn
<1> QED
  BY <1>3, <1>5, <1>6

(* Up to k outputs, of which one may be a vote for a block that is known.   *)
LEMMA AddsSome ==
  ASSUME NEW r \in Node, NEW outs, Answered(outs), NEW k \in Nat, Len(outs) <= k,
         NEW blocks, IsFiniteSet(blocks), NEW b, blocks \subseteq {b, Equivocation(b)},
         \A out \in ToSet(outs) : out.kind = "Vote" => out.block \in blocks
  PROVE  /\ Len(Filtered(outs, r)) \in Nat /\ Len(Filtered(outs, r)) <= k * (N - 1)
         /\ Len(ForgedVotes(outs, r, blocks)) \in Nat /\ Len(ForgedVotes(outs, r, blocks)) <= N - 1
         /\ (\A out \in ToSet(outs) : out.kind # "Vote") => Len(ForgedVotes(outs, r, blocks)) = 0
<1>1. Sequence(outs) /\ Distinct(outs) /\ Len(outs) \in Nat
  BY SequenceOfSet DEF Answered
<1>2. /\ Sequence(Filtered(outs, r)) /\ Len(Filtered(outs, r)) <= Len(outs) * (N - 1)
  BY <1>1, FilteredIs
<1>3. Len(Filtered(outs, r)) \in Nat
  BY <1>2, SequenceOfSet
<1>4. Len(outs) * (N - 1) <= k * (N - 1)
  <2> PICK l, w \in Nat : l = Len(outs) /\ w = N - 1
    BY <1>1, NodeFacts
  <2>1. l \in Nat /\ l <= k
    BY <1>1
  <2>2. PICK x \in Nat : k = l + x
    <3>1. k - l \in Nat /\ k = l + (k - l)
      BY <2>1
    <3> QED
      BY <3>1
  <2>4. l \in Nat /\ (l + x) * w = l * w + x * w
    BY <2>1, SMT
  <2>5. x * w \in Nat
    BY SMT
  <2>6. l * w \in Nat
    BY <2>1, SMT
  <2>3. k * w = l * w + x * w /\ x * w \in Nat /\ l * w \in Nat
    BY <2>2, <2>4, <2>5, <2>6
  <2> QED
    BY <2>3
<1>5. Len(Filtered(outs, r)) <= k * (N - 1)
  <2> PICK a, c, e : a = Len(Filtered(outs, r)) /\ c = Len(outs) * (N - 1) /\ e = k * (N - 1)
    OBVIOUS
  <2>1. a \in Nat /\ c \in Int /\ e \in Int /\ a <= c /\ c <= e
    BY <1>1, <1>2, <1>3, <1>4, NodeFacts
  <2> QED
    BY <2>1
<1>6. \A out \in ToSet(outs) : out.kind = "Vote" => Cardinality(blocks \ {out.block}) <= 1
  BY OneOther
<1>7. /\ Sequence(ForgedVotes(outs, r, blocks)) /\ Len(ForgedVotes(outs, r, blocks)) <= N - 1
      /\ \A e \in ToSet(ForgedVotes(outs, r, blocks)) : \E out \in ToSet(outs) : out.kind = "Vote"
  BY <1>1, <1>6, ForgedIs
<1>8. Len(ForgedVotes(outs, r, blocks)) \in Nat
  BY <1>7, SequenceOfSet
<1>9. (\A out \in ToSet(outs) : out.kind # "Vote") => Len(ForgedVotes(outs, r, blocks)) = 0
  <2> PICK q : q = ForgedVotes(outs, r, blocks)
    OBVIOUS
  <2>1. Len(q) \in Nat /\ DOMAIN q = 1..Len(q) /\ ((\A out \in ToSet(outs) : out.kind # "Vote") => ToSet(q) = {})
    BY <1>7, SequenceOfSet
  <2>2. ToSet(q) = {} => 1 \notin DOMAIN q
    BY DEF ToSet
  <2> QED
    BY <2>1, <2>2
<1> QED
  BY <1>3, <1>5, <1>7, <1>8, <1>9

(* What the answer to a delivery amounts to: nothing sent; a proposal with its
   vote; a vote, in the view or on the way out of it; or what announces the
   notarization, alone.                                                     *)
Amounts(r, m, s, res) ==
  \/ res.out = <<>>
  \/ /\ s.view = view /\ s.voted_block = Genesis
     /\ \/ /\ m.kind = "ProposeRequest" /\ res.state.view = view /\ res.state.voted_block # Genesis
           /\ Len(res.out) = 2
           /\ \E b : ToSet(res.out) = {[kind |-> "Proposal", block |-> b], VoteOut(s, b)}
        \/ /\ m.kind = "Proposal" /\ res.state.view = view /\ res.state.voted_block # Genesis
           /\ Len(res.out) = 1 /\ ToSet(res.out) = {VoteOut(s, m.block)}
        \/ /\ m.kind = "Proposal" /\ res.state.view = view + 1 /\ Len(res.out) <= 3
           /\ ToSet(res.out) = {VoteOut(s, m.block)} \cup Announced(s, m.block)
  \/ /\ s.view = view /\ res.state.view = view + 1 /\ Len(res.out) <= 2
     /\ \E b : ToSet(res.out) = Announced(s, b)

LEMMA AmountsTo ==
  ASSUME NEW d, Deliverable(d, view, "deliver"), NEW s, NodeState(d.to, s), NEW res, NEW l,
         Handled(d.to, d.message, s, res, l),
         d.message.kind = "ProposeRequest" => (s.view = view => s.voted_block = Genesis)
  PROVE  /\ Amounts(d.to, d.message, s, res)
         /\ s.voted_block # Genesis /\ res.state.view = s.view => res.state.voted_block # Genesis
<1> PICK r, m : r = d.to /\ m = d.message
  OBVIOUS
<1>0. s.view \in Nat \ {0}
  BY DEF NodeState
<1>1. CASE Quiet(s, res)
  BY <1>1 DEF Quiet, Amounts
<1>2. CASE /\ m.kind = "ProposeRequest" /\ m.view = s.view
           /\ Proposes(s, res, r, NextBlock(s, r, m.payload))
  <2>1. m.view = view
    BY <1>2 DEF Deliverable
  <2>2. NextBlock(s, r, m.payload) # Genesis
    <3> PICK e : e = [view |-> s.view, payload |-> m.payload, proposer |-> r]
      OBVIOUS
    <3>1. PICK S : s.tip \in Seq(S)
      BY DEF NodeState, Sequence
    <3>2. s.tip \in Seq(S \cup {e})
      BY <3>1
    <3>3. Append(s.tip, e) # <<>>
      BY <3>2
    <3> QED
      BY <3>3 DEF NextBlock, Genesis
  <2> PICK b : b = NextBlock(s, r, m.payload)
    OBVIOUS
  <2>3. /\ res.state.voted_block = b /\ res.state.view = s.view /\ Len(res.out) = 2
        /\ ToSet(res.out) = {[kind |-> "Proposal", block |-> b], VoteOut(s, b)}
    BY <1>2 DEF Proposes, Ballot, Kept, BallotFields, Fields
  <2> QED
    BY <1>2, <2>1, <2>2, <2>3 DEF Amounts
<1>3. CASE m.kind = "Proposal" /\ ViewOf(m.block) = s.view
  <2>1. m.block # Genesis /\ ViewOf(m.block) = view
    BY <1>3 DEF Deliverable, BlockOf
  <2>2. CASE Refuses(s, res, m.block)
    <3>1. res.out = <<>> /\ res.state.voted_block = s.voted_block
      BY <2>2 DEF Refuses, Kept, Fields
    <3> QED
      BY <3>1 DEF Amounts
  <2>3. CASE Fits(s, l, m.block) /\ VotesAndStays(s, res, m.block, r)
    <3>1. /\ res.state.voted_block = m.block /\ res.state.view = s.view /\ Len(res.out) = 1
          /\ ToSet(res.out) = {VoteOut(s, m.block)}
      BY <2>3 DEF VotesAndStays, Ballot, Kept, BallotFields, Fields
    <3> QED
      BY <1>3, <2>1, <2>3, <3>1 DEF Amounts, Fits
  <2>4. CASE Fits(s, l, m.block) /\ VotesAndLeaves(s, res, m.block)
    <3>1. /\ res.state.view = s.view + 1 /\ Len(res.out) <= 3
          /\ ToSet(res.out) = {VoteOut(s, m.block)} \cup Announced(s, m.block)
      BY <2>4 DEF VotesAndLeaves, LeftBehind
    <3>2. res.state.view # s.view
      BY <3>1, <1>0
    <3> QED
      BY <1>3, <2>1, <2>4, <3>1, <3>2 DEF Amounts, Fits
  <2> QED
    BY <1>1, <1>3, <2>2, <2>3, <2>4 DEF Handled
<1>4. ASSUME NEW b, NEW sd, LeavesWith(s, res, b, sd), m.view = s.view, m.view = view
      PROVE  Amounts(r, m, s, res) /\ res.state.view # s.view
  <2>1. res.state.view = s.view + 1 /\ Len(res.out) <= 2 /\ ToSet(res.out) = Announced(s, b)
    BY <1>4 DEF LeavesWith, LeftBehind
  <2>2. res.state.view # s.view
    BY <2>1, <1>0
  <2> QED
    BY <1>4, <2>1, <2>2 DEF Amounts
<1>5. CASE m.kind = "Vote" /\ m.view = s.view
  <2>1. m.view = view
    BY <1>5 DEF Deliverable
  <2>2. CASE Counts(s, res, m.block, m.signer)
    <3>1. res.out = <<>> /\ res.state.voted_block = s.voted_block
      BY <2>2 DEF Counts, Kept, Fields
    <3> QED
      BY <3>1 DEF Amounts
  <2> QED
    BY <1>1, <1>4, <1>5, <2>1, <2>2 DEF Handled
<1>6. CASE m.kind = "FinalizeVote" /\ CountsFinal(s, res, m.view, m.signer)
  <2>1. res.out = <<>> /\ res.state.voted_block = s.voted_block
    BY <1>6 DEF CountsFinal, Kept, Fields
  <2> QED
    BY <2>1 DEF Amounts
<1>7. CASE m.kind = "Notarization" /\ m.view = s.view
  <2>1. m.view = view
    BY <1>7 DEF Deliverable
  <2> QED
    BY <1>1, <1>4, <1>7, <2>1 DEF Handled
<1>8. m.kind \notin {"Timeout", "NullifyVote"}
  BY DEF Deliverable
<1> QED
  BY <1>1, <1>2, <1>3, <1>5, <1>6, <1>7, <1>8 DEF Handled

(* Who has voted and who has left.                                          *)
LEMMA Progress ==
  ASSUME Sane, phase = "deliver", queue # <<>>, NEW d, NEW res, NEW forged, DeliveredBy(d, res, forged),
         view' = view
  PROVE  /\ Amounts(d.to, d.message, replica[d.to], res) /\ d.to \in Node
         /\ Gone \subseteq Gone' /\ Gone' \subseteq Node
         /\ Voting \subseteq Voting' /\ Voting' \subseteq Node
         /\ d.to \in Gone <=> replica[d.to].view # view
         /\ d.to \in Gone' <=> res.state.view # view
         /\ d.to \in Voting <=> replica[d.to].view # view \/ replica[d.to].voted_block # Genesis
         /\ d.to \in Voting' <=> res.state.view # view \/ res.state.voted_block # Genesis
<1> PICK r, s, l : r = d.to /\ s = replica[r] /\ l = LeaderFor(r)
  OBVIOUS
<1>1. /\ Deliverable(d, view, "deliver") /\ r \in Node /\ NodeState(r, s) /\ d \in ToSet(queue)
      /\ Answer(r, s, res, view, "deliver") /\ res = ApplyMessage(s, r, l, d.message)
  BY HeadFacts DEF DeliveredBy, Apply
<1>2. Handled(r, d.message, s, res, l)
  BY <1>1, HandledIs
<1>3. d.message.kind = "ProposeRequest" => (s.view = view => s.voted_block = Genesis)
  <2> SUFFICES ASSUME d.message.kind = "ProposeRequest" PROVE s.view = view => s.voted_block = Genesis
    OBVIOUS
  <2>1. Reach = view
    BY <1>1 DEF Reach, Asked
  <2> QED
    BY <1>1, <2>1 DEF Sane, Fresh
<1>4. Amounts(r, d.message, s, res) /\ (s.voted_block # Genesis /\ res.state.view = s.view => res.state.voted_block # Genesis)
  BY <1>1, <1>2, <1>3, AmountsTo
<1>5. /\ replica'[r] = res.state /\ \A x \in Node : x # r => replica'[x] = replica[x]
  BY <1>1 DEF DeliveredBy, Take, Sane
<1>6. res.state.view = s.view \/ (s.view = view /\ res.state.view # view)
  <2>1. view \in Nat
    BY DEF Sane
  <2> QED
    BY <1>1, <2>1 DEF Answer
<1>7. \A x \in Node : /\ x \in Gone <=> replica[x].view # view
                      /\ x \in Gone' <=> replica'[x].view # view
                      /\ x \in Voting <=> replica[x].view # view \/ replica[x].voted_block # Genesis
                      /\ x \in Voting' <=> replica'[x].view # view \/ replica'[x].voted_block # Genesis
  BY DEF Gone, Voting
<1>8. Gone' \subseteq Node /\ Voting' \subseteq Node /\ Gone \subseteq Node /\ Voting \subseteq Node
  BY DEF Gone, Voting
<1>9. \A x \in Node : (x \in Gone => x \in Gone') /\ (x \in Voting => x \in Voting')
  BY <1>4, <1>5, <1>6, <1>7
<1> QED
  BY <1>1, <1>4, <1>5, <1>7, <1>8, <1>9

(* The proposals on the way are of known blocks, all of one proposal.       *)
LEMMA KnownAfter ==
  ASSUME Sane, Bounded, phase = "deliver", queue # <<>>, NEW d, NEW res, NEW forged,
         DeliveredBy(d, res, forged), view' = view
  PROVE  /\ \E b : known' \subseteq {b, Equivocation(b)}
         /\ known \subseteq known'
         /\ \A e \in ToSet(queue') : e.message.kind = "Proposal" => e.message.block \in known'
         /\ \A out \in ToSet(res.out) : out.kind = "Vote" => out.block \in known'
         /\ d.message.kind = "ProposeRequest" => known = {}
         /\ (\E out \in ToSet(res.out) : out.kind = "Proposal") => known' # {}
<1> DEFINE r == d.to
           s == replica[r]
           m == d.message
<1>1. /\ Amounts(r, m, s, res) /\ r \in Node
  BY Progress
<1>2. /\ known' = known \cup Seen(res.out, r) /\ Answered(res.out)
      /\ Sequence(Filtered(res.out, r)) /\ Sequence(forged)
      /\ ToSet(queue') = (ToSet(Tail(queue)) \cup ToSet(Filtered(res.out, r))) \cup ToSet(forged)
  <2>1. known' = known \cup Seen(res.out, r) /\ Answered(res.out)
    BY DEF DeliveredBy
  <2>2. /\ Sequence(Filtered(res.out, r)) /\ Sequence(forged)
        /\ ToSet(queue') = (ToSet(Tail(queue)) \cup ToSet(Filtered(res.out, r))) \cup ToSet(forged)
    BY QueueAfter
  <2> QED
    BY <2>1, <2>2
<1>3. d \in ToSet(queue) /\ ToSet(Tail(queue)) \subseteq ToSet(queue)
  BY HeadFacts DEF DeliveredBy
<1>4. m.kind = "ProposeRequest" => known = {}
  BY <1>3 DEF Bounded, Asked
<1>5. m.kind = "Proposal" => m.block \in known
  BY <1>3 DEF Bounded
<1> HIDE DEF r, s, m
<1>6. \/ Seen(res.out, r) = {} /\ \A out \in ToSet(res.out) : out.kind # "Proposal"
      \/ \E b : /\ [kind |-> "Proposal", block |-> b] \in ToSet(res.out)
                /\ b \in Seen(res.out, r) /\ Seen(res.out, r) \subseteq {b, Equivocation(b)}
  BY <1>1, <1>2, SeenIs
<1>7. \A out \in ToSet(res.out) :
        /\ out.kind = "Proposal" => m.kind = "ProposeRequest"
        /\ out.kind = "Vote" => \/ m.kind = "ProposeRequest" /\ [kind |-> "Proposal", block |-> out.block] \in ToSet(res.out)
                                \/ m.kind = "Proposal" /\ out.block = m.block
  <2> SUFFICES ASSUME NEW out \in ToSet(res.out)
               PROVE  /\ out.kind = "Proposal" => m.kind = "ProposeRequest"
                      /\ out.kind = "Vote" =>
                           \/ m.kind = "ProposeRequest" /\ [kind |-> "Proposal", block |-> out.block] \in ToSet(res.out)
                           \/ m.kind = "Proposal" /\ out.block = m.block
    OBVIOUS
  <2>1. \A b : \A o \in Announced(s, b) : o.kind \notin {"Proposal", "Vote"}
    BY DEF Announced, Relay
  <2>2. CASE res.out = <<>>
    BY <2>2, EmptyListed
  <2>3. CASE m.kind = "ProposeRequest"
    <3>1. CASE \E b : ToSet(res.out) = {[kind |-> "Proposal", block |-> b], VoteOut(s, b)}
      <4>1. PICK b : ToSet(res.out) = {[kind |-> "Proposal", block |-> b], VoteOut(s, b)}
        BY <3>1
      <4>2. CASE out = [kind |-> "Proposal", block |-> b]
        BY <2>3, <4>2
      <4>3. CASE out = VoteOut(s, b)
        <5>1. out.block = b
          BY <4>3 DEF VoteOut
        <5> QED
          BY <2>3, <4>1, <5>1
      <4> QED
        BY <4>1, <4>2, <4>3
    <3> QED
      BY <2>1, <2>2, <2>3, <3>1, <1>1 DEF Amounts
  <2>4. CASE m.kind = "Proposal" /\ ToSet(res.out) \subseteq {VoteOut(s, m.block)} \cup Announced(s, m.block)
    BY <2>1, <2>4 DEF VoteOut
  <2>5. CASE \E b : ToSet(res.out) = Announced(s, b)
    BY <2>1, <2>5
  <2> QED
    BY <2>2, <2>3, <2>4, <2>5, <1>1 DEF Amounts
<1>8. \E b : known' \subseteq {b, Equivocation(b)}
  <2>1. CASE Seen(res.out, r) = {}
    BY <2>1, <1>2 DEF Bounded
  <2>2. CASE \E b : /\ [kind |-> "Proposal", block |-> b] \in ToSet(res.out)
                    /\ b \in Seen(res.out, r) /\ Seen(res.out, r) \subseteq {b, Equivocation(b)}
    <3>1. PICK b : /\ [kind |-> "Proposal", block |-> b] \in ToSet(res.out)
                   /\ Seen(res.out, r) \subseteq {b, Equivocation(b)}
      BY <2>2
    <3>2. m.kind = "ProposeRequest"
      BY <1>7, <3>1
    <3> QED
      BY <1>2, <1>4, <3>1, <3>2
  <2> QED
    BY <1>6, <2>1, <2>2
<1>9. \A b : [kind |-> "Proposal", block |-> b] \in ToSet(res.out) => b \in known'
  <2> SUFFICES ASSUME NEW b, [kind |-> "Proposal", block |-> b] \in ToSet(res.out)
               PROVE  b \in known'
    OBVIOUS
  <2>1. PICK o \in ToSet(res.out) : o = [kind |-> "Proposal", block |-> b]
    OBVIOUS
  <2>2. o.kind = "Proposal" /\ o.block = b
    BY <2>1
  <2>3. b \in Seen(res.out, r)
    BY <2>2 DEF Seen
  <2> QED
    BY <2>3, <1>2
<1>10. \A out \in ToSet(res.out) : out.kind = "Vote" => out.block \in known'
  BY <1>2, <1>5, <1>7, <1>9
<1>11. ASSUME NEW e \in ToSet(queue'), e.message.kind = "Proposal"
       PROVE  e.message.block \in known'
  <2>1. CASE e \in ToSet(Tail(queue))
    BY <2>1, <1>2, <1>3, <1>11 DEF Bounded
  <2>2. CASE e \in ToSet(Filtered(res.out, r))
    <3>1. e.message.block \in BlocksIn(Filtered(res.out, r))
      BY <2>2, <1>11 DEF BlocksIn
    <3> QED
      BY <3>1, <1>2 DEF Seen
  <2>3. CASE e \in ToSet(forged)
    <3>1. PICK blocks : blocks = known'
      OBVIOUS
    <3>2. forged = ForgedVotes(res.out, r, blocks) /\ IsFiniteSet(blocks) /\ \A b \in blocks : BlockOf(b, view)
      BY <3>1, QueueAfter DEF DeliveredBy, r
    <3>3. e.message.kind = "Vote"
      BY <2>3, <3>2, <1>1, <1>2, ForgedDeliverable
    <3> QED
      BY <3>3, <1>11
  <2> QED
    BY <1>2, <2>1, <2>2, <2>3
<1>12. (\E out \in ToSet(res.out) : out.kind = "Proposal") => known' # {}
  BY <1>2, <1>6
<1> QED
  BY <1>2, <1>4, <1>8, <1>10, <1>11, <1>12 DEF m

(* The length the queue grows by.                                           *)
LEMMA Growth ==
  ASSUME Sane, Bounded, phase = "deliver", queue # <<>>, NEW d, NEW res, NEW forged,
         DeliveredBy(d, res, forged), view' = view, NEW w \in Nat, w = N - 1
  PROVE  LET n == Len(Filtered(res.out, d.to)) + Len(forged)
         IN  /\ Len(Filtered(res.out, d.to)) \in Nat /\ Len(forged) \in Nat
             /\ \/ n = 0
                \/ /\ n <= 3 * w /\ d.to \notin Voting /\ d.to \in Voting' /\ known = {} /\ known' # {}
                \/ n <= 2 * w /\ d.to \notin Voting /\ d.to \in Voting'
                \/ n <= 4 * w /\ d.to \notin Voting /\ d.to \in Voting' /\ d.to \notin Gone /\ d.to \in Gone'
                \/ n <= 2 * w /\ d.to \notin Gone /\ d.to \in Gone'
<1> PICK r, s, m, outs, blocks : r = d.to /\ s = replica[r] /\ m = d.message /\ outs = res.out /\ blocks = known'
  OBVIOUS
<1>1. /\ Amounts(r, m, s, res) /\ r \in Node
      /\ r \in Gone <=> s.view # view
      /\ r \in Gone' <=> res.state.view # view
      /\ r \in Voting <=> s.view # view \/ s.voted_block # Genesis
      /\ r \in Voting' <=> res.state.view # view \/ res.state.voted_block # Genesis
  BY Progress
<1>2. /\ Answered(outs) /\ forged = ForgedVotes(outs, r, blocks) /\ IsFiniteSet(blocks)
  BY QueueAfter DEF DeliveredBy
<1>3. PICK b : blocks \subseteq {b, Equivocation(b)}
  BY KnownAfter
<1>4. /\ \A out \in ToSet(outs) : out.kind = "Vote" => out.block \in blocks
      /\ m.kind = "ProposeRequest" => known = {}
      /\ (\E out \in ToSet(outs) : out.kind = "Proposal") => blocks # {}
  BY KnownAfter
<1> DEFINE fl == Filtered(outs, r)
<1>5. \A k \in Nat : Len(outs) <= k =>
        /\ Len(fl) \in Nat /\ Len(fl) <= k * w
        /\ Len(forged) \in Nat /\ Len(forged) <= w
        /\ (\A out \in ToSet(outs) : out.kind # "Vote") => Len(forged) = 0
  BY <1>1, <1>2, <1>3, <1>4, AddsSome
<1>6. Len(outs) \in Nat
  BY <1>2, SequenceOfSet DEF Answered
<1>7. Len(fl) \in Nat /\ Len(forged) \in Nat
  BY <1>5, <1>6
<1> HIDE DEF fl
<1>8. view + 1 # view /\ view \in Nat
  BY DEF Sane
<1> DEFINE n == Len(fl) + Len(forged)
           Claim == \/ n = 0
                    \/ /\ n <= 3 * w /\ r \notin Voting /\ r \in Voting' /\ known = {} /\ blocks # {}
                    \/ n <= 2 * w /\ r \notin Voting /\ r \in Voting'
                    \/ n <= 4 * w /\ r \notin Voting /\ r \in Voting' /\ r \notin Gone /\ r \in Gone'
                    \/ n <= 2 * w /\ r \notin Gone /\ r \in Gone'
<1>9. ASSUME outs = <<>>
      PROVE  Claim
  BY <1>9, <1>1, <1>2, AddsNothing DEF fl
<1>10. ASSUME /\ s.view = view /\ s.voted_block = Genesis /\ m.kind = "ProposeRequest"
            /\ res.state.view = view /\ res.state.voted_block # Genesis /\ Len(outs) = 2
            /\ \E c : ToSet(outs) = {[kind |-> "Proposal", block |-> c], VoteOut(s, c)}
      PROVE  Claim
  <2>1. Len(fl) <= 2 * w /\ Len(forged) <= w
    BY <1>5, <1>10
  <2>2. n <= 3 * w
    BY <2>1, <1>7
  <2>3. \E out \in ToSet(outs) : out.kind = "Proposal"
    BY <1>10
  <2> QED
    BY <2>2, <2>3, <1>1, <1>4, <1>10
<1>11. ASSUME /\ s.view = view /\ s.voted_block = Genesis
            /\ res.state.view = view /\ res.state.voted_block # Genesis /\ Len(outs) = 1
      PROVE  Claim
  <2>1. Len(fl) <= 1 * w /\ Len(forged) <= w
    BY <1>5, <1>11
  <2>2. n <= 2 * w
    BY <2>1, <1>7
  <2> QED
    BY <2>2, <1>1, <1>11
<1>12. ASSUME s.view = view /\ s.voted_block = Genesis /\ res.state.view = view + 1 /\ Len(outs) <= 3
      PROVE  Claim
  <2>1. Len(fl) <= 3 * w /\ Len(forged) <= w
    BY <1>5, <1>12
  <2>2. n <= 4 * w
    BY <2>1, <1>7
  <2> QED
    BY <2>2, <1>1, <1>8, <1>12
<1>13. ASSUME /\ s.view = view /\ res.state.view = view + 1 /\ Len(outs) <= 2
            /\ \E c : ToSet(outs) = Announced(s, c)
      PROVE  Claim
  <2>1. \A out \in ToSet(outs) : out.kind # "Vote"
    BY <1>13 DEF Announced, Relay
  <2>2. Len(fl) <= 2 * w /\ Len(forged) = 0
    BY <1>5, <1>13, <2>1
  <2>3. n <= 2 * w
    BY <2>2, <1>7
  <2> QED
    BY <2>3, <1>1, <1>8, <1>13
<1>14. Claim
  <2> HIDE DEF Claim
  <2> QED
    BY <1>1, <1>9, <1>10, <1>11, <1>12, <1>13 DEF Amounts
<1> QED
  BY <1>7, <1>14 DEF fl

LEMMA Times ==
  ASSUME NEW u \in Nat, NEW x \in Nat, NEW y \in Nat, x <= y
  PROVE  /\ u * x \in Nat /\ u * y \in Nat /\ u * x <= u * y
         /\ x + 1 <= y => u * x + u <= u * y
<1>1. PICK z \in Nat : z = y - x
  OBVIOUS
<1>2. y = x + z
  BY <1>1
<1>3. u * (x + z) = u * x + u * z
  BY SMT
<1>4. u * x \in Nat
  BY SMT
<1>5. u * z \in Nat
  BY SMT
<1>6. z >= 1 => u * z >= u
  <2> SUFFICES ASSUME z >= 1 PROVE u * z >= u
    OBVIOUS
  <2>1. PICK k \in Nat : k = z - 1
    OBVIOUS
  <2>2. z = k + 1
    BY <2>1
  <2>3. u * (k + 1) = u * k + u
    BY SMT
  <2>4. u * k \in Nat
    BY SMT
  <2> QED
    BY <2>2, <2>3, <2>4
<1>7. u * y = u * x + u * z
  BY <1>2, <1>3
<1> PICK a, c \in Nat : a = u * x /\ c = u * z
  BY <1>4, <1>5
<1>8. x + 1 <= y => z >= 1
  BY <1>2
<1> QED
  BY <1>4, <1>6, <1>7, <1>8

LEMMA DeliverBounded == Sane /\ Bounded /\ Deliver => Bounded'
<1> SUFFICES ASSUME Sane, Bounded, Deliver PROVE Bounded'
  OBVIOUS
<1>1. /\ phase = "deliver" /\ queue # <<>> /\ view' = view /\ phase' = phase /\ iterations' = iterations + 1
  BY DEF Deliver
<1>2. PICK d, res, forged : DeliveredBy(d, res, forged)
  BY DeliverIs
<1>3. PICK w \in Nat : w = N - 1
  BY NodeFacts
<1>4. /\ Gone \subseteq Gone' /\ Gone' \subseteq Node /\ Voting \subseteq Voting' /\ Voting' \subseteq Node
  BY <1>1, <1>2, Progress
<1>5. PICK a, g, a1, g1 : a = Cardinality(Voting) /\ g = Cardinality(Gone) /\ a1 = Cardinality(Voting')
                          /\ g1 = Cardinality(Gone')
  OBVIOUS
<1>6. /\ a \in Nat /\ a1 \in Nat /\ a <= a1 /\ a1 <= N
      /\ d.to \notin Voting /\ d.to \in Voting' => a + 1 <= a1
  BY <1>4, <1>5, Grown
<1>7. /\ g \in Nat /\ g1 \in Nat /\ g <= g1 /\ g1 <= N
      /\ d.to \notin Gone /\ d.to \in Gone' => g + 1 <= g1
  BY <1>4, <1>5, Grown
<1>8. PICK u \in Nat : u = 2 * w
  OBVIOUS
<1>9. PICK pa, pg, pa1, pg1 \in Nat : pa = u * a /\ pg = u * g /\ pa1 = u * a1 /\ pg1 = u * g1
  BY <1>6, <1>7, Times
<1>10. pa <= pa1 /\ (a + 1 <= a1 => pa + u <= pa1)
  BY <1>6, <1>9, Times
<1>11. pg <= pg1 /\ (g + 1 <= g1 => pg + u <= pg1)
  BY <1>7, <1>9, Times
<1>12. PICK k, k1 : k = (IF known = {} THEN 0 ELSE w) /\ k1 = (IF known' = {} THEN 0 ELSE w)
  OBVIOUS
<1>13. k \in Nat /\ k1 \in Nat /\ k <= k1 /\ (known = {} /\ known' # {} => k + w <= k1)
  <2>1. known \subseteq known'
    BY <1>1, <1>2, KnownAfter
  <2> QED
    BY <2>1, <1>12
<1>14. Paid = 1 + k + pa + pg /\ Paid' = 1 + k1 + pa1 + pg1
  <2>1. 2 * (N - 1) = u
    BY <1>3, <1>8
  <2>2. Paid = 1 + k + u * a + u * g
    BY <2>1, <1>3, <1>5, <1>12 DEF Paid
  <2>3. Paid' = 1 + k1 + u * a1 + u * g1
    BY <2>1, <1>3, <1>5, <1>12 DEF Paid
  <2> QED
    BY <2>2, <2>3, <1>9
<1>15. PICK f, o, t, i \in Nat : f = Len(Filtered(res.out, d.to)) /\ o = Len(forged) /\ t = Len(Tail(queue)) /\ i = iterations
  <2>1. Len(Filtered(res.out, d.to)) \in Nat /\ Len(forged) \in Nat
    BY <1>1, <1>2, <1>3, Growth
  <2>2. Len(Tail(queue)) \in Nat
    BY <1>1, HeadFacts, SequenceOfSet
  <2>3. iterations \in Nat
    BY DEF Sane
  <2> QED
    BY <2>1, <2>2, <2>3
<1>16. Len(queue') = t + f + o
  BY <1>1, <1>2, <1>15, QueueAfter
<1>17. Len(queue) = t + 1
  <2>1. Len(Tail(queue)) = Len(queue) - 1 /\ Len(queue) \in Nat
    BY <1>1, TailSequence DEF Sane
  <2> QED
    BY <2>1, <1>15
<1>18. i + (t + 1) <= 1 + k + pa + pg
  BY <1>1, <1>14, <1>15, <1>17 DEF Bounded
<1>19. \/ f + o = 0
       \/ /\ f + o <= 3 * w /\ d.to \notin Voting /\ d.to \in Voting' /\ known = {} /\ known' # {}
       \/ f + o <= 2 * w /\ d.to \notin Voting /\ d.to \in Voting'
       \/ f + o <= 4 * w /\ d.to \notin Voting /\ d.to \in Voting' /\ d.to \notin Gone /\ d.to \in Gone'
       \/ f + o <= 2 * w /\ d.to \notin Gone /\ d.to \in Gone'
  BY <1>1, <1>2, <1>3, <1>15, Growth
<1>20. f + o <= (k1 - k) + (pa1 - pa) + (pg1 - pg)
  <2>1. CASE f + o = 0
    BY <2>1, <1>10, <1>11, <1>13
  <2>2. CASE f + o <= 3 * w /\ d.to \notin Voting /\ d.to \in Voting' /\ known = {} /\ known' # {}
    BY <2>2, <1>6, <1>8, <1>10, <1>11, <1>13
  <2>3. CASE f + o <= 2 * w /\ d.to \notin Voting /\ d.to \in Voting'
    BY <2>3, <1>6, <1>8, <1>10, <1>11, <1>13
  <2>4. CASE f + o <= 4 * w /\ d.to \notin Voting /\ d.to \in Voting' /\ d.to \notin Gone /\ d.to \in Gone'
    BY <2>4, <1>6, <1>7, <1>8, <1>10, <1>11, <1>13
  <2>5. CASE f + o <= 2 * w /\ d.to \notin Gone /\ d.to \in Gone'
    BY <2>5, <1>7, <1>8, <1>10, <1>11, <1>13
  <2> QED
    BY <1>19, <2>1, <2>2, <2>3, <2>4, <2>5
<1>21. iterations' + Len(queue') <= Paid'
  <2>1. iterations' = i + 1
    BY <1>1, <1>15
  <2>2. (i + 1) + (t + f + o) <= 1 + k1 + pa1 + pg1
    BY <1>13, <1>18, <1>20
  <2> QED
    BY <2>1, <2>2, <1>14, <1>16
<1>22. Paid' <= N + 4 * N * (N - 1)
  <2>1. pa1 <= u * N /\ pg1 <= u * N /\ u * N \in Nat
    BY <1>6, <1>7, <1>9, Times, NodeFacts
  <2>2. k1 <= w
    BY <1>12
  <2>3. u * N = 2 * (N * w)
    BY <1>8, NodeFacts, SMT
  <2>4. PICK y \in Nat : y = N * w
    BY NodeFacts, SMT
  <2>5. N + 4 * N * (N - 1) = N + 4 * y
    <3>1. N + 4 * N * (N - 1) = N + 4 * (N * w)
      BY <1>3, NodeFacts, SMT
    <3> QED
      BY <3>1, <2>4
  <2>6. pa1 <= 2 * y /\ pg1 <= 2 * y /\ N = w + 1
    BY <2>1, <2>3, <2>4, <1>3, NodeFacts
  <2>7. 1 + k1 + pa1 + pg1 <= N + 4 * y
    BY <2>2, <2>6, <1>13
  <2> QED
    BY <2>5, <2>7, <1>14
<1>23. iterations' <= N + 4 * N * (N - 1)
  <2>1. Len(queue') \in Nat /\ iterations' \in Nat
    BY <1>15, <1>16, <1>1
  <2>2. Paid' \in Nat /\ N + 4 * N * (N - 1) \in Int
    BY <1>13, <1>14, NodeFacts
  <2> PICK x, y, z, v : x = iterations' /\ y = Len(queue') /\ z = Paid' /\ v = N + 4 * N * (N - 1)
    OBVIOUS
  <2>3. x \in Nat /\ y \in Nat /\ z \in Nat /\ v \in Int /\ x + y <= z /\ z <= v
    BY <2>1, <2>2, <1>21, <1>22
  <2> QED
    BY <2>3
<1>24. ~Asked'
  <2>1. \A e \in ToSet(queue') : e.message.kind # "ProposeRequest"
    BY <1>1, <1>2, QueueAfter
  <2> QED
    BY <2>1 DEF Asked
<1>25. /\ \E b : known' \subseteq {b, Equivocation(b)}
       /\ \A e \in ToSet(queue') : e.message.kind = "Proposal" => e.message.block \in known'
  BY <1>1, <1>2, KnownAfter
<1> QED
  BY <1>21, <1>23, <1>24, <1>25 DEF Bounded

LEMMA AskBounded == Sane /\ Bounded /\ AskLeader => Bounded'
<1> SUFFICES ASSUME Sane, Bounded, AskLeader PROVE Bounded'
  OBVIOUS
<1> PICK d : d = [to |-> leader', message |-> [kind |-> "ProposeRequest", view |-> view, payload |-> "block"]]
  OBVIOUS
<1>1. queue' = <<d>> /\ phase' = "deliver" /\ view' = view /\ replica' = replica /\ known' = {} /\ iterations' = 0
  BY DEF AskLeader
<1>2. d.message.kind = "ProposeRequest"
  OBVIOUS
<1>3. Len(queue') = 1 /\ ToSet(queue') = {d}
  BY <1>1, PairIs
<1>4. \A e \in ToSet(queue') : e.message.kind # "Proposal"
  BY <1>2, <1>3
<1>5. Cardinality(Voting') \in Nat /\ Cardinality(Gone') \in Nat
  <2>1. Voting' \subseteq Node /\ Gone' \subseteq Node
    BY DEF Voting, Gone
  <2> QED
    BY <2>1, NodeFacts
<1>6. 2 * (N - 1) \in Nat
  BY NodeFacts
<1>7. (2 * (N - 1)) * Cardinality(Voting') \in Nat /\ (2 * (N - 1)) * Cardinality(Gone') \in Nat
  BY <1>5, <1>6, Times
<1>8. Paid' = 1 + 0 + (2 * (N - 1)) * Cardinality(Voting') + (2 * (N - 1)) * Cardinality(Gone')
  BY <1>1 DEF Paid
<1>9. iterations' + Len(queue') <= Paid'
  <2> PICK x, y \in Nat : x = (2 * (N - 1)) * Cardinality(Voting') /\ y = (2 * (N - 1)) * Cardinality(Gone')
    BY <1>7
  <2>1. Paid' = 1 + 0 + x + y
    BY <1>8
  <2> QED
    BY <2>1, <1>1, <1>3
<1>10. 0 <= N + 4 * N * (N - 1)
  <2>1. PICK w \in Nat : w = N - 1
    BY NodeFacts
  <2>2. 4 * N * w \in Nat
    BY NodeFacts, SMT
  <2> QED
    BY <2>1, <2>2, NodeFacts
<1> QED
  BY <1>1, <1>4, <1>9, <1>10 DEF Bounded

LEMMA InitBounded == Init => Bounded
<1> SUFFICES ASSUME Init PROVE Bounded
  OBVIOUS
<1>1. phase = "ask" /\ iterations = 0
  BY DEF Init
<1>2. PICK w \in Nat : w = N - 1
  BY NodeFacts
<1>3. 4 * N * w \in Nat
  BY NodeFacts, SMT
<1>4. 0 <= N + 4 * N * (N - 1)
  BY <1>2, <1>3, NodeFacts
<1> QED
  BY <1>1, <1>4 DEF Bounded

(* What the engine has before every step.                                   *)
Running == oracle \in Oracles /\ Sane /\ Bounded

LEMMA RunningInv == ElectsNodes /\ Spec => []Running
<1> SUFFICES ASSUME ElectsNodes PROVE Spec => []Running
  BY DEF ElectsNodes
<1>1. Init => Running
  BY SaneInit, InitBounded DEF Init, Running
<1>2. Running /\ [Next]_vars => Running'
  <2> SUFFICES ASSUME Running, [Next]_vars PROVE Running'
    OBVIOUS
  <2>1. Sane' /\ oracle' \in Oracles
    BY StepSane DEF Running
  <2>2. phase' # "deliver" /\ iterations' = iterations => Bounded'
    BY DEF Bounded, Running
  <2>3. UNCHANGED vars => Bounded'
    <3> SUFFICES ASSUME UNCHANGED vars PROVE Bounded'
      OBVIOUS
    <3>1. /\ view' = view /\ phase' = phase /\ replica' = replica /\ queue' = queue /\ known' = known
          /\ iterations' = iterations
      BY DEF vars
    <3>2. Asked' = Asked /\ Paid' = Paid
      BY <3>1 DEF Asked, Paid, Voting, Gone
    <3> QED
      BY <3>1, <3>2 DEF Bounded, Running
  <2>4. EndDelivery \/ FireTimer \/ CollectDummyVotes \/ RouteDummyVote \/ ReadStates => Bounded'
    BY <2>2 DEF EndDelivery, FireTimer, CollectDummyVotes, RouteDummyVote, ReadStates, engineVars
  <2>5. Bounded'
    BY <2>3, <2>4, AskBounded, DeliverBounded DEF Next, Running
  <2> QED
    BY <2>1, <2>5 DEF Running
<1> QED
  BY <1>1, <1>2, PTL DEF Spec

(* The queue of a view drains within the bound, whatever the presets and whoever is
   elected, a Capitulator's second votes included.                          *)
THEOREM Drains == ElectsNodes /\ Spec => []DeliveriesBounded
<1>1. Running => DeliveriesBounded
  BY DEF Running, Bounded, DeliveriesBounded
<1> QED
  BY <1>1, RunningInv, PTL

-----------------------------------------------------------------------------
(* Every view ends. Whoever leaves during the delivery relays to everybody; if
   nobody does, all time out, and every replica hears from all the others.  *)

Inside(r)   == replica[r].view = view
Outside(r)  == replica[r].view = view + 1
Untimed(s)  == s.dummy_sent = FALSE /\ s.nullify_votes = <<>>
Relayed(r)  == \E e \in ToSet(queue) : e.to = r /\ e.message.kind = "Notarization"
Timed(r)    == \E e \in ToSet(queue) : e.to = r
DummyFrom(q, r) == \E e \in ToSet(queue) : e.to = r /\ e.message.signer = q

Ends ==
  /\ \A r \in Node : Inside(r) \/ Outside(r)
  /\ phase \in {"ask", "deliver"} => \A r \in Node : Inside(r) => Untimed(replica[r])
  /\ phase = "deliver" => \A q, r \in Node : Outside(q) /\ Inside(r) => Relayed(r)
  /\ phase = "timeout" =>
       \/ stuck = {} /\ \A r \in Node : Outside(r)
       \/ /\ stuck = Node
          /\ \A r \in Node : /\ Inside(r)
                             /\ \/ Untimed(replica[r]) /\ Timed(r)
                                \/ replica[r].nullify_votes = <<r>> /\ replica[r].dummy_sent = TRUE /\ r \in ToSet(dummies)
  /\ phase = "route" =>
       \A r \in Node : Inside(r) =>
         /\ Len(replica[r].nullify_votes) < T
         /\ \A q \in Node : q \in ToSet(replica[r].nullify_votes) \/ DummyFrom(q, r)

(* What a delivery means for the view of its replica.                       *)
LEMMA Moves ==
  ASSUME NEW d, Deliverable(d, view, "deliver"), NEW s, NodeState(d.to, s), NEW res, NEW l,
         Handled(d.to, d.message, s, res, l)
  PROVE  /\ \/ /\ res.state.view = s.view
               /\ res.state.dummy_sent = s.dummy_sent /\ res.state.nullify_votes = s.nullify_votes
               /\ res.state.tip = s.tip /\ res.state.seed = s.seed
               /\ ~(d.message.kind = "Notarization" /\ s.view = view)
            \/ /\ s.view = view /\ res.state.view = view + 1
               /\ \E b : Relay(b) \in ToSet(res.out) /\ res.state.tip = b
<1> PICK r, m : r = d.to /\ m = d.message
  OBVIOUS
<1> DEFINE Stay == /\ res.state.view = s.view
                   /\ res.state.dummy_sent = s.dummy_sent /\ res.state.nullify_votes = s.nullify_votes
                   /\ res.state.tip = s.tip /\ res.state.seed = s.seed
                   /\ ~(m.kind = "Notarization" /\ s.view = view)
           Leave == /\ s.view = view /\ res.state.view = view + 1
                    /\ \E b : Relay(b) \in ToSet(res.out) /\ res.state.tip = b
<1>1. ASSUME Quiet(s, res), Needless(r, m, s, l)
      PROVE  Stay
  <2>1. m.kind = "Notarization" => m.view = view /\ m.view # s.view
    BY <1>1 DEF Needless, Deliverable
  <2> QED
    BY <1>1, <2>1 DEF Quiet
<1>2. ASSUME NEW C, C \subseteq {"notarize_votes", "voted_block", "known_blocks", "finalize_votes", "finalized_count"},
             Kept(s, res.state, C), m.kind # "Notarization"
      PROVE  Stay
  <2>1. \A f \in {"view", "tip", "seed", "dummy_sent", "nullify_votes"} : f \in Fields \ C
    BY <1>2 DEF Fields
  <2>2. \A f \in {"view", "tip", "seed", "dummy_sent", "nullify_votes"} : res.state[f] = s[f]
    BY <1>2, <2>1 DEF Kept
  <2> QED
    BY <1>2, <2>2
<1>3. ASSUME NEW b, s.view = view, LeftBehind(s, res.state), res.state.tip = b, Announced(s, b) \subseteq ToSet(res.out)
      PROVE  Leave
  BY <1>3 DEF LeftBehind, Announced
<1>4. CASE m.kind = "ProposeRequest" /\ Proposes(s, res, r, NextBlock(s, r, m.payload))
  <2>1. Kept(s, res.state, BallotFields)
    BY <1>4 DEF Proposes, Ballot
  <2>2. Stay
    BY <1>2, <1>4, <2>1 DEF BallotFields
  <2> QED
    BY <2>2
<1>5. CASE m.kind = "Proposal" /\ ViewOf(m.block) = s.view
  <2>1. ViewOf(m.block) = view
    BY <1>5 DEF Deliverable, BlockOf
  <2>2. Refuses(s, res, m.block) => Stay
    BY <1>2, <1>5 DEF Refuses
  <2>3. VotesAndStays(s, res, m.block, r) => Stay
    BY <1>2, <1>5 DEF VotesAndStays, Ballot, BallotFields
  <2>4. VotesAndLeaves(s, res, m.block) => Leave
    BY <1>3, <1>5, <2>1 DEF VotesAndLeaves
  <2>5. Stay \/ Leave
    <3> HIDE DEF Stay, Leave
    <3> QED
      BY <1>1, <1>5, <2>2, <2>3, <2>4 DEF Handled
  <2> QED
    BY <2>5
<1>6. CASE m.kind = "Vote" /\ m.view = s.view
  <2>1. m.view = view
    BY <1>6 DEF Deliverable
  <2>2. Counts(s, res, m.block, m.signer) => Stay
    BY <1>2, <1>6 DEF Counts
  <2>3. LeavesWith(s, res, m.block, NotarySeed(m.block)) => Leave
    BY <1>3, <1>6, <2>1 DEF LeavesWith
  <2>5. Stay \/ Leave
    <3> HIDE DEF Stay, Leave
    <3> QED
      BY <1>1, <1>6, <2>2, <2>3 DEF Handled
  <2> QED
    BY <2>5
<1>7. CASE m.kind = "FinalizeVote" /\ CountsFinal(s, res, m.view, m.signer)
  <2>1. Stay
    BY <1>2, <1>7 DEF CountsFinal
  <2> QED
    BY <2>1
<1>8. CASE m.kind = "Notarization" /\ m.view = s.view /\ LeavesWith(s, res, m.block, s.seed)
  <2>1. m.view = view
    BY <1>8 DEF Deliverable
  <2>2. Leave
    BY <1>3, <1>8, <2>1 DEF LeavesWith
  <2> QED
    BY <2>2
<1>9. m.kind \notin {"Timeout", "NullifyVote"}
  BY DEF Deliverable
<1> QED
  <2>1. Stay \/ Leave
    <3> HIDE DEF Stay, Leave
    <3>1. (Quiet(s, res) /\ Needless(r, m, s, l)) => Stay
      BY <1>1
    <3> USE DEF Stay, Leave
    <3> QED
      BY <3>1, <1>4, <1>5, <1>6, <1>7, <1>8, <1>9 DEF Handled
  <2> QED
    BY <2>1

LEMMA RelayLeaves ==
  ASSUME NEW r \in Node, NEW outs, Sequence(outs), NEW b, Relay(b) \in ToSet(outs), NEW p \in Node \ {r}
  PROVE  \E e \in ToSet(Filtered(outs, r)) : e.to = p /\ e.message.kind = "Notarization"
<1> PICK o : o = Relay(b)
  OBVIOUS
<1>1. o.kind = "RelayNotarization" /\ o \in ToSet(outs)
  BY DEF Relay
<1>2. AsMessage(o, r).kind = "Notarization"
  BY DEF AsMessage, Relay
<1>3. Leaving(o, r) = {[to |-> q, message |-> AsMessage(o, r)] : q \in Node \ {r}}
  BY <1>1 DEF Leaving
<1>4. PICK e : e = [to |-> p, message |-> AsMessage(o, r)]
  OBVIOUS
<1>5. e \in Leaving(o, r) /\ e.to = p /\ e.message.kind = "Notarization"
  BY <1>2, <1>3, <1>4
<1>6. ToSet(Filtered(outs, r)) = UNION {Leaving(out, r) : out \in ToSet(outs)}
  BY FilteredIs
<1> QED
  BY <1>1, <1>5, <1>6

LEMMA PaidBound == Sane /\ Bounded => Paid <= N + 4 * N * (N - 1)
<1> SUFFICES ASSUME Sane, Bounded PROVE Paid <= N + 4 * N * (N - 1)
  OBVIOUS
<1>1. PICK w \in Nat : w = N - 1
  BY NodeFacts
<1>2. PICK a, g \in Nat : a = Cardinality(Voting) /\ g = Cardinality(Gone) /\ a <= N /\ g <= N
  BY Grown DEF Voting, Gone
<1>3. PICK u \in Nat : u = 2 * w
  OBVIOUS
<1>4. PICK pa, pg \in Nat : pa = u * a /\ pg = u * g /\ pa <= u * N /\ pg <= u * N
  BY <1>2, <1>3, Times, NodeFacts
<1>5. PICK k \in Nat : k = (IF known = {} THEN 0 ELSE w) /\ k <= w
  OBVIOUS
<1>6. Paid = 1 + k + pa + pg
  <2>1. 2 * (N - 1) = u
    BY <1>1, <1>3
  <2>2. Paid = 1 + k + u * a + u * g
    BY <2>1, <1>1, <1>2, <1>5 DEF Paid
  <2> QED
    BY <2>2, <1>4
<1>7. PICK y \in Nat : y = N * w
  BY NodeFacts, SMT
<1>8. u * N = 2 * (N * w) /\ N + 4 * N * (N - 1) = N + 4 * (N * w)
  BY <1>1, <1>3, NodeFacts, SMT
<1>9. pa <= 2 * y /\ pg <= 2 * y /\ N = w + 1 /\ N + 4 * N * (N - 1) = N + 4 * y
  BY <1>1, <1>4, <1>7, <1>8, NodeFacts
<1> QED
  BY <1>5, <1>6, <1>9

(* The loop of deliveries ends with the queue, not with its bound.          *)
LEMMA DrainsFirst ==
  ASSUME Sane, Bounded, MaxIterations >= N + 4 * N * (N - 1), EndDelivery
  PROVE  queue = <<>>
<1> SUFFICES ASSUME queue # <<>> PROVE FALSE
  OBVIOUS
<1>1. phase = "deliver" /\ iterations = MaxIterations
  BY DEF EndDelivery
<1>2. PICK n \in Nat : n = Len(queue) /\ n >= 1
  <2>1. Len(queue) \in Nat /\ Len(Tail(queue)) = Len(queue) - 1
    BY TailSequence DEF Sane
  <2>2. Len(Tail(queue)) \in Nat
    BY TailSequence, SequenceOfSet DEF Sane
  <2>3. PICK x, y \in Nat : x = Len(queue) /\ y = Len(Tail(queue))
    BY <2>1, <2>2
  <2>4. x >= 1
    BY <2>1, <2>3
  <2> QED
    BY <2>3, <2>4
<1>3. iterations \in Nat /\ iterations + Len(queue) <= Paid
  BY <1>1 DEF Bounded, Sane
<1>4. PICK m : m = N + 4 * N * (N - 1)
  OBVIOUS
<1>5. Paid <= m /\ MaxIterations >= m /\ m \in Int
  BY <1>4, PaidBound, NodeFacts
<1>6. Paid \in Int
  <2>1. Cardinality(Voting) \in Nat /\ Cardinality(Gone) \in Nat
    BY Grown DEF Voting, Gone
  <2> QED
    BY <2>1, NodeFacts DEF Paid
<1> QED
  BY <1>1, <1>2, <1>3, <1>5, <1>6

LEMMA InitEnds == Init => Ends
BY DEF Init, Ends, Inside, Untimed, NewReplica

LEMMA AskEnds == Sane /\ Ends /\ AskLeader => Ends'
<1> SUFFICES ASSUME Sane, Ends, AskLeader PROVE Ends'
  OBVIOUS
<1>1. phase = "ask" /\ phase' = "deliver" /\ replica' = replica /\ view' = view
  BY DEF AskLeader
<1>2. view \in Nat /\ Reach = view
  BY <1>1 DEF Sane, Reach
<1>3. \A r \in Node : NodeState(r, replica[r]) /\ replica[r].view <= view
  BY <1>2 DEF Sane
<1>4. \A r \in Node : ~(replica[r].view = view + 1)
  BY <1>2, <1>3 DEF NodeState
<1>5. \A r \in Node : replica[r].view = view /\ Untimed(replica[r])
  BY <1>1, <1>4 DEF Inside, Outside, Ends
<1> QED
  BY <1>1, <1>4, <1>5 DEF Ends, Inside, Outside

LEMMA DeliverEnds == Sane /\ Ends /\ Deliver => Ends'
<1> SUFFICES ASSUME Sane, Ends, Deliver PROVE Ends'
  OBVIOUS
<1>1. phase = "deliver" /\ queue # <<>> /\ view' = view /\ phase' = "deliver"
  BY DEF Deliver
<1>2. PICK d, res, forged : DeliveredBy(d, res, forged)
  BY DeliverIs
<1>3. /\ d \in ToSet(queue) /\ Deliverable(d, view, "deliver") /\ d.to \in Node /\ view \in Nat
      /\ NodeState(d.to, replica[d.to]) /\ ToSet(queue) = ToSet(Tail(queue)) \cup {d}
  BY <1>1, <1>2, HeadFacts DEF DeliveredBy
<1>4. /\ replica'[d.to] = res.state /\ \A x \in Node : x # d.to => replica'[x] = replica[x]
  <2>1. replica = [x \in Node |-> replica[x]] /\ replica' = [replica EXCEPT ![d.to] = res.state]
    BY <1>2 DEF Sane, DeliveredBy, Take
  <2> QED
    BY <2>1, <1>3
<1>5. Handled(d.to, d.message, replica[d.to], res, LeaderFor(d.to))
  BY <1>2, <1>3, HandledIs DEF DeliveredBy, Apply
<1>6. /\ ToSet(queue') = (ToSet(Tail(queue)) \cup ToSet(Filtered(res.out, d.to))) \cup ToSet(forged)
      /\ Sequence(res.out)
  <2>1. ToSet(queue') = (ToSet(Tail(queue)) \cup ToSet(Filtered(res.out, d.to))) \cup ToSet(forged)
    BY <1>1, <1>2, QueueAfter
  <2>2. Sequence(res.out)
    BY <1>2 DEF DeliveredBy, Answered
  <2> QED
    BY <2>1, <2>2
<1>7. /\ \A r \in Node : Inside(r) \/ Outside(r)
      /\ \A r \in Node : Inside(r) => Untimed(replica[r])
      /\ \A q, r \in Node : Outside(q) /\ Inside(r) => Relayed(r)
  BY <1>1 DEF Ends
<1> SUFFICES /\ \A r \in Node : Inside(r)' \/ Outside(r)'
             /\ \A r \in Node : Inside(r)' => Untimed(replica'[r])
             /\ \A q, r \in Node : Outside(q)' /\ Inside(r)' => Relayed(r)'
  BY <1>1 DEF Ends, Inside, Outside, Relayed
<1>8. CASE /\ res.state.view = replica[d.to].view
           /\ res.state.dummy_sent = replica[d.to].dummy_sent
           /\ res.state.nullify_votes = replica[d.to].nullify_votes
           /\ ~(d.message.kind = "Notarization" /\ replica[d.to].view = view)
  <2>1. \A r \in Node : replica'[r].view = replica[r].view
    BY <1>4, <1>8
  <2>2. \A r \in Node : Untimed(replica[r]) => Untimed(replica'[r])
    BY <1>4, <1>8 DEF Untimed
  <2>3. \A r \in Node : Inside(r) /\ Relayed(r) => Relayed(r)'
    <3> SUFFICES ASSUME NEW r \in Node, Inside(r), NEW e \in ToSet(queue), e.to = r, e.message.kind = "Notarization"
                 PROVE  e \in ToSet(queue')
      BY DEF Relayed
    <3>1. e # d
      BY <1>8 DEF Inside
    <3> QED
      BY <3>1, <1>3, <1>6
  <2> QED
    BY <2>1, <2>2, <2>3, <1>1, <1>7 DEF Inside, Outside
<1>9. CASE /\ replica[d.to].view = view /\ res.state.view = view + 1
           /\ \E b : Relay(b) \in ToSet(res.out)
  <2>1. \A r \in Node : r # d.to => replica'[r] = replica[r]
    BY <1>4
  <2>2. replica'[d.to].view = view + 1
    BY <1>4, <1>9
  <2>3. \A r \in Node : r # d.to => Relayed(r)'
    <3> SUFFICES ASSUME NEW r \in Node, r # d.to PROVE Relayed(r)'
      OBVIOUS
    <3>1. PICK b : Relay(b) \in ToSet(res.out)
      BY <1>9
    <3>2. PICK e \in ToSet(Filtered(res.out, d.to)) : e.to = r /\ e.message.kind = "Notarization"
      BY <3>1, <1>3, <1>6, RelayLeaves
    <3> QED
      BY <3>2, <1>6 DEF Relayed
  <2> QED
    BY <2>1, <2>2, <2>3, <1>1, <1>3, <1>7 DEF Inside, Outside
<1> QED
  BY <1>3, <1>5, <1>8, <1>9, Moves

LEMMA EndDeliveryEnds ==
  ASSUME Sane, Bounded, MaxIterations >= N + 4 * N * (N - 1), Ends, EndDelivery
  PROVE  Ends'
<1>1. /\ phase = "deliver" /\ phase' = "timeout" /\ replica' = replica /\ view' = view
      /\ stuck' = {r \in Node : replica[r].view = view}
      /\ queue' = ToAll(stuck', [kind |-> "Timeout", view |-> view])
  BY DEF EndDelivery
<1>2. queue = <<>>
  BY DrainsFirst
<1>3. \A r \in Node : ~Relayed(r)
  BY <1>2 DEF Relayed, ToSet
<1>4. /\ \A r \in Node : Inside(r) \/ Outside(r)
      /\ \A r \in Node : Inside(r) => Untimed(replica[r])
      /\ \A q, r \in Node : ~(Outside(q) /\ Inside(r))
  BY <1>1, <1>3 DEF Ends
<1>5. CASE \A r \in Node : Outside(r)
  <2>1. stuck' = {}
    BY <1>1, <1>5 DEF Outside, Sane
  <2> QED
    BY <2>1, <1>1, <1>5 DEF Ends, Inside, Outside
<1>6. CASE \A r \in Node : Inside(r)
  <2>1. stuck' = Node
    BY <1>1, <1>6 DEF Inside
  <2>2. \A r \in Node : Timed(r)'
    <3> SUFFICES ASSUME NEW r \in Node PROVE Timed(r)'
      OBVIOUS
    <3>1. ToSet(queue') = {[to |-> p, message |-> [kind |-> "Timeout", view |-> view]] : p \in Node}
      <4>1. PICK m : m = [kind |-> "Timeout", view |-> view]
        OBVIOUS
      <4>2. queue' = ToAll(Node, m)
        BY <1>1, <2>1, <4>1
      <4>3. ToSet(ToAll(Node, m)) = {[to |-> p, message |-> m] : p \in Node}
        BY ToAllIs, Zenon
      <4> QED
        BY <4>1, <4>2, <4>3
    <3>2. PICK e : e = [to |-> r, message |-> [kind |-> "Timeout", view |-> view]]
      OBVIOUS
    <3> QED
      BY <3>1, <3>2 DEF Timed
  <2> QED
    BY <2>1, <2>2, <1>1, <1>4, <1>6 DEF Ends, Inside, Outside
<1> QED
  BY <1>4, <1>5, <1>6

LEMMA FireTimerEnds == Sane /\ Ends /\ FireTimer => Ends'
<1> SUFFICES ASSUME Sane, Ends, FireTimer PROVE Ends'
  OBVIOUS
<1>1. /\ phase = "timeout" /\ phase' = "timeout" /\ queue # <<>> /\ queue' = Tail(queue)
      /\ view' = view /\ stuck' = stuck
  BY DEF FireTimer
<1>2. PICK d, res : d = Head(queue) /\ res = Apply(d)
  OBVIOUS
<1>3. Take(d.to, res) /\ dummies' = IF res.out = <<>> THEN dummies ELSE Append(dummies, d.to)
  BY <1>2 DEF FireTimer
<1>4. /\ Deliverable(d, view, "timeout") /\ d.to \in Node /\ view \in Nat
      /\ NodeState(d.to, replica[d.to]) /\ ToSet(queue) = ToSet(Tail(queue)) \cup {d}
  BY <1>1, <1>2, HeadFacts
<1>5. replica'[d.to] = res.state /\ \A x \in Node : x # d.to => replica'[x] = replica[x]
  <2>1. replica = [x \in Node |-> replica[x]] /\ replica' = [replica EXCEPT ![d.to] = res.state]
    BY <1>3 DEF Sane, Take
  <2> QED
    BY <2>1, <1>4
<1>6. d.message.kind = "Timeout" /\ d.message.view = view
  BY <1>4 DEF Deliverable
<1>7. PICK s : s = replica[d.to]
  OBVIOUS
<1>8. \/ Quiet(s, res) /\ (view = s.view => s.dummy_sent = TRUE)
      \/ view = s.view /\ s.dummy_sent = FALSE /\ (TimesOut(s, res, d.to) \/ TimesOutLast(s, res))
  <2>1. res = HandleTimeout(s, d.to, view)
    BY <1>2, <1>6, <1>7 DEF Apply, ApplyMessage
  <2> QED
    BY <2>1, <1>4, <1>7, TimeoutShape
<1>9. CASE stuck = {} /\ \A r \in Node : Outside(r)
  <2>1. replica[d.to].view = view + 1
    BY <1>4, <1>9 DEF Outside
  <2>2. res.state = s
    BY <1>4, <1>7, <1>8, <2>1 DEF Quiet
  <2> QED
    BY <2>2, <1>1, <1>5, <1>7, <1>9 DEF Ends, Inside, Outside
<1>10. CASE /\ stuck = Node
            /\ \A r \in Node : /\ Inside(r)
                               /\ \/ Untimed(replica[r]) /\ Timed(r)
                                  \/ replica[r].nullify_votes = <<r>> /\ replica[r].dummy_sent = TRUE /\ r \in ToSet(dummies)
  <2>1. /\ res.state.view = view /\ res.state.nullify_votes = <<d.to>> /\ res.state.dummy_sent = TRUE
        /\ d.to \in ToSet(dummies')
    <3>1. CASE Untimed(s)
      <4>1. s.nullify_votes = <<>> /\ s.dummy_sent = FALSE /\ s.view = view
        BY <3>1, <1>4, <1>7, <1>10 DEF Untimed, Inside
      <4>2. ~TimesOutLast(s, res)
        BY <4>1, NodeFacts DEF TimesOutLast
      <4>3. TimesOut(s, res, d.to)
        BY <4>1, <4>2, <1>8
      <4>4. res.state.nullify_votes = <<d.to>> /\ res.state.dummy_sent = TRUE /\ res.out # <<>>
        BY <4>1, <4>3 DEF TimesOut
      <4>5. res.state.view = view
        BY <4>1, <4>3 DEF TimesOut, Kept, Fields
      <4>6. d.to \in ToSet(dummies')
        <5>1. dummies' = Append(dummies, d.to)
          BY <4>4, <1>3
        <5>2. PICK S : dummies \in Seq(S)
          BY DEF Sane, Sequence
        <5>3. dummies \in Seq(S \cup {d.to})
          BY <5>2
        <5>4. dummies'[Len(dummies) + 1] = d.to /\ Len(dummies) + 1 \in DOMAIN dummies'
          BY <5>1, <5>3
        <5> QED
          BY <5>4 DEF ToSet
      <4> QED
        BY <4>4, <4>5, <4>6
    <3>2. CASE s.nullify_votes = <<d.to>> /\ s.dummy_sent = TRUE /\ d.to \in ToSet(dummies)
      <4>1. Quiet(s, res) /\ s.view = view
        BY <3>2, <1>4, <1>7, <1>8, <1>10 DEF Inside
      <4> QED
        BY <4>1, <3>2, <1>3 DEF Quiet
    <3> QED
      BY <3>1, <3>2, <1>4, <1>7, <1>10
  <2>2. ToSet(dummies) \subseteq ToSet(dummies')
    <3>1. PICK S : dummies \in Seq(S)
      BY DEF Sane, Sequence
    <3>2. dummies \in Seq(S \cup {d.to}) /\ <<d.to>> \in Seq(S \cup {d.to})
      BY <3>1
    <3>3. ToSet(dummies) \subseteq ToSet(Append(dummies, d.to))
      BY <3>2 DEF ToSet
    <3> QED
      BY <3>3, <1>3
  <2>3. \A r \in Node : r # d.to /\ Timed(r) => Timed(r)'
    BY <1>1, <1>4 DEF Timed
  <2> SUFFICES \A r \in Node : /\ Inside(r)'
                               /\ \/ Untimed(replica'[r]) /\ Timed(r)'
                                  \/ replica'[r].nullify_votes = <<r>> /\ replica'[r].dummy_sent = TRUE /\ r \in ToSet(dummies')
    BY <1>1, <1>10 DEF Ends
  <2> SUFFICES ASSUME NEW r \in Node
               PROVE  /\ Inside(r)'
                      /\ \/ Untimed(replica'[r]) /\ Timed(r)'
                         \/ replica'[r].nullify_votes = <<r>> /\ replica'[r].dummy_sent = TRUE /\ r \in ToSet(dummies')
    OBVIOUS
  <2>4. CASE r = d.to
    BY <2>4, <2>1, <1>1, <1>5 DEF Inside
  <2>5. CASE r # d.to
    <3>1. replica'[r] = replica[r]
      BY <2>5, <1>5
    <3> QED
      BY <3>1, <2>2, <2>3, <2>5, <1>1, <1>10 DEF Inside
  <2> QED
    BY <2>4, <2>5
<1> QED
  BY <1>1, <1>9, <1>10 DEF Ends

LEMMA CollectEnds == Sane /\ Ends /\ CollectDummyVotes => Ends'
<1> SUFFICES ASSUME Sane, Ends, CollectDummyVotes PROVE Ends'
  OBVIOUS
<1>1. /\ phase = "timeout" /\ phase' = "route" /\ queue = <<>> /\ replica' = replica /\ view' = view
      /\ stuck' = stuck
      /\ dummies' = IF stuck = {} THEN <<>> ELSE dummies \o InOrder(Capitulators)
      /\ queue' = FlattenSeq([i \in DOMAIN dummies' |-> RouteTo(dummies'[i])])
  BY DEF CollectDummyVotes
<1>2. \A r \in Node : ~Timed(r)
  BY <1>1 DEF Timed, ToSet
<1>3. \/ stuck = {} /\ \A r \in Node : Outside(r)
      \/ /\ stuck = Node
         /\ \A r \in Node : Inside(r) /\ replica[r].nullify_votes = <<r>> /\ r \in ToSet(dummies)
  BY <1>1, <1>2 DEF Ends
<1>4. CASE stuck = {} /\ \A r \in Node : Outside(r)
  BY <1>4, <1>1 DEF Ends, Inside, Outside, Sane
<1>5. CASE /\ stuck = Node
           /\ \A r \in Node : Inside(r) /\ replica[r].nullify_votes = <<r>> /\ r \in ToSet(dummies)
  <2>1. Node # {}
    BY NodeFacts DEF Node
  <2>2. Capitulators \subseteq Node /\ Sequence(InOrder(Capitulators))
    BY InOrderIs DEF Capitulators, Sequence
  <2>3. Sequence(dummies') /\ Node \subseteq ToSet(dummies') /\ ToSet(dummies') \subseteq Node
    <3>1. dummies' = dummies \o InOrder(Capitulators)
      BY <2>1, <1>1, <1>5
    <3>2. ToSet(InOrder(Capitulators)) \subseteq Node
      BY <2>2, InOrderIs
    <3> QED
      BY <3>1, <3>2, <2>2, <1>5, ConcatSequence DEF Sane
  <2>4. PICK v, n : v = dummies' /\ n = Len(v)
    OBVIOUS
  <2>5. n \in Nat /\ DOMAIN v = 1..n /\ ToSet(v) = {v[i] : i \in 1..n} /\ ToSet(v) = Node
    <3>1. Sequence(v) /\ ToSet(v) = Node
      BY <2>3, <2>4
    <3>2. v \in Seq(ToSet(v)) /\ n \in Nat /\ DOMAIN v = 1..n
      BY <3>1, <2>4, SequenceOfSet
    <3> QED
      BY <3>1, <3>2, <2>4, SetOf
  <2>6. PICK ss : ss = [i \in 1..n |-> RouteTo(v[i])]
    OBVIOUS
  <2>7. \A i \in 1..n : /\ Sequence(ss[i])
                        /\ ToSet(ss[i]) = {[to |-> p, message |-> [kind |-> "NullifyVote", view |-> view, signer |-> v[i]]] :
                                             p \in Node \ {v[i]}}
    BY <2>6, <1>5, ToAllIs DEF RouteTo
  <2>8. ToSet(queue') = UNION {ToSet(ss[i]) : i \in 1..n}
    <3>1. queue' = FlattenSeq(ss)
      <4>1. [i \in DOMAIN dummies' |-> RouteTo(dummies'[i])] = ss
        BY <2>4, <2>5, <2>6
      <4> QED
        BY <4>1, <1>1
    <3>2. ss = [i \in 1..n |-> ss[i]] /\ n \in Nat /\ \A i \in 1..n : Sequence(ss[i])
      BY <2>5, <2>6, <2>7
    <3>3. ToSet(FlattenSeq(ss)) = UNION {ToSet(ss[i]) : i \in 1..n}
      BY <3>2, FlattenSequence
    <3> QED
      BY <3>1, <3>3
  <2>9. ASSUME NEW q \in Node, NEW r \in Node, q # r PROVE DummyFrom(q, r)'
    <3>1. PICK i \in 1..n : v[i] = q
      BY <2>5
    <3>2. PICK e : e = [to |-> r, message |-> [kind |-> "NullifyVote", view |-> view, signer |-> q]]
      OBVIOUS
    <3>3. e \in ToSet(ss[i])
      BY <3>1, <3>2, <2>7, <2>9
    <3> QED
      BY <3>2, <3>3, <2>8 DEF DummyFrom
  <2>10. \A r \in Node : Len(<<r>>) < T /\ r \in ToSet(<<r>>)
    <3> SUFFICES ASSUME NEW r \in Node PROVE Len(<<r>>) < T /\ r \in ToSet(<<r>>)
      OBVIOUS
    <3>1. Len(<<r>>) = 1 /\ ToSet(<<r>>) = {r}
      BY PairIs
    <3>2. 1 < T
      BY NodeFacts
    <3> QED
      BY <3>1, <3>2
  <2> QED
    BY <2>9, <2>10, <1>1, <1>5 DEF Ends, Inside, Outside
<1> QED
  BY <1>3, <1>4, <1>5

LEMMA RouteEnds == Sane /\ Ends /\ RouteDummyVote => Ends'
<1> SUFFICES ASSUME Sane, Ends, RouteDummyVote PROVE Ends'
  OBVIOUS
<1>1. phase = "route" /\ phase' = "route" /\ queue # <<>> /\ queue' = Tail(queue) /\ view' = view
  BY DEF RouteDummyVote
<1>2. PICK d, res : d = Head(queue) /\ res = Apply(d)
  OBVIOUS
<1>3. Take(d.to, res)
  BY <1>2 DEF RouteDummyVote
<1>4. /\ Deliverable(d, view, "route") /\ d.to \in Node /\ view \in Nat
      /\ NodeState(d.to, replica[d.to]) /\ ToSet(queue) = ToSet(Tail(queue)) \cup {d}
  BY <1>1, <1>2, HeadFacts
<1>5. replica'[d.to] = res.state /\ \A x \in Node : x # d.to => replica'[x] = replica[x]
  <2>1. replica = [x \in Node |-> replica[x]] /\ replica' = [replica EXCEPT ![d.to] = res.state]
    BY <1>3 DEF Sane, Take
  <2> QED
    BY <2>1, <1>4
<1>6. d.message.kind = "NullifyVote" /\ d.message.view = view
  BY <1>4 DEF Deliverable
<1>7. PICK s, g : s = replica[d.to] /\ g = d.message.signer
  OBVIOUS
<1>8. \/ Quiet(s, res) /\ (view = s.view => g \in ToSet(s.nullify_votes))
      \/ /\ view = s.view /\ g \notin ToSet(s.nullify_votes)
         /\ \/ CountsDummy(s, res, g)
            \/ GivesUp(s, res) /\ T <= Len(s.nullify_votes) + 1
  <2>1. res = HandleNullifyVote(s, view, g)
    BY <1>2, <1>6, <1>7 DEF Apply, ApplyMessage
  <2> QED
    BY <2>1, <1>4, <1>7, NullifyShape
<1>9. /\ \A r \in Node : Inside(r) \/ Outside(r)
      /\ \A r \in Node : Inside(r) =>
           /\ Len(replica[r].nullify_votes) < T
           /\ \A q \in Node : q \in ToSet(replica[r].nullify_votes) \/ DummyFrom(q, r)
  BY <1>1 DEF Ends
<1>10. \A q, r : DummyFrom(q, r) => DummyFrom(q, r)' \/ (r = d.to /\ q = g)
  BY <1>1, <1>4, <1>7 DEF DummyFrom
<1> SUFFICES ASSUME NEW r \in Node
             PROVE  /\ Inside(r)' \/ Outside(r)'
                    /\ Inside(r)' => /\ Len(replica'[r].nullify_votes) < T
                                     /\ \A q \in Node : q \in ToSet(replica'[r].nullify_votes) \/ DummyFrom(q, r)'
  BY <1>1 DEF Ends, Inside, Outside
<1>11. CASE r # d.to
  BY <1>11, <1>1, <1>5, <1>9, <1>10 DEF Inside, Outside
<1>12. CASE r = d.to /\ Quiet(s, res) /\ (view = s.view => g \in ToSet(s.nullify_votes))
  <2>1. replica'[r] = replica[r]
    BY <1>12, <1>5, <1>7 DEF Quiet
  <2>2. Inside(r) => g \in ToSet(s.nullify_votes)
    BY <1>7, <1>12 DEF Inside
  <2> QED
    BY <2>1, <2>2, <1>1, <1>7, <1>9, <1>10, <1>12 DEF Inside, Outside
<1>13. CASE r = d.to /\ g \notin ToSet(s.nullify_votes) /\ CountsDummy(s, res, g)
  <2>1. replica'[r].nullify_votes = Append(s.nullify_votes, g) /\ Len(replica'[r].nullify_votes) < T
    BY <1>13, <1>5 DEF CountsDummy
  <2>2. replica'[r].view = s.view
    BY <1>13, <1>5 DEF CountsDummy, Kept, Fields
  <2>3. ToSet(Append(s.nullify_votes, g)) = ToSet(s.nullify_votes) \cup {g}
    <3>1. Listed(s.nullify_votes) /\ g \notin ToSet(s.nullify_votes)
      BY <1>4, <1>7, <1>8, <1>13 DEF NodeState
    <3> QED
      BY <3>1, AppendListed
  <2> QED
    BY <2>1, <2>2, <2>3, <1>1, <1>7, <1>9, <1>10, <1>13 DEF Inside, Outside
<1>14. CASE r = d.to /\ GivesUp(s, res) /\ view = s.view
  <2>1. replica'[r].view = view + 1
    BY <1>14, <1>5 DEF GivesUp, LeftBehind
  <2> QED
    BY <2>1, <1>1, <1>4 DEF Inside, Outside
<1> QED
  BY <1>8, <1>11, <1>12, <1>13, <1>14

LEMMA AllOutside == Sane /\ Ends /\ AtEnd => \A r \in Node : Outside(r)
<1> SUFFICES ASSUME Sane, Ends, AtEnd, NEW r \in Node, Inside(r) PROVE FALSE
  BY DEF Ends, AtEnd
<1>1. phase = "route" /\ queue = <<>>
  BY DEF AtEnd
<1>2. \A q : ~DummyFrom(q, r)
  BY <1>1 DEF DummyFrom, ToSet
<1>3. PICK v : v = replica[r].nullify_votes
  OBVIOUS
<1>4. Len(v) < T /\ Node \subseteq ToSet(v)
  BY <1>1, <1>2, <1>3 DEF Ends
<1>5. Listed(v) /\ ToSet(v) \subseteq Node
  BY <1>3 DEF Sane, NodeState
<1>6. ToSet(v) = Node /\ Cardinality(ToSet(v)) = Len(v)
  BY <1>4, <1>5 DEF Listed
<1> QED
  BY <1>4, <1>6, NodeFacts

LEMMA ReadEnds == Sane /\ Ends /\ ReadStates => Ends'
<1> SUFFICES ASSUME Sane, Ends, ReadStates PROVE Ends'
  OBVIOUS
<1>1. /\ phase = "route" /\ queue = <<>> /\ replica' = replica
      /\ \/ phase' = "halted" /\ view' = view
         \/ phase' = "ask" /\ view' = view + 1
  BY DEF ReadStates
<1>2. \A r \in Node : Outside(r)
  BY <1>1, AllOutside DEF AtEnd
<1>3. \A r \in Node : replica[r].view = view + 1
  BY <1>2 DEF Outside
<1>4. Reach = view + 1
  BY <1>1 DEF Reach, Asked, ToSet
<1>5. \A r \in Node : Fresh(replica[r])
  BY <1>3, <1>4 DEF Sane
<1>6. \A r \in Node : Untimed(replica[r])
  BY <1>5 DEF Fresh, Untimed
<1> QED
  BY <1>1, <1>3, <1>6 DEF Ends, Inside, Outside

(* The loop of deliveries is not cut off: up to 50 nodes for a bound of 10000. *)
QueueFits == MaxIterations >= N + 4 * N * (N - 1)

LEMMA EndsInv == ElectsNodes /\ QueueFits /\ Spec => []Ends
<1> SUFFICES ASSUME ElectsNodes, QueueFits PROVE Spec => []Ends
  BY DEF ElectsNodes, QueueFits
<1>1. Init => Ends
  BY InitEnds
<1>2. Running /\ Ends /\ [Next]_vars => Ends'
  <2> SUFFICES ASSUME Running, Ends, [Next]_vars PROVE Ends'
    OBVIOUS
  <2>1. UNCHANGED vars => Ends'
    BY DEF vars, Ends, Inside, Outside, Relayed, Timed, DummyFrom
  <2>2. EndDelivery => Ends'
    BY EndDeliveryEnds DEF QueueFits, Running
  <2> QED
    BY <2>1, <2>2, AskEnds, DeliverEnds, FireTimerEnds, CollectEnds, RouteEnds, ReadEnds DEF Next, Running
<1> QED
  BY <1>1, <1>2, RunningInv, PTL DEF Spec

(* Every replica leaves every view with the engine, whoever withholds or signs twice
   and whoever is elected: who is behind has a relay on the way or, when nobody
   left, hears everybody's dummy vote.                                      *)
THEOREM ViewsEnd == ElectsNodes /\ QueueFits /\ Spec => []EveryViewEnds
<1> SUFFICES ASSUME ElectsNodes, QueueFits PROVE Spec => []EveryViewEnds
  BY DEF ElectsNodes, QueueFits
<1>1. Running /\ Ends => EveryViewEnds
  BY AllOutside DEF Running, EveryViewEnds, Outside
<1> QED
  BY <1>1, RunningInv, EndsInv, PTL

-----------------------------------------------------------------------------
(* Who votes, in the view: what a delivery m makes of the votes of replica r. q is
   one of those who voted for c when r has taken m.                         *)
Aye(r, m, s, res, q, c) ==
  \/ q \in ToSet(VotesFor(s, c))
  \/ q = r /\ VoteOut(s, c) \in ToSet(res.out)
  \/ m.kind = "Vote" /\ m.signer = q /\ m.block = c

(* r votes once, before it leaves; the replica r counts who voted; it leaves on T
   of them or on a relay.                                                   *)
CastsOnce(r, m, s, res) ==
  \A c : VoteOut(s, c) \in ToSet(res.out) =>
    /\ s.view = view /\ s.voted_block = Genesis /\ BlockOf(c, view)
    /\ res.state.view = view => res.state.voted_block = c
StaysWith(r, m, s, res) ==
  res.state.view = s.view =>
    /\ res.state.tip = s.tip /\ (s.voted_block # Genesis => res.state.voted_block = s.voted_block)
    /\ \A q, c : q \in ToSet(VotesFor(res.state, c)) => Aye(r, m, s, res, q, c)
    /\ ~Has(res.out, {"RelayNotarization"})
LeavesOn(r, m, s, res) ==
  res.state.view # s.view =>
    \E b : /\ res.state.tip = b /\ BlockOf(b, view) /\ s.view = view
           /\ Of(res.out, "RelayNotarization") = {Relay(b)}
           /\ \/ m.kind = "Notarization" /\ m.block = b
              \/ \E Q : Q \subseteq Node /\ T <= Cardinality(Q) /\ \A q \in Q : Aye(r, m, s, res, q, b)

LEMMA Quorate ==
  ASSUME NEW v, Listed(v), ToSet(v) \subseteq Node, NEW q \in Node, q \notin ToSet(v), T <= Len(v) + 1
  PROVE  ToSet(v) \cup {q} \subseteq Node /\ T <= Cardinality(ToSet(v) \cup {q})
<1>1. Cardinality(ToSet(v) \cup {q}) = Cardinality(ToSet(v)) + 1
  BY FS_AddElement DEF Listed
<1>2. Cardinality(ToSet(v)) = Len(v)
  BY DEF Listed
<1> QED
  BY <1>1, <1>2

LEMMA OfAnnounced ==
  ASSUME NEW s, NEW b, NEW outs, ToSet(outs) = Announced(s, b)
  PROVE  Of(outs, "RelayNotarization") = {Relay(b)}
BY DEF Announced, Relay, Of

LEMMA OfVoted ==
  ASSUME NEW s, NEW b, NEW outs, ToSet(outs) = {VoteOut(s, b)} \cup Announced(s, b)
  PROVE  Of(outs, "RelayNotarization") = {Relay(b)}
BY DEF Announced, VoteOut, Relay, Of

LEMMA DeedIs ==
  ASSUME NEW d, Deliverable(d, view, "deliver"), NEW s, NodeState(d.to, s), NEW res, NEW l,
         Handled(d.to, d.message, s, res, l), Answer(d.to, s, res, view, "deliver"),
         d.message.kind = "ProposeRequest" => (s.view = view => s.voted_block = Genesis)
  PROVE  /\ CastsOnce(d.to, d.message, s, res) /\ StaysWith(d.to, d.message, s, res)
         /\ LeavesOn(d.to, d.message, s, res)
<1> PICK r, m : r = d.to /\ m = d.message
  OBVIOUS
<1> DEFINE Deed == CastsOnce(r, m, s, res) /\ StaysWith(r, m, s, res) /\ LeavesOn(r, m, s, res)
<1> SUFFICES Deed
  OBVIOUS
<1>1. r \in Node /\ s.view \in Nat /\ s.view + 1 # s.view
  BY DEF Deliverable, NodeState
<1>2. \A b : Listed(VotesFor(s, b)) /\ Sequence(VotesFor(s, b)) /\ ToSet(VotesFor(s, b)) \subseteq Node
  BY DEF NodeState, Listed
<1>3. ASSUME Quiet(s, res) PROVE Deed
  <2>1. res.state = s /\ ToSet(res.out) = {}
    BY <1>3 DEF Quiet, ToSet
  <2> QED
    BY <2>1 DEF CastsOnce, StaysWith, LeavesOn, Aye, Has
<1>4. ASSUME NEW C, C \subseteq {"known_blocks", "finalize_votes", "finalized_count"},
             Kept(s, res.state, C), res.out = <<>>
      PROVE  Deed
  <2>1. \A f \in {"view", "tip", "voted_block", "notarize_votes"} : f \in Fields \ C
    BY <1>4 DEF Fields
  <2>2. \A f \in {"view", "tip", "voted_block", "notarize_votes"} : res.state[f] = s[f]
    BY <1>4, <2>1 DEF Kept
  <2>3. \A c : VotesFor(res.state, c) = VotesFor(s, c)
    BY <2>2, SameVotes
  <2>4. ToSet(res.out) = {}
    BY <1>4 DEF ToSet
  <2> QED
    BY <2>2, <2>3, <2>4 DEF CastsOnce, StaysWith, LeavesOn, Aye, Has
<1>5. ASSUME NEW b, Ballot(s, res.state, b, r), s.view = view, s.voted_block = Genesis, BlockOf(b, view),
             VoteOut(s, b) \in ToSet(res.out), ~Has(res.out, {"RelayNotarization"})
      PROVE  Deed
  <2>1. res.state.view = s.view /\ res.state.tip = s.tip /\ res.state.voted_block = b
    BY <1>5 DEF Ballot, BallotFields, Kept, Fields
  <2>2. \A q, c : q \in ToSet(VotesFor(res.state, c)) => q \in ToSet(VotesFor(s, c)) \/ (q = r /\ c = b)
    BY <1>2, <1>5, PushedIs DEF Ballot
  <2>3. \A c : VoteOut(s, c) \in ToSet(res.out) => c = b
    BY <1>5, OneVote DEF Answer
  <2>4. CastsOnce(r, m, s, res)
    BY <2>1, <2>3, <1>5 DEF CastsOnce
  <2>5. StaysWith(r, m, s, res)
    BY <2>1, <2>2, <1>5 DEF StaysWith, Aye
  <2> QED
    BY <2>1, <2>4, <2>5 DEF LeavesOn
<1>6. CASE m.kind = "ProposeRequest" /\ m.view = s.view /\ Proposes(s, res, r, NextBlock(s, r, m.payload))
  <2>1. PICK b : b = NextBlock(s, r, m.payload)
    OBVIOUS
  <2>2. Ballot(s, res.state, b, r) /\ ToSet(res.out) = {[kind |-> "Proposal", block |-> b], VoteOut(s, b)}
    BY <1>6, <2>1 DEF Proposes
  <2>3. s.view = view /\ s.voted_block = Genesis
    BY <1>6 DEF Deliverable
  <2>4. BlockOf(b, view)
    <3>1. VoteOut(s, b) \in ToSet(res.out)
      BY <2>2
    <3>2. Output(VoteOut(s, b), view)
      BY <3>1 DEF Answer, Outputs, VoteOut
    <3> QED
      BY <3>2 DEF Output, VoteOut, Relay
  <2>5. ~Has(res.out, {"RelayNotarization"})
    BY <2>2 DEF Has, VoteOut
  <2> QED
    BY <1>5, <2>2, <2>3, <2>4, <2>5
<1>7. CASE m.kind = "Proposal" /\ ViewOf(m.block) = s.view /\ Refuses(s, res, m.block)
  BY <1>4, <1>7 DEF Refuses
<1>8. CASE m.kind = "Proposal" /\ ViewOf(m.block) = s.view /\ Fits(s, l, m.block) /\ VotesAndStays(s, res, m.block, r)
  <2>1. PICK b : b = m.block
    OBVIOUS
  <2>2. Ballot(s, res.state, b, r) /\ ToSet(res.out) = {VoteOut(s, b)}
    BY <1>8, <2>1 DEF VotesAndStays
  <2>3. s.view = view /\ s.voted_block = Genesis /\ BlockOf(b, view)
    BY <1>8, <2>1 DEF Deliverable, BlockOf, Fits
  <2>4. ~Has(res.out, {"RelayNotarization"})
    BY <2>2 DEF Has, VoteOut
  <2> QED
    BY <1>5, <2>2, <2>3, <2>4
<1>9. CASE m.kind = "Proposal" /\ ViewOf(m.block) = s.view /\ Fits(s, l, m.block) /\ VotesAndLeaves(s, res, m.block)
  <2>1. PICK b, v : b = m.block /\ v = VotesFor(s, b)
    OBVIOUS
  <2>2. s.view = view /\ s.voted_block = Genesis /\ BlockOf(b, view)
    BY <1>9, <2>1 DEF Deliverable, BlockOf, Fits
  <2>3. /\ res.state.view = s.view + 1 /\ res.state.tip = b /\ T <= Len(v) + 1
        /\ ToSet(res.out) = {VoteOut(s, b)} \cup Announced(s, b)
    BY <1>9, <2>1 DEF VotesAndLeaves, LeftBehind
  <2>4. r \notin ToSet(v)
    BY <2>1, <2>2 DEF NodeState, BlockOf
  <2>5. ToSet(v) \cup {r} \subseteq Node /\ T <= Cardinality(ToSet(v) \cup {r})
    BY <1>1, <1>2, <2>1, <2>3, <2>4, Quorate
  <2>6. Of(res.out, "RelayNotarization") = {Relay(b)}
    BY <2>3, OfVoted
  <2>7. \A q \in ToSet(v) \cup {r} : Aye(r, m, s, res, q, b)
    BY <2>1, <2>3 DEF Aye
  <2>8. LeavesOn(r, m, s, res)
    BY <2>2, <2>3, <2>5, <2>6, <2>7 DEF LeavesOn
  <2>9. \A c : VoteOut(s, c) \in ToSet(res.out) => c = b
    BY <2>3, OneVote DEF Answer
  <2>10. CastsOnce(r, m, s, res)
    BY <2>2, <2>3, <2>9, <1>1 DEF CastsOnce
  <2> QED
    BY <2>3, <2>8, <2>10, <1>1 DEF StaysWith
<1>10. CASE m.kind = "Vote" /\ m.view = s.view /\ Counts(s, res, m.block, m.signer)
  <2>1. res.state.view = s.view /\ res.state.tip = s.tip /\ res.state.voted_block = s.voted_block
    BY <1>10 DEF Counts, Kept, Fields
  <2>2. \A q, c : q \in ToSet(VotesFor(res.state, c)) => q \in ToSet(VotesFor(s, c)) \/ (q = m.signer /\ c = m.block)
    BY <1>2, <1>10, PushedIs DEF Counts
  <2>3. ToSet(res.out) = {}
    BY <1>10 DEF Counts, ToSet
  <2> QED
    BY <2>1, <2>2, <2>3, <1>10 DEF CastsOnce, StaysWith, LeavesOn, Aye, Has
<1>11. CASE /\ m.kind = "Vote" /\ m.view = s.view /\ m.signer \notin ToSet(VotesFor(s, m.block))
            /\ T <= Len(VotesFor(s, m.block)) + 1 /\ LeavesWith(s, res, m.block, NotarySeed(m.block))
  <2>1. PICK b, v, q : b = m.block /\ v = VotesFor(s, b) /\ q = m.signer
    OBVIOUS
  <2>2. s.view = view /\ BlockOf(b, view) /\ q \in Node
    BY <1>11, <2>1 DEF Deliverable
  <2>3. res.state.view = s.view + 1 /\ res.state.tip = b /\ ToSet(res.out) = Announced(s, b)
    BY <1>11, <2>1 DEF LeavesWith, LeftBehind
  <2>4. ToSet(v) \cup {q} \subseteq Node /\ T <= Cardinality(ToSet(v) \cup {q})
    BY <1>2, <1>11, <2>1, <2>2, Quorate
  <2>5. Of(res.out, "RelayNotarization") = {Relay(b)}
    BY <2>3, OfAnnounced
  <2>6. \A p \in ToSet(v) \cup {q} : Aye(r, m, s, res, p, b)
    BY <2>1, <1>11 DEF Aye
  <2>7. LeavesOn(r, m, s, res)
    BY <2>2, <2>3, <2>4, <2>5, <2>6 DEF LeavesOn
  <2>8. \A c : VoteOut(s, c) \notin ToSet(res.out)
    BY <2>3 DEF Announced, VoteOut, Relay
  <2> QED
    BY <2>3, <2>7, <2>8, <1>1 DEF StaysWith, CastsOnce
<1>12. CASE m.kind = "FinalizeVote" /\ CountsFinal(s, res, m.view, m.signer)
  BY <1>4, <1>12 DEF CountsFinal
<1>13. CASE m.kind = "Notarization" /\ m.view = s.view /\ LeavesWith(s, res, m.block, s.seed)
  <2>1. PICK b : b = m.block
    OBVIOUS
  <2>2. s.view = view /\ BlockOf(b, view)
    BY <1>13, <2>1 DEF Deliverable
  <2>3. res.state.view = s.view + 1 /\ res.state.tip = b /\ ToSet(res.out) = Announced(s, b)
    BY <1>13, <2>1 DEF LeavesWith, LeftBehind
  <2>4. Of(res.out, "RelayNotarization") = {Relay(b)}
    BY <2>3, OfAnnounced
  <2>5. LeavesOn(r, m, s, res)
    BY <2>1, <2>2, <2>3, <2>4, <1>13 DEF LeavesOn
  <2>6. \A c : VoteOut(s, c) \notin ToSet(res.out)
    BY <2>3 DEF Announced, VoteOut, Relay
  <2> QED
    BY <2>3, <2>5, <2>6, <1>1 DEF StaysWith, CastsOnce
<1>14. m.kind \notin {"Timeout", "NullifyVote"}
  BY DEF Deliverable
<1> HIDE DEF Deed
<1>15. Deed
  <2>1. Handled(r, m, s, res, l)
    OBVIOUS
  <2>2. CASE Quiet(s, res)
    BY <2>2, <1>3
  <2>3. CASE m.kind = "Proposal" /\ ~Quiet(s, res)
    BY <2>1, <2>3, <1>7, <1>8, <1>9 DEF Handled
  <2>4. CASE m.kind = "Vote" /\ ~Quiet(s, res)
    BY <2>1, <2>4, <1>10, <1>11 DEF Handled
  <2>5. CASE m.kind \notin {"Proposal", "Vote"} /\ ~Quiet(s, res)
    BY <2>1, <2>5, <1>6, <1>12, <1>13, <1>14 DEF Handled
  <2> QED
    BY <2>2, <2>3, <2>4, <2>5
<1> QED
  BY <1>15

(* A delivery by what the replica does with the message.                    *)
LEMMA DeliverDeed ==
  ASSUME Sane, phase = "deliver", queue # <<>>, NEW d, NEW res, NEW forged, DeliveredBy(d, res, forged)
  PROVE  LET r == d.to  s == replica[d.to]
         IN  /\ CastsOnce(r, d.message, s, res) /\ StaysWith(r, d.message, s, res)
             /\ LeavesOn(r, d.message, s, res)
             /\ Deliverable(d, view, "deliver") /\ r \in Node /\ NodeState(r, s) /\ d \in ToSet(queue)
             /\ view \in Nat /\ Answer(r, s, res, view, "deliver")
             /\ Handled(r, d.message, s, res, LeaderFor(r))
             /\ d.message.kind = "ProposeRequest" => (s.view = view => s.voted_block = Genesis)
             /\ replica'[r] = res.state /\ \A x \in Node : x # r => replica'[x] = replica[x]
<1> PICK r, s, l : r = d.to /\ s = replica[r] /\ l = LeaderFor(r)
  OBVIOUS
<1>1. /\ Deliverable(d, view, "deliver") /\ r \in Node /\ NodeState(r, s) /\ d \in ToSet(queue)
      /\ Answer(r, s, res, view, "deliver") /\ res = ApplyMessage(s, r, l, d.message) /\ view \in Nat
  BY HeadFacts DEF DeliveredBy, Apply
<1>2. Handled(r, d.message, s, res, l)
  BY <1>1, HandledIs
<1>3. d.message.kind = "ProposeRequest" => (s.view = view => s.voted_block = Genesis)
  <2> SUFFICES ASSUME d.message.kind = "ProposeRequest" PROVE s.view = view => s.voted_block = Genesis
    OBVIOUS
  <2>1. Reach = view
    BY <1>1 DEF Reach, Asked
  <2> QED
    BY <1>1, <2>1 DEF Sane, Fresh
<1>4. /\ replica'[r] = res.state /\ \A x \in Node : x # r => replica'[x] = replica[x]
  BY <1>1 DEF DeliveredBy, Take, Sane
<1>5. CastsOnce(r, d.message, s, res) /\ StaysWith(r, d.message, s, res) /\ LeavesOn(r, d.message, s, res)
  BY <1>1, <1>2, <1>3, DeedIs
<1> QED
  BY <1>1, <1>2, <1>3, <1>4, <1>5

-----------------------------------------------------------------------------
(* Without a Capitulator a node has one vote in a view, and two quorums for two
   blocks would share a voter. Whoever leaves the view by a vote or a relay has
   the one block that has a quorum; the others keep the tip they share.     *)

SignedBy(q, b) == [signer |-> q, block |-> b] \in signed.votes
Backed(b) ==
  ViewOf(b) = view /\ \E Q : Q \subseteq Node /\ T <= Cardinality(Q) /\ \A q \in Q : SignedBy(q, b)
OneTip == \A q, r \in Node : replica[q].tip = replica[r].tip

Ballots ==
  /\ \A q, b : SignedBy(q, b) =>
       b # Genesis /\ ViewOf(b) \in Nat /\ ViewOf(b) <= view /\ (phase = "ask" => ViewOf(b) # view)
  /\ "votes" \in DOMAIN signed
  /\ phase # "deliver" => OneTip
  /\ phase = "deliver" =>
       /\ \A q, b, c : SignedBy(q, b) /\ SignedBy(q, c) /\ ViewOf(b) = view /\ ViewOf(c) = view => b = c
       /\ \A q \in Node : \A b : SignedBy(q, b) /\ ViewOf(b) = view /\ Inside(q) => replica[q].voted_block = b
       /\ \A r \in Node : Inside(r) => \A q, c : q \in ToSet(VotesFor(replica[r], c)) => SignedBy(q, c)
       /\ \A e \in ToSet(queue) : /\ e.message.kind = "Vote" => SignedBy(e.message.signer, e.message.block)
                                  /\ e.message.kind = "Notarization" => Backed(e.message.block)
       /\ \A r \in Node : Outside(r) => Backed(replica[r].tip)
       /\ \A q, r \in Node : Inside(q) /\ Inside(r) => replica[q].tip = replica[r].tip

LEMMA OneBacked ==
  ASSUME \A q, b, c : SignedBy(q, b) /\ SignedBy(q, c) /\ ViewOf(b) = view /\ ViewOf(c) = view => b = c,
         NEW b, NEW c, Backed(b), Backed(c)
  PROVE  b = c
<1>1. PICK P : P \subseteq Node /\ T <= Cardinality(P) /\ \A q \in P : SignedBy(q, b)
  BY DEF Backed
<1>2. PICK Q : Q \subseteq Node /\ T <= Cardinality(Q) /\ \A q \in Q : SignedBy(q, c)
  BY DEF Backed
<1>3. \E q : q \in P \cap Q
  <2> SUFFICES ASSUME P \cap Q = {} PROVE FALSE
    OBVIOUS
  <2>1. IsFiniteSet(P) /\ IsFiniteSet(Q) /\ Cardinality(P \cup Q) <= N /\ Cardinality(P) \in Nat /\ Cardinality(Q) \in Nat
    <3>1. P \cup Q \subseteq Node
      BY <1>1, <1>2
    <3> QED
      BY <3>1, <1>1, <1>2, NodeFacts
  <2>2. Cardinality(P \cup Q) = Cardinality(P) + Cardinality(Q) - Cardinality(P \cap Q)
    BY <2>1, FS_Union
  <2>3. Cardinality(P \cap Q) = 0
    BY FS_EmptySet
  <2>4. PICK x, y \in Nat : x = Cardinality(P) /\ y = Cardinality(Q)
    BY <2>1
  <2>5. x + y <= N
    BY <2>1, <2>2, <2>3, <2>4
  <2> QED
    BY <2>4, <2>5, <1>1, <1>2, NodeFacts
<1> QED
  BY <1>1, <1>2, <1>3 DEF Backed

(* The votes on record after a delivery.                                    *)
LEMMA VotesAfter ==
  ASSUME Sane, phase = "deliver", queue # <<>>, NEW d, NEW res, NEW forged, DeliveredBy(d, res, forged),
         Capitulators = {}
  PROVE  /\ forged = <<>>
         /\ \A q, c : SignedBy(q, c)' <=> SignedBy(q, c) \/ (q = d.to /\ VoteOut(replica[d.to], c) \in ToSet(res.out))
<1> PICK r, s : r = d.to /\ s = replica[d.to]
  OBVIOUS
<1>1. r \in Node /\ Answer(r, s, res, view, "deliver") /\ Answered(res.out)
  BY DeliverDeed DEF DeliveredBy
<1>2. forged = <<>>
  BY <1>1 DEF Capitulators, DeliveredBy, ForgedVotes
<1>3. signed'.votes = signed.votes \cup {[signer |-> r, block |-> out.block] : out \in Of(res.out, "Vote")}
  <2>1. Record(r, res, Filtered(res.out, r), forged)
    BY DEF DeliveredBy
  <2>2. ToSet(forged) = {}
    BY <1>2 DEF ToSet
  <2>3. signed'.votes = signed.votes \cup {[signer |-> r, block |-> out.block] : out \in Of(res.out, "Vote")}
                          \cup {[signer |-> r, block |-> e.message.block] : e \in ToSet(forged)}
    BY <2>1 DEF Record
  <2> QED
    BY <2>2, <2>3
<1>4. \A out \in ToSet(res.out) : out.kind = "Vote" => out = VoteOut(s, out.block)
  <2> SUFFICES ASSUME NEW out \in ToSet(res.out), out.kind = "Vote" PROVE out = VoteOut(s, out.block)
    OBVIOUS
  <2>1. Output(out, view)
    BY <1>1 DEF Answered
  <2>2. PICK b : out = [kind |-> "Vote", view |-> view, block |-> b]
    BY <2>1 DEF Output, Relay
  <2>3. s.view = view
    BY <1>1 DEF Answer, ToSet
  <2> QED
    BY <2>2, <2>3 DEF VoteOut
<1> SUFFICES ASSUME NEW q, NEW c
             PROVE  SignedBy(q, c)' <=> SignedBy(q, c) \/ (q = r /\ VoteOut(s, c) \in ToSet(res.out))
  BY <1>2
<1>5. ASSUME SignedBy(q, c)', ~SignedBy(q, c) PROVE q = r /\ VoteOut(s, c) \in ToSet(res.out)
  <2>1. PICK out \in Of(res.out, "Vote") : [signer |-> q, block |-> c] = [signer |-> r, block |-> out.block]
    BY <1>3, <1>5 DEF SignedBy
  <2>2. q = r /\ c = out.block
    BY <2>1
  <2> QED
    BY <2>1, <2>2, <1>4 DEF Of
<1>6. ASSUME q = r, VoteOut(s, c) \in ToSet(res.out) PROVE SignedBy(q, c)'
  <2>1. PICK out : out = VoteOut(s, c)
    OBVIOUS
  <2>2. out \in Of(res.out, "Vote") /\ out.block = c
    BY <1>6, <2>1 DEF Of, VoteOut
  <2> QED
    BY <1>3, <1>6, <2>2 DEF SignedBy
<1>7. SignedBy(q, c) => SignedBy(q, c)'
  BY <1>3 DEF SignedBy
<1> QED
  BY <1>5, <1>6, <1>7

(* What is on the way, by what it was sent for.                             *)
SendsProposal(e, out, r, b) ==
  /\ BlockOf(b, view) /\ out = [kind |-> "Proposal", block |-> b]
  /\ [to |-> e.to, block |-> e.message.block] \in FilterProposal(r, view, b)
  /\ e.message.block \in {b, Equivocation(b)} /\ e.message.kind = "Proposal"
SendsVote(e, out, r, b) ==
  /\ BlockOf(b, view) /\ out = [kind |-> "Vote", view |-> view, block |-> b] /\ ~Withholds(r, view)
  /\ e.message.kind = "Vote" /\ e.message.block = b /\ e.message.signer = r
SendsRelay(e, out, r, b) ==
  BlockOf(b, view) /\ out = Relay(b) /\ e.message.kind = "Notarization" /\ e.message.block = b
SendsFinal(e, out, r) ==
  out = [kind |-> "FinalizeVote", view |-> view] /\ e.message.kind = "FinalizeVote" /\ e.message.signer = r

LEMMA SendsOne ==
  ASSUME NEW r, NEW e, NEW out, Sends(e, out, r, view)
  PROVE  \/ \E b : SendsProposal(e, out, r, b)
         \/ \E b : SendsVote(e, out, r, b)
         \/ \E b : SendsRelay(e, out, r, b)
         \/ SendsFinal(e, out, r)
<1> DEFINE Some == \/ \E b : SendsProposal(e, out, r, b)
                   \/ \E b : SendsVote(e, out, r, b)
                   \/ \E b : SendsRelay(e, out, r, b)
                   \/ SendsFinal(e, out, r)
<1> SUFFICES Some
  OBVIOUS
<1>1. ASSUME NEW b, BlockOf(b, view), out = [kind |-> "Proposal", block |-> b],
             [to |-> e.to, block |-> e.message.block] \in FilterProposal(r, view, b),
             e.message.block \in {b, Equivocation(b)},
             e.message = [kind |-> "Proposal", block |-> e.message.block]
      PROVE  Some
  <2>1. PICK c : e.message = [kind |-> "Proposal", block |-> c]
    BY <1>1
  <2>2. SendsProposal(e, out, r, b)
    BY <1>1, <2>1 DEF SendsProposal
  <2> QED
    BY <2>2
<1>2. ASSUME NEW b, BlockOf(b, view), out = [kind |-> "Vote", view |-> view, block |-> b], ~Withholds(r, view),
             e.message = [kind |-> "Vote", view |-> view, block |-> b, signer |-> r]
      PROVE  Some
  <2>1. SendsVote(e, out, r, b)
    BY <1>2 DEF SendsVote
  <2> QED
    BY <2>1
<1>3. ASSUME NEW b, BlockOf(b, view), out = Relay(b), e.message = [kind |-> "Notarization", view |-> view, block |-> b]
      PROVE  Some
  <2>1. SendsRelay(e, out, r, b)
    BY <1>3 DEF SendsRelay
  <2> QED
    BY <2>1
<1>4. ASSUME out = [kind |-> "FinalizeVote", view |-> view],
             e.message = [kind |-> "FinalizeVote", view |-> view, signer |-> r]
      PROVE  Some
  BY <1>4 DEF SendsFinal
<1> HIDE DEF Some
<1> QED
  BY <1>1, <1>2, <1>3, <1>4, Zenon DEF Sends

LEMMA DeliverBallots == Sane /\ Ends /\ Capitulators = {} /\ Ballots /\ Deliver => Ballots'
<1> SUFFICES ASSUME Sane, Ends, Capitulators = {}, Ballots, Deliver PROVE Ballots'
  OBVIOUS
<1>1. phase = "deliver" /\ queue # <<>> /\ view' = view /\ phase' = "deliver"
  BY DEF Deliver
<1>0. PICK d, res, forged : DeliveredBy(d, res, forged)
  BY DeliverIs
<1>2. PICK r, s, m : r = d.to /\ s = replica[r] /\ m = d.message
  OBVIOUS
<1>3. /\ CastsOnce(r, m, s, res) /\ StaysWith(r, m, s, res) /\ LeavesOn(r, m, s, res)
      /\ Deliverable(d, view, "deliver") /\ r \in Node /\ NodeState(r, s) /\ d \in ToSet(queue)
      /\ view \in Nat /\ Answer(r, s, res, view, "deliver")
      /\ replica'[r] = res.state /\ \A x \in Node : x # r => replica'[x] = replica[x]
  BY <1>0, <1>1, <1>2, DeliverDeed
<1>4. \A q, c : SignedBy(q, c)' <=> SignedBy(q, c) \/ (q = r /\ VoteOut(s, c) \in ToSet(res.out))
  BY <1>0, <1>1, <1>2, VotesAfter
<1>5. forged = <<>>
  BY <1>0, <1>1, VotesAfter
<1>6. \A b : Backed(b) => Backed(b)'
  BY <1>1, <1>4 DEF Backed
<1>7. /\ \A q, b : SignedBy(q, b) => b # Genesis /\ ViewOf(b) \in Nat /\ ViewOf(b) <= view
      /\ \A q, b, c : SignedBy(q, b) /\ SignedBy(q, c) /\ ViewOf(b) = view /\ ViewOf(c) = view => b = c
      /\ \A q \in Node : \A b : SignedBy(q, b) /\ ViewOf(b) = view /\ Inside(q) => replica[q].voted_block = b
      /\ \A x \in Node : Inside(x) => \A q, c : q \in ToSet(VotesFor(replica[x], c)) => SignedBy(q, c)
      /\ \A e \in ToSet(queue) : /\ e.message.kind = "Vote" => SignedBy(e.message.signer, e.message.block)
                                 /\ e.message.kind = "Notarization" => Backed(e.message.block)
      /\ \A x \in Node : Outside(x) => Backed(replica[x].tip)
      /\ \A q, x \in Node : Inside(q) /\ Inside(x) => replica[q].tip = replica[x].tip
  BY <1>1 DEF Ballots
<1>8. s.view = view \/ s.view = view + 1
  BY <1>2, <1>3 DEF Ends, Inside, Outside
<1>9. \/ res.state.view = s.view
      \/ s.view = view /\ res.state.view = view + 1
  BY <1>3 DEF Answer
<1>10. \A c : VoteOut(s, c) \in ToSet(res.out) => s.view = view /\ s.voted_block = Genesis /\ BlockOf(c, view)
  BY <1>3 DEF CastsOnce
<1>11. \A q, c : Aye(r, m, s, res, q, c) /\ s.view = view => SignedBy(q, c)'
  BY <1>2, <1>3, <1>4, <1>7 DEF Aye, Inside
<1>12. res.state.view # s.view =>
         \E b : /\ res.state.tip = b /\ Backed(b)' /\ Of(res.out, "RelayNotarization") = {Relay(b)}
  <2> SUFFICES ASSUME res.state.view # s.view
               PROVE  \E b : /\ res.state.tip = b /\ Backed(b)' /\ Of(res.out, "RelayNotarization") = {Relay(b)}
    OBVIOUS
  <2>1. PICK b : /\ res.state.tip = b /\ BlockOf(b, view) /\ s.view = view
                 /\ Of(res.out, "RelayNotarization") = {Relay(b)}
                 /\ \/ m.kind = "Notarization" /\ m.block = b
                    \/ \E Q : Q \subseteq Node /\ T <= Cardinality(Q) /\ \A q \in Q : Aye(r, m, s, res, q, b)
    BY <1>3 DEF LeavesOn
  <2>2. CASE m.kind = "Notarization" /\ m.block = b
    BY <2>1, <2>2, <1>2, <1>3, <1>6, <1>7
  <2>3. CASE \E Q : Q \subseteq Node /\ T <= Cardinality(Q) /\ \A q \in Q : Aye(r, m, s, res, q, b)
    <3>1. PICK Q : Q \subseteq Node /\ T <= Cardinality(Q) /\ \A q \in Q : Aye(r, m, s, res, q, b)
      BY <2>3
    <3>2. \A q \in Q : SignedBy(q, b)'
      BY <3>1, <2>1, <1>11
    <3>3. ViewOf(b) = view'
      BY <2>1, <1>1 DEF BlockOf
    <3> QED
      BY <3>1, <3>2, <3>3, <2>1 DEF Backed
  <2> QED
    BY <2>1, <2>2, <2>3
<1>13. \A q, b : SignedBy(q, b)' => b # Genesis /\ ViewOf(b) \in Nat /\ ViewOf(b) <= view
  BY <1>3, <1>4, <1>7, <1>10 DEF BlockOf
<1>14. \A q, b, c : SignedBy(q, b)' /\ SignedBy(q, c)' /\ ViewOf(b) = view /\ ViewOf(c) = view => b = c
  <2>1. ASSUME NEW q, NEW b, NEW c, SignedBy(q, b), q = r, VoteOut(s, c) \in ToSet(res.out), ViewOf(b) = view
        PROVE  FALSE
    <3>1. s.view = view /\ s.voted_block = Genesis
      BY <2>1, <1>10
    <3>2. Inside(r)
      BY <3>1, <1>2 DEF Inside
    <3>3. s.voted_block = b /\ b # Genesis
      BY <2>1, <3>2, <1>2, <1>3, <1>7
    <3> QED
      BY <3>1, <3>3
  <2>2. \A b, c : VoteOut(s, b) \in ToSet(res.out) /\ VoteOut(s, c) \in ToSet(res.out) => b = c
    BY <1>3, OneVote DEF Answer
  <2> QED
    BY <2>1, <2>2, <1>4, <1>7
<1>15. \A q \in Node : \A b : SignedBy(q, b)' /\ ViewOf(b) = view /\ replica'[q].view = view => replica'[q].voted_block = b
  <2> SUFFICES ASSUME NEW q \in Node, NEW b, SignedBy(q, b)', ViewOf(b) = view, replica'[q].view = view
               PROVE  replica'[q].voted_block = b
    OBVIOUS
  <2>1. CASE q # r
    BY <2>1, <1>3, <1>4, <1>7 DEF Inside
  <2>2. CASE q = r /\ VoteOut(s, b) \in ToSet(res.out)
    BY <2>2, <1>3 DEF CastsOnce
  <2>3. CASE q = r /\ SignedBy(q, b)
    <3>1. res.state.view = view /\ s.view = view
      BY <2>3, <1>3, <1>8, <1>9
    <3>2. s.voted_block = b /\ b # Genesis
      BY <2>3, <3>1, <1>2, <1>3, <1>7 DEF Inside
    <3> QED
      BY <2>3, <3>1, <3>2, <1>3 DEF StaysWith
  <2> QED
    BY <2>1, <2>2, <2>3, <1>4
<1>16. \A x \in Node : replica'[x].view = view => \A q, c : q \in ToSet(VotesFor(replica'[x], c)) => SignedBy(q, c)'
  <2> SUFFICES ASSUME NEW x \in Node, replica'[x].view = view, NEW q, NEW c, q \in ToSet(VotesFor(replica'[x], c))
               PROVE  SignedBy(q, c)'
    OBVIOUS
  <2>1. CASE x # r
    BY <2>1, <1>3, <1>4, <1>7 DEF Inside
  <2>2. CASE x = r
    <3>1. res.state.view = view /\ s.view = view
      BY <2>2, <1>3, <1>8, <1>9
    <3>2. Aye(r, m, s, res, q, c)
      BY <2>2, <3>1, <1>3 DEF StaysWith
    <3> QED
      BY <3>1, <3>2, <1>11
  <2> QED
    BY <2>1, <2>2
<1>17. \A e \in ToSet(queue') : /\ e.message.kind = "Vote" => SignedBy(e.message.signer, e.message.block)'
                                /\ e.message.kind = "Notarization" => Backed(e.message.block)'
  <2>1. /\ ToSet(queue') = ToSet(Tail(queue)) \cup ToSet(Filtered(res.out, r))
        /\ ToSet(Tail(queue)) \subseteq ToSet(queue) /\ Answered(res.out)
    <3>1. ToSet(forged) = {}
      BY <1>5 DEF ToSet
    <3>2. ToSet(queue') = (ToSet(Tail(queue)) \cup ToSet(Filtered(res.out, r))) \cup ToSet(forged)
      BY <1>0, <1>1, <1>2, QueueAfter
    <3>3. ToSet(queue) = ToSet(Tail(queue)) \cup {Head(queue)}
      BY <1>1, HeadFacts
    <3> QED
      BY <3>1, <3>2, <3>3, <1>0 DEF DeliveredBy
  <2>2. CASE \A e \in ToSet(queue') : e \in ToSet(queue)
    BY <2>2, <1>4, <1>6, <1>7
  <2>3. ASSUME NEW e \in ToSet(Filtered(res.out, r))
        PROVE  /\ e.message.kind = "Vote" => SignedBy(e.message.signer, e.message.block)'
               /\ e.message.kind = "Notarization" => Backed(e.message.block)'
    <3>1. PICK out \in ToSet(res.out) : Sends(e, out, r, view)
      BY <2>1, <1>3, FilteredSends
    <3>2. s.view = view
      BY <3>1, <1>3 DEF Answer, ToSet
    <3>3. CASE e.message.kind = "Vote"
      <4>1. PICK b : out = [kind |-> "Vote", view |-> view, block |-> b] /\ e.message.block = b /\ e.message.signer = r
        BY <3>1, <3>3, SendsOne DEF SendsProposal, SendsVote, SendsRelay, SendsFinal
      <4>2. VoteOut(s, b) \in ToSet(res.out)
        BY <3>2, <4>1 DEF VoteOut
      <4> QED
        BY <4>1, <4>2, <1>4, <3>3
    <3>4. CASE e.message.kind = "Notarization"
      <4>1. PICK b : out = Relay(b) /\ e.message.block = b
        BY <3>1, <3>4, SendsOne DEF SendsProposal, SendsVote, SendsRelay, SendsFinal
      <4>2. out \in Of(res.out, "RelayNotarization")
        BY <4>1 DEF Of, Relay
      <4>3. res.state.view # s.view
        BY <4>2, <1>3 DEF StaysWith, Has, Of
      <4>4. PICK c : Backed(c)' /\ Relay(b) = Relay(c)
        BY <4>1, <4>2, <4>3, <1>12
      <4>5. b = c
        BY <4>4 DEF Relay
      <4> QED
        BY <4>1, <4>4, <4>5, <3>4
    <3> QED
      BY <3>3, <3>4
  <2> QED
    BY <2>1, <2>3, <1>4, <1>6, <1>7
<1>18. \A x \in Node : \A b : replica'[x].view = view + 1 /\ replica'[x].tip = b => Backed(b)'
  <2> SUFFICES ASSUME NEW x \in Node, NEW b, replica'[x].view = view + 1, replica'[x].tip = b PROVE Backed(b)'
    OBVIOUS
  <2>1. CASE x # r
    BY <2>1, <1>3, <1>6, <1>7 DEF Outside
  <2>2. CASE x = r /\ res.state.view = s.view
    <3>1. s.view = view + 1 /\ b = s.tip
      BY <2>2, <1>3 DEF StaysWith
    <3>2. Backed(s.tip)
      BY <3>1, <1>2, <1>3, <1>7 DEF Outside
    <3> QED
      BY <3>1, <3>2, <1>6
  <2>3. CASE x = r /\ res.state.view # s.view
    BY <2>3, <1>3, <1>12
  <2> QED
    BY <2>1, <2>2, <2>3
<1>19. \A q, x \in Node : replica'[q].view = view /\ replica'[x].view = view => replica'[q].tip = replica'[x].tip
  <2>1. \A x \in Node : replica'[x].view = view => Inside(x) /\ replica'[x].tip = replica[x].tip
    <3> SUFFICES ASSUME NEW x \in Node, replica'[x].view = view PROVE Inside(x) /\ replica'[x].tip = replica[x].tip
      OBVIOUS
    <3>1. CASE x # r
      BY <3>1, <1>3 DEF Inside
    <3>2. CASE x = r
      <4>1. res.state.view = view /\ s.view = view
        BY <3>2, <1>3, <1>8, <1>9
      <4> QED
        BY <3>2, <4>1, <1>2, <1>3 DEF StaysWith, Inside
    <3> QED
      BY <3>1, <3>2
  <2> QED
    BY <2>1, <1>7
<1>20. "votes" \in DOMAIN signed'
  BY <1>0 DEF DeliveredBy, Record
<1> QED
  BY <1>1, <1>13, <1>14, <1>15, <1>16, <1>17, <1>18, <1>19, <1>20 DEF Ballots, Inside, Outside

LEMMA InitBallots == Init => Ballots
<1> SUFFICES ASSUME Init PROVE Ballots
  OBVIOUS
<1>1. signed.votes = {} /\ "votes" \in DOMAIN signed /\ phase = "ask" /\ \A r \in Node : replica[r] = NewReplica
  BY DEF Init
<1> QED
  BY <1>1 DEF Ballots, SignedBy, OneTip

LEMMA AskBallots == Sane /\ Ends /\ Ballots /\ AskLeader => Ballots'
<1> SUFFICES ASSUME Sane, Ends, Ballots, AskLeader PROVE Ballots'
  OBVIOUS
<1>1. /\ phase = "ask" /\ phase' = "deliver" /\ replica' = replica /\ view' = view /\ signed' = signed
      /\ queue' = <<[to |-> leader', message |-> [kind |-> "ProposeRequest", view |-> view, payload |-> "block"]]>>
  BY DEF AskLeader
<1>2. view \in Nat /\ Reach = view
  BY <1>1 DEF Sane, Reach
<1>3. \A r \in Node : NodeState(r, replica[r]) /\ replica[r].view <= view /\ (replica[r].view = view => Fresh(replica[r]))
  BY <1>2 DEF Sane
<1>4. \A r \in Node : ~(replica[r].view = view + 1)
  BY <1>2, <1>3 DEF NodeState
<1>5. \A r \in Node : replica[r].view = view => \A c : ToSet(VotesFor(replica[r], c)) = {}
  <2> SUFFICES ASSUME NEW r \in Node, replica[r].view = view, NEW c PROVE ToSet(VotesFor(replica[r], c)) = {}
    OBVIOUS
  <2>1. replica[r].notarize_votes = <<>>
    BY <1>3 DEF Fresh
  <2> QED
    BY <2>1 DEF VotesFor, ToSet
<1>6. \A e \in ToSet(queue') : e.message.kind = "ProposeRequest"
  <2>1. PICK a : queue' = <<a>> /\ a.message.kind = "ProposeRequest"
    BY <1>1
  <2> QED
    BY <2>1, OneIs
<1>7. \A q, b : SignedBy(q, b) => b # Genesis /\ ViewOf(b) \in Nat /\ ViewOf(b) <= view /\ ViewOf(b) # view
  BY <1>1 DEF Ballots
<1>8. \A q, b : SignedBy(q, b)' <=> SignedBy(q, b)
  BY <1>1 DEF SignedBy
<1>9. OneTip /\ "votes" \in DOMAIN signed
  BY <1>1 DEF Ballots
<1> QED
  BY <1>1, <1>4, <1>5, <1>6, <1>7, <1>8, <1>9 DEF Ballots, OneTip, Inside, Outside

LEMMA EndDeliveryBallots == Sane /\ Ballots /\ EndDelivery /\ Ends' => Ballots'
<1> SUFFICES ASSUME Sane, Ballots, EndDelivery, Ends' PROVE Ballots'
  OBVIOUS
<1>1. /\ phase = "deliver" /\ phase' = "timeout" /\ replica' = replica /\ view' = view /\ signed' = signed
  BY DEF EndDelivery
<1>2. \/ \A r \in Node : Outside(r)
      \/ \A r \in Node : Inside(r)
  BY <1>1 DEF Ends, Inside, Outside
<1>3. OneTip
  <2>1. CASE \A r \in Node : Outside(r)
    <3> SUFFICES ASSUME NEW q \in Node, NEW r \in Node PROVE replica[q].tip = replica[r].tip
      BY DEF OneTip
    <3>1. PICK b, c : b = replica[q].tip /\ c = replica[r].tip
      OBVIOUS
    <3>2. Backed(b) /\ Backed(c)
      BY <3>1, <2>1, <1>1 DEF Ballots
    <3>3. \A x, u, v : SignedBy(x, u) /\ SignedBy(x, v) /\ ViewOf(u) = view /\ ViewOf(v) = view => u = v
      BY <1>1 DEF Ballots
    <3> QED
      BY <3>1, <3>2, <3>3, OneBacked
  <2>2. CASE \A r \in Node : Inside(r)
    BY <2>2, <1>1 DEF Ballots, OneTip
  <2> QED
    BY <1>2, <2>1, <2>2
<1> QED
  BY <1>1, <1>3 DEF Ballots, OneTip, SignedBy

(* After the deliveries no tip moves and nobody votes.                      *)
LEMMA TipsStay ==
  ASSUME Ballots, phase # "deliver", phase' \notin {"deliver", "ask"}, view' = view, signed'.votes = signed.votes,
         "votes" \in DOMAIN signed', \A r \in Node : replica'[r].tip = replica[r].tip
  PROVE  Ballots'
BY DEF Ballots, OneTip, SignedBy

LEMMA FireTimerBallots == Sane /\ Ballots /\ FireTimer => Ballots'
<1> SUFFICES ASSUME Sane, Ballots, FireTimer PROVE Ballots'
  OBVIOUS
<1>1. phase = "timeout" /\ phase' = "timeout" /\ queue # <<>> /\ view' = view
  BY DEF FireTimer
<1>2. PICK d, res, r, s : d = Head(queue) /\ res = Apply(d) /\ r = d.to /\ s = replica[r]
  OBVIOUS
<1>3. Take(r, res) /\ Record(r, res, <<>>, <<>>)
  BY <1>2 DEF FireTimer
<1>4. Deliverable(d, view, "timeout") /\ r \in Node /\ NodeState(r, s)
  BY <1>1, <1>2, HeadFacts
<1>5. replica'[r] = res.state /\ \A x \in Node : x # r => replica'[x] = replica[x]
  BY <1>3, <1>4 DEF Sane, Take
<1>6. d.message.kind = "Timeout" /\ d.message.view = view
  BY <1>4 DEF Deliverable
<1>7. Quiet(s, res) \/ TimesOut(s, res, r) \/ TimesOutLast(s, res)
  <2>1. res = HandleTimeout(s, r, view)
    BY <1>2, <1>6 DEF Apply, ApplyMessage
  <2> QED
    BY <2>1, <1>4, TimeoutShape
<1>8. res.state.tip = s.tip
  BY <1>7 DEF Quiet, TimesOut, TimesOutLast, Kept, Fields
<1>9. ToSet(res.out) \subseteq {[kind |-> "NullifyVote", view |-> s.view]}
  <2>1. res.out = <<>> \/ res.out = <<[kind |-> "NullifyVote", view |-> s.view]>>
    BY <1>7 DEF Quiet, TimesOut, TimesOutLast
  <2>2. ToSet(<<>>) = {}
    BY DEF ToSet
  <2> QED
    BY <2>1, <2>2, PairIs
<1>10. Of(res.out, "Vote") = {} /\ ToSet(<<>>) = {}
  BY <1>9 DEF Of, ToSet
<1>11. signed'.votes = signed.votes /\ "votes" \in DOMAIN signed'
  BY <1>3, <1>10 DEF Record
<1>12. \A x \in Node : replica'[x].tip = replica[x].tip
  BY <1>2, <1>5, <1>8
<1> QED
  BY <1>1, <1>11, <1>12, TipsStay

LEMMA CollectBallots == Ballots /\ CollectDummyVotes => Ballots'
<1> SUFFICES ASSUME Ballots, CollectDummyVotes PROVE Ballots'
  OBVIOUS
<1>1. phase = "timeout" /\ phase' = "route" /\ view' = view /\ replica' = replica
  BY DEF CollectDummyVotes
<1>2. signed'.votes = signed.votes /\ DOMAIN signed' = DOMAIN signed
  BY DEF CollectDummyVotes, Ballots
<1> QED
  BY <1>1, <1>2, TipsStay DEF Ballots

LEMMA RouteBallots == Sane /\ Ballots /\ RouteDummyVote => Ballots'
<1> SUFFICES ASSUME Sane, Ballots, RouteDummyVote PROVE Ballots'
  OBVIOUS
<1>1. phase = "route" /\ phase' = "route" /\ queue # <<>> /\ view' = view /\ signed' = signed
  BY DEF RouteDummyVote
<1>2. PICK d, res, r, s : d = Head(queue) /\ res = Apply(d) /\ r = d.to /\ s = replica[r]
  OBVIOUS
<1>3. Take(r, res)
  BY <1>2 DEF RouteDummyVote
<1>4. Deliverable(d, view, "route") /\ r \in Node /\ NodeState(r, s)
  BY <1>1, <1>2, HeadFacts
<1>5. replica'[r] = res.state /\ \A x \in Node : x # r => replica'[x] = replica[x]
  BY <1>3, <1>4 DEF Sane, Take
<1>6. d.message.kind = "NullifyVote" /\ d.message.view = view
  BY <1>4 DEF Deliverable
<1>7. Quiet(s, res) \/ CountsDummy(s, res, d.message.signer) \/ GivesUp(s, res)
  <2>1. res = HandleNullifyVote(s, view, d.message.signer)
    BY <1>2, <1>6 DEF Apply, ApplyMessage
  <2> QED
    BY <2>1, <1>4, NullifyShape
<1>8. res.state.tip = s.tip
  BY <1>7 DEF Quiet, CountsDummy, GivesUp, Kept, Fields
<1>9. \A x \in Node : replica'[x].tip = replica[x].tip
  BY <1>2, <1>5, <1>8
<1> QED
  BY <1>1, <1>9, TipsStay DEF Ballots

LEMMA ReadBallots == Sane /\ Ballots /\ ReadStates => Ballots'
<1> SUFFICES ASSUME Sane, Ballots, ReadStates PROVE Ballots'
  OBVIOUS
<1>1. /\ phase = "route" /\ replica' = replica /\ signed' = signed
      /\ \/ phase' = "halted" /\ view' = view
         \/ phase' = "ask" /\ view' = view + 1
  BY DEF ReadStates
<1>2. view \in Nat
  BY DEF Sane
<1> QED
  BY <1>1, <1>2 DEF Ballots, OneTip, SignedBy

(* The presets are those of a scenario, of which only Capitulation has a Capitulator. *)
Assigned == \E scenario \in Scenarios : behavior = AssignBehaviors(scenario, F)

LEMMA Corrupt ==
  ASSUME NEW c \in Nat, c <= N
  PROVE  Cardinality((N - c) + 1..N) = c
<1>1. N \in Nat
  BY NodeFacts
<1>2. PICK a \in Nat : a = N - c
  BY <1>1
<1>3. Cardinality(a + 1..N) = IF a + 1 > N THEN 0 ELSE N - (a + 1) + 1
  BY <1>1, FS_Interval
<1> QED
  BY <1>1, <1>2, <1>3

LEMMA NoCapitulators ==
  ASSUME Assigned, Tolerated
  PROVE  Capitulators = {}
<1>1. PICK scenario \in Scenarios : behavior = AssignBehaviors(scenario, F)
  BY DEF Assigned
<1>2. N \in Nat /\ F \in Nat /\ F + 1 <= N
  BY NodeFacts
<1>3. CASE scenario = "Capitulation"
  <2>1. \A r \in Node : behavior[r] = IF r > N - (F + 1) THEN "Capitulator" ELSE "Honest"
    BY <1>1, <1>3 DEF AssignBehaviors
  <2>2. Node \ Honest = (N - (F + 1)) + 1..N
    BY <2>1, <1>2 DEF Honest, Node
  <2>3. Cardinality((N - (F + 1)) + 1..N) = F + 1
    BY <1>2, Corrupt
  <2>4. PICK k : k = Cardinality(Node \ Honest)
    OBVIOUS
  <2>5. k = F + 1 /\ k <= F
    BY <2>2, <2>3, <2>4 DEF Tolerated
  <2>6. FALSE
    BY <2>5, <1>2
  <2> QED
    BY <2>6
<1>4. CASE scenario # "Capitulation"
  <2>1. scenario \in AllScenarios
    BY EngineAssumption
  <2>2. ASSUME NEW r \in Node PROVE behavior[r] # "Capitulator"
    <3>1. CASE scenario = "Happy"
      <4>1. behavior[r] = "Honest"
        BY <3>1, <1>1, <1>2 DEF AssignBehaviors, Node
      <4> QED
        BY <4>1
    <3>2. CASE scenario \in {"SilentLeader", "Equivocation"}
      BY <3>2, <1>1 DEF AssignBehaviors
    <3>3. CASE scenario = "FakeLeader"
      BY <3>3, <1>1 DEF AssignBehaviors
    <3>4. CASE scenario \in {"NonVoter", "FullAttack"}
      BY <3>4, <1>1 DEF AssignBehaviors
    <3> QED
      BY <3>1, <3>2, <3>3, <3>4, <2>1, <1>4 DEF AllScenarios
  <2> QED
    BY <2>2 DEF Capitulators
<1> QED
  BY <1>3, <1>4

LEMMA AssignedInv == Spec => []Assigned
<1>1. Init => Assigned
  BY DEF Init, Assigned
<1>2. Assigned /\ [Next]_vars => Assigned'
  <2>1. [Next]_vars => behavior' = behavior
    BY DEF Next, vars, given, AskLeader, Deliver, EndDelivery, FireTimer, CollectDummyVotes, RouteDummyVote, ReadStates
  <2> QED
    BY <2>1 DEF Assigned
<1> QED
  BY <1>1, <1>2, PTL DEF Spec

LEMMA BallotsInv == ElectsNodes /\ QueueFits /\ Spec => [](Capitulators = {} => Ballots)
<1> SUFFICES ASSUME ElectsNodes, QueueFits PROVE Spec => [](Capitulators = {} => Ballots)
  BY DEF ElectsNodes, QueueFits
<1> DEFINE I == Capitulators = {} => Ballots
<1>1. Init => I
  BY InitBallots
<1>2. Running /\ Ends /\ Ends' /\ I /\ [Next]_vars => I'
  <2> SUFFICES ASSUME Running, Ends, Ends', I, [Next]_vars, Capitulators' = {} PROVE Ballots'
    OBVIOUS
  <2>1. behavior' = behavior
    BY DEF Next, vars, given, AskLeader, Deliver, EndDelivery, FireTimer, CollectDummyVotes, RouteDummyVote, ReadStates
  <2>2. Capitulators = {} /\ Ballots
    BY <2>1 DEF Capitulators
  <2>3. UNCHANGED vars => Ballots'
    BY <2>2 DEF vars, Ballots, SignedBy, OneTip, Inside, Outside, Backed
  <2> HIDE DEF I
  <2> QED
    BY <2>2, <2>3, AskBallots, DeliverBallots, EndDeliveryBallots, FireTimerBallots, CollectBallots, RouteBallots,
       ReadBallots DEF Next, Running
<1> QED
  BY <1>1, <1>2, RunningInv, EndsInv, PTL DEF Spec

(* All honest replicas end every view with the same tip, while no more nodes are
   naughty than the protocol tolerates, an equivocating leader included.    *)
THEOREM Agreement == ElectsNodes /\ QueueFits /\ Spec => []AgreeWithinFaults
<1> SUFFICES ASSUME ElectsNodes, QueueFits PROVE Spec => []AgreeWithinFaults
  BY DEF ElectsNodes, QueueFits
<1>1. Assigned /\ (Capitulators = {} => Ballots) => AgreeWithinFaults
  <2> SUFFICES ASSUME Assigned, Capitulators = {} => Ballots, AtEnd, Tolerated PROVE ~Diverged
    BY DEF AgreeWithinFaults
  <2>1. OneTip
    BY NoCapitulators DEF AtEnd, Ballots
  <2> QED
    BY <2>1 DEF OneTip, Diverged, Honest
<1> QED
  BY <1>1, AssignedInv, BallotsInv, PTL
=============================================================================

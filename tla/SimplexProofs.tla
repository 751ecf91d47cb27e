---------------------------- MODULE SimplexProofs ----------------------------
(***************************************************************************)
(* Proofs about Simplex, for every N, T, F, Behavior and Elect that meet   *)
(* QuorumAssumption and FaultAssumption, and for every bound.              *)
(*                                                                         *)
(* Quorums of T nodes share an honest one (QuorumsMeet). Blocks are chains *)
(* (BlockFacts). Messages are never taken back, so what a quorum certified *)
(* stays certified (CertifiedGrows, AccountedGrows). The invariant IInv is *)
(* preserved by the four things a step does: a vote, a dummy vote, and     *)
(* leaving the view with a notarized block or with a nullification         *)
(* (VoteInv, DummyVoteInv, NotarizedInv, NullifiedInv); each handler is    *)
(* one of those. The theorems of the paper follow from IInv. StepShape is  *)
(* what a step does to tips and views, and OrderInv what it keeps about    *)
(* the views along a chain; FinalizedKept follows from those.              *)
(***************************************************************************)
EXTENDS Simplex, FiniteSetTheorems, SequenceTheorems, TLAPS

LEMMA NodeFinite == IsFiniteSet(Node) /\ Cardinality(Node) = N
  BY QuorumAssumption, FS_Interval DEF Node

LEMMA QuorumHonest ==
  ASSUME NEW S, S \subseteq Node, Quorum(S)
  PROVE  \E r \in S : r \in Honest
<1>1. SUFFICES ASSUME S \subseteq Node \ Honest PROVE FALSE
  BY DEF Honest
<1>2. IsFiniteSet(Node \ Honest)
  BY NodeFinite, FS_Difference
<1>3. Cardinality(S) <= Cardinality(Node \ Honest) /\ Cardinality(S) \in Nat /\ Cardinality(Node \ Honest) \in Nat
  BY <1>1, <1>2, FS_Subset, FS_CardinalityType
<1> QED
  BY <1>3, QuorumAssumption, FaultAssumption DEF Quorum

LEMMA QuorumsMeet ==
  ASSUME NEW S1, NEW S2, S1 \subseteq Node, S2 \subseteq Node, Quorum(S1), Quorum(S2)
  PROVE  \E r \in S1 \cap S2 : r \in Honest
<1>1. SUFFICES ASSUME S1 \cap S2 \subseteq Node \ Honest PROVE FALSE
  BY DEF Honest
<1>2. IsFiniteSet(Node \ Honest) /\ IsFiniteSet(S1) /\ IsFiniteSet(S2) /\ IsFiniteSet(S1 \cup S2)
  BY NodeFinite, FS_Difference, FS_Subset, S1 \cup S2 \subseteq Node
<1>3. Cardinality(S1 \cap S2) <= Cardinality(Node \ Honest)
  BY <1>1, <1>2, FS_Subset
<1>4. Cardinality(S1 \cup S2) <= N
  BY NodeFinite, FS_Subset, S1 \cup S2 \subseteq Node
<1>5. Cardinality(S1 \cup S2) = Cardinality(S1) + Cardinality(S2) - Cardinality(S1 \cap S2)
  BY <1>2, FS_Union
<1>6. /\ Cardinality(S1) \in Nat /\ Cardinality(S2) \in Nat /\ Cardinality(S1 \cap S2) \in Nat
      /\ Cardinality(Node \ Honest) \in Nat
  BY <1>2, FS_CardinalityType, FS_Subset
<1> QED
  BY <1>3, <1>4, <1>5, <1>6, QuorumAssumption, FaultAssumption DEF Quorum

LEMMA QuorumGrows ==
  ASSUME NEW S1, NEW S2, S1 \subseteq S2, S2 \subseteq Node, Quorum(S1)
  PROVE  Quorum(S2)
<1>1. IsFiniteSet(S2)
  BY NodeFinite, FS_Subset
<1>2. Cardinality(S1) <= Cardinality(S2) /\ Cardinality(S1) \in Nat /\ Cardinality(S2) \in Nat
  BY <1>1, FS_Subset, FS_CardinalityType
<1> QED
  BY <1>2, QuorumAssumption DEF Quorum

-----------------------------------------------------------------------------
LEMMA FrontFacts ==
  ASSUME NEW S, NEW s \in Seq(S), s # << >>
  PROVE  /\ Front(s) \in Seq(S)
         /\ IsPrefix(Front(s), s)
<1>1. Front(s) \in Seq(S)
  BY DEF Front
<1>2. Len(Front(s)) = Len(s) - 1
  <2>1. Len(s) \in Nat /\ Len(s) # 0
    OBVIOUS
  <2>2. Front(s) = [i \in 1..Len(s) - 1 |-> s[i]]
    BY <2>1 DEF Front
  <2> QED
    BY <2>1, <2>2
<1>3. \A i \in 1..Len(s) - 1 : Front(s)[i] = s[i]
  BY DEF Front
<1> QED
  BY <1>1, <1>2, <1>3 DEF IsPrefix

LEMMA BlockFacts ==
  ASSUME NEW b \in Chain \ {Genesis}
  PROVE  /\ ViewOf(b) \in View
         /\ Last(b) \in Entry
         /\ Parent(b) \in Chain
         /\ IsPrefix(Parent(b), b)
         /\ IsPrefix(b, b)
<1>1. Len(b) \in Nat \ {0} /\ Last(b) \in Entry
  BY DEF Chain, Genesis, Last
<1>2. ViewOf(b) \in View
  BY <1>1 DEF ViewOf, Entry
<1>3. Parent(b) \in Chain /\ IsPrefix(Parent(b), b)
  BY FrontFacts DEF Chain, Genesis, Parent
<1>5. IsPrefix(b, b)
  BY DEF Chain, IsPrefix
<1> QED
  BY <1>1, <1>2, <1>3, <1>5

LEMMA AppendFacts ==
  ASSUME NEW c \in Chain, NEW e \in Entry
  PROVE  /\ Append(c, e) \in Chain \ {Genesis}
         /\ ViewOf(Append(c, e)) = e.view
         /\ Parent(Append(c, e)) = c
<1>1. /\ Append(c, e) \in Chain \ {Genesis}
      /\ ViewOf(Append(c, e)) = e.view
  BY DEF Chain, Genesis, ViewOf, Last
<1>2. Parent(Append(c, e)) = c
  BY DEF Chain, Genesis, Parent, Front
<1> QED BY <1>1, <1>2

LEMMA PrefixTransitive ==
  ASSUME NEW a \in Chain, NEW b \in Chain, NEW c \in Chain, IsPrefix(a, b), IsPrefix(b, c)
  PROVE  IsPrefix(a, c)
  BY DEF IsPrefix, Chain

LEMMA EquivocationFacts ==
  ASSUME NEW b \in Chain \ {Genesis}
  PROVE  /\ Equivocation(b) \in Chain \ {Genesis}
         /\ ViewOf(Equivocation(b)) = ViewOf(b)
<1>1. Last(b) \in Entry /\ Parent(b) \in Chain
  BY BlockFacts
<1> DEFINE e == [view |-> Last(b).view, payload |-> "equivocation", proposer |-> Last(b).proposer]
<1>2. e \in Entry /\ e.view = ViewOf(b)
  BY <1>1 DEF Entry, ViewOf
<1>3. Equivocation(b) = Append(Parent(b), e)
  BY DEF Equivocation, Parent
<1> HIDE DEF e
<1> QED
  BY <1>1, <1>2, <1>3, AppendFacts

LEMMA FilterProposalType ==
  ASSUME NEW r \in Node, NEW h, NEW b \in Chain \ {Genesis}
  PROVE  FilterProposal(r, h, b) \subseteq [to : Node, block : Chain \ {Genesis}]
<1>1. Equivocation(b) \in Chain \ {Genesis}
  BY EquivocationFacts
<1> QED
  BY <1>1 DEF FilterProposal

LEMMA SignVotesType ==
  ASSUME NEW r \in Node, NEW b \in Chain \ {Genesis}, NEW hashes \in SUBSET (Chain \ {Genesis})
  PROVE  /\ SignVotes(r, b, hashes) \subseteq [signer : Node, block : Chain \ {Genesis}]
         /\ [signer |-> r, block |-> b] \in SignVotes(r, b, hashes)
         /\ \A v \in SignVotes(r, b, hashes) :
              v.signer = r /\ (r \in Honest => v.block = b)
  BY DEF SignVotes, Honest

LEMMA ProposedType ==
  ASSUME TypeOK, NEW h
  PROVE  Proposed(h) \subseteq Chain \ {Genesis}
  BY DEF Proposed, TypeOK

-----------------------------------------------------------------------------
LEMMA AdvanceViewType ==
  ASSUME TypeOK, NEW r \in Node, view[r] <= MaxView, AdvanceView(r)
  PROVE  /\ view' \in [Node -> 1..MaxView + 1]
         /\ voted_block' \in [Node -> Chain]
         /\ dummy_sent' \in [Node -> BOOLEAN]
         /\ known_blocks' \in [Node -> SUBSET (Chain \ {Genesis})]
<1>1. view' \in [Node -> 1..MaxView + 1]
  <2>1. view[r] + 1 \in 1..MaxView + 1
    BY QuorumAssumption DEF TypeOK
  <2> QED
    BY <2>1 DEF TypeOK, AdvanceView
<1>2. Genesis \in Chain
  BY DEF Genesis, Chain
<1>3. voted_block' \in [Node -> Chain]
  BY <1>2 DEF TypeOK, AdvanceView
<1>4. dummy_sent' \in [Node -> BOOLEAN] /\ known_blocks' \in [Node -> SUBSET (Chain \ {Genesis})]
  BY DEF TypeOK, AdvanceView
<1> QED
  BY <1>1, <1>3, <1>4

LEMMA NotarizedType ==
  ASSUME TypeOK, NEW r \in Node, view[r] <= MaxView,
         NEW b \in Chain \ {Genesis}, Notarized(r, b)
  PROVE  /\ view' \in [Node -> 1..MaxView + 1]
         /\ tip' \in [Node -> Chain]
         /\ voted_block' \in [Node -> Chain]
         /\ dummy_sent' \in [Node -> BOOLEAN]
         /\ known_blocks' \in [Node -> SUBSET (Chain \ {Genesis})]
         /\ finalizes' \subseteq [signer : Node, view : View]
         /\ relays' \subseteq Chain \ {Genesis}
<1>1. view[r] \in View
  BY QuorumAssumption DEF TypeOK, View
<1>2. finalizes' \subseteq [signer : Node, view : View]
  BY <1>1 DEF TypeOK, Notarized
<1>3. tip' \in [Node -> Chain] /\ relays' \subseteq Chain \ {Genesis}
  BY DEF TypeOK, Notarized
<1> QED
  BY <1>2, <1>3, AdvanceViewType DEF Notarized

LEMMA NullifiedType ==
  ASSUME TypeOK, NEW r \in Node, view[r] <= MaxView, Nullified(r)
  PROVE  /\ view' \in [Node -> 1..MaxView + 1]
         /\ seed' \in [Node -> [view : 0..MaxView, block : Chain]]
         /\ voted_block' \in [Node -> Chain]
         /\ dummy_sent' \in [Node -> BOOLEAN]
         /\ known_blocks' \in [Node -> SUBSET (Chain \ {Genesis})]
<1>1. DummySeed(view[r]) \in [view : 0..MaxView, block : Chain]
  BY QuorumAssumption DEF TypeOK, DummySeed, Genesis, Chain
<1>2. seed' \in [Node -> [view : 0..MaxView, block : Chain]]
  BY <1>1 DEF TypeOK, Nullified
<1> QED
  BY <1>2, AdvanceViewType DEF Nullified

LEMMA NotarySeedType ==
  ASSUME NEW b \in Chain \ {Genesis}
  PROVE  NotarySeed(b) \in [view : 0..MaxView, block : Chain]
<1>1. ViewOf(b) \in 0..MaxView
  BY BlockFacts, QuorumAssumption DEF View
<1> QED
  BY <1>1 DEF NotarySeed

LEMMA ProposeType ==
  ASSUME TypeOK, NEW r \in Node, view[r] <= MaxView, HandleProposeRequest(r)
  PROVE  TypeOK'
<1> DEFINE e == [view |-> view[r], payload |-> "block", proposer |-> r]
           b == Append(tip[r], e)
           sent == FilterProposal(r, view[r], b)
<1>1. e \in Entry
  BY QuorumAssumption DEF TypeOK, Entry, View
<1>2. tip[r] \in Chain
  BY DEF TypeOK
<1>3. b \in Chain \ {Genesis}
  <2> HIDE DEF e
  <2> QED
    BY <1>1, <1>2, AppendFacts
<1>4. /\ voted_block' = [voted_block EXCEPT ![r] = b]
      /\ known_blocks' = [known_blocks EXCEPT ![r] = @ \cup {b}]
      /\ proposals' = proposals \cup sent
      /\ votes' = votes \cup SignVotes(r, b, Proposed(view[r]) \cup {p.block : p \in sent})
      /\ UNCHANGED <<view, tip, seed, dummy_sent, nullifies, finalizes, relays, finalized>>
  BY DEF HandleProposeRequest
<1> HIDE DEF b
<1>5. sent \subseteq [to : Node, block : Chain \ {Genesis}]
  BY <1>3, FilterProposalType
<1> HIDE DEF sent
<1> DEFINE hashes == Proposed(view[r]) \cup {p.block : p \in sent}
<1>6. hashes \in SUBSET (Chain \ {Genesis})
  BY <1>5, ProposedType
<1>7. votes' = votes \cup SignVotes(r, b, hashes)
  BY <1>4
<1> HIDE DEF hashes
<1>8. votes' \subseteq [signer : Node, block : Chain \ {Genesis}]
  BY <1>3, <1>6, <1>7, SignVotesType DEF TypeOK
<1>9. known_blocks' \in [Node -> SUBSET (Chain \ {Genesis})] /\ voted_block' \in [Node -> Chain]
  BY <1>3, <1>4 DEF TypeOK
<1> QED
  BY <1>4, <1>5, <1>8, <1>9 DEF TypeOK

LEMMA ProposalType ==
  ASSUME TypeOK, NEW r \in Node, view[r] <= MaxView,
         NEW b \in Chain \ {Genesis}, HandleProposal(r, b)
  PROVE  TypeOK'
<1>1. CASE StoreRejected(r, b)
  BY <1>1 DEF TypeOK, StoreRejected, networkVars
<1>2. CASE VoteFor(r, b)
  <2>1. votes' \subseteq [signer : Node, block : Chain \ {Genesis}]
    BY <1>2, SignVotesType, ProposedType DEF TypeOK, VoteFor
  <2>2. UNCHANGED <<proposals, nullifies, finalized>>
    BY <1>2 DEF VoteFor
  <2>3. CASE /\ voted_block' = [voted_block EXCEPT ![r] = b]
             /\ known_blocks' = [known_blocks EXCEPT ![r] = @ \cup {b}]
             /\ UNCHANGED <<view, tip, seed, dummy_sent, finalizes, relays>>
    BY <2>1, <2>2, <2>3 DEF TypeOK
  <2>4. CASE Notarized(r, b) /\ seed' = [seed EXCEPT ![r] = NotarySeed(b)]
    BY <2>1, <2>2, <2>4, NotarizedType, NotarySeedType DEF TypeOK
  <2> QED
    BY <1>2, <2>3, <2>4 DEF VoteFor
<1> QED
  BY <1>1, <1>2 DEF HandleProposal

LEMMA TimeoutType ==
  ASSUME TypeOK, NEW r \in Node, view[r] <= MaxView, HandleTimeout(r)
  PROVE  TypeOK'
<1>1. nullifies' \subseteq [signer : Node, view : View]
  BY QuorumAssumption DEF TypeOK, HandleTimeout, View
<1>2. UNCHANGED <<tip, proposals, votes, finalizes, relays, finalized>>
  BY DEF HandleTimeout
<1>3. CASE dummy_sent' = [dummy_sent EXCEPT ![r] = TRUE] /\ UNCHANGED <<view, seed, voted_block, known_blocks>>
  BY <1>1, <1>2, <1>3 DEF TypeOK
<1>4. CASE Nullified(r)
  BY <1>1, <1>2, <1>4, NullifiedType DEF TypeOK
<1> QED
  BY <1>3, <1>4 DEF HandleTimeout

LEMMA InitType ==
  ASSUME Init
  PROVE  TypeOK
<1>1. Genesis \in Chain
  BY DEF Genesis, Chain
<1>2. GenesisSeed \in [view : 0..MaxView, block : Chain]
  BY <1>1, QuorumAssumption DEF GenesisSeed
<1>3. 1 \in 1..MaxView + 1
  BY QuorumAssumption
<1> QED
  BY <1>1, <1>2, <1>3 DEF Init, TypeOK

LEMMA TypeStep ==
  ASSUME TypeOK, [Next]_vars
  PROVE  TypeOK'
<1>1. ASSUME NEW r \in Node, view[r] <= MaxView, HandleProposeRequest(r) PROVE TypeOK'
  BY <1>1, ProposeType
<1>2. ASSUME NEW r \in Node, view[r] <= MaxView, NEW p \in proposals, HandleProposal(r, p.block)
      PROVE  TypeOK'
  <2>1. p.block \in Chain \ {Genesis}
    BY DEF TypeOK
  <2> QED
    BY <1>2, <2>1, ProposalType
<1>3. ASSUME NEW r \in Node, view[r] <= MaxView, HandleTimeout(r) PROVE TypeOK'
  BY <1>3, TimeoutType
<1>4. ASSUME NEW r \in Node, view[r] <= MaxView, NEW b \in known_blocks[r], HandleVote(r, b)
      PROVE  TypeOK'
  <2>1. b \in Chain \ {Genesis}
    BY DEF TypeOK
  <2>2. /\ Notarized(r, b)
        /\ seed' = [seed EXCEPT ![r] = NotarySeed(b)]
        /\ UNCHANGED <<proposals, votes, nullifies, finalized>>
    BY <1>4 DEF HandleVote
  <2> QED
    BY <1>4, <2>1, <2>2, NotarizedType, NotarySeedType DEF TypeOK
<1>5. ASSUME NEW r \in Node, view[r] <= MaxView, HandleNullifyVote(r) PROVE TypeOK'
  BY <1>5, NullifiedType DEF TypeOK, HandleNullifyVote, networkVars
<1>6. ASSUME NEW r \in Node, view[r] <= MaxView, NEW b \in relays, HandleNotarization(r, b)
      PROVE  TypeOK'
  <2>1. b \in Chain \ {Genesis}
    BY DEF TypeOK
  <2>2. /\ Notarized(r, b)
        /\ UNCHANGED <<seed, proposals, votes, nullifies, finalized>>
    BY <1>6 DEF HandleNotarization
  <2> QED
    BY <1>6, <2>1, <2>2, NotarizedType DEF TypeOK
<1>7. ASSUME NEW r \in Node, NEW h \in View, HandleFinalizeVote(r, h) PROVE TypeOK'
  BY <1>7 DEF TypeOK, HandleFinalizeVote, replicaVars, networkVars
<1>8. ASSUME NEW r \in Node, NEW h \in View, ForgeNullifyVote(r, h) PROVE TypeOK'
  BY <1>8 DEF TypeOK, ForgeNullifyVote, replicaVars
<1>9. CASE UNCHANGED vars
  BY <1>9 DEF TypeOK, vars
<1> QED
  BY <1>1, <1>2, <1>3, <1>4, <1>5, <1>6, <1>7, <1>8, <1>9 DEF Next

(* Every state of every run has the declared types: views never run past the
   bound, and every stored or sent block is a well-formed, non-empty chain.  *)
THEOREM TypeCorrect == Spec => []TypeOK
<1>1. Init => TypeOK
  BY InitType
<1>2. TypeOK /\ [Next]_vars => TypeOK'
  BY TypeStep
<1> QED
  BY <1>1, <1>2, PTL DEF Spec

-----------------------------------------------------------------------------
(* Votes are never taken back, so what is certified or accounted for stays so. *)
LEMMA CertifiedGrows ==
  ASSUME votes \subseteq votes', NEW b, Certified(b)
  PROVE  Certified(b)'
<1>1. Voters(b) \subseteq Voters(b)' /\ Voters(b)' \subseteq Node
  BY DEF Voters
<1>2. Quorum(Voters(b))
  BY DEF Certified
<1>3. Quorum(Voters(b)')
  BY <1>1, <1>2, QuorumGrows
<1> QED
  BY <1>3 DEF Certified, Quorum

LEMMA NullifiedGrows ==
  ASSUME nullifies \subseteq nullifies', NEW h, Quorum(Nullifiers(h))
  PROVE  Quorum(Nullifiers(h))'
<1>1. Nullifiers(h) \subseteq Nullifiers(h)' /\ Nullifiers(h)' \subseteq Node
  BY DEF Nullifiers
<1>2. Quorum(Nullifiers(h)')
  BY <1>1, QuorumGrows
<1> QED
  BY <1>2 DEF Quorum

LEMMA AccountedGrows ==
  ASSUME votes \subseteq votes', nullifies \subseteq nullifies',
         NEW c, NEW h, Accounted(c, h)
  PROVE  Accounted(c, h)'
<1>1. SUFFICES ASSUME NEW g \in 1..h - 1
               PROVE  \/ Quorum(Nullifiers(g))'
                      \/ \E a \in VotedBlocks' : Certified(a)' /\ ViewOf(a) = g /\ IsPrefix(a, c)
  BY DEF Accounted, ViewOf, Last, IsPrefix
<1>2. CASE Quorum(Nullifiers(g))
  BY <1>2, NullifiedGrows
<1>3. CASE \E a \in VotedBlocks : Certified(a) /\ ViewOf(a) = g /\ IsPrefix(a, c)
  <2>1. PICK a \in VotedBlocks : Certified(a) /\ ViewOf(a) = g /\ IsPrefix(a, c)
    BY <1>3
  <2>2. a \in VotedBlocks'
    BY DEF VotedBlocks
  <2>3. Certified(a)'
    BY <2>1, CertifiedGrows
  <2> QED
    BY <2>1, <2>2, <2>3
<1> QED
  BY <1>2, <1>3 DEF Accounted

(* A block that extends an accounted chain, at the view the chain accounts up
   to and certified, is accounted for one view more.                       *)
LEMMA AccountedExtends ==
  ASSUME TypeOK', NEW b \in Chain \ {Genesis}, NEW h \in View, ViewOf(b) = h,
         Accounted(Parent(b), h)', b \in VotedBlocks', Certified(b)'
  PROVE  Accounted(b, h + 1)'
<1>1. SUFFICES ASSUME NEW g \in 1..h
               PROVE  \/ Quorum(Nullifiers(g))'
                      \/ \E a \in VotedBlocks' : Certified(a)' /\ ViewOf(a) = g /\ IsPrefix(a, b)
  BY QuorumAssumption DEF Accounted, View
<1>2. CASE g = h
  BY <1>2, BlockFacts
<1>3. CASE g # h
  <2>1. g \in 1..h - 1
    BY <1>3, QuorumAssumption DEF View
  <2>2. CASE Quorum(Nullifiers(g))'
    BY <2>2
  <2>3. CASE \E a \in VotedBlocks' : Certified(a)' /\ ViewOf(a) = g /\ IsPrefix(a, Parent(b))
    <3>1. PICK a \in VotedBlocks' : Certified(a)' /\ ViewOf(a) = g /\ IsPrefix(a, Parent(b))
      BY <2>3
    <3>2. a \in Chain
      BY DEF VotedBlocks, TypeOK
    <3>3. IsPrefix(a, b)
      BY <3>1, <3>2, BlockFacts, PrefixTransitive
    <3> QED
      BY <3>1, <3>3
  <2> QED
    BY <2>1, <2>2, <2>3 DEF Accounted
<1> QED
  BY <1>2, <1>3

LEMMA AccountedNullified ==
  ASSUME NEW c, NEW h \in View, Accounted(c, h)', Quorum(Nullifiers(h))'
  PROVE  Accounted(c, h + 1)'
<1>1. SUFFICES ASSUME NEW g \in 1..h
               PROVE  \/ Quorum(Nullifiers(g))'
                      \/ \E a \in VotedBlocks' : Certified(a)' /\ ViewOf(a) = g /\ IsPrefix(a, c)
  BY QuorumAssumption DEF Accounted, View
<1>2. CASE g = h
  BY <1>2
<1>3. CASE g # h
  <2>1. g \in 1..h - 1
    BY <1>3, QuorumAssumption DEF View
  <2> QED
    BY <2>1 DEF Accounted
<1> QED
  BY <1>2, <1>3

-----------------------------------------------------------------------------
(* The new votes of a step, when r is the only signer.                     *)
NewVotes(r, b) ==
  /\ votes \subseteq votes'
  /\ \A v \in votes' \ votes : v.signer = r /\ (r \in Honest => v.block = b)

(* A vote of r in view[r] before it has voted there breaks no rule.        *)
LEMMA VoteOnceKept ==
  ASSUME IInv, TypeOK', NEW r \in Node, NEW b \in Chain \ {Genesis}, ViewOf(b) = view[r],
         NewVotes(r, b), votes' = votes \/ voted_block[r] = Genesis
  PROVE  VoteOnce'
<1>1. SUFFICES ASSUME NEW v \in votes', NEW w \in votes', v.signer = w.signer,
                      v.signer \in Honest, ViewOf(v.block) = ViewOf(w.block)
               PROVE  v.block = w.block
  BY DEF VoteOnce, ViewOf, Last
<1>2. \A u \in votes : u.signer = r /\ r \in Honest /\ ViewOf(u.block) = view[r] =>
         voted_block[r] = u.block /\ u.block # Genesis
  <2>1. view[r] \in Int
    BY QuorumAssumption DEF IInv, TypeOK
  <2>2. \A u \in votes : u.block # Genesis
    BY DEF IInv, TypeOK
  <2> QED
    BY <2>1, <2>2 DEF IInv, Forward
<1>3. CASE v \in votes /\ w \in votes
  BY <1>1, <1>3 DEF IInv, VoteOnce
<1>4. CASE v \notin votes /\ w \notin votes
  BY <1>1, <1>4 DEF NewVotes
<1>5. CASE v \notin votes /\ w \in votes
  BY <1>1, <1>2, <1>5 DEF NewVotes
<1>6. CASE v \in votes /\ w \notin votes
  BY <1>1, <1>2, <1>6 DEF NewVotes
<1> QED
  BY <1>3, <1>4, <1>5, <1>6

LEMMA VoteJustifiedKept ==
  ASSUME IInv, TypeOK', NEW r \in Node, NEW b \in Chain \ {Genesis}, ViewOf(b) = view[r],
         NewVotes(r, b), votes' = votes \/ Parent(b) = tip[r],
         nullifies \subseteq nullifies'
  PROVE  VoteJustified'
<1>1. SUFFICES ASSUME NEW v \in votes', v.signer \in Honest
               PROVE  Accounted(Parent(v.block), ViewOf(v.block))'
  BY DEF VoteJustified
<1>2. votes \subseteq votes'
  BY DEF NewVotes
<1>3. CASE v \in votes
  <2>1. Accounted(Parent(v.block), ViewOf(v.block))
    BY <1>1, <1>3 DEF IInv, VoteJustified
  <2> QED
    BY <1>2, <2>1, AccountedGrows
<1>4. CASE v \notin votes
  <2>1. r \in Honest /\ v.block = b /\ Parent(b) = tip[r]
    BY <1>1, <1>4 DEF NewVotes
  <2>2. Accounted(Parent(b), ViewOf(b))
    BY <2>1 DEF IInv, ChainAccounted
  <2>3. Accounted(Parent(b), ViewOf(b))'
    BY <1>2, <2>2, AccountedGrows
  <2> QED
    BY <2>1, <2>3
<1> QED
  BY <1>3, <1>4

LEMMA SameVotesJustified ==
  ASSUME IInv, votes' = votes, nullifies \subseteq nullifies'
  PROVE  VoteJustified'
<1>1. ASSUME NEW v \in votes, v.signer \in Honest
      PROVE  Accounted(Parent(v.block), ViewOf(v.block))'
  BY <1>1, AccountedGrows DEF IInv, VoteJustified
<1> QED
  BY <1>1 DEF VoteJustified

(* Replicas that keep their tip and view stay accounted for.               *)
LEMMA StayAccounted ==
  ASSUME IInv, UNCHANGED <<view, tip>>,
         votes \subseteq votes', nullifies \subseteq nullifies'
  PROVE  ChainAccounted'
<1>1. ASSUME NEW s \in Honest PROVE Accounted(tip[s], view[s])'
  <2>1. PICK c, h : c = tip[s] /\ h = view[s]
    OBVIOUS
  <2>2. Accounted(c, h)
    BY <2>1 DEF IInv, ChainAccounted
  <2>3. Accounted(c, h)'
    BY <2>2, AccountedGrows
  <2> QED
    BY <2>1, <2>3
<1> QED
  BY <1>1 DEF ChainAccounted

-----------------------------------------------------------------------------
(* The steps in which replica r leaves its view with a notarized block.    *)
LEMMA NotarizedInv ==
  ASSUME IInv, TypeOK', NEW r \in Node, view[r] <= MaxView,
         NEW b \in Chain \ {Genesis}, ViewOf(b) = view[r],
         Notarized(r, b), NewVotes(r, b),
         votes' = votes \/ (voted_block[r] = Genesis /\ Parent(b) = tip[r]),
         nullifies' = nullifies, Certified(b)'
  PROVE  IInv'
<1>1. view[r] \in View /\ \A s \in Node : view[s] \in Int
  BY QuorumAssumption DEF IInv, TypeOK, View
<1>2. /\ view' = [view EXCEPT ![r] = @ + 1]
      /\ voted_block' = [voted_block EXCEPT ![r] = Genesis]
      /\ dummy_sent' = [dummy_sent EXCEPT ![r] = FALSE]
      /\ known_blocks' = [known_blocks EXCEPT ![r] = {}]
      /\ tip' = [tip EXCEPT ![r] = b]
      /\ relays' = relays \cup {b}
      /\ finalizes \subseteq finalizes'
      /\ finalizes' \subseteq finalizes \cup {[signer |-> r, view |-> view[r]]}
      /\ dummy_sent[r] => finalizes' = finalizes
  BY DEF Notarized, AdvanceView
<1>3. votes \subseteq votes'
  BY DEF NewVotes
<1>4. /\ view'[r] = view[r] + 1 /\ voted_block'[r] = Genesis /\ ~dummy_sent'[r]
      /\ known_blocks'[r] = {} /\ tip'[r] = b
      /\ \A s \in Node \ {r} :
           /\ view'[s] = view[s] /\ voted_block'[s] = voted_block[s] /\ tip'[s] = tip[s]
           /\ dummy_sent'[s] = dummy_sent[s] /\ known_blocks'[s] = known_blocks[s]
  BY <1>2 DEF IInv, TypeOK
<1>5. Remembered'
  BY <1>3, <1>4 DEF IInv, Remembered, Voters, Nullifiers
<1>6. Forward'
  <2>1. ASSUME NEW v \in votes', v.signer \in Honest
        PROVE  \/ ViewOf(v.block) < view'[v.signer]
               \/ ViewOf(v.block) = view'[v.signer] /\ voted_block'[v.signer] = v.block
    <3>1. CASE v.signer = r
      <4>1. v.block = b \/ v \in votes
        BY <2>1, <3>1 DEF NewVotes
      <4>2. v.block \in Chain \ {Genesis}
        BY DEF TypeOK
      <4>3. ViewOf(v.block) \in Int
        BY <4>2, BlockFacts, QuorumAssumption DEF View
      <4>4. ViewOf(v.block) <= view[r]
        BY <1>1, <2>1, <3>1, <4>1, <4>3 DEF IInv, Forward
      <4> QED
        BY <1>1, <1>4, <3>1, <4>3, <4>4
    <3>2. CASE v.signer # r
      BY <1>4, <2>1, <3>2 DEF IInv, Forward, NewVotes, Honest
    <3> QED
      BY <3>1, <3>2
  <2>2. \A s \in Honest, h \in View : s \in Nullifiers(h)' => h < view'[s] \/ (h = view'[s] /\ dummy_sent'[s])
    <3>1. ASSUME NEW s \in Honest, NEW h \in View, s \in Nullifiers(h)
          PROVE  h < view'[s] \/ (h = view'[s] /\ dummy_sent'[s])
      BY <1>1, <1>4, <3>1, QuorumAssumption DEF IInv, Forward, Honest, View
    <3> QED
      BY <3>1 DEF Nullifiers
  <2>3. \A s \in Honest, h \in View : s \in Finalizers(h)' => h < view'[s]
    <3>1. ASSUME NEW s \in Honest, NEW h \in View, s \in Finalizers(h)'
          PROVE  s \in Finalizers(h) \/ (s = r /\ h = view[r])
      BY <1>2, <3>1 DEF Finalizers
    <3> QED
      BY <1>1, <1>4, <3>1, QuorumAssumption DEF IInv, Forward, Honest, View
  <2> QED
    BY <2>1, <2>2, <2>3 DEF Forward, ViewOf, Last
<1>7. VoteOnce'
  BY VoteOnceKept
<1>8. EitherOr'
  <2>1. ASSUME NEW s \in Honest, NEW h \in View, s \in Finalizers(h)', s \in Nullifiers(h)'
        PROVE  FALSE
    <3>1. s \in Nullifiers(h)
      BY <2>1 DEF Nullifiers
    <3>2. CASE s \in Finalizers(h)
      BY <3>1, <3>2 DEF IInv, EitherOr
    <3>3. CASE s \notin Finalizers(h)
      <4>1. s = r /\ h = view[r] /\ ~dummy_sent[r]
        BY <1>2, <2>1, <3>3 DEF Finalizers
      <4> QED
        BY <1>1, <3>1, <4>1 DEF IInv, Forward
    <3> QED
      BY <3>2, <3>3
  <2> QED
    BY <2>1 DEF EitherOr
<1>9. VoteJustified'
  BY VoteJustifiedKept
<1>10. ChainAccounted'
  <2>1. ASSUME NEW s \in Honest PROVE Accounted(tip[s], view[s])'
    <3>1. CASE s # r
      <4>1. PICK c, h : c = tip[s] /\ h = view[s]
        OBVIOUS
      <4>2. Accounted(c, h)
        BY <4>1 DEF IInv, ChainAccounted
      <4>3. Accounted(c, h)'
        BY <1>3, <4>2, AccountedGrows
      <4>4. tip'[s] = c /\ view'[s] = h
        BY <1>4, <3>1, <4>1 DEF Honest
      <4> QED
        BY <4>3, <4>4
    <3>2. CASE s = r
      <4>1. PICK h \in View : h = view[r]
        BY <1>1
      <4>2. PICK q \in Voters(b)' : q \in Honest
        <5>1. Voters(b)' \subseteq Node /\ Quorum(Voters(b)')
          BY DEF Voters, Certified, Quorum
        <5> QED
          BY <5>1, QuorumHonest
      <4>3. [signer |-> q, block |-> b] \in votes'
        BY <4>2 DEF Voters
      <4>4. Accounted(Parent(b), h)'
        BY <1>9, <4>1, <4>2, <4>3 DEF VoteJustified
      <4>5. b \in VotedBlocks'
        BY <4>3 DEF VotedBlocks
      <4>6. Accounted(b, h + 1)'
        BY <4>1, <4>4, <4>5, AccountedExtends
      <4> QED
        BY <1>4, <3>2, <4>1, <4>6
    <3> QED
      BY <3>1, <3>2
  <2> QED
    BY <2>1 DEF ChainAccounted
<1>11. RelayCertified'
  BY <1>2, <1>3, CertifiedGrows DEF IInv, RelayCertified
<1>12. TipCertified'
  BY <1>3, <1>4, CertifiedGrows DEF IInv, TipCertified
<1> QED
  BY <1>5, <1>6, <1>7, <1>8, <1>9, <1>10, <1>11, <1>12 DEF IInv

(* The steps in which replica r votes and stays in its view.               *)
LEMMA VoteInv ==
  ASSUME IInv, TypeOK', NEW r \in Node,
         NEW b \in Chain \ {Genesis}, ViewOf(b) = view[r], Parent(b) = tip[r],
         voted_block[r] = Genesis, NewVotes(r, b), [signer |-> r, block |-> b] \in votes',
         voted_block' = [voted_block EXCEPT ![r] = b],
         known_blocks' = [known_blocks EXCEPT ![r] = @ \cup {b}],
         UNCHANGED <<view, tip, dummy_sent, nullifies, finalizes, relays>>
  PROVE  IInv'
<1>1. votes \subseteq votes'
  BY DEF NewVotes
<1>2. /\ voted_block'[r] = b /\ known_blocks'[r] = known_blocks[r] \cup {b}
      /\ \A s \in Node \ {r} :
           voted_block'[s] = voted_block[s] /\ known_blocks'[s] = known_blocks[s]
  BY DEF IInv, TypeOK
<1>3. Remembered'
  BY <1>1, <1>2 DEF IInv, Remembered, Voters, Nullifiers
<1>4. Forward'
  <2>1. ASSUME NEW v \in votes', v.signer \in Honest
        PROVE  \/ ViewOf(v.block) < view[v.signer]
               \/ ViewOf(v.block) = view[v.signer] /\ voted_block'[v.signer] = v.block
    <3>1. CASE v \notin votes
      BY <1>2, <2>1, <3>1 DEF NewVotes
    <3>2. CASE v \in votes
      <4>1. v.block # Genesis
        BY <3>2 DEF IInv, TypeOK
      <4>2. \/ ViewOf(v.block) < view[v.signer]
            \/ ViewOf(v.block) = view[v.signer] /\ voted_block[v.signer] = v.block
        BY <2>1, <3>2 DEF IInv, Forward
      <4> QED
        BY <1>2, <2>1, <4>1, <4>2 DEF Honest
    <3> QED
      BY <3>1, <3>2
  <2> QED
    BY <2>1 DEF IInv, Forward, Nullifiers, Finalizers
<1>5. VoteOnce'
  BY VoteOnceKept
<1>6. EitherOr'
  BY DEF IInv, EitherOr, Nullifiers, Finalizers
<1>7. VoteJustified'
  BY VoteJustifiedKept
<1>8. ChainAccounted'
  BY <1>1, StayAccounted
<1>9. RelayCertified'
  BY <1>1, CertifiedGrows DEF IInv, RelayCertified
<1>10. TipCertified'
  BY <1>1, CertifiedGrows DEF IInv, TipCertified
<1> QED
  BY <1>3, <1>4, <1>5, <1>6, <1>7, <1>8, <1>9, <1>10 DEF IInv

(* The steps that add dummy votes of replica r for its own view and leave it
   there, or of a naughty replica for any view.                            *)
LEMMA DummyVoteInv ==
  ASSUME IInv, TypeOK', NEW r \in Node, NEW h \in View, r \in Honest => h = view[r],
         nullifies' = nullifies \cup {[signer |-> r, view |-> h]},
         \/ dummy_sent' = dummy_sent /\ r \notin Honest
         \/ dummy_sent' = [dummy_sent EXCEPT ![r] = TRUE] /\ h = view[r],
         UNCHANGED <<view, tip, voted_block, known_blocks, votes, finalizes, relays>>
  PROVE  IInv'
<1>1. /\ nullifies \subseteq nullifies' /\ r \in Nullifiers(h)'
      /\ \A s \in Node, g \in View : s \in Nullifiers(g)' => s \in Nullifiers(g) \/ (s = r /\ g = h)
  BY DEF Nullifiers
<1>2. /\ \A s \in Node \ {r} : dummy_sent'[s] = dummy_sent[s]
      /\ r \in Honest => dummy_sent'[r]
      /\ dummy_sent'[r] => dummy_sent[r] \/ h = view[r]
      /\ \A s \in Node : dummy_sent[s] => dummy_sent'[s]
  BY DEF IInv, TypeOK
<1>3. Remembered'
  BY <1>1, <1>2 DEF IInv, Remembered, Voters, Nullifiers
<1>4. \A s \in Honest, g \in View : s \in Nullifiers(g)' => g < view[s] \/ (g = view[s] /\ dummy_sent'[s])
  BY <1>1, <1>2 DEF IInv, Forward, Honest
<1>5. Forward'
  BY <1>4 DEF IInv, Forward, Finalizers
<1>6. EitherOr'
  <2>1. \A g \in View : r \in Honest /\ r \in Finalizers(g) => g # h
    BY QuorumAssumption DEF IInv, Forward, TypeOK, View
  <2> QED
    BY <1>1, <2>1 DEF IInv, EitherOr, Finalizers, Honest
<1>7. VoteOnce'
  BY DEF IInv, VoteOnce
<1>8. NewVotes(r, Genesis) /\ votes \subseteq votes' /\ votes' = votes
  BY DEF NewVotes
<1>9. VoteJustified'
  BY <1>1, <1>8, SameVotesJustified
<1>10. ChainAccounted'
  BY <1>1, <1>8, StayAccounted
<1>11. RelayCertified'
  BY <1>8, CertifiedGrows DEF IInv, RelayCertified
<1>12. TipCertified'
  BY <1>8, CertifiedGrows DEF IInv, TipCertified
<1> QED
  BY <1>3, <1>5, <1>6, <1>7, <1>9, <1>10, <1>11, <1>12 DEF IInv

(* The steps in which replica r leaves its view with a quorum of dummy votes. *)
LEMMA NullifiedInv ==
  ASSUME IInv, TypeOK', NEW r \in Node, NEW h \in View, h = view[r], Nullified(r),
         \/ nullifies' = nullifies
         \/ nullifies' = nullifies \cup {[signer |-> r, view |-> h]},
         Quorum(Nullifiers(h))',
         UNCHANGED <<tip, votes, finalizes, relays>>
  PROVE  IInv'
<1>1. /\ nullifies \subseteq nullifies'
      /\ \A s \in Node, g \in View : s \in Nullifiers(g)' => s \in Nullifiers(g) \/ (s = r /\ g = h)
  BY DEF Nullifiers
<1>2. \A s \in Node : view[s] \in Int
  BY QuorumAssumption DEF IInv, TypeOK
<1>3. /\ view'[r] = h + 1 /\ voted_block'[r] = Genesis /\ ~dummy_sent'[r]
      /\ known_blocks'[r] = {}
      /\ \A s \in Node \ {r} :
           /\ view'[s] = view[s] /\ voted_block'[s] = voted_block[s]
           /\ dummy_sent'[s] = dummy_sent[s] /\ known_blocks'[s] = known_blocks[s]
  BY DEF IInv, TypeOK, Nullified, AdvanceView
<1>4. Remembered'
  BY <1>1, <1>3 DEF IInv, Remembered, Voters, Nullifiers
<1>5. Forward'
  <2>1. ASSUME NEW v \in votes, v.signer \in Honest
        PROVE  \/ ViewOf(v.block) < view'[v.signer]
               \/ ViewOf(v.block) = view'[v.signer] /\ voted_block'[v.signer] = v.block
    <3>1. ViewOf(v.block) \in Int
      BY BlockFacts, QuorumAssumption DEF IInv, TypeOK, View
    <3> QED
      BY <1>2, <1>3, <2>1, <3>1 DEF IInv, Forward, Honest
  <2>2. ASSUME NEW s \in Honest, NEW g \in View
        PROVE  /\ s \in Nullifiers(g)' => g < view'[s] \/ (g = view'[s] /\ dummy_sent'[s])
               /\ s \in Finalizers(g) => g < view'[s]
    BY <1>1, <1>2, <1>3, QuorumAssumption DEF IInv, Forward, Honest, View
  <2> QED
    BY <2>1, <2>2 DEF Forward, Finalizers
<1>6. EitherOr'
  <2>1. \A g \in View : r \in Honest /\ r \in Finalizers(g) => g # h
    BY QuorumAssumption DEF IInv, Forward, TypeOK, View
  <2> QED
    BY <1>1, <2>1 DEF IInv, EitherOr, Finalizers, Honest
<1>7. VoteOnce'
  BY DEF IInv, VoteOnce
<1>8. votes \subseteq votes' /\ votes' = votes
  OBVIOUS
<1>9. VoteJustified'
  BY <1>1, <1>8, SameVotesJustified
<1>10. ChainAccounted'
  <2>1. ASSUME NEW s \in Honest PROVE Accounted(tip[s], view[s])'
    <3>1. PICK c, g : c = tip[s] /\ g = view[s]
      OBVIOUS
    <3>2. Accounted(c, g)
      BY <3>1 DEF IInv, ChainAccounted
    <3>3. Accounted(c, g)'
      BY <1>1, <1>8, <3>2, AccountedGrows
    <3>4. CASE s # r
      BY <1>3, <3>1, <3>3, <3>4 DEF Honest
    <3>5. CASE s = r
      <4>1. Accounted(c, h + 1)'
        BY <3>1, <3>3, <3>5, AccountedNullified
      <4> QED
        BY <1>3, <3>1, <3>5, <4>1
    <3> QED
      BY <3>4, <3>5
  <2> QED
    BY <2>1 DEF ChainAccounted
<1>11. RelayCertified'
  BY <1>8, CertifiedGrows DEF IInv, RelayCertified
<1>12. TipCertified'
  BY <1>8, CertifiedGrows DEF IInv, TipCertified
<1> QED
  BY <1>4, <1>5, <1>6, <1>7, <1>9, <1>10, <1>11, <1>12 DEF IInv

-----------------------------------------------------------------------------
(* All a step does to tips and votes: a replica keeps its tip, or leaves its
   view for a certified block of it; an honest replica votes on its tip.    *)
TipStep(r) ==
  \/ tip'[r] = tip[r] /\ view'[r] >= view[r]
  \/ /\ tip'[r] \in Chain \ {Genesis}
     /\ Certified(tip[r])' /\ ViewOf(tip'[r]) = view[r] /\ view'[r] = view[r] + 1
VoteStep ==
  \A v \in votes' \ votes : v.signer \in Honest =>
    v.block \in Chain \ {Genesis} /\ Parent(v.block) = tip[v.signer]
      /\ ViewOf(v.block) = view[v.signer]
StepShape == (\A r \in Node : TipStep(r)) /\ VoteStep
             /\ votes \subseteq votes' /\ finalizes \subseteq finalizes'

LEMMA StillShape ==
  ASSUME IInv, UNCHANGED <<view, tip, votes, finalizes>>
  PROVE  StepShape
  BY QuorumAssumption DEF StepShape, TipStep, VoteStep, IInv, TypeOK

LEMMA NullifiedShape ==
  ASSUME IInv, NEW r \in Node, Nullified(r), UNCHANGED <<tip, votes, finalizes>>
  PROVE  StepShape
<1>1. \A s \in Node : view'[s] >= view[s]
  BY QuorumAssumption DEF IInv, TypeOK, Nullified, AdvanceView
<1> QED
  BY <1>1 DEF StepShape, TipStep, VoteStep

LEMMA VoteShape ==
  ASSUME IInv, NEW r \in Node, NEW b \in Chain \ {Genesis}, ViewOf(b) = view[r],
         Parent(b) = tip[r], NewVotes(r, b), UNCHANGED <<view, tip, finalizes>>
  PROVE  StepShape
  BY QuorumAssumption DEF StepShape, TipStep, VoteStep, NewVotes, IInv, TypeOK

LEMMA NotarizedShape ==
  ASSUME IInv, NEW r \in Node, NEW b \in Chain \ {Genesis}, ViewOf(b) = view[r],
         Notarized(r, b), NewVotes(r, b), votes' = votes \/ Parent(b) = tip[r], Certified(b)'
  PROVE  StepShape
<1>1. tip'[r] = b /\ view'[r] = view[r] + 1
  BY DEF IInv, TypeOK, Notarized, AdvanceView
<1>2. Certified(tip[r])'
  BY <1>1
<1>3. \A s \in Node \ {r} : tip'[s] = tip[s] /\ view'[s] >= view[s]
  BY QuorumAssumption DEF IInv, TypeOK, Notarized, AdvanceView
<1>4. \A s \in Node : TipStep(s)
  BY <1>1, <1>2, <1>3 DEF TipStep
<1>5. VoteStep
  BY DEF VoteStep, NewVotes
<1> QED
  BY <1>4, <1>5 DEF StepShape, NewVotes, Notarized

-----------------------------------------------------------------------------
(* One lemma per handler.                                                  *)
LEMMA ProposeInv ==
  ASSUME IInv, TypeOK', NEW r \in Node, view[r] <= MaxView, HandleProposeRequest(r)
  PROVE  IInv' /\ StepShape
<1> DEFINE e == [view |-> view[r], payload |-> "block", proposer |-> r]
           b == Append(tip[r], e)
           sent == FilterProposal(r, view[r], b)
           hashes == Proposed(view[r]) \cup {p.block : p \in sent}
<1>1. e \in Entry /\ e.view = view[r] /\ tip[r] \in Chain
  BY QuorumAssumption DEF IInv, TypeOK, Entry, View
<1>2. b \in Chain \ {Genesis} /\ ViewOf(b) = view[r] /\ Parent(b) = tip[r]
  <2> HIDE DEF e
  <2> QED
    BY <1>1, AppendFacts
<1>3. /\ voted_block[r] = Genesis
      /\ voted_block' = [voted_block EXCEPT ![r] = b]
      /\ known_blocks' = [known_blocks EXCEPT ![r] = @ \cup {b}]
      /\ votes' = votes \cup SignVotes(r, b, hashes)
      /\ UNCHANGED <<view, tip, seed, dummy_sent, nullifies, finalizes, relays, finalized>>
  BY DEF HandleProposeRequest
<1> HIDE DEF b
<1>4. hashes \in SUBSET (Chain \ {Genesis})
  BY <1>2, FilterProposalType, ProposedType DEF IInv
<1> HIDE DEF hashes
<1>5. NewVotes(r, b) /\ [signer |-> r, block |-> b] \in votes'
  BY <1>2, <1>3, <1>4, SignVotesType DEF NewVotes
<1> QED
  BY <1>2, <1>3, <1>5, VoteInv, VoteShape

LEMMA ProposalInv ==
  ASSUME IInv, TypeOK', NEW r \in Node, view[r] <= MaxView,
         NEW b \in Chain \ {Genesis}, HandleProposal(r, b)
  PROVE  IInv' /\ StepShape
<1>1. ViewOf(b) = view[r]
  BY DEF HandleProposal
<1>2. CASE StoreRejected(r, b)
  <2>1. /\ known_blocks' = [known_blocks EXCEPT ![r] = @ \cup {b}]
        /\ UNCHANGED <<view, tip, voted_block, dummy_sent, votes, nullifies, finalizes, relays>>
    BY <1>2 DEF StoreRejected, networkVars
  <2>2. Remembered'
    <3>1. \A s \in Node : known_blocks'[s] \subseteq known_blocks[s] \cup (IF s = r THEN {b} ELSE {})
      BY <2>1 DEF IInv, TypeOK
    <3> QED
      BY <1>1, <2>1, <3>1 DEF IInv, Remembered, Voters, Nullifiers
  <2>3. Forward' /\ VoteOnce' /\ EitherOr'
    BY <2>1 DEF IInv, Forward, VoteOnce, EitherOr, Nullifiers, Finalizers
  <2>4. VoteJustified' /\ ChainAccounted'
    BY <2>1, SameVotesJustified, StayAccounted
  <2>5. RelayCertified' /\ TipCertified'
    BY <2>1, CertifiedGrows DEF IInv, RelayCertified, TipCertified
  <2> QED
    BY <2>1, <2>2, <2>3, <2>4, <2>5, StillShape DEF IInv
<1>3. CASE VoteFor(r, b)
  <2>1. voted_block[r] = Genesis /\ Parent(b) = tip[r]
    BY <1>3 DEF VoteFor, Acceptable
  <2>2. /\ votes' = votes \cup SignVotes(r, b, Proposed(view[r]))
        /\ nullifies' = nullifies
    BY <1>3 DEF VoteFor
  <2>3. Proposed(view[r]) \in SUBSET (Chain \ {Genesis})
    BY ProposedType DEF IInv
  <2>4. NewVotes(r, b) /\ [signer |-> r, block |-> b] \in votes'
    BY <2>2, <2>3, SignVotesType DEF NewVotes
  <2>5. CASE /\ voted_block' = [voted_block EXCEPT ![r] = b]
             /\ known_blocks' = [known_blocks EXCEPT ![r] = @ \cup {b}]
             /\ UNCHANGED <<view, tip, seed, dummy_sent, finalizes, relays>>
    BY <1>1, <2>1, <2>2, <2>4, <2>5, VoteInv, VoteShape
  <2>6. CASE Quorum(VotesSeen(r, b) \cup {r}) /\ Notarized(r, b)
    <3>1. VotesSeen(r, b) \cup {r} \subseteq Voters(b)' /\ Voters(b)' \subseteq Node
      BY <2>1, <2>4 DEF VotesSeen, Voters, NewVotes
    <3>2. Quorum(Voters(b)')
      BY <2>6, <3>1, QuorumGrows
    <3>3. Certified(b)'
      BY <3>2 DEF Certified, Quorum
    <3> QED
      BY <1>1, <2>1, <2>2, <2>4, <2>6, <3>3, NotarizedInv, NotarizedShape
  <2> QED
    BY <1>3, <2>5, <2>6 DEF VoteFor
<1> QED
  BY <1>2, <1>3 DEF HandleProposal

LEMMA TimeoutInv ==
  ASSUME IInv, TypeOK', NEW r \in Node, view[r] <= MaxView, HandleTimeout(r)
  PROVE  IInv' /\ StepShape
<1>1. PICK h \in View : h = view[r]
  BY QuorumAssumption DEF IInv, TypeOK, View
<1>2. /\ nullifies' = nullifies \cup {[signer |-> r, view |-> h]}
      /\ UNCHANGED <<tip, votes, finalizes, relays>>
  BY <1>1 DEF HandleTimeout
<1>3. CASE dummy_sent' = [dummy_sent EXCEPT ![r] = TRUE] /\ UNCHANGED <<view, seed, voted_block, known_blocks>>
  BY <1>1, <1>2, <1>3, DummyVoteInv, StillShape
<1>4. CASE Quorum(NullifiesSeen(r) \cup {r}) /\ Nullified(r)
  <2>1. ~dummy_sent[r]
    BY DEF HandleTimeout
  <2>2. NullifiesSeen(r) \cup {r} \subseteq Nullifiers(h)' /\ Nullifiers(h)' \subseteq Node
    BY <1>1, <1>2, <2>1 DEF NullifiesSeen, Nullifiers
  <2>3. Quorum(Nullifiers(h)')
    BY <1>4, <2>2, QuorumGrows
  <2>4. Quorum(Nullifiers(h))'
    BY <2>3 DEF Quorum
  <2> QED
    BY <1>1, <1>2, <1>4, <2>4, NullifiedInv, NullifiedShape
<1> QED
  BY <1>3, <1>4 DEF HandleTimeout

LEMMA VoteMessageInv ==
  ASSUME IInv, TypeOK', NEW r \in Node, view[r] <= MaxView,
         NEW b \in known_blocks[r], HandleVote(r, b)
  PROVE  IInv' /\ StepShape
<1>1. b \in Chain \ {Genesis} /\ ViewOf(b) = view[r]
  BY DEF IInv, TypeOK, Remembered
<1>2. VotesSeen(r, b) \subseteq Voters(b) /\ Voters(b) \subseteq Node
  BY <1>1 DEF VotesSeen, Voters, IInv, Remembered
<1>3. Quorum(Voters(b))
  BY <1>2, QuorumGrows DEF HandleVote
<1>4. Notarized(r, b) /\ UNCHANGED <<votes, nullifies>> /\ NewVotes(r, b)
  BY DEF HandleVote, NewVotes
<1>5. Certified(b)'
  BY <1>3, <1>4, CertifiedGrows DEF Certified
<1> QED
  BY <1>1, <1>4, <1>5, NotarizedInv, NotarizedShape

LEMMA NullifyMessageInv ==
  ASSUME IInv, TypeOK', NEW r \in Node, view[r] <= MaxView, HandleNullifyVote(r)
  PROVE  IInv' /\ StepShape
<1>1. PICK h \in View : h = view[r]
  BY QuorumAssumption DEF IInv, TypeOK, View
<1>2. NullifiesSeen(r) \subseteq Nullifiers(h) /\ Nullifiers(h) \subseteq Node
  BY <1>1 DEF NullifiesSeen, Nullifiers, IInv, Remembered
<1>3. Quorum(Nullifiers(h))
  BY <1>2, QuorumGrows DEF HandleNullifyVote
<1>4. Nullified(r) /\ UNCHANGED <<tip, votes, finalizes, relays, nullifies>>
  BY DEF HandleNullifyVote, networkVars
<1>5. Quorum(Nullifiers(h))'
  BY <1>3, <1>4, NullifiedGrows
<1> QED
  BY <1>1, <1>4, <1>5, NullifiedInv, NullifiedShape

LEMMA NotarizationInv ==
  ASSUME IInv, TypeOK', NEW r \in Node, view[r] <= MaxView,
         NEW b \in relays, HandleNotarization(r, b)
  PROVE  IInv' /\ StepShape
<1>1. b \in Chain \ {Genesis}
  BY DEF IInv, TypeOK
<1>2. /\ ViewOf(b) = view[r] /\ Notarized(r, b)
      /\ UNCHANGED <<votes, nullifies>> /\ NewVotes(r, b)
  BY DEF HandleNotarization, NewVotes
<1>3. Certified(b)'
  BY <1>2, CertifiedGrows DEF IInv, RelayCertified
<1> QED
  BY <1>1, <1>2, <1>3, NotarizedInv, NotarizedShape

LEMMA OtherInv ==
  ASSUME IInv, TypeOK', UNCHANGED <<replicaVars, networkVars>>
  PROVE  IInv' /\ StepShape
<1>1. UNCHANGED <<view, tip, voted_block, dummy_sent, known_blocks,
                  votes, nullifies, finalizes, relays>>
  BY DEF replicaVars, networkVars
<1>2. Remembered' /\ Forward' /\ VoteOnce' /\ EitherOr'
  BY <1>1 DEF IInv, Remembered, Forward, VoteOnce, EitherOr, Voters, Nullifiers, Finalizers
<1>3. VoteJustified' /\ ChainAccounted'
  BY <1>1, SameVotesJustified, StayAccounted
<1>4. RelayCertified' /\ TipCertified'
  BY <1>1, CertifiedGrows DEF IInv, RelayCertified, TipCertified
<1> QED
  BY <1>1, <1>2, <1>3, <1>4, StillShape DEF IInv

LEMMA StepInv ==
  ASSUME IInv, [Next]_vars
  PROVE  IInv' /\ StepShape
<1>1. TypeOK'
  BY TypeStep DEF IInv
<1>2. ASSUME NEW r \in Node, view[r] <= MaxView, HandleProposeRequest(r) PROVE IInv' /\ StepShape
  BY <1>1, <1>2, ProposeInv
<1>3. ASSUME NEW r \in Node, view[r] <= MaxView, NEW p \in proposals, HandleProposal(r, p.block)
      PROVE  IInv' /\ StepShape
  <2>1. p.block \in Chain \ {Genesis}
    BY DEF IInv, TypeOK
  <2> QED
    BY <1>1, <1>3, <2>1, ProposalInv
<1>4. ASSUME NEW r \in Node, view[r] <= MaxView, HandleTimeout(r) PROVE IInv' /\ StepShape
  BY <1>1, <1>4, TimeoutInv
<1>5. ASSUME NEW r \in Node, view[r] <= MaxView, NEW b \in known_blocks[r], HandleVote(r, b)
      PROVE  IInv' /\ StepShape
  BY <1>1, <1>5, VoteMessageInv
<1>6. ASSUME NEW r \in Node, view[r] <= MaxView, HandleNullifyVote(r) PROVE IInv' /\ StepShape
  BY <1>1, <1>6, NullifyMessageInv
<1>7. ASSUME NEW r \in Node, view[r] <= MaxView, NEW b \in relays, HandleNotarization(r, b)
      PROVE  IInv' /\ StepShape
  BY <1>1, <1>7, NotarizationInv
<1>8. ASSUME NEW r \in Node, NEW h \in View, HandleFinalizeVote(r, h) PROVE IInv' /\ StepShape
  BY <1>1, <1>8, OtherInv DEF HandleFinalizeVote
<1>9. ASSUME NEW r \in Node, NEW h \in View, ForgeNullifyVote(r, h) PROVE IInv' /\ StepShape
  <2>1. r \notin Honest
    BY <1>9 DEF ForgeNullifyVote, Honest
  <2>2. /\ nullifies' = nullifies \cup {[signer |-> r, view |-> h]}
        /\ UNCHANGED <<view, tip, dummy_sent, voted_block, known_blocks, votes, finalizes, relays>>
    BY <1>9 DEF ForgeNullifyVote, replicaVars
  <2> QED
    BY <1>1, <2>1, <2>2, DummyVoteInv, StillShape
<1>10. CASE UNCHANGED vars
  <2>1. UNCHANGED <<replicaVars, networkVars>>
    BY <1>10 DEF vars, replicaVars, networkVars
  <2> QED
    BY <1>1, <2>1, OtherInv
<1> QED
  BY <1>2, <1>3, <1>4, <1>5, <1>6, <1>7, <1>8, <1>9, <1>10 DEF Next

(* IInv is inductive and holds of every run.                               *)
THEOREM InvariantHolds == Spec => []IInv
<1>1. Init => IInv
  <2> SUFFICES ASSUME Init PROVE IInv
    OBVIOUS
  <2>1. TypeOK
    BY InitType
  <2>2. /\ votes = {} /\ nullifies = {} /\ finalizes = {} /\ relays = {}
        /\ view = [r \in Node |-> 1] /\ tip = [r \in Node |-> Genesis]
        /\ voted_block = [r \in Node |-> Genesis]
        /\ dummy_sent = [r \in Node |-> FALSE] /\ known_blocks = [r \in Node |-> {}]
    BY DEF Init
  <2>3. Remembered /\ Forward /\ VoteOnce /\ EitherOr /\ VoteJustified
    BY <2>2 DEF Remembered, Forward, VoteOnce, EitherOr, VoteJustified, Nullifiers, Finalizers
  <2>4. ChainAccounted
    <3>1. \A r \in Honest : view[r] = 1
      BY <2>2 DEF Honest
    <3>2. \A c : Accounted(c, 1)
      BY DEF Accounted
    <3> QED
      BY <3>1, <3>2 DEF ChainAccounted
  <2>5. RelayCertified /\ TipCertified
    BY <2>2 DEF RelayCertified, TipCertified
  <2> QED
    BY <2>1, <2>3, <2>4, <2>5 DEF IInv
<1>2. IInv /\ [Next]_vars => IInv'
  BY StepInv
<1> QED
  BY <1>1, <1>2, PTL DEF Spec

-----------------------------------------------------------------------------
LEMMA HonestVoter ==
  ASSUME NEW b, Certified(b)
  PROVE  \E v \in votes : v.signer \in Honest /\ v.block = b
<1>1. Voters(b) \subseteq Node /\ Quorum(Voters(b))
  BY DEF Voters, Certified
<1>2. PICK s \in Voters(b) : s \in Honest
  BY <1>1, QuorumHonest
<1> QED
  BY <1>2 DEF Voters

LEMMA UniqueFromInvariant ==
  ASSUME IInv
  PROVE  NotarizationUnique
<1>1. SUFFICES ASSUME NEW b, NEW c, Certified(b), Certified(c), ViewOf(b) = ViewOf(c)
               PROVE  b = c
  BY DEF NotarizationUnique
<1>2. /\ Voters(b) \subseteq Node /\ Quorum(Voters(b))
      /\ Voters(c) \subseteq Node /\ Quorum(Voters(c))
  BY <1>1 DEF Voters, Certified
<1>3. PICK s \in Voters(b) \cap Voters(c) : s \in Honest
  BY <1>2, QuorumsMeet
<1>4. [signer |-> s, block |-> b] \in votes /\ [signer |-> s, block |-> c] \in votes
  BY <1>3 DEF Voters
<1> QED
  BY <1>1, <1>3, <1>4 DEF IInv, VoteOnce

LEMMA ExcludesFromInvariant ==
  ASSUME IInv
  PROVE  FinalizeExcludesNullify
<1>1. SUFFICES ASSUME NEW h \in View, Quorum(Finalizers(h)), Quorum(Nullifiers(h))
               PROVE  FALSE
  BY DEF FinalizeExcludesNullify
<1>2. Finalizers(h) \subseteq Node /\ Nullifiers(h) \subseteq Node
  BY DEF Finalizers, Nullifiers
<1>3. PICK s \in Finalizers(h) \cap Nullifiers(h) : s \in Honest
  BY <1>1, <1>2, QuorumsMeet
<1> QED
  BY <1>3 DEF IInv, EitherOr

LEMMA ConsistentFromInvariant ==
  ASSUME IInv
  PROVE  Consistency
<1>1. SUFFICES ASSUME NEW b \in VotedBlocks, NEW c \in VotedBlocks,
                      FinalBlock(b), Certified(c), ViewOf(b) <= ViewOf(c)
               PROVE  IsPrefix(b, c)
  BY DEF Consistency
<1>2. b \in Chain \ {Genesis} /\ c \in Chain \ {Genesis}
  BY DEF VotedBlocks, IInv, TypeOK
<1>3. ViewOf(b) \in View /\ ViewOf(c) \in View
  BY <1>2, BlockFacts
<1>4. Certified(b) /\ Quorum(Finalizers(ViewOf(b)))
  BY <1>1 DEF FinalBlock
<1>5. CASE ViewOf(b) = ViewOf(c)
  BY <1>1, <1>2, <1>4, <1>5, UniqueFromInvariant, BlockFacts DEF NotarizationUnique
<1>6. CASE ViewOf(b) # ViewOf(c)
  <2>1. ViewOf(b) \in 1..ViewOf(c) - 1
    BY <1>1, <1>3, <1>6, QuorumAssumption DEF View
  <2>2. Accounted(Parent(c), ViewOf(c))
    BY <1>1, HonestVoter DEF IInv, VoteJustified
  <2>3. ~Quorum(Nullifiers(ViewOf(b)))
    BY <1>3, <1>4, ExcludesFromInvariant DEF FinalizeExcludesNullify
  <2>4. PICK a \in VotedBlocks :
          Certified(a) /\ ViewOf(a) = ViewOf(b) /\ IsPrefix(a, Parent(c))
    BY <2>1, <2>2, <2>3 DEF Accounted
  <2>5. a = b
    BY <1>1, <1>4, <2>4, UniqueFromInvariant DEF NotarizationUnique
  <2> QED
    BY <1>2, <2>4, <2>5, BlockFacts, PrefixTransitive
<1> QED
  BY <1>5, <1>6

(* Lemma 3.2 of replica.rs:23-25: no two blocks of one view are both notarized,
   whoever the naughty nodes are and whatever they sign.                    *)
THEOREM UniqueNotarization == Spec => []NotarizationUnique
  BY InvariantHolds, UniqueFromInvariant, PTL

(* Lemma 3.3 of replica.rs:27-29, in the form the code keeps: no view gathers
   both a quorum of finalize votes and a quorum of dummy votes.             *)
THEOREM FinalizeOrNullify == Spec => []FinalizeExcludesNullify
  BY InvariantHolds, ExcludesFromInvariant, PTL

(* Theorem 3.1 of replica.rs:31-33: a block notarized in a view with a quorum
   of finalize votes is an ancestor of every block notarized later.         *)
THEOREM ConsistentChain == Spec => []Consistency
  BY InvariantHolds, ConsistentFromInvariant, PTL

(* Every replica's tip carries a quorum of votes, and an honest replica's tip
   accounts for every view it has left.                                     *)
THEOREM TipsJustified == Spec => [](TipCertified /\ ChainAccounted)
<1>1. IInv => TipCertified /\ ChainAccounted
  BY DEF IInv
<1> QED
  BY <1>1, InvariantHolds, PTL

-----------------------------------------------------------------------------
(* FinalizedKept, from Consistency and the order of the views on a chain.   *)

(* The views of a chain are below h.                                       *)
Below(c, h) == \A i \in 1..Len(c) : c[i].view < h

OrderInv ==
  /\ \A r \in Node : Below(tip[r], view[r])
  /\ \A v \in votes : v.signer \in Honest => Below(Parent(v.block), ViewOf(v.block))

LEMMA ChainViews ==
  ASSUME NEW c \in Chain
  PROVE  \A i \in 1..Len(c) : c[i].view \in Int
<1>1. ASSUME NEW i \in 1..Len(c) PROVE c[i] \in Entry
  BY DEF Chain
<1>2. \A e \in Entry : e.view \in View
  BY DEF Entry
<1>3. View \subseteq Int
  BY QuorumAssumption DEF View
<1> QED
  BY <1>1, <1>2, <1>3

LEMMA BelowExtends ==
  ASSUME NEW b \in Chain \ {Genesis}, NEW h \in Int, ViewOf(b) = h, Below(Parent(b), h)
  PROVE  Below(b, h + 1)
<1>1. Len(b) \in Nat \ {0} /\ IsPrefix(Parent(b), b) /\ Parent(b) \in Chain
  BY BlockFacts DEF Chain, Genesis
<1>2. \A i \in 1..Len(b) - 1 : i \in 1..Len(Parent(b)) /\ Parent(b)[i] = b[i]
  BY <1>1 DEF Parent, Front, Chain
<1>3. b[Len(b)].view = h
  BY DEF ViewOf, Last
<1>4. \A i \in 1..Len(b) : b[i].view \in Int
  BY ChainViews
<1>5. \A i \in 1..Len(b) - 1 : b[i].view < h
  BY <1>2 DEF Below
<1> QED
  BY <1>1, <1>3, <1>4, <1>5 DEF Below

LEMMA PrefixBelow ==
  ASSUME NEW a \in Chain \ {Genesis}, NEW c \in Chain, IsPrefix(a, c), NEW h, Below(c, h)
  PROVE  ViewOf(a) < h
<1>1. Len(a) \in Nat \ {0} /\ Len(a) <= Len(c) /\ Len(c) \in Nat
  BY DEF Chain, Genesis, IsPrefix
<1>2. a[Len(a)] = c[Len(a)]
  <2>1. SubSeq(a, 1, Len(a))[Len(a)] = a[Len(a)] /\ SubSeq(c, 1, Len(a))[Len(a)] = c[Len(a)]
    BY <1>1 DEF Chain
  <2> QED
    BY <2>1 DEF IsPrefix
<1> QED
  BY <1>1, <1>2 DEF Below, ViewOf, Last

LEMMA OrderStep ==
  ASSUME IInv, OrderInv, [Next]_vars
  PROVE  OrderInv'
<1>1. StepShape /\ IInv' /\ TypeOK'
  BY StepInv DEF IInv
<1>2. ASSUME NEW v \in votes', v.signer \in Honest
      PROVE  Below(Parent(v.block), ViewOf(v.block))
  <2>1. CASE v \in votes
    BY <1>2, <2>1 DEF OrderInv
  <2>2. CASE v \notin votes
    BY <1>1, <1>2, <2>2 DEF OrderInv, StepShape, VoteStep, Honest
  <2> QED
    BY <2>1, <2>2
<1>3. ASSUME NEW r \in Node
      PROVE  Below(tip'[r], view'[r])
  <2>1. TipStep(r) /\ view[r] \in Int /\ view'[r] \in Int
    BY <1>1, QuorumAssumption DEF StepShape, IInv, TypeOK
  <2>2. CASE tip'[r] = tip[r] /\ view'[r] >= view[r]
    <3>1. tip[r] \in Chain
      BY DEF IInv, TypeOK
    <3>2. \A i \in 1..Len(tip[r]) : tip[r][i].view \in Int
      BY <3>1, ChainViews
    <3> QED
      BY <2>1, <2>2, <3>2 DEF OrderInv, Below
  <2>3. CASE /\ tip'[r] \in Chain \ {Genesis}
             /\ Certified(tip[r])' /\ ViewOf(tip'[r]) = view[r] /\ view'[r] = view[r] + 1
    <3>1. PICK b \in Chain \ {Genesis} : b = tip'[r]
      BY <2>3
    <3>2. Voters(b)' \subseteq Node /\ Quorum(Voters(b)')
      BY <2>3, <3>1 DEF Voters, Certified, Quorum
    <3>3. PICK q \in Voters(b)' : q \in Honest
      BY <3>2, QuorumHonest
    <3>4. [signer |-> q, block |-> b] \in votes'
      BY <3>3 DEF Voters
    <3>5. Below(Parent(b), ViewOf(b))
      BY <1>2, <3>3, <3>4
    <3> QED
      BY <2>1, <2>3, <3>1, <3>5, BelowExtends
  <2> QED
    BY <2>1, <2>2, <2>3 DEF TipStep
<1> QED
  BY <1>2, <1>3 DEF OrderInv, Below, ViewOf, Last, Parent, Front

LEMMA KeptStep ==
  ASSUME IInv, OrderInv, Next
  PROVE  \A r \in Honest, b \in VotedBlocks :
           FinalBlock(b) /\ IsPrefix(b, tip[r]) => IsPrefix(b, tip'[r])
<1>1. SUFFICES ASSUME NEW r \in Honest, NEW b \in VotedBlocks,
                      FinalBlock(b), IsPrefix(b, tip[r])
               PROVE  IsPrefix(b, tip'[r])
  OBVIOUS
<1>2. StepShape /\ IInv'
  BY StepInv
<1>3. r \in Node /\ b \in Chain \ {Genesis} /\ tip[r] \in Chain
  BY DEF Honest, VotedBlocks, IInv, TypeOK
<1>4. ViewOf(b) < view[r]
  BY <1>1, <1>3, PrefixBelow DEF OrderInv
<1>5. CASE tip'[r] = tip[r]
  BY <1>1, <1>5
<1>6. CASE /\ tip'[r] \in Chain \ {Genesis}
           /\ Certified(tip[r])' /\ ViewOf(tip'[r]) = view[r]
  <2>1. PICK c \in Chain \ {Genesis} : c = tip'[r]
    BY <1>6
  <2>2. Certified(c)' /\ ViewOf(c) = view[r]
    BY <1>6, <2>1
  <2>3. c \in VotedBlocks'
    <3>1. Voters(c)' \subseteq Node /\ Quorum(Voters(c)')
      BY <2>2 DEF Voters, Certified, Quorum
    <3>2. PICK q \in Voters(c)' : q \in Honest
      BY <3>1, QuorumHonest
    <3> QED
      BY <3>2 DEF Voters, VotedBlocks
  <2>4. b \in VotedBlocks'
    BY <1>2 DEF VotedBlocks, StepShape
  <2>5. PICK h : h = ViewOf(b)
    OBVIOUS
  <2>6. FinalBlock(b)'
    <3>1. Certified(b)' /\ Finalizers(h) \subseteq Finalizers(h)' /\ Finalizers(h)' \subseteq Node
      BY <1>1, <1>2, CertifiedGrows DEF FinalBlock, Finalizers, StepShape
    <3>2. Quorum(Finalizers(h))
      BY <1>1, <2>5 DEF FinalBlock
    <3>3. Quorum(Finalizers(h)')
      BY <3>1, <3>2, QuorumGrows
    <3> QED
      BY <2>5, <3>1, <3>3 DEF FinalBlock, Quorum
  <2>7. ViewOf(b) <= ViewOf(c)
    BY <1>3, <1>4, <2>2, BlockFacts, QuorumAssumption DEF IInv, TypeOK, View
  <2>8. Consistency'
    BY <1>2, ConsistentFromInvariant, PTL
  <2> QED
    BY <2>1, <2>2, <2>3, <2>4, <2>6, <2>7, <2>8 DEF Consistency
<1> QED
  BY <1>2, <1>3, <1>5, <1>6 DEF StepShape, TipStep

(* A final block never leaves an honest replica's chain.                    *)
THEOREM FinalBlocksKept == Spec => FinalizedKept
<1>1. Init => OrderInv
  BY DEF Init, OrderInv, Below, Genesis
<1>2. IInv /\ OrderInv /\ [Next]_vars => OrderInv'
  BY OrderStep
<1>3. IInv /\ OrderInv /\ [Next]_vars =>
        [\A r \in Honest :
           tip'[r] # tip[r] =>
             \A b \in VotedBlocks :
               FinalBlock(b) /\ IsPrefix(b, tip[r]) => IsPrefix(b, tip'[r])]_vars
  BY KeptStep
<1> QED
  BY <1>1, <1>2, <1>3, InvariantHolds, PTL DEF Spec, FinalizedKept
=============================================================================

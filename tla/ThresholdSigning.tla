-------------------------- MODULE ThresholdSigning --------------------------
(***************************************************************************)
(* The collection of partial signatures that the consensus replica combines *)
(* (threshold/signing.rs, threshold/cache.rs, replica.rs push_vote).       *)
(* Partial signatures arrive in any order, at most one for each signer.    *)
(***************************************************************************)
EXTENDS Committee

VARIABLES
  hash,      \* the signed message, hashed to the group
  partials   \* the list of partial signatures <<signer, signature>>

vars == <<poly, hash, partials>>

Signature == GroupSign(hash)
Signers == {partials[k][1] : k \in DOMAIN partials}

Init ==
  /\ \E secret \in Scalar : poly \in NewRandom(secret, T - 1, Scalar)
  /\ hash \in Group \ {Identity}
  /\ partials = <<>>

(* The partial signature of i, unless the list has one (replica.rs:419-422). *)
Collect(i) ==
  /\ i \notin Signers
  /\ partials' = Append(partials, <<i, PartialSign(hash, Share(i))>>)
  /\ UNCHANGED <<poly, hash>>

Next == \E i \in Node : Collect(i)

Spec == Init /\ [][Next]_vars

-----------------------------------------------------------------------------
(* The list holds one signature at most for each signer.                   *)
TypeOK ==
  /\ poly \in [1..T -> Scalar]
  /\ hash \in Group \ {Identity}
  /\ partials \in Seq(Node \X Group)
  /\ Cardinality(Signers) = Len(partials)

(* The commitment, the Horner evaluation and the share of vss.rs:38-88 agree
   at every index: a dealt share passes the public check and opens it.      *)
SharesMatchCommitment ==
  \A i \in Node :
    /\ VerifyShare(Commit(poly), i, Share(i))
    /\ \A s \in Scalar \ {Share(i)} : ~VerifyShare(Commit(poly), i, s)

(* Any T partial signatures, in whatever order they came and whatever came
   after them, combine to the one signature of the group key; a VRF seed is a
   hash of it, so replicas that combined different quorums must agree.     *)
QuorumSigns ==
  Len(partials) >= T =>
    /\ CombineDynamic(partials, T) = Signature
    /\ VerifySignature(hash, CombineDynamic(partials, T), PublicKey)

(* Every subset a cache keeps gives that signature again, and a cache asked for
   several keeps the first and the last combination and each once, all within
   the list.                                                               *)
CacheAgrees ==
  Signers = Node =>
    \A num_check \in 0..N + 2 :
      LET total == Len(Combinations([i \in Node |-> i], T))
          indices == CacheIndices(total, num_check)
          cache == LagrangeCache([i \in Node |-> i], T, num_check)
          bySigner == [i \in Node |-> PartialSign(hash, Share(i))]
      IN  /\ ToSet(indices) \subseteq 0..total - 1
          /\ \A m \in 1..Len(indices) - 1 : indices[m] < indices[m + 1]
          /\ num_check > 1 => {0, total - 1} \subseteq ToSet(indices)
          /\ cache # <<>>
          /\ \A m \in DOMAIN cache : CombineOne(cache[m], bySigner) = Signature

(* Fewer than T shares are compatible with every secret (protocol.rs:687-724). *)
FewerSharesHideSecret ==
  Len(partials) < T =>
    \A secret \in Scalar :
      \E c \in NewRandom(secret, T - 1, Scalar) :
        \A i \in Signers : Evaluate(c, i) = Share(i)
=============================================================================

------------------------------- MODULE Shamir -------------------------------
(***************************************************************************)
(* Secret sharing and threshold combination: golden-dkg/src/shamir.rs,     *)
(* vss.rs, threshold/signing.rs and threshold/cache.rs.                    *)
(*                                                                         *)
(* The scalar field of BLS12-381 becomes the integers modulo a small prime *)
(* P, and the groups of order P become those integers under addition, with *)
(* generator Gen. A node identifier is its own evaluation point.           *)
(***************************************************************************)
EXTENDS Integers, SequencesExt

CONSTANTS
  P,    \* order of the scalar field and of the groups
  Gen   \* G1Affine::generator()

ASSUME FieldAssumption ==
  /\ P \in Nat \ {0, 1} /\ \A a \in 2..P - 1 : P % a # 0
  /\ Gen \in 1..P - 1

Scalar == 0..P - 1
Group  == 0..P - 1

Plus(a, b)  == (a + b) % P
Minus(a, b) == (a - b) % P
Times(a, b) == (a * b) % P
Reciprocal(a) == CHOOSE b \in Scalar : Times(a, b) = 1

(* g^a, and the group operation and identity, written additively.          *)
Exp(a)   == Times(Gen, a)
Identity == 0

(* The sum of f over its domain, and the product of f over its domain.     *)
Total(f) == FoldFunction(Plus, 0, f)
Multiply(f) == FoldFunction(Times, 1, f)

-----------------------------------------------------------------------------
(* Polynomials are the sequences of their coefficients, a_0 first.         *)

NewRandomShort(secret, degree, draws) ==   \* mutant: one coefficient too few
  {<<secret>> \o cs : cs \in [1..degree - 1 -> draws]}
NewRandom(secret, degree, draws) ==
  {<<secret>> \o cs : cs \in [1..degree -> draws]}

(* Horner's method, from the highest coefficient down.                     *)
Evaluate(c, x) ==
  LET result[k \in 0..Len(c)] ==
        IF k = 0 THEN 0 ELSE Plus(Times(result[k - 1], x), c[Len(c) - k + 1])
  IN  result[Len(c)]

(* vss::commit.                                                            *)
Commit(c) == [k \in DOMAIN c |-> Exp(c[k])]

ExpectedShareCommitmentSkips(C, x) ==   \* mutant: powers start at x instead of 1
  LET x_pow[k \in 0..Len(C)] == IF k = 0 THEN x ELSE Times(x_pow[k - 1], x)
      result[k \in 0..Len(C)] ==
        IF k = 0 THEN Identity ELSE Plus(result[k - 1], Times(C[k], x_pow[k - 1]))
  IN  result[Len(C)]
(* The commitment to f(x), from the commitment to f.                       *)
ExpectedShareCommitment(C, x) ==
  LET x_pow[k \in 0..Len(C)] == IF k = 0 THEN 1 ELSE Times(x_pow[k - 1], x)
      result[k \in 0..Len(C)] ==
        IF k = 0 THEN Identity ELSE Plus(result[k - 1], Times(C[k], x_pow[k - 1]))
  IN  result[Len(C)]

VerifyShare(C, x, share) == ExpectedShareCommitment(C, x) = Exp(share)

GenerateShares(c, n) == [x \in 1..n |-> Evaluate(c, x)]

(* l_i(0) for the set ids of evaluation points.                            *)
LagrangeCoeff(i, ids) ==
  Multiply([j \in ids \ {i} |-> Times(j, Reciprocal(Minus(j, i)))])

(* The value at zero of the polynomial through the shares, a function from
   identifiers to values. The same sum combines partial signatures
   (combine_one), with group elements for values.                          *)
LagrangeInterpolateAtZero(shares) ==
  Total([i \in DOMAIN shares |-> Times(shares[i], LagrangeCoeff(i, DOMAIN shares))])

-----------------------------------------------------------------------------
(* Threshold signing. hash stands for the message hashed to the group.     *)

PartialSign(hash, secret) == Times(hash, secret)

(* e(pk, H(m)) = e(g, sig), the pairing being the product of exponents.    *)
VerifySignature(hash, sig, pk) == Times(pk, hash) = Times(Gen, sig)

CombineDynamicAll(partials, threshold) ==   \* mutant: coefficients of all signers
  LET signers == {partials[k][1] : k \in DOMAIN partials}
      used == SubSeq(partials, 1, threshold)
  IN  Total([k \in DOMAIN used |->
               Times(used[k][2], LagrangeCoeff(used[k][1], signers))])
(* The first threshold partials <<signer, signature>> of a list.           *)
CombineDynamic(partials, threshold) ==
  LET used == SubSeq(partials, 1, IF Len(partials) > threshold
                                  THEN threshold ELSE Len(partials))
      signers == {used[k][1] : k \in DOMAIN used}
  IN  Total([k \in DOMAIN used |->
               Times(used[k][2], LagrangeCoeff(used[k][1], signers))])

(* The k-element combinations of a list, in the order of threshold/cache.rs:
   those with the first element, then the others. last[n][j] has those of j of
   the last n elements.                                                     *)
Combinations(items, k) ==
  LET last[n \in 0..Len(items)] ==
        [j \in 0..k |->
           IF j = 0 THEN << <<>> >>
           ELSE IF n < j THEN <<>>
           ELSE LET combos == last[n - 1][j - 1]
                IN  [m \in DOMAIN combos |-> <<items[Len(items) - n + 1]>> \o combos[m]]
                      \o last[n - 1][j]]
  IN  last[Len(items)][k]

CacheIndicesShort(total, num_check) ==   \* mutant: the last is not reached
  IF total <= num_check \/ num_check <= 1
  THEN [i \in 1..Min({total, Max({num_check, 1})}) |-> i - 1]
  ELSE [i \in 1..num_check |-> ((i - 1) * (total - 1)) \div num_check]
(* The combinations a cache keeps, evenly spaced from first to last. The list
   increases: sorting it and removing doubles changes nothing.             *)
CacheIndices(total, num_check) ==
  IF total <= num_check \/ num_check <= 1
  THEN [i \in 1..Min({total, Max({num_check, 1})}) |-> i - 1]
  ELSE [i \in 1..num_check |-> ((i - 1) * (total - 1)) \div (num_check - 1)]

(* LagrangeCache::new: for each subset kept, the coefficients of its members. *)
LagrangeCache(ids, t, num_check) ==
  LET all == Combinations(ids, t)
      indices == CacheIndices(Len(all), num_check)
  IN  [m \in DOMAIN indices |->
         LET members == ToSet(all[indices[m] + 1])
         IN  [i \in members |-> LagrangeCoeff(i, members)]]

(* combine_one, over partials indexed by signer.                           *)
CombineOne(coeffs, partials) ==
  Total([i \in DOMAIN coeffs |-> Times(partials[i], coeffs[i])])
=============================================================================

-------------------------------- MODULE Ibe --------------------------------
(***************************************************************************)
(* The operations of golden-dkg/src/threshold/ibe.rs on encrypted key      *)
(* shares, vetKeys and identity-based ciphertexts, over the groups of      *)
(* Shamir. Public keys are in the first group, signatures and transport    *)
(* keys in the second, and the pairing is the product of exponents.        *)
(*                                                                         *)
(* The hashes are random oracles without collisions: an identity has a     *)
(* point of its own, a mask is the value it is a hash of, and a seed or a  *)
(* message taken off a wrong mask is Garbled.                              *)
(***************************************************************************)
EXTENDS Shamir

CONSTANT Gen2   \* G2Affine::generator(), in 1..P - 1

Exp2(a) == Times(Gen2, a)
Pairing(a, b) == Times(a, b)

Garbled == -1
NoKey   == -1

(* Nine pairs of a seed and a message fit the nonzero scalars of H3.        *)
Seed    == 0..2
Message == 0..2

HashIdentityToG2(identity) == (3 * identity + 1) % P

(* H3, the scalar of a seed and a message; 0 stands for every other input.  *)
HashH3(seed, message) ==
  IF seed \in Seed /\ message \in Message THEN 3 * seed + message + 1 ELSE 0

(* x XOR H(key), and that XOR H(key) again.                                 *)
Mask(key, x) == [key |-> key, body |-> x]
Unmask(key, masked) == IF masked.key = key THEN masked.body ELSE Garbled

(* tpk = g2^tsk                                                             *)
TransportKeygen(tsk) == [tpk |-> Exp2(tsk), tsk |-> tsk]

-----------------------------------------------------------------------------
(* Encrypted key shares (C1, C2, C3) = (g1^r, g2^r, tpk^r sigma_i).         *)

EncryptKeyShare(share, identity, tpk, r) ==
  [c1 |-> Exp(r), c2 |-> Exp2(r), signer |-> share.id,
   c3 |-> Plus(Times(tpk, r), PartialSign(HashIdentityToG2(identity), share.secret))]

VerifyEncryptedKeyShareC3Only(eks, identity, tpk, pk_share) ==   \* mutant: C2 unchecked
  Plus(Pairing(pk_share, HashIdentityToG2(identity)), Pairing(eks.c1, tpk))
    = Pairing(Gen, eks.c3)
VerifyEncryptedKeyShare(eks, identity, tpk, pk_share) ==
  /\ Pairing(eks.c1, Gen2) = Pairing(Gen, eks.c2)
  /\ Plus(Pairing(pk_share, HashIdentityToG2(identity)), Pairing(eks.c1, tpk))
       = Pairing(Gen, eks.c3)

(* The first threshold shares, interpolated in the exponent.                *)
CombineEncryptedShares(shares, threshold) ==
  LET used == SubSeq(shares, 1, Min({Len(shares), threshold}))
      signers == {used[k].signer : k \in DOMAIN used}
      Combined(c) == Total([k \in DOMAIN used |->
                              Times(c[k], LagrangeCoeff(used[k].signer, signers))])
  IN  [c1 |-> Combined([k \in DOMAIN used |-> used[k].c1]),
       c2 |-> Combined([k \in DOMAIN used |-> used[k].c2]),
       c3 |-> Combined([k \in DOMAIN used |-> used[k].c3])]

(* e(pk, H(id)) + e(C1, tpk) = e(g1, C3)                                     *)
VerifyEncryptedVetkey(evk, identity, tpk, group_pk) ==
  Plus(Pairing(group_pk, HashIdentityToG2(identity)), Pairing(evk.c1, tpk))
    = Pairing(Gen, evk.c3)

(* sigma = C3 - C2 tsk, if it is the signature of the identity.             *)
DecryptVetkey(evk, tsk, identity, group_pk) ==
  LET sigma == Minus(evk.c3, Times(evk.c2, tsk))
  IN  IF Pairing(group_pk, HashIdentityToG2(identity)) = Pairing(Gen, sigma)
      THEN sigma ELSE NoKey

-----------------------------------------------------------------------------
(* Boneh-Franklin encryption with the Fujisaki-Okamoto transform.           *)

IbeEncrypt(group_pk, identity, message, seed) ==
  LET t == HashH3(seed, message)
  IN  [u |-> Exp(t),
       v |-> Mask(Pairing(Times(group_pk, t), HashIdentityToG2(identity)), seed),
       w |-> Mask(seed, message)]

IbeDecryptUnchecked(vetkey, ct) ==   \* mutant: without the CCA check
  Unmask(Unmask(Pairing(ct.u, vetkey), ct.v), ct.w)
(* The message, or Garbled when the recomputed t does not give u.           *)
IbeDecrypt(vetkey, ct) ==
  LET seed == Unmask(Pairing(ct.u, vetkey), ct.v)
      message == Unmask(seed, ct.w)
  IN  IF Exp(HashH3(seed, message)) = ct.u THEN message ELSE Garbled
=============================================================================

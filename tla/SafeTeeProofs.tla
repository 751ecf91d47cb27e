---------------------------- MODULE SafeTeeProofs ----------------------------
(***************************************************************************)
(* The parts of the TEE demo: how a vetKey is derived, and the sidecar     *)
(* that decrypts frames with such keys.                                    *)
(*                                                                         *)
(* The derivation, for every field, committee, threshold and set of        *)
(* replicas that tamper: the pairing checks tell exactly the shares an     *)
(* honest replica could have sent, T of those give the vetKey, and what    *)
(* the recipient decrypts is the message or nothing.                       *)
(*                                                                         *)
(* The sidecar's slots, its keys, the quiet session and its refinement of  *)
(* FrameMailbox, for any number of clients and frames and any batch size.  *)
(* Frames of a session are numbered by their arrival, and the argument is  *)
(* about these numbers: what waits is the last frame to arrive, what was   *)
(* taken arrived before it (Numbered). So a frame is taken once. The slots *)
(* add up because only the loop takes some, and counts with what it saw    *)
(* before it waited (Slots). With one slot, what is in work is newer than  *)
(* the answer shown (Newer), and a session is without a waiting frame only *)
(* if its last one is in work or answered (LastHandled).                   *)
(***************************************************************************)
EXTENDS VetkeyDerivation, Sidecar, ShamirProofs

-----------------------------------------------------------------------------
(* THE DERIVATION OF A VETKEY                                               *)

(* Products.                                                                *)

LEMMA TimesExchange ==
  ASSUME NEW a \in Scalar, NEW b \in Scalar, NEW c \in Scalar
  PROVE  /\ Times(a, Times(b, c)) = Times(b, Times(a, c))
         /\ Times(Times(a, b), c) = Times(a, Times(b, c))
<1>1. Times(a, Times(b, c)) = Times(Times(a, b), c) /\ Times(b, Times(a, c)) = Times(Times(b, a), c)
  BY TimesLaws
<1>2. Times(a, b) = Times(b, a)
  BY TimesLaws
<1> QED
  BY <1>1, <1>2

LEMMA TimesCancels ==
  ASSUME NEW a \in Scalar \ {0}, NEW b \in Scalar, NEW c \in Scalar, Times(a, b) = Times(a, c)
  PROVE  b = c
<1>1. PICK r : r = Reciprocal(a)
  OBVIOUS
<1>2. r \in Scalar /\ Times(a, r) = 1 /\ Times(r, a) = 1
  BY <1>1, ReciprocalExists, TimesLaws
<1>3. Times(Times(r, a), b) = Times(r, Times(a, b)) /\ Times(Times(r, a), c) = Times(r, Times(a, c))
  BY <1>2, TimesLaws
<1> QED
  BY <1>2, <1>3, TimesLaws

LEMMA TimesNonzero ==
  ASSUME NEW a \in Scalar \ {0}, NEW b \in Scalar \ {0}
  PROVE  Times(a, b) \in Scalar \ {0}
BY Cancel, RingTypes

(* The two groups have the same order, and so the same laws.                *)
LEMMA GroupFacts ==
  /\ Gen \in Scalar \ {0} /\ Gen2 \in Scalar \ {0} /\ 0 \in Scalar /\ 1 \in Scalar
  /\ \A a \in Scalar : Exp(a) \in Scalar /\ Exp2(a) \in Scalar
  /\ \A a \in Scalar \ {0} : Exp(a) \in Scalar \ {0}
<1>1. Gen \in Scalar \ {0} /\ Gen2 \in Scalar \ {0} /\ 0 \in Scalar /\ 1 \in Scalar
  BY PTypes, VetkeyAssumption DEF Scalar
<1> QED
  BY <1>1, RingTypes, TimesNonzero DEF Exp, Exp2

(* The hashes: an identity is a point of its own, and the scalar of a seed and a
   message is not zero and tells one message from another.                  *)
LEMMA HashFacts ==
  /\ \A id \in 0..2 : HashIdentityToG2(id) \in Scalar \ {0}
  /\ \A id, other \in 0..2 : HashIdentityToG2(id) = HashIdentityToG2(other) => id = other
  /\ \A seed \in Seed, m \in Message : HashH3(seed, m) \in Scalar \ {0}
  /\ \A seed \in Seed, m, n \in Message : HashH3(seed, m) = HashH3(seed, n) => m = n
  /\ \A seed : HashH3(seed, Garbled) = 0
<1>1. P \in Nat /\ P > 9
  BY PTypes, VetkeyAssumption
<1>2. \A id \in 0..2 : 3 * id + 1 \in Scalar \ {0}
  BY <1>1 DEF Scalar
<1>3. \A id \in 0..2 : HashIdentityToG2(id) = 3 * id + 1
  BY <1>2, RemainderSmall DEF HashIdentityToG2
<1> QED
  BY <1>1, <1>2, <1>3 DEF HashH3, Seed, Message, Garbled, Scalar

-----------------------------------------------------------------------------
(* The checks on encrypted key shares and on the combined one.              *)

(* Both hold of what is made from randomness r for the secret s: h is the point
   of the identity.                                                        *)
LEMMA ChecksHold ==
  ASSUME NEW s \in Scalar, NEW r \in Scalar, NEW h \in Scalar, NEW tpk \in Scalar
  PROVE  /\ Times(Exp(r), Gen2) = Times(Gen, Exp2(r))
         /\ Plus(Times(Exp(s), h), Times(Exp(r), tpk)) = Times(Gen, Plus(Times(tpk, r), Times(h, s)))
<1>1. Gen \in Scalar /\ Gen2 \in Scalar
  BY GroupFacts
<1>2. Times(Exp(r), Gen2) = Times(Gen, Times(r, Gen2)) /\ Times(r, Gen2) = Times(Gen2, r)
  BY <1>1, TimesLaws, TimesExchange DEF Exp
<1>3. /\ Times(Exp(s), h) = Times(Gen, Times(s, h)) /\ Times(s, h) = Times(h, s)
      /\ Times(Exp(r), tpk) = Times(Gen, Times(r, tpk)) /\ Times(r, tpk) = Times(tpk, r)
  BY <1>1, TimesLaws, TimesExchange DEF Exp
<1>4. PICK u, w : u = Times(h, s) /\ w = Times(tpk, r)
  OBVIOUS
<1>5. u \in Scalar /\ w \in Scalar
  BY <1>4, RingTypes
<1>6. Times(Gen, Plus(w, u)) = Plus(Times(Gen, w), Times(Gen, u))
  BY <1>1, <1>5, Distributes
<1>7. Plus(Times(Gen, w), Times(Gen, u)) = Plus(Times(Gen, u), Times(Gen, w))
  BY <1>1, <1>5, RingTypes, PlusLaws
<1> QED
  BY <1>2, <1>3, <1>4, <1>6, <1>7 DEF Exp2

EncryptedKeyShare == [c1 : Scalar, c2 : Scalar, signer : 1..N, c3 : Scalar]

(* A share passes exactly if some randomness makes it (ibe.rs
   verify_encrypted_key_share): the first check ties c2 to c1, and the second
   ties c3 to c1 and the public key share.                                  *)
LEMMA ShareTells ==
  ASSUME NEW eks \in EncryptedKeyShare, NEW id \in 0..2, NEW tpk \in Scalar, NEW s \in Scalar
  PROVE  VerifyEncryptedKeyShare(eks, id, tpk, Exp(s)) <=>
           \E r \in Scalar : eks = EncryptKeyShare([id |-> eks.signer, secret |-> s], id, tpk, r)
<1>1. PICK h : h = HashIdentityToG2(id)
  OBVIOUS
<1>2. h \in Scalar /\ Gen \in Scalar \ {0} /\ Gen2 \in Scalar
  BY <1>1, HashFacts, GroupFacts
<1>3. /\ eks.c1 \in Scalar /\ eks.c2 \in Scalar /\ eks.c3 \in Scalar
      /\ eks = [c1 |-> eks.c1, c2 |-> eks.c2, signer |-> eks.signer, c3 |-> eks.c3]
  BY DEF EncryptedKeyShare
<1>4. VerifyEncryptedKeyShare(eks, id, tpk, Exp(s)) <=>
        /\ Times(eks.c1, Gen2) = Times(Gen, eks.c2)
        /\ Plus(Times(Exp(s), h), Times(eks.c1, tpk)) = Times(Gen, eks.c3)
  BY <1>1 DEF VerifyEncryptedKeyShare, Pairing
<1>5. \A r : EncryptKeyShare([id |-> eks.signer, secret |-> s], id, tpk, r) =
        [c1 |-> Exp(r), c2 |-> Exp2(r), signer |-> eks.signer, c3 |-> Plus(Times(tpk, r), Times(h, s))]
  BY <1>1 DEF EncryptKeyShare, PartialSign
<1>6. ASSUME NEW r \in Scalar, eks = EncryptKeyShare([id |-> eks.signer, secret |-> s], id, tpk, r)
      PROVE  VerifyEncryptedKeyShare(eks, id, tpk, Exp(s))
  <2>1. eks.c1 = Exp(r) /\ eks.c2 = Exp2(r) /\ eks.c3 = Plus(Times(tpk, r), Times(h, s))
    <3>1. PICK x, y, z : x = Exp(r) /\ y = Exp2(r) /\ z = Plus(Times(tpk, r), Times(h, s))
      OBVIOUS
    <3>2. eks = [c1 |-> x, c2 |-> y, signer |-> eks.signer, c3 |-> z]
      BY <1>5, <1>6, <3>1
    <3>3. eks.c1 = x /\ eks.c2 = y /\ eks.c3 = z
      BY <3>2
    <3> QED
      BY <3>1, <3>3
  <2> QED
    BY <1>2, <1>4, <2>1, ChecksHold
<1>7. ASSUME VerifyEncryptedKeyShare(eks, id, tpk, Exp(s))
      PROVE  \E r \in Scalar : eks = EncryptKeyShare([id |-> eks.signer, secret |-> s], id, tpk, r)
  <2>1. PICK r : r = Times(eks.c1, Reciprocal(Gen))
    OBVIOUS
  <2>2. r \in Scalar /\ Exp(r) = eks.c1
    <3>1. PICK q : q = Reciprocal(Gen)
      OBVIOUS
    <3>2. q \in Scalar /\ Times(Gen, q) = 1
      BY <1>2, <3>1, ReciprocalExists
    <3>3. Times(Gen, Times(eks.c1, q)) = Times(eks.c1, Times(Gen, q))
      BY <1>2, <1>3, <3>2, TimesExchange
    <3> QED
      BY <1>2, <1>3, <2>1, <3>1, <3>2, <3>3, RingTypes, TimesLaws DEF Exp
  <2>3. /\ Times(Exp(r), Gen2) = Times(Gen, Exp2(r))
        /\ Plus(Times(Exp(s), h), Times(Exp(r), tpk)) = Times(Gen, Plus(Times(tpk, r), Times(h, s)))
    BY <1>2, <2>2, ChecksHold
  <2>4. eks.c2 = Exp2(r)
    <3>1. Times(Gen, eks.c2) = Times(Gen, Exp2(r)) /\ Exp2(r) \in Scalar
      BY <1>4, <1>7, <2>2, <2>3, GroupFacts
    <3> QED
      BY <1>2, <1>3, <3>1, TimesCancels
  <2>5. eks.c3 = Plus(Times(tpk, r), Times(h, s))
    <3>1. PICK z : z = Plus(Times(tpk, r), Times(h, s))
      OBVIOUS
    <3>2. z \in Scalar
      BY <1>2, <2>2, <3>1, RingTypes
    <3>3. Times(Gen, eks.c3) = Times(Gen, z)
      BY <1>4, <1>7, <2>2, <2>3, <3>1
    <3> QED
      BY <1>2, <1>3, <3>1, <3>2, <3>3, TimesCancels
  <2>6. eks = EncryptKeyShare([id |-> eks.signer, secret |-> s], id, tpk, r)
    BY <1>3, <1>5, <2>2, <2>4, <2>5
  <2> QED
    BY <2>2, <2>6
<1> QED
  BY <1>6, <1>7

(* The recipient gets the signature of the identity or nothing (ibe.rs
   decrypt_vetkey).                                                        *)
LEMMA OnlySignature ==
  ASSUME NEW e, e.c2 \in Scalar, e.c3 \in Scalar, NEW tsk \in Scalar, NEW id \in 0..2, NEW s \in Scalar
  PROVE  DecryptVetkey(e, tsk, id, Exp(s)) \in {NoKey, PartialSign(HashIdentityToG2(id), s)}
<1>1. PICK h, sigma : h = HashIdentityToG2(id) /\ sigma = Minus(e.c3, Times(e.c2, tsk))
  OBVIOUS
<1>2. h \in Scalar /\ sigma \in Scalar /\ Gen \in Scalar \ {0}
  BY <1>1, HashFacts, GroupFacts, RingTypes
<1>3. DecryptVetkey(e, tsk, id, Exp(s)) = IF Times(Exp(s), h) = Times(Gen, sigma) THEN sigma ELSE NoKey
  BY <1>1 DEF DecryptVetkey, Pairing
<1>4. Times(Exp(s), h) = Times(Gen, Times(h, s))
  BY <1>2, TimesExchange, TimesLaws DEF Exp
<1>5. ASSUME Times(Exp(s), h) = Times(Gen, sigma) PROVE sigma = Times(h, s)
  <2>1. Times(h, s) \in Scalar
    BY <1>2, RingTypes
  <2> QED
    BY <1>2, <1>4, <1>5, <2>1, TimesCancels
<1> QED
  BY <1>1, <1>3, <1>5 DEF PartialSign

(* It is the signature if the combined key was made from some randomness.   *)
LEMMA SignatureOpens ==
  ASSUME NEW e, NEW r \in Scalar, NEW tsk \in Scalar, NEW id \in 0..2, NEW s \in Scalar,
         e.c1 = Exp(r), e.c2 = Exp2(r),
         e.c3 = Plus(Times(Exp2(tsk), r), Times(HashIdentityToG2(id), s))
  PROVE  /\ VerifyEncryptedVetkey(e, id, Exp2(tsk), Exp(s))
         /\ DecryptVetkey(e, tsk, id, Exp(s)) = PartialSign(HashIdentityToG2(id), s)
<1>1. PICK h, tpk : h = HashIdentityToG2(id) /\ tpk = Exp2(tsk)
  OBVIOUS
<1>2. h \in Scalar /\ tpk \in Scalar /\ Gen \in Scalar /\ Gen2 \in Scalar
  BY <1>1, HashFacts, GroupFacts
<1>3. Plus(Times(Exp(s), h), Times(Exp(r), tpk)) = Times(Gen, Plus(Times(tpk, r), Times(h, s)))
  BY <1>2, ChecksHold
<1>4. VerifyEncryptedVetkey(e, id, Exp2(tsk), Exp(s))
  BY <1>1, <1>3 DEF VerifyEncryptedVetkey, Pairing
<1>5. PICK u, w : u = Times(h, s) /\ w = Times(tpk, r)
  OBVIOUS
<1>6. u \in Scalar /\ w \in Scalar
  BY <1>2, <1>5, RingTypes
<1>7. Times(Exp2(r), tsk) = w
  <2>1. Times(Times(Gen2, r), tsk) = Times(Gen2, Times(r, tsk)) /\ Times(r, tsk) = Times(tsk, r)
    BY <1>2, TimesExchange, TimesLaws
  <2>2. Times(Times(Gen2, tsk), r) = Times(Gen2, Times(tsk, r))
    BY <1>2, TimesExchange
  <2> QED
    BY <1>1, <1>5, <2>1, <2>2 DEF Exp2
<1>8. Minus(Plus(w, u), w) = u
  <2>1. Plus(w, u) = Plus(u, w)
    BY <1>6, PlusLaws
  <2>2. Minus(Plus(u, w), w) = u
    BY <1>6, MinusLaws
  <2> QED
    BY <2>1, <2>2
<1>9. Times(Exp(s), h) = Times(Gen, u)
  BY <1>2, <1>5, TimesExchange, TimesLaws DEF Exp
<1>10. Minus(e.c3, Times(e.c2, tsk)) = u
  BY <1>1, <1>5, <1>7, <1>8
<1>11. DecryptVetkey(e, tsk, id, Exp(s)) = u
  BY <1>1, <1>9, <1>10 DEF DecryptVetkey, Pairing
<1> QED
  BY <1>1, <1>4, <1>5, <1>11 DEF PartialSign

-----------------------------------------------------------------------------
(* Identity-based ciphertexts.                                              *)

(* The key of the mask is what the vetKey of the same identity gives with u, and
   that of no other.                                                       *)
LEMMA MaskKey ==
  ASSUME NEW s \in Scalar \ {0}, NEW t \in Scalar \ {0}, NEW h \in Scalar, NEW k \in Scalar
  PROVE  Times(Exp(t), Times(h, s)) = Times(Times(Exp(s), t), k) <=> h = k
<1>1. PICK a : a = Times(Gen, Times(s, t))
  OBVIOUS
<1>2. Gen \in Scalar \ {0} /\ Times(s, t) \in Scalar \ {0} /\ a \in Scalar \ {0}
  BY <1>1, GroupFacts, TimesNonzero
<1>3. Times(Exp(t), Times(h, s)) = Times(a, h)
  <2>1. Times(Exp(t), Times(h, s)) = Times(h, Times(Exp(t), s)) /\ Exp(t) \in Scalar
    BY GroupFacts, TimesExchange
  <2>2. Times(Exp(t), s) = Times(Gen, Times(t, s)) /\ Times(t, s) = Times(s, t)
    BY <1>2, TimesExchange, TimesLaws DEF Exp
  <2>3. Times(h, a) = Times(a, h)
    BY <1>2, TimesLaws
  <2> QED
    BY <1>1, <2>1, <2>2, <2>3
<1>4. Times(Times(Exp(s), t), k) = Times(a, k)
  <2>1. Times(Exp(s), t) = Times(Gen, Times(s, t))
    BY <1>2, TimesExchange DEF Exp
  <2> QED
    BY <1>1, <2>1
<1> QED
  BY <1>2, <1>3, <1>4, TimesCancels

(* What a vetKey makes of what is encrypted to its identity, or to another
   (ibe.rs ibe_encrypt, ibe_decrypt).                                      *)
LEMMA Decrypted ==
  ASSUME NEW s \in Scalar \ {0}, NEW id \in 0..2, NEW other \in 0..2, NEW seed \in Seed, NEW m \in Message
  PROVE  IbeDecrypt(PartialSign(HashIdentityToG2(id), s), IbeEncrypt(Exp(s), other, m, seed))
           = IF id = other THEN m ELSE Garbled
<1>1. PICK h, k, t, ct : /\ h = HashIdentityToG2(id) /\ k = HashIdentityToG2(other) /\ t = HashH3(seed, m)
                         /\ ct = IbeEncrypt(Exp(s), other, m, seed)
  OBVIOUS
<1>2. h \in Scalar /\ k \in Scalar /\ t \in Scalar \ {0} /\ (h = k => id = other) /\ (id = other => h = k)
  BY <1>1, HashFacts
<1>3. PICK key : key = Times(Times(Exp(s), t), k)
  OBVIOUS
<1>4. ct = [u |-> Exp(t), v |-> [key |-> key, body |-> seed], w |-> [key |-> seed, body |-> m]]
  BY <1>1, <1>3 DEF IbeEncrypt, Mask, Pairing
<1>5. PICK sigma : sigma = PartialSign(h, s)
  OBVIOUS
<1>6. Times(ct.u, sigma) = key <=> id = other
  <2>1. ct.u = Exp(t)
    BY <1>4
  <2> QED
    BY <1>2, <1>3, <1>5, <2>1, MaskKey DEF PartialSign
<1>7. Unmask(Pairing(ct.u, sigma), ct.v) = IF id = other THEN seed ELSE Garbled
  BY <1>4, <1>6 DEF Unmask, Pairing
<1>8. Unmask(seed, ct.w) = m /\ Unmask(Garbled, ct.w) = Garbled
  BY <1>4 DEF Unmask, Seed, Garbled
<1>9. Exp(HashH3(seed, m)) = ct.u
  BY <1>1, <1>4
<1>10. CASE id = other
  BY <1>1, <1>5, <1>7, <1>8, <1>9, <1>10 DEF IbeDecrypt
<1>11. CASE id # other
  BY <1>1, <1>5, <1>7, <1>8, <1>11 DEF IbeDecrypt
<1> QED
  BY <1>10, <1>11

(* A change of any part is noticed.                                         *)
RefusesChanges(sigma, ct, seed, m) ==
  /\ ct.v.body = seed
  /\ \A u \in Group \ {ct.u} : IbeDecrypt(sigma, [ct EXCEPT !.u = u]) = Garbled
  /\ \A x \in Seed \ {seed} : IbeDecrypt(sigma, [ct EXCEPT !.v.body = x]) = Garbled
  /\ \A n \in Message \ {m} : IbeDecrypt(sigma, [ct EXCEPT !.w.body = n]) = Garbled

LEMMA ChangeRefused ==
  ASSUME NEW s \in Scalar \ {0}, NEW id \in 0..2, NEW seed \in Seed, NEW m \in Message,
         NEW ct, ct = IbeEncrypt(Exp(s), id, m, seed), NEW sigma, sigma = PartialSign(HashIdentityToG2(id), s)
  PROVE  RefusesChanges(sigma, ct, seed, m)
<1>1. PICK h, t : h = HashIdentityToG2(id) /\ t = HashH3(seed, m)
  OBVIOUS
<1>2. h \in Scalar \ {0} /\ t \in Scalar \ {0}
  BY <1>1, HashFacts
<1>3. PICK key : key = Times(Times(Exp(s), t), h)
  OBVIOUS
<1>4. ct = [u |-> Exp(t), v |-> [key |-> key, body |-> seed], w |-> [key |-> seed, body |-> m]]
  BY <1>1, <1>3 DEF IbeEncrypt, Mask, Pairing
<1>5. sigma \in Scalar \ {0} /\ Times(Exp(t), sigma) = key
  <2>1. sigma = Times(h, s)
    BY <1>1 DEF PartialSign
  <2> QED
    BY <1>2, <1>3, <2>1, TimesNonzero, MaskKey
<1>6. Exp(t) \in Scalar \ {0} /\ HashH3(seed, Garbled) = 0 /\ \A x : HashH3(x, Garbled) = 0
  BY <1>2, GroupFacts, HashFacts
<1>7. Exp(0) = 0
  BY ExpLaws DEF Identity
<1>8. ASSUME NEW u \in Group \ {ct.u} PROVE IbeDecrypt(sigma, [ct EXCEPT !.u = u]) = Garbled
  <2>1. PICK d : d = [ct EXCEPT !.u = u]
    OBVIOUS
  <2>2. d.u = u /\ d.v = [key |-> key, body |-> seed] /\ d.w = [key |-> seed, body |-> m] /\ ct.u = Exp(t)
    BY <1>4, <2>1
  <2>3. u \in Scalar /\ u # Exp(t)
    BY <1>8, <2>2 DEF Group, Scalar
  <2>4. Times(u, sigma) # key
    <3>1. Times(sigma, u) = Times(u, sigma) /\ Times(sigma, Exp(t)) = Times(Exp(t), sigma)
      BY <1>5, <1>6, <2>3, TimesLaws
    <3> QED
      BY <1>5, <1>6, <2>3, <3>1, TimesCancels
  <2>5. Unmask(Pairing(d.u, sigma), d.v) = Garbled
    BY <2>2, <2>4 DEF Unmask, Pairing
  <2>6. Unmask(Garbled, d.w) = Garbled
    BY <2>2 DEF Unmask, Seed, Garbled
  <2> QED
    BY <2>1, <2>5, <2>6 DEF IbeDecrypt
<1>9. ASSUME NEW x \in Seed \ {seed} PROVE IbeDecrypt(sigma, [ct EXCEPT !.v.body = x]) = Garbled
  <2>1. PICK d : d = [ct EXCEPT !.v.body = x]
    OBVIOUS
  <2>2. d.u = Exp(t) /\ d.v = [key |-> key, body |-> x] /\ d.w = [key |-> seed, body |-> m]
    BY <1>4, <2>1
  <2>3. Unmask(Pairing(d.u, sigma), d.v) = x
    BY <1>5, <2>2 DEF Unmask, Pairing
  <2>4. Unmask(x, d.w) = Garbled
    BY <1>9, <2>2 DEF Unmask
  <2> QED
    BY <2>1, <2>3, <2>4 DEF IbeDecrypt
<1>10. ASSUME NEW n \in Message \ {m} PROVE IbeDecrypt(sigma, [ct EXCEPT !.w.body = n]) = Garbled
  <2>1. PICK d : d = [ct EXCEPT !.w.body = n]
    OBVIOUS
  <2>2. d.u = Exp(t) /\ d.v = [key |-> key, body |-> seed] /\ d.w = [key |-> seed, body |-> n]
    BY <1>4, <2>1
  <2>3. Unmask(Pairing(d.u, sigma), d.v) = seed /\ Unmask(seed, d.w) = n
    BY <1>5, <2>2 DEF Unmask, Pairing
  <2>4. Exp(HashH3(seed, n)) # Exp(t)
    <3>1. HashH3(seed, n) \in Scalar /\ HashH3(seed, n) # t
      BY <1>1, HashFacts
    <3> QED
      BY <1>2, <3>1, ExpInjective
  <2> QED
    BY <2>1, <2>2, <2>3, <2>4 DEF IbeDecrypt
<1>11. ct.v.body = seed
  BY <1>4
<1> QED
  BY <1>8, <1>9, <1>10, <1>11 DEF RefusesChanges

-----------------------------------------------------------------------------
(* The combination of the first T shares.                                   *)

Collected(v) ==
  /\ v \in Seq(EncryptedKeyShare) /\ Len(v) = N
  /\ \A k \in 1..N : v[k].signer = k

Component1(v) == [k \in 1..T |-> v[k].c1]
Component2(v) == [k \in 1..T |-> v[k].c2]
Component3(v) == [k \in 1..T |-> v[k].c3]

LEMMA FirstT ==
  /\ 1..T \in SUBSET Scalar /\ IsFiniteSet(1..T) /\ Cardinality(1..T) = T /\ T \in Nat \ {0}
  /\ 1..T \in SUBSET (1..N)
<1>1. T \in Nat \ {0} /\ T < P /\ T <= N /\ N \in Nat /\ P \in Nat
  BY VetkeyAssumption, PTypes
<1>2. IsFiniteSet(1..T) /\ Cardinality(1..T) = T
  BY <1>1, FS_Interval
<1> QED
  BY <1>1, <1>2 DEF Scalar

LEMMA ComponentTypes ==
  ASSUME NEW v, Collected(v)
  PROVE  /\ Component1(v) \in [1..T -> Scalar] /\ Component2(v) \in [1..T -> Scalar]
         /\ Component3(v) \in [1..T -> Scalar]
         /\ \A k \in 1..T : v[k] \in EncryptedKeyShare /\ v[k].signer = k
<1>1. \A k \in 1..T : v[k] \in EncryptedKeyShare /\ v[k].signer = k
  BY FirstT DEF Collected
<1>2. \A k \in 1..T : v[k].c1 \in Scalar /\ v[k].c2 \in Scalar /\ v[k].c3 \in Scalar
  BY <1>1 DEF EncryptedKeyShare
<1> QED
  BY <1>1, <1>2 DEF Component1, Component2, Component3

(* Every component is interpolated at zero.                                 *)
LEMMA CombinedIs ==
  ASSUME NEW v, Collected(v)
  PROVE  CombineEncryptedShares(v, T) =
           [c1 |-> At0(1..T, Component1(v)), c2 |-> At0(1..T, Component2(v)),
            c3 |-> At0(1..T, Component3(v))]
<1> DEFINE used == SubSeq(v, 1, Min({Len(v), T}))
<1>1. Min({Len(v), T}) = T
  <2>1. T \in Int /\ N \in Int /\ T <= N /\ Len(v) = N
    BY VetkeyAssumption DEF Collected
  <2>2. T \in {N, T} /\ \A y \in {N, T} : T <= y
    BY <2>1
  <2>3. \A x \in {N, T} : (\A y \in {N, T} : x <= y) => x = T
    BY <2>1
  <2> QED
    BY <2>1, <2>2, <2>3 DEF Min
<1>2. DOMAIN used = 1..T /\ \A k \in 1..T : used[k] = v[k]
  <2>1. v \in Seq(EncryptedKeyShare) /\ T \in Nat /\ T <= Len(v) /\ 1..T \in SUBSET (1..Len(v))
    BY VetkeyAssumption, FirstT DEF Collected
  <2>2. PICK u : u = SubSeq(v, 1, T)
    OBVIOUS
  <2>3. Len(u) = T /\ DOMAIN u = 1..T /\ \A k \in 1..T : u[k] = v[k]
    BY <2>1, <2>2
  <2> QED
    BY <1>1, <2>2, <2>3
<1> HIDE DEF used
<1>3. \A k \in 1..T : used[k].signer = k
  BY <1>2, ComponentTypes
<1>4. {used[k].signer : k \in DOMAIN used} = 1..T
  BY <1>2, <1>3
<1>5. ASSUME NEW c
      PROVE  Total([k \in DOMAIN used |-> Times(c[k], LagrangeCoeff(used[k].signer, 1..T))]) = At0(1..T, c)
  <2>1. [k \in DOMAIN used |-> Times(c[k], LagrangeCoeff(used[k].signer, 1..T))]
          = [k \in 1..T |-> Times(c[k], LagrangeCoeff(k, 1..T))]
    BY <1>2, <1>3
  <2> QED
    BY <2>1 DEF At0
<1>6. /\ [k \in DOMAIN used |-> used[k].c1] = Component1(v)
      /\ [k \in DOMAIN used |-> used[k].c2] = Component2(v)
      /\ [k \in DOMAIN used |-> used[k].c3] = Component3(v)
  BY <1>2 DEF Component1, Component2, Component3
<1>7. CombineEncryptedShares(v, T) =
        LET Combined(c) == Total([k \in DOMAIN used |-> Times(c[k], LagrangeCoeff(used[k].signer, 1..T))])
        IN  [c1 |-> Combined(Component1(v)), c2 |-> Combined(Component2(v)), c3 |-> Combined(Component3(v))]
  BY <1>4, <1>6 DEF CombineEncryptedShares, used
<1> QED
  BY <1>5, <1>7

LEMMA CombinedTypes ==
  ASSUME NEW v, Collected(v)
  PROVE  /\ CombineEncryptedShares(v, T).c1 \in Scalar /\ CombineEncryptedShares(v, T).c2 \in Scalar
         /\ CombineEncryptedShares(v, T).c3 \in Scalar
<1>1. /\ At0(1..T, Component1(v)) \in Scalar /\ At0(1..T, Component2(v)) \in Scalar
      /\ At0(1..T, Component3(v)) \in Scalar
  BY FirstT, ComponentTypes, At0Type
<1> QED
  BY <1>1, CombinedIs

(* If some randomness makes each of the T shares, some makes the combined key,
   for the secret that the T secrets interpolate to.                        *)
MadeFrom(v, r, s, h, tpk) ==
  \A k \in 1..T : /\ v[k].c1 = Exp(r[k]) /\ v[k].c2 = Exp2(r[k])
                  /\ v[k].c3 = Plus(Times(tpk, r[k]), Times(h, s[k]))

LEMMA CombinedFrom ==
  ASSUME NEW v, Collected(v), NEW r \in [1..T -> Scalar], NEW s \in [1..T -> Scalar],
         NEW h \in Scalar, NEW tpk \in Scalar, MadeFrom(v, r, s, h, tpk)
  PROVE  /\ CombineEncryptedShares(v, T).c1 = Exp(At0(1..T, r))
         /\ CombineEncryptedShares(v, T).c2 = Exp2(At0(1..T, r))
         /\ CombineEncryptedShares(v, T).c3 = Plus(Times(tpk, At0(1..T, r)), Times(h, At0(1..T, s)))
         /\ At0(1..T, r) \in Scalar
<1>1. PICK S : S = 1..T
  OBVIOUS
<1>2. S \in SUBSET Scalar /\ IsFiniteSet(S) /\ r \in [S -> Scalar] /\ s \in [S -> Scalar]
  BY <1>1, FirstT
<1>3. Gen \in Scalar /\ Gen2 \in Scalar
  BY GroupFacts
<1>4. At0(S, Component1(v)) = Exp(At0(S, r))
  <2>1. Component1(v) = [k \in S |-> Times(Gen, r[k])]
    BY <1>1 DEF MadeFrom, Component1, Exp
  <2>2. At0(S, [k \in S |-> Times(Gen, r[k])]) = Times(Gen, At0(S, r))
    BY <1>2, <1>3, At0Times
  <2> QED
    BY <2>1, <2>2 DEF Exp
<1>5. At0(S, Component2(v)) = Exp2(At0(S, r))
  <2>1. Component2(v) = [k \in S |-> Times(Gen2, r[k])]
    BY <1>1 DEF MadeFrom, Component2, Exp2
  <2>2. At0(S, [k \in S |-> Times(Gen2, r[k])]) = Times(Gen2, At0(S, r))
    BY <1>2, <1>3, At0Times
  <2> QED
    BY <2>1, <2>2 DEF Exp2
<1>6. At0(S, Component3(v)) = Plus(Times(tpk, At0(S, r)), Times(h, At0(S, s)))
  <2> DEFINE f == [k \in S |-> Times(tpk, r[k])]
             g == [k \in S |-> Times(h, s[k])]
  <2>1. f \in [S -> Scalar] /\ g \in [S -> Scalar]
    BY <1>2, RingTypes
  <2>2. Component3(v) = [k \in S |-> Plus(f[k], g[k])]
    BY <1>1 DEF MadeFrom, Component3
  <2>3. At0(S, f) = Times(tpk, At0(S, r)) /\ At0(S, g) = Times(h, At0(S, s))
    BY <1>2, At0Times
  <2> HIDE DEF f, g
  <2>4. At0(S, [k \in S |-> Plus(f[k], g[k])]) = Plus(At0(S, f), At0(S, g))
    BY <1>2, <2>1, At0Plus
  <2> QED
    BY <2>2, <2>3, <2>4
<1>7. At0(S, r) \in Scalar
  BY <1>2, At0Type
<1> QED
  BY <1>1, <1>4, <1>5, <1>6, <1>7, CombinedIs

-----------------------------------------------------------------------------
(* The derivation.                                                          *)

KeysOK == dealt \in [1..2 -> Polynomials(T)] /\ GroupSecret # 0

RequestOK ==
  /\ identity \in 0..2 /\ message \in Message
  /\ \E seed \in Seed : ciphertext = IbeEncrypt(PublicKey, identity, message, seed)
  /\ \E tsk \in Scalar : transport = TransportKeygen(tsk)

SharesOK ==
  /\ shares \in Seq(EncryptedKeyShare) /\ Len(shares) <= N
  /\ \A k \in 1..Len(shares) : shares[k].signer = k

(* The combined key is that of the collected shares, and it was checked.    *)
CombinedOK ==
  evk # NoEvk => /\ Collected(shares)
                 /\ evk = CombineEncryptedShares(shares, T)
                 /\ evkValid = VerifyEncryptedVetkey(evk, identity, transport.tpk, PublicKey)

(* What the recipient has, it has from the combined key.                    *)
DecryptedOK ==
  \/ vetkey = NoKey /\ recovered = Garbled
  \/ /\ evk # NoEvk /\ vetkey # NoKey
     /\ vetkey = DecryptVetkey(evk, transport.tsk, identity, PublicKey)
     /\ recovered = IbeDecrypt(vetkey, ciphertext)

DeriveInv == KeysOK /\ RequestOK /\ SharesOK /\ CombinedOK /\ DecryptedOK

(* The shares of the replicas are joint shares of the group's secret.       *)
LEMMA KeysAre ==
  ASSUME KeysOK
  PROVE  /\ GroupSecret = JointSecret(1..2, dealt) /\ GroupSecret \in Scalar \ {0}
         /\ PublicKey = Exp(GroupSecret)
         /\ \A i \in 1..N : /\ KeyShare(i) = [id |-> i, secret |-> JointShare(1..2, dealt, i)]
                            /\ JointShare(1..2, dealt, i) \in Scalar
         /\ At0(1..T, [i \in 1..T |-> JointShare(1..2, dealt, i)]) = GroupSecret
<1>0. IsFiniteSet(1..2)
  <2>1. \A a, b \in Int : IsFiniteSet(a..b)
    BY FS_Interval
  <2>2. 1 \in Int /\ 2 \in Int
    OBVIOUS
  <2> QED
    BY <2>1, <2>2
<1>1. DOMAIN dealt = 1..2 /\ IsFiniteSet(1..2) /\ dealt \in [1..2 -> Polynomials(T)]
  BY <1>0 DEF KeysOK
<1>2. GroupSecret = JointSecret(1..2, dealt)
  BY <1>1 DEF GroupSecret, JointSecret
<1>3. \A i : KeyShare(i) = [id |-> i, secret |-> JointShare(1..2, dealt, i)]
  BY <1>1 DEF KeyShare, JointShare
<1>4. PICK D, C : D = 1..2 /\ C = dealt
  OBVIOUS
<1>5. IsFiniteSet(D) /\ C \in [D -> Polynomials(T)]
  BY <1>1, <1>4
<1>6. JointSecret(D, C) \in Scalar /\ \A x \in Scalar : JointShare(D, C, x) \in Scalar
  BY <1>5, FirstT, JointTypes
<1>7. At0(1..T, [i \in 1..T |-> JointShare(D, C, i)]) = JointSecret(D, C)
  <2>1. PICK S : S = 1..T
    OBVIOUS
  <2>2. S \in SUBSET Scalar /\ IsFiniteSet(S) /\ T \in Nat \ {0} /\ T <= Cardinality(S)
    BY <2>1, FirstT
  <2>3. At0(S, [i \in S |-> JointShare(D, C, i)]) = JointSecret(D, C)
    BY <1>5, <2>2, JointReconstructs
  <2> QED
    BY <2>1, <2>3
<1>8. 1..N \subseteq Scalar
  BY VetkeyAssumption, PTypes DEF Scalar
<1>9. GroupSecret # 0
  BY DEF KeysOK
<1> QED
  BY <1>2, <1>3, <1>4, <1>6, <1>7, <1>8, <1>9 DEF PublicKey

(* Two dealers, the second of a polynomial that is all b.                   *)
LEMMA DeriveInitInv == DeriveInit => DeriveInv
<1> SUFFICES ASSUME DeriveInit PROVE DeriveInv
  OBVIOUS
<1>1. dealt \in [1..2 -> Polynomials(T)]
  <2>1. PICK a \in Draws, b \in Draws, c \in Draws :
          dealt = [j \in 1..2 |-> IF j = 1 THEN [k \in 1..T |-> IF k = 1 THEN a ELSE c]
                                           ELSE [k \in 1..T |-> b]]
    BY DEF DeriveInit
  <2>2. a \in Scalar /\ b \in Scalar /\ c \in Scalar /\ T \in Nat
    BY <2>1, VetkeyAssumption
  <2>3. PICK p, q : p = [k \in 1..T |-> IF k = 1 THEN a ELSE c] /\ q = [k \in 1..T |-> b]
    OBVIOUS
  <2>4. p \in Seq(Scalar) /\ Len(p) = T /\ q \in Seq(Scalar) /\ Len(q) = T
    BY <2>2, <2>3
  <2>5. p \in Polynomials(T) /\ q \in Polynomials(T)
    BY <2>4 DEF Polynomials
  <2>6. dealt = [j \in 1..2 |-> IF j = 1 THEN p ELSE q]
    BY <2>1, <2>3
  <2> QED
    BY <2>5, <2>6
<1>2. KeysOK
  BY <1>1 DEF DeriveInit, KeysOK
<1>3. RequestOK
  BY VetkeyAssumption DEF DeriveInit, RequestOK
<1>4. SharesOK
  <2>1. shares = <<>> /\ N \in Nat
    BY VetkeyAssumption DEF DeriveInit
  <2> QED
    BY <2>1 DEF SharesOK
<1>5. CombinedOK /\ DecryptedOK
  BY DEF DeriveInit, CombinedOK, DecryptedOK
<1> QED
  BY <1>2, <1>3, <1>4, <1>5 DEF DeriveInv

(* Whatever a replica answers is a share with its own number.               *)
LEMMA AnswerType ==
  ASSUME KeysOK, RequestOK, NEW i \in 1..N, NEW share \in Answers(i)
  PROVE  share \in EncryptedKeyShare /\ share.signer = i
<1>1. PICK tsk \in Scalar : transport = TransportKeygen(tsk)
  BY DEF RequestOK
<1>2. transport.tpk \in Scalar /\ HashIdentityToG2(identity) \in Scalar
  BY <1>1, GroupFacts, HashFacts DEF TransportKeygen, RequestOK
<1>3. Gen \in Scalar /\ Gen2 \in Scalar
  BY GroupFacts
<1>4. ASSUME NEW r \in Draws
      PROVE  /\ EncryptKeyShare(KeyShare(i), identity, transport.tpk, r) \in EncryptedKeyShare
             /\ EncryptKeyShare(KeyShare(i), identity, transport.tpk, r).signer = i
  <2>1. r \in Scalar
    BY VetkeyAssumption
  <2>2. KeyShare(i).id = i /\ KeyShare(i).secret \in Scalar
    BY KeysAre
  <2>3. PICK x, y, z : /\ x = Exp(r) /\ y = Exp2(r)
                       /\ z = Plus(Times(transport.tpk, r),
                                   PartialSign(HashIdentityToG2(identity), KeyShare(i).secret))
    OBVIOUS
  <2>4. x \in Scalar /\ y \in Scalar /\ z \in Scalar
    BY <1>2, <2>1, <2>2, <2>3, GroupFacts, RingTypes DEF PartialSign
  <2>5. EncryptKeyShare(KeyShare(i), identity, transport.tpk, r) = [c1 |-> x, c2 |-> y, signer |-> i, c3 |-> z]
    BY <2>2, <2>3 DEF EncryptKeyShare
  <2> QED
    BY <2>4, <2>5 DEF EncryptedKeyShare
<1>5. ASSUME NEW honest \in EncryptedKeyShare, honest.signer = i, share \in Tampered(honest)
      PROVE  share \in EncryptedKeyShare /\ share.signer = i
  <2>1. /\ Plus(honest.c1, Gen) \in Scalar /\ Plus(honest.c2, Gen2) \in Scalar
        /\ Plus(honest.c3, Gen2) \in Scalar
    BY <1>3, RingTypes DEF EncryptedKeyShare
  <2> QED
    BY <1>5, <2>1 DEF EncryptedKeyShare, Tampered
<1>6. CASE \E r \in Draws : share = EncryptKeyShare(KeyShare(i), identity, transport.tpk, r)
  BY <1>4, <1>6
<1>7. CASE \E r \in Draws : share \in Tampered(EncryptKeyShare(KeyShare(i), identity, transport.tpk, r))
  <2>1. PICK r \in Draws : share \in Tampered(EncryptKeyShare(KeyShare(i), identity, transport.tpk, r))
    BY <1>7
  <2> QED
    BY <1>4, <1>5, <2>1
<1> QED
  BY <1>6, <1>7 DEF Answers

LEMMA DeriveStepInv == DeriveInv /\ [DeriveNext]_deriveVars => DeriveInv'
<1> SUFFICES ASSUME DeriveInv, [DeriveNext]_deriveVars PROVE DeriveInv'
  OBVIOUS
<1>1. CASE RequestShare
  <2>1. PICK n : n = Len(shares) + 1
    OBVIOUS
  <2>2. n \in 1..N /\ Len(shares) \in Nat
    BY <1>1, <2>1, VetkeyAssumption DEF RequestShare, DeriveInv, SharesOK
  <2>3. PICK share \in Answers(n) : shares' = Append(shares, share)
    BY <1>1, <2>1 DEF RequestShare
  <2>4. share \in EncryptedKeyShare /\ share.signer = n
    BY <2>2, AnswerType DEF DeriveInv
  <2>5. evk = NoEvk
    BY <1>1, VetkeyAssumption DEF RequestShare, DeriveInv, CombinedOK, Collected
  <2>6. KeysOK' /\ RequestOK' /\ CombinedOK' /\ DecryptedOK'
    BY <1>1, <2>5 DEF RequestShare, DeriveInv, KeysOK, RequestOK, CombinedOK, DecryptedOK, GroupSecret, PublicKey
  <2>7. SharesOK'
    BY <2>1, <2>2, <2>3, <2>4 DEF DeriveInv, SharesOK
  <2> QED
    BY <2>6, <2>7 DEF DeriveInv
<1>2. CASE Combine
  <2>1. Collected(shares)
    BY <1>2 DEF Combine, DeriveInv, SharesOK, Collected
  <2>2. CombinedOK'
    BY <1>2, <2>1 DEF Combine, CombinedOK, PublicKey, GroupSecret
  <2>3. DecryptedOK'
    BY <1>2 DEF Combine, DeriveInv, DecryptedOK
  <2> QED
    BY <1>2, <2>2, <2>3 DEF Combine, DeriveInv, KeysOK, RequestOK, SharesOK, GroupSecret, PublicKey
<1>3. CASE Decrypt
  <2>1. DecryptedOK'
    BY <1>3 DEF Decrypt, DecryptedOK, PublicKey, GroupSecret
  <2> QED
    BY <1>3, <2>1 DEF Decrypt, DeriveInv, KeysOK, RequestOK, SharesOK, CombinedOK, GroupSecret, PublicKey
<1>4. CASE UNCHANGED deriveVars
  BY <1>4 DEF deriveVars, DeriveInv, KeysOK, RequestOK, SharesOK, CombinedOK, DecryptedOK, GroupSecret, PublicKey
<1> QED
  BY <1>1, <1>2, <1>3, <1>4 DEF DeriveNext

LEMMA DeriveInvariant == DeriveSpec => []DeriveInv
BY DeriveInitInv, DeriveStepInv, PTL DEF DeriveSpec

(* ibe.rs verify_encrypted_key_share, combine_encrypted_shares, decrypt_vetkey: a
   share passes its checks exactly if an honest replica could have sent it, and
   T shares that pass give the group's signature of the identity, whatever
   randomness they were made with and whatever the others answered.         *)
THEOREM Checked == DeriveSpec => []SharesChecked
<1>1. DeriveInv => TamperingDetected
  <2> SUFFICES ASSUME DeriveInv, NEW k \in DOMAIN shares
               PROVE  ShareVerifies(shares[k]) <=>
                        \E r \in Scalar : shares[k] = EncryptKeyShare(KeyShare(k), identity, transport.tpk, r)
    BY DEF TamperingDetected
  <2>1. shares \in Seq(EncryptedKeyShare) /\ k \in 1..Len(shares) /\ k \in 1..N
    BY VetkeyAssumption DEF DeriveInv, SharesOK
  <2>2. PICK share : share = shares[k]
    OBVIOUS
  <2>3. share \in EncryptedKeyShare /\ share.signer = k
    BY <2>1, <2>2 DEF DeriveInv, SharesOK
  <2>4. PICK s : s = JointShare(1..2, dealt, k)
    OBVIOUS
  <2>5. s \in Scalar /\ KeyShare(k) = [id |-> share.signer, secret |-> s]
    BY <2>1, <2>3, <2>4, KeysAre DEF DeriveInv
  <2>6. identity \in 0..2 /\ transport.tpk \in Scalar
    BY GroupFacts DEF DeriveInv, RequestOK, TransportKeygen
  <2>7. ShareVerifies(share) <=> VerifyEncryptedKeyShare(share, identity, transport.tpk, Exp(s))
    BY <2>3, <2>5 DEF ShareVerifies
  <2>8. VerifyEncryptedKeyShare(share, identity, transport.tpk, Exp(s)) <=>
          \E r \in Scalar : share = EncryptKeyShare([id |-> share.signer, secret |-> s], identity, transport.tpk, r)
    BY <2>3, <2>5, <2>6, ShareTells
  <2> QED
    BY <2>2, <2>5, <2>7, <2>8
<1>2. DeriveInv => VerifiedSharesDecrypt
  <2> SUFFICES ASSUME DeriveInv, evk # NoEvk, \A k \in 1..T : ShareVerifies(shares[k])
               PROVE  /\ evkValid
                      /\ DecryptVetkey(evk, transport.tsk, identity, PublicKey) = Sigma(identity)
                      /\ IbeDecrypt(Sigma(identity), ciphertext) = message
    BY DEF VerifiedSharesDecrypt
  <2>1. /\ Collected(shares) /\ evk = CombineEncryptedShares(shares, T)
        /\ evkValid = VerifyEncryptedVetkey(evk, identity, transport.tpk, PublicKey)
    BY DEF DeriveInv, CombinedOK
  <2>2. /\ GroupSecret \in Scalar \ {0} /\ PublicKey = Exp(GroupSecret)
        /\ \A i \in 1..N : /\ KeyShare(i) = [id |-> i, secret |-> JointShare(1..2, dealt, i)]
                           /\ JointShare(1..2, dealt, i) \in Scalar
        /\ At0(1..T, [i \in 1..T |-> JointShare(1..2, dealt, i)]) = GroupSecret
    BY KeysAre DEF DeriveInv
  <2>3. PICK tsk \in Scalar : transport = TransportKeygen(tsk)
    BY DEF DeriveInv, RequestOK
  <2>4. PICK h, tpk : h = HashIdentityToG2(identity) /\ tpk = Exp2(tsk)
    OBVIOUS
  <2>5. /\ identity \in 0..2 /\ h \in Scalar /\ tpk \in Scalar
        /\ transport.tpk = tpk /\ transport.tsk = tsk
    BY <2>3, <2>4, GroupFacts, HashFacts DEF DeriveInv, RequestOK, TransportKeygen
  <2>6. \A k \in 1..T : k \in 1..N /\ k \in DOMAIN shares
    BY <2>1, FirstT DEF Collected
  <2>7. PICK s : s = [i \in 1..T |-> JointShare(1..2, dealt, i)]
    OBVIOUS
  <2>8. s \in [1..T -> Scalar] /\ At0(1..T, s) = GroupSecret /\ \A k \in 1..T : KeyShare(k) = [id |-> k, secret |-> s[k]]
    BY <2>2, <2>6, <2>7
  <2>9. \A k \in 1..T : \E r \in Scalar : shares[k] = EncryptKeyShare(KeyShare(k), identity, tpk, r)
    BY <1>1, <2>5, <2>6 DEF TamperingDetected
  <2>10. PICK r : r = [k \in 1..T |-> CHOOSE x \in Scalar : shares[k] = EncryptKeyShare(KeyShare(k), identity, tpk, x)]
    OBVIOUS
  <2>11. r \in [1..T -> Scalar] /\ \A k \in 1..T : shares[k] = EncryptKeyShare(KeyShare(k), identity, tpk, r[k])
    BY <2>9, <2>10
  <2>12. ASSUME NEW k \in 1..T
         PROVE  /\ shares[k].c1 = Exp(r[k]) /\ shares[k].c2 = Exp2(r[k])
                /\ shares[k].c3 = Plus(Times(tpk, r[k]), Times(h, s[k]))
    <3>1. PICK x, y, z : /\ x = Exp(r[k]) /\ y = Exp2(r[k])
                         /\ z = Plus(Times(tpk, r[k]), Times(h, s[k]))
      OBVIOUS
    <3>2. KeyShare(k).id = k /\ KeyShare(k).secret = s[k]
      BY <2>8
    <3>3. shares[k] = [c1 |-> x, c2 |-> y, signer |-> k, c3 |-> z]
      BY <2>4, <2>11, <3>1, <3>2 DEF EncryptKeyShare, PartialSign
    <3>4. shares[k].c1 = x /\ shares[k].c2 = y /\ shares[k].c3 = z
      BY <3>3
    <3> QED
      BY <3>1, <3>4
  <2>13. PICK v, R : v = shares /\ R = At0(1..T, r)
    OBVIOUS
  <2>14. /\ evk.c1 = Exp(R) /\ evk.c2 = Exp2(R) /\ R \in Scalar
         /\ evk.c3 = Plus(Times(tpk, R), Times(h, GroupSecret))
    <3>1. /\ CombineEncryptedShares(v, T).c1 = Exp(At0(1..T, r))
          /\ CombineEncryptedShares(v, T).c2 = Exp2(At0(1..T, r))
          /\ CombineEncryptedShares(v, T).c3 = Plus(Times(tpk, At0(1..T, r)), Times(h, At0(1..T, s)))
          /\ At0(1..T, r) \in Scalar
      <4>1. Collected(v) /\ MadeFrom(v, r, s, h, tpk)
        BY <2>1, <2>12, <2>13 DEF MadeFrom
      <4> QED
        BY <2>5, <2>8, <2>11, <4>1, CombinedFrom
    <3> QED
      BY <2>1, <2>8, <2>13, <3>1
  <2>15. /\ VerifyEncryptedVetkey(evk, identity, Exp2(tsk), Exp(GroupSecret))
         /\ DecryptVetkey(evk, tsk, identity, Exp(GroupSecret)) = PartialSign(HashIdentityToG2(identity), GroupSecret)
    <3>1. PICK e, g : e = evk /\ g = GroupSecret
      OBVIOUS
    <3>2. /\ e.c1 = Exp(R) /\ e.c2 = Exp2(R) /\ g \in Scalar
          /\ e.c3 = Plus(Times(Exp2(tsk), R), Times(HashIdentityToG2(identity), g))
      BY <2>2, <2>4, <2>14, <3>1
    <3>3. /\ VerifyEncryptedVetkey(e, identity, Exp2(tsk), Exp(g))
          /\ DecryptVetkey(e, tsk, identity, Exp(g)) = PartialSign(HashIdentityToG2(identity), g)
      BY <2>5, <2>14, <3>2, SignatureOpens
    <3> QED
      BY <3>1, <3>3
  <2>16. PICK seed \in Seed : ciphertext = IbeEncrypt(PublicKey, identity, message, seed)
    BY DEF DeriveInv, RequestOK
  <2>17. IbeDecrypt(Sigma(identity), ciphertext) = message
    <3>1. message \in Message
      BY DEF DeriveInv, RequestOK
    <3>2. IbeDecrypt(PartialSign(HashIdentityToG2(identity), GroupSecret),
                     IbeEncrypt(Exp(GroupSecret), identity, message, seed)) = message
      BY <2>2, <2>5, <3>1, Decrypted
    <3> QED
      BY <2>2, <2>16, <3>2 DEF Sigma
  <2> QED
    BY <2>1, <2>2, <2>4, <2>5, <2>15, <2>17 DEF Sigma
<1> QED
  BY <1>1, <1>2, DeriveInvariant, PTL DEF SharesChecked

(* engine_vetkeys.rs and ibe.rs: whatever the replicas answered, the recipient has
   nothing or the vetKey of the identity, and with it opens the message and no
   ciphertext that is for another identity or was changed.                  *)
THEOREM NothingElse == DeriveSpec => []NothingElseOpens
<1>1. DeriveInv => NothingElseOpens
  <2> SUFFICES ASSUME DeriveInv PROVE NothingElseOpens
    OBVIOUS
  <2>1. PICK g : g = GroupSecret
    OBVIOUS
  <2>2. g \in Scalar \ {0} /\ PublicKey = Exp(g) /\ Sigma(identity) = PartialSign(HashIdentityToG2(identity), g)
    BY <2>1, KeysAre DEF DeriveInv, Sigma
  <2>3. identity \in 0..2 /\ message \in Message
    BY DEF DeriveInv, RequestOK
  <2>4. PICK seed \in Seed : ciphertext = IbeEncrypt(PublicKey, identity, message, seed)
    BY DEF DeriveInv, RequestOK
  <2>5. CASE vetkey = NoKey
    BY <2>5 DEF DeriveInv, DecryptedOK, NothingElseOpens, NeverAnotherMessage, WrongIdentityFails,
                TamperedCiphertextRejected
  <2>6. CASE vetkey # NoKey
    <3>1. /\ evk # NoEvk /\ vetkey = DecryptVetkey(evk, transport.tsk, identity, PublicKey)
          /\ recovered = IbeDecrypt(vetkey, ciphertext)
      BY <2>6 DEF DeriveInv, DecryptedOK
    <3>2. Collected(shares) /\ evk = CombineEncryptedShares(shares, T)
      BY <3>1 DEF DeriveInv, CombinedOK
    <3>3. evk.c2 \in Scalar /\ evk.c3 \in Scalar
      BY <3>2, CombinedTypes
    <3>4. transport.tsk \in Scalar
      BY DEF DeriveInv, RequestOK, TransportKeygen
    <3>5. vetkey = PartialSign(HashIdentityToG2(identity), g)
      <4>1. DecryptVetkey(evk, transport.tsk, identity, Exp(g)) \in {NoKey, PartialSign(HashIdentityToG2(identity), g)}
        BY <2>2, <2>3, <3>3, <3>4, OnlySignature
      <4> QED
        BY <2>2, <2>6, <3>1, <4>1
    <3>6. recovered = message
      <4>1. IbeDecrypt(PartialSign(HashIdentityToG2(identity), g), IbeEncrypt(Exp(g), identity, message, seed)) = message
        BY <2>2, <2>3, Decrypted
      <4> QED
        BY <2>2, <2>4, <3>1, <3>5, <4>1
    <3>7. NeverAnotherMessage
      BY <2>2, <3>5, <3>6 DEF NeverAnotherMessage
    <3>8. WrongIdentityFails
      <4> SUFFICES ASSUME NEW id \in 0..2 \ {identity}, NEW other \in Seed, NEW m \in Message
                   PROVE  IbeDecrypt(vetkey, IbeEncrypt(PublicKey, id, m, other)) = Garbled
        BY DEF WrongIdentityFails
      <4>1. IbeDecrypt(PartialSign(HashIdentityToG2(identity), g), IbeEncrypt(Exp(g), id, m, other)) = Garbled
        BY <2>2, <2>3, Decrypted
      <4> QED
        BY <2>2, <3>5, <4>1
    <3>9. TamperedCiphertextRejected
      <4>1. PICK ct, sigma : ct = ciphertext /\ sigma = vetkey
        OBVIOUS
      <4>2. ct = IbeEncrypt(Exp(g), identity, message, seed) /\ sigma = PartialSign(HashIdentityToG2(identity), g)
        BY <2>2, <2>4, <3>5, <4>1
      <4>3. RefusesChanges(sigma, ct, seed, message)
        BY <2>2, <2>3, <4>2, ChangeRefused
      <4> QED
        BY <4>1, <4>3 DEF RefusesChanges, TamperedCiphertextRejected
    <3> QED
      BY <3>7, <3>8, <3>9 DEF NothingElseOpens
  <2> QED
    BY <2>5, <2>6
<1> QED
  BY <1>1, DeriveInvariant, PTL

-----------------------------------------------------------------------------
(* THE SIDECAR                                                              *)

Ciphertext == [epoch : Nat, nonce : Pk]
FramePosted == [kind : {"frame"}, pk : Pk, frame_id : Nat, run : Nat, ciphertext : Ciphertext]
Frame == [kind : {"frame"}, pk : Pk, frame_id : Nat, run : Nat, ciphertext : Ciphertext,
          seq : Nat \ {0}]
Infer == [kind : {"infer"}, pk : Pk, seq : {0}, ciphertext : Ciphertext]
Request == Frame \cup Infer
Keys == [tsk : Request \cup {None}, evk : [epoch : Nat, tpk : Request \cup {None}],
         mpk : Nat, attestation_verified : BOOLEAN]
Stages == {"lookup", "request", "mpk", "insert", "decrypt", "vllm", "store", "give_back"}
Session == [latest_frame : Frame, new_frame : BOOLEAN, fresh : BOOLEAN,
            latest_result : Frame \cup {None}]

Types ==
  /\ setup \in Setups /\ attestation \in setup.evidence
  /\ client \in [Pk -> [streaming : BOOLEAN, run : Nat, frameNum : Nat, lastResult : Nat]]
  /\ posts \subseteq FramePosted
  /\ arrivals \in [Pk -> Nat]
  /\ DOMAIN sessions \subseteq Pk /\ sessions \in [DOMAIN sessions -> Session]
  /\ IsFiniteSet(DOMAIN sessions)
  /\ DOMAIN vetkey_cache \subseteq Pk /\ vetkey_cache \in [DOMAIN vetkey_cache -> Keys]
  /\ loop \in [pc : {"sleep", "collect", "spawn", "cleanup"}, available : Nat,
               batch : SUBSET Frame, cleanup_due : BOOLEAN]
  /\ DOMAIN tasks \subseteq Request /\ tasks \in [DOMAIN tasks -> [stage : Stages, vk : Keys]]
  /\ epoch \in Nat

(* The frames that were taken and have not ended.                           *)
Taken == FrameTasks \cup loop.batch

(* What waits is the last frame of its session, what was taken or answered is
   another, and has come before it.                                        *)
Numbered ==
  /\ \A pk \in DOMAIN sessions :
       /\ sessions[pk].latest_frame.pk = pk
       /\ sessions[pk].latest_frame.seq = arrivals[pk]
       /\ sessions[pk].latest_result.seq <= arrivals[pk]
       /\ pk \in Waiting => sessions[pk].latest_result.seq < arrivals[pk]
  /\ \A f \in Taken :
       /\ f.seq <= arrivals[f.pk]
       /\ f.pk \in Waiting => f.seq < arrivals[f.pk]

(* The slots are taken or free; those the loop saw free before it collects, and
   those it has filled since, fit with what still runs.                    *)
Slots ==
  /\ IsFiniteSet(FrameTasks) /\ inflight = Cardinality(FrameTasks)
  /\ IsFiniteSet(loop.batch) /\ inflight + Cardinality(loop.batch) <= setup.batch_size
  /\ loop.pc = "collect" => inflight + loop.available <= setup.batch_size
  /\ (loop.pc = "spawn") <=> (loop.batch # {})
  /\ loop.batch \cap DOMAIN tasks = {}

(* A ciphertext was made for the session that sends it, by a key server that was
   up before.                                                              *)
MadeFor(req) == req.ciphertext.nonce = req.pk /\ req.ciphertext.epoch \in 1..epoch
Encrypted ==
  /\ epoch \in 1..setup.epochs
  /\ \A req \in posts \cup DOMAIN tasks \cup loop.batch : MadeFor(req)
  /\ \A pk \in DOMAIN sessions : MadeFor(sessions[pk].latest_frame)

(* A key and the secret it was made for stay together, from the request on.  *)
Fits(vk) == vk.tsk = vk.evk.tpk /\ vk.evk.epoch \in 1..epoch
FitsWhole(vk) == Fits(vk) /\ vk.mpk \in 1..epoch
KeysFit ==
  /\ \A pk \in DOMAIN vetkey_cache : FitsWhole(vetkey_cache[pk])
  /\ \A req \in DOMAIN tasks :
       /\ At(req, "mpk") => Fits(tasks[req].vk)
       /\ At(req, "insert") \/ At(req, "decrypt") => FitsWhole(tasks[req].vk)

(* With one slot, what is in work has come after the frame whose answer is shown. *)
Newer ==
  setup.batch_size = 1 =>
    \A f \in Taken : f.pk \in DOMAIN sessions /\ ~At(f, "give_back") =>
      sessions[f.pk].latest_result.seq < f.seq

(* With one slot and no failures, the last frame of a session waits, is in work or
   is the one whose answer is shown.                                       *)
Smooth == setup.batch_size = 1 /\ ~setup.can_fail /\ ~Refused /\ setup.epochs = 1
LastHandled ==
  Smooth => \A pk \in DOMAIN sessions \ Waiting :
    LET last == sessions[pk].latest_frame
    IN  sessions[pk].latest_result = last \/ (last \in Taken /\ ~At(last, "give_back"))

(* The inductive invariant.                                                 *)
IInv == Types /\ Numbered /\ Slots /\ Encrypted /\ KeysFit /\ Newer /\ LastHandled

-----------------------------------------------------------------------------
LEMMA SetupTypes ==
  ASSUME Types
  PROVE  /\ setup.batch_size \in Nat \ {0} /\ setup.epochs \in Nat \ {0}
         /\ setup.frames \in [Pk -> Nat] /\ setup.runs \in Nat \ {0}
         /\ setup.evidence \subseteq CollectedEvidence
  BY SidecarAssumption DEF Types

LEMMA TypesInit == Init => Types
<1> SUFFICES ASSUME Init PROVE Types
  OBVIOUS
<1>1. setup \in Setups /\ attestation \in setup.evidence /\ posts \subseteq FramePosted
  BY DEF Init
<1>2. client \in [Pk -> [streaming : BOOLEAN, run : Nat, frameNum : Nat, lastResult : Nat]]
  BY DEF Init
<1>3. DOMAIN sessions = {} /\ DOMAIN vetkey_cache = {} /\ DOMAIN tasks = {}
  BY DEF Init
<1>4. sessions \in [DOMAIN sessions -> Session] /\ vetkey_cache \in [DOMAIN vetkey_cache -> Keys]
        /\ tasks \in [DOMAIN tasks -> [stage : Stages, vk : Keys]]
  BY <1>3 DEF Init
<1>5. loop \in [pc : {"sleep", "collect", "spawn", "cleanup"}, available : Nat,
               batch : SUBSET Frame, cleanup_due : BOOLEAN]
  BY DEF Init
<1> QED
  BY <1>1, <1>2, <1>3, <1>4, <1>5, FS_EmptySet DEF Init, Types

(* The tasks go from stage to stage with keys, and leave the rest alone.    *)
LEMMA TypesTask ==
  ASSUME Types, NEW req \in DOMAIN tasks, Task(req)
  PROVE  Types'
<1> DEFINE TaskSet == [stage : Stages, vk : Keys]
<1> USE DEF Types
<1>0. NoKeys \in Keys
  BY DEF NoKeys, Keys
<1>1. ASSUME NEW stage \in Stages, Goes(req, stage)
      PROVE  DOMAIN tasks' = DOMAIN tasks /\ tasks' \in [DOMAIN tasks -> TaskSet]
  BY <1>1 DEF Goes
<1>2. CASE LookupVetkey(req)
  <2>1. DOMAIN tasks' = DOMAIN tasks /\ tasks' \in [DOMAIN tasks -> TaskSet]
    BY <1>1, <1>2 DEF LookupVetkey, Stages
  <2> QED
    BY <1>2, <2>1 DEF LookupVetkey, given
<1>3. CASE RequestVetkey(req)
  <2> DEFINE vk == [tsk |-> req, evk |-> PostVetkey(epoch, req, attestation).evk, mpk |-> 0,
                    attestation_verified |-> PostVetkey(epoch, req, attestation).attestation_verified]
  <2>1. vk \in Keys
    BY DEF Keys, PostVetkey, VerifyAttestation
  <2>2. DOMAIN tasks' = DOMAIN tasks /\ tasks' \in [DOMAIN tasks -> TaskSet]
    BY <1>1, <1>3, <2>1 DEF RequestVetkey, Stages
  <2> QED
    BY <1>3, <2>2 DEF RequestVetkey, given
<1>4. CASE RequestMpk(req)
  <2>1. DOMAIN tasks' = DOMAIN tasks /\ tasks' \in [DOMAIN tasks -> TaskSet]
    <3>1. CASE Goes(req, "give_back")
      BY <1>1, <3>1 DEF Stages
    <3>2. CASE tasks' = [tasks EXCEPT ![req] =
                 [stage |-> "insert", vk |-> [@.vk EXCEPT !.mpk = GetMpk(epoch)]]]
      <4>1. [tasks[req].vk EXCEPT !.mpk = GetMpk(epoch)] \in Keys
        <5>1. tasks[req].vk \in Keys /\ GetMpk(epoch) \in Nat
          BY DEF GetMpk
        <5> QED
          BY <5>1 DEF Keys
      <4> QED
        BY <3>2, <4>1 DEF Stages
    <3> QED
      BY <1>4, <3>1, <3>2 DEF RequestMpk
  <2> QED
    BY <1>4, <2>1 DEF RequestMpk, given
<1>5. CASE InsertVetkey(req)
  <2>1. DOMAIN tasks' = DOMAIN tasks /\ tasks' \in [DOMAIN tasks -> TaskSet]
    BY <1>1, <1>5 DEF InsertVetkey, Stages
  <2>2. req.pk \in Pk
    BY DEF Request, Frame, Infer
  <2>3. DOMAIN vetkey_cache' \subseteq Pk /\ vetkey_cache' \in [DOMAIN vetkey_cache' -> Keys]
    BY <1>5, <2>2 DEF InsertVetkey, Assign
  <2> QED
    BY <1>5, <2>1, <2>3 DEF InsertVetkey, given
<1>6. CASE DecryptFrame(req)
  <2>1. DOMAIN tasks' = DOMAIN tasks /\ tasks' \in [DOMAIN tasks -> TaskSet]
    BY <1>1, <1>6 DEF DecryptFrame, Stages
  <2> QED
    BY <1>6, <2>1 DEF DecryptFrame, given
<1>7. CASE CallVllm(req)
  <2>1. DOMAIN tasks' = DOMAIN tasks /\ tasks' \in [DOMAIN tasks -> TaskSet]
    BY <1>1, <1>7 DEF CallVllm, Stages
  <2> QED
    BY <1>7, <2>1 DEF CallVllm, given
<1>8. CASE StoreResult(req)
  <2>1. DOMAIN tasks' = DOMAIN tasks /\ tasks' \in [DOMAIN tasks -> TaskSet]
    BY <1>1, <1>8 DEF StoreResult, Stages
  <2>2. req.kind = "frame" => req \in Frame
    BY DEF Request, Infer
  <2>3. DOMAIN sessions' = DOMAIN sessions /\ sessions' \in [DOMAIN sessions -> Session]
    BY <1>8, <2>2 DEF StoreResult, Session
  <2> QED
    BY <1>8, <2>1, <2>3 DEF StoreResult, given
<1>9. CASE GiveBack(req)
  <2>1. DOMAIN tasks' \subseteq DOMAIN tasks /\ tasks' \in [DOMAIN tasks' -> TaskSet]
    BY <1>9 DEF GiveBack, Without
  <2> QED
    BY <1>9, <2>1 DEF GiveBack, given
<1> QED
  BY <1>2, <1>3, <1>4, <1>5, <1>6, <1>7, <1>8, <1>9 DEF Task

LEMMA TypesBrowser ==
  ASSUME Types, NEW pk \in Pk, Start(pk) \/ Stop(pk) \/ SendFrame(pk) \/ PollResult(pk)
  PROVE  Types'
<1> USE DEF Types
<1>0. \A fid \in Nat, run \in Nat : FramePost(pk, fid, run) \in FramePosted
  BY DEF FramePost, FramePosted, Ciphertext, PostEncrypt
<1>1. CASE Start(pk)
  <2>1. client[pk].run + 1 \in Nat
    OBVIOUS
  <2>2. posts' \subseteq FramePosted
    <3>1. FramePost(pk, 1, client[pk].run + 1) \in FramePosted
      BY <1>0, <2>1
    <3> QED
      BY <1>1, <3>1 DEF Start
  <2>3. client' \in [Pk -> [streaming : BOOLEAN, run : Nat, frameNum : Nat, lastResult : Nat]]
    BY <1>1, <2>1 DEF Start
  <2> QED
    BY <1>1, <2>2, <2>3 DEF Start, given
<1>2. CASE Stop(pk)
  BY <1>2 DEF Stop, given
<1>3. CASE SendFrame(pk)
  <2>1. client[pk].frameNum + 1 \in Nat /\ client[pk].run \in Nat
    OBVIOUS
  <2>2. posts' \subseteq FramePosted
    BY <1>0, <1>3, <2>1 DEF SendFrame
  <2>3. client' \in [Pk -> [streaming : BOOLEAN, run : Nat, frameNum : Nat, lastResult : Nat]]
    BY <1>3, <2>1 DEF SendFrame
  <2> QED
    BY <1>3, <2>2, <2>3 DEF SendFrame, given
<1>4. CASE PollResult(pk)
  <2>1. sessions[pk].latest_result \in Frame
    BY <1>4 DEF PollResult, Session
  <2>2. sessions[pk].latest_result.frame_id \in Nat
    BY <2>1 DEF Frame
  <2> QED
    BY <1>4, <2>2 DEF PollResult, given
<1> QED
  BY <1>1, <1>2, <1>3, <1>4

LEMMA TypesHandlers ==
  ASSUME Types, Handlers
  PROVE  Types'
<1> USE DEF Types
<1>1. ASSUME NEW req \in posts, PostFrame(req)
      PROVE  Types'
  <2> DEFINE frame == [kind |-> req.kind, pk |-> req.pk, frame_id |-> req.frame_id, run |-> req.run,
                       ciphertext |-> req.ciphertext, seq |-> arrivals[req.pk] + 1]
             old == IF req.pk \in DOMAIN sessions THEN sessions[req.pk] ELSE [latest_result |-> None]
             new == [latest_frame |-> frame, new_frame |-> TRUE, fresh |-> TRUE,
                     latest_result |-> old.latest_result]
  <2>1. req \in FramePosted /\ req.pk \in Pk
    BY DEF FramePosted
  <2>2. frame \in Frame
    BY <2>1 DEF Frame, FramePosted
  <2>3. old.latest_result \in Frame \cup {None}
    BY DEF Session
  <2>4. new \in Session
    BY <2>2, <2>3 DEF Session
  <2>5. sessions' = Assign(sessions, req.pk, new)
    BY <1>1 DEF PostFrame
  <2>6. DOMAIN sessions' = DOMAIN sessions \cup {req.pk} /\ sessions' \in [DOMAIN sessions' -> Session]
    BY <2>4, <2>5 DEF Assign
  <2>7. IsFiniteSet(DOMAIN sessions')
    BY <2>6, FS_AddElement
  <2>8. arrivals' \in [Pk -> Nat]
    <3>1. arrivals[req.pk] + 1 \in Nat
      BY <2>1
    <3> QED
      BY <1>1, <3>1 DEF PostFrame
  <2>9. posts' \subseteq FramePosted
    BY <1>1 DEF PostFrame
  <2>10. DOMAIN sessions' \subseteq Pk
    BY <2>1, <2>6
  <2> HIDE DEF old, frame, new
  <2> QED
    BY <1>1, <2>6, <2>7, <2>8, <2>9, <2>10 DEF PostFrame, given
<1>2. ASSUME NEW pk \in Pk, PostInfer(pk)
      PROVE  Types'
  <2> DEFINE req == [kind |-> "infer", pk |-> pk, seq |-> 0, ciphertext |-> PostEncrypt(epoch, pk)]
  <2>1. req \in Request
    BY DEF Request, Infer, Ciphertext, PostEncrypt
  <2>2. [stage |-> "lookup", vk |-> NoKeys] \in [stage : Stages, vk : Keys]
    BY DEF Stages, NoKeys, Keys
  <2>3. tasks' = Assign(tasks, req, [stage |-> "lookup", vk |-> NoKeys])
    BY <1>2 DEF PostInfer
  <2>4. DOMAIN tasks' \subseteq Request /\ tasks' \in [DOMAIN tasks' -> [stage : Stages, vk : Keys]]
    BY <2>1, <2>2, <2>3 DEF Assign
  <2> QED
    BY <1>2, <2>4 DEF PostInfer, given
<1> QED
  BY <1>1, <1>2 DEF Handlers

(* available is a number of free slots: the loop looks at the counter while it is
   below the batch size.                                                   *)
LEMMA TypesLoop ==
  ASSUME Types, inflight \in Nat, Loop
  PROVE  Types'
<1> USE DEF Types
<1>1. CASE LoadInflight
  <2>1. setup.batch_size - inflight \in Nat
    BY <1>1, SetupTypes DEF LoadInflight
  <2>2. loop' \in [pc : {"sleep", "collect", "spawn", "cleanup"}, available : Nat,
                   batch : SUBSET Frame, cleanup_due : BOOLEAN]
    BY <1>1, <2>1 DEF LoadInflight
  <2> QED
    BY <1>1, <2>2 DEF LoadInflight, given
<1>2. CASE Collect
  <2>1. PICK taken \in SUBSET Waiting :
          /\ loop' = [loop EXCEPT !.pc = IF taken = {} THEN "sleep" ELSE "spawn",
                                  !.batch = {sessions[pk].latest_frame : pk \in taken}]
          /\ sessions' = [pk \in DOMAIN sessions |->
               [sessions[pk] EXCEPT !.new_frame = @ /\ pk \notin taken]]
    BY <1>2 DEF Collect
  <2>2. {sessions[pk].latest_frame : pk \in taken} \subseteq Frame
    BY DEF Waiting, Session
  <2>3. DOMAIN sessions' = DOMAIN sessions /\ sessions' \in [DOMAIN sessions -> Session]
    BY <2>1 DEF Session
  <2> QED
    BY <1>2, <2>1, <2>2, <2>3 DEF Collect, given
<1>3. ASSUME NEW frame \in loop.batch, Spawn(frame)
      PROVE  Types'
  <2>1. frame \in Request
    BY DEF Request
  <2>2. [stage |-> "lookup", vk |-> NoKeys] \in [stage : Stages, vk : Keys]
    BY DEF Stages, NoKeys, Keys
  <2>3. DOMAIN tasks' \subseteq Request /\ tasks' \in [DOMAIN tasks' -> [stage : Stages, vk : Keys]]
    BY <1>3, <2>1, <2>2 DEF Spawn, Assign
  <2> QED
    BY <1>3, <2>3 DEF Spawn, given
<1>4. CASE CleanupStaleSessions
  <2>1. DOMAIN sessions' \subseteq DOMAIN sessions /\ sessions' \in [DOMAIN sessions' -> Session]
    BY <1>4 DEF CleanupStaleSessions, Without
  <2>2. IsFiniteSet(DOMAIN sessions')
    BY <2>1, FS_Subset
  <2> QED
    BY <1>4, <2>1, <2>2 DEF CleanupStaleSessions, given
<1> QED
  BY <1>1, <1>2, <1>3, <1>4 DEF Loop

LEMMA TypesWorld ==
  ASSUME Types, World
  PROVE  Types'
<1> USE DEF Types
<1>1. ASSUME NEW pk \in Pk, SessionAges(pk)
      PROVE  Types'
  <2>1. DOMAIN sessions' = DOMAIN sessions /\ sessions' \in [DOMAIN sessions -> Session]
    BY <1>1 DEF SessionAges, Session
  <2> QED
    BY <1>1, <2>1 DEF SessionAges, given
<1>2. CASE CleanupComesDue
  BY <1>2 DEF CleanupComesDue, given
<1>3. CASE KeyServerRestarts
  BY <1>3 DEF KeyServerRestarts, given
<1> QED
  BY <1>1, <1>2, <1>3 DEF World

LEMMA TypesNext ==
  ASSUME Types, inflight \in Nat, [Next]_vars
  PROVE  Types'
<1>1. CASE UNCHANGED vars
  BY <1>1 DEF vars, given, Types
<1> QED
  BY <1>1, TypesBrowser, TypesHandlers, TypesLoop, TypesTask, TypesWorld DEF Next, Browser

-----------------------------------------------------------------------------
(* What the steps do to the parts the invariant is about.                   *)

LEMMA FrameFacts ==
  ASSUME Types
  PROVE  /\ FrameTasks \subseteq Frame /\ Taken \subseteq Frame
         /\ \A f \in Frame : f.kind = "frame" /\ f.pk \in Pk /\ f.seq \in Nat \ {0} /\ f # None
         /\ \A pk \in DOMAIN sessions :
              /\ sessions[pk].latest_frame \in Frame /\ sessions[pk].new_frame \in BOOLEAN
              /\ sessions[pk].latest_result \in Frame \cup {None}
              /\ sessions[pk].latest_result.seq \in Nat
         /\ \A pk \in Pk : arrivals[pk] \in Nat
<1>1. \A f \in Frame : f.kind = "frame" /\ f.pk \in Pk /\ f.seq \in Nat \ {0}
  BY DEF Frame
<1>2. None.seq = 0
  BY DEF None
<1>3. FrameTasks \subseteq Frame /\ Taken \subseteq Frame
  BY DEF Types, FrameTasks, Taken, Request, Infer
<1>4. \A pk \in DOMAIN sessions :
        /\ sessions[pk].latest_frame \in Frame /\ sessions[pk].new_frame \in BOOLEAN
        /\ sessions[pk].latest_result \in Frame \cup {None}
  BY DEF Types, Session
<1> QED
  BY <1>1, <1>2, <1>3, <1>4 DEF Types

LEMMA TaskStep ==
  ASSUME Types, NEW req \in DOMAIN tasks, Task(req)
  PROVE  /\ UNCHANGED <<setup, attestation, client, posts, arrivals, loop, epoch>>
         /\ ~GiveBack(req) => UNCHANGED inflight /\ DOMAIN tasks' = DOMAIN tasks
         /\ GiveBack(req) => DOMAIN tasks' = DOMAIN tasks \ {req} /\ At(req, "give_back")
         /\ \A r \in DOMAIN tasks \ {req} : tasks'[r] = tasks[r]
         /\ At(req, "give_back") => GiveBack(req)
         /\ DOMAIN sessions' = DOMAIN sessions
         /\ \A pk \in DOMAIN sessions :
              /\ sessions'[pk].latest_frame = sessions[pk].latest_frame
              /\ sessions'[pk].new_frame = sessions[pk].new_frame
              /\ \/ sessions'[pk].latest_result = sessions[pk].latest_result
                 \/ /\ StoreResult(req) /\ req.kind = "frame" /\ req.pk = pk
                    /\ sessions'[pk].latest_result = req
<1> USE DEF At, given
<1>1. CASE LookupVetkey(req)
  BY <1>1 DEF LookupVetkey, GiveBack, Goes
<1>2. CASE RequestVetkey(req)
  BY <1>2 DEF RequestVetkey, GiveBack, Goes
<1>3. CASE RequestMpk(req)
  BY <1>3 DEF RequestMpk, GiveBack, Goes
<1>4. CASE InsertVetkey(req)
  BY <1>4 DEF InsertVetkey, GiveBack, Goes
<1>5. CASE DecryptFrame(req)
  BY <1>5 DEF DecryptFrame, GiveBack, Goes
<1>6. CASE CallVllm(req)
  BY <1>6 DEF CallVllm, GiveBack, Goes
<1>7. CASE StoreResult(req)
  BY <1>7 DEF StoreResult, GiveBack, Goes, Types, Session
<1>8. CASE GiveBack(req)
  BY <1>8 DEF GiveBack, Without
<1> QED
  BY <1>1, <1>2, <1>3, <1>4, <1>5, <1>6, <1>7, <1>8 DEF Task

LEMMA CollectStep ==
  ASSUME Types, Collect
  PROVE  \E taken \in SUBSET Waiting :
           /\ Cardinality(taken) <= loop.available
           /\ loop'.pc = IF taken = {} THEN "sleep" ELSE "spawn"
           /\ loop'.batch = {sessions[pk].latest_frame : pk \in taken}
           /\ loop'.available = loop.available
           /\ DOMAIN sessions' = DOMAIN sessions
           /\ \A pk \in DOMAIN sessions :
                /\ sessions'[pk].latest_frame = sessions[pk].latest_frame
                /\ sessions'[pk].latest_result = sessions[pk].latest_result
           /\ Waiting' = Waiting \ taken
<1>1. PICK taken \in SUBSET Waiting :
        /\ Cardinality(taken) <= loop.available
        /\ loop' = [loop EXCEPT !.pc = IF taken = {} THEN "sleep" ELSE "spawn",
                                !.batch = {sessions[pk].latest_frame : pk \in taken}]
        /\ sessions' = [pk \in DOMAIN sessions |->
             [sessions[pk] EXCEPT !.new_frame = @ /\ pk \notin taken]]
  BY DEF Collect
<1>2. \A pk \in DOMAIN sessions :
        /\ sessions'[pk].latest_frame = sessions[pk].latest_frame
        /\ sessions'[pk].latest_result = sessions[pk].latest_result
        /\ sessions'[pk].new_frame = (sessions[pk].new_frame /\ pk \notin taken)
  BY <1>1 DEF Types, Session
<1>3. DOMAIN sessions' = DOMAIN sessions
  BY <1>1
<1>4. Waiting' = Waiting \ taken
  BY <1>2, <1>3 DEF Waiting
<1>5. /\ loop'.pc = IF taken = {} THEN "sleep" ELSE "spawn"
      /\ loop'.batch = {sessions[pk].latest_frame : pk \in taken}
      /\ loop'.available = loop.available
  BY <1>1 DEF Types
<1> QED
  BY <1>1, <1>2, <1>3, <1>4, <1>5

LEMMA SpawnStep ==
  ASSUME Types, NEW frame \in loop.batch, Spawn(frame)
  PROVE  /\ FrameTasks' = FrameTasks \cup {frame} /\ Taken' = Taken
         /\ DOMAIN tasks' = DOMAIN tasks \cup {frame} /\ loop'.batch = loop.batch \ {frame}
         /\ tasks'[frame].stage = "lookup"
         /\ \A r \in DOMAIN tasks \ {frame} : tasks'[r] = tasks[r]
         /\ loop'.pc = IF loop.batch = {frame} THEN "cleanup" ELSE "spawn"
<1>1. DOMAIN tasks' = DOMAIN tasks \cup {frame} /\ frame.kind = "frame"
  BY DEF Spawn, Assign, Types, Frame
<1>2. FrameTasks' = FrameTasks \cup {frame}
  BY <1>1 DEF FrameTasks
<1>3. /\ loop'.batch = loop.batch \ {frame}
      /\ loop'.pc = IF loop.batch = {frame} THEN "cleanup" ELSE "spawn"
  BY DEF Spawn, Types
<1>4. tasks'[frame].stage = "lookup" /\ \A r \in DOMAIN tasks \ {frame} : tasks'[r] = tasks[r]
  BY DEF Spawn, Assign
<1> QED
  BY <1>1, <1>2, <1>3, <1>4 DEF Taken

LEMMA PostInferStep ==
  ASSUME Types, NEW pk \in Pk, PostInfer(pk)
  PROVE  /\ FrameTasks' = FrameTasks /\ UNCHANGED <<arrivals, sessions, loop, inflight>>
         /\ \E req \in Infer :
              /\ req.pk = pk /\ req.ciphertext = PostEncrypt(epoch, pk)
              /\ req.kind = "infer" /\ req \notin DOMAIN tasks
              /\ DOMAIN tasks' = DOMAIN tasks \cup {req} /\ tasks'[req].stage = "lookup"
         /\ \A r \in DOMAIN tasks : tasks'[r] = tasks[r]
<1> DEFINE req == [kind |-> "infer", pk |-> pk, seq |-> 0, ciphertext |-> PostEncrypt(epoch, pk)]
<1>1. req \in Infer /\ req.kind = "infer" /\ req \notin DOMAIN tasks
        /\ req.pk = pk /\ req.ciphertext = PostEncrypt(epoch, pk)
  BY DEF Infer, Ciphertext, PostEncrypt, PostInfer, Types
<1>2. tasks' = Assign(tasks, req, [stage |-> "lookup", vk |-> NoKeys])
  BY DEF PostInfer
<1>3. DOMAIN tasks' = DOMAIN tasks \cup {req} /\ tasks'[req].stage = "lookup"
        /\ \A r \in DOMAIN tasks : tasks'[r] = tasks[r]
  BY <1>1, <1>2 DEF Assign
<1>4. UNCHANGED <<arrivals, sessions, loop, inflight>>
  BY DEF PostInfer
<1>5. FrameTasks' = FrameTasks
  BY <1>1, <1>3 DEF FrameTasks
<1> HIDE DEF req
<1> QED
  BY <1>1, <1>3, <1>4, <1>5

LEMMA PostFrameStep ==
  ASSUME Types, NEW req \in posts, PostFrame(req)
  PROVE  /\ req \in FramePosted /\ req.pk \in Pk
         /\ UNCHANGED <<inflight, loop, tasks, epoch, setup, attestation>>
         /\ DOMAIN sessions' = DOMAIN sessions \cup {req.pk}
         /\ \A pk \in DOMAIN sessions \ {req.pk} : sessions'[pk] = sessions[pk]
         /\ sessions'[req.pk].latest_frame.pk = req.pk
         /\ sessions'[req.pk].latest_frame.seq = arrivals[req.pk] + 1
         /\ sessions'[req.pk].latest_frame.ciphertext = req.ciphertext
         /\ sessions'[req.pk].latest_result =
              IF req.pk \in DOMAIN sessions THEN sessions[req.pk].latest_result ELSE None
         /\ Waiting' = Waiting \cup {req.pk}
         /\ arrivals' = [arrivals EXCEPT ![req.pk] = @ + 1]
         /\ posts' \subseteq posts
<1>1. req \in FramePosted /\ req.pk \in Pk
  BY DEF Types, FramePosted
<1>2. /\ UNCHANGED <<inflight, loop, tasks, epoch, setup, attestation>>
      /\ arrivals' = [arrivals EXCEPT ![req.pk] = @ + 1]
      /\ posts' \subseteq posts
  BY DEF PostFrame, given
<1>3. /\ DOMAIN sessions' = DOMAIN sessions \cup {req.pk}
      /\ \A pk \in DOMAIN sessions \ {req.pk} : sessions'[pk] = sessions[pk]
      /\ sessions'[req.pk].latest_frame.pk = req.pk
      /\ sessions'[req.pk].latest_frame.seq = arrivals[req.pk] + 1
      /\ sessions'[req.pk].latest_frame.ciphertext = req.ciphertext
      /\ sessions'[req.pk].latest_result =
           IF req.pk \in DOMAIN sessions THEN sessions[req.pk].latest_result ELSE None
      /\ sessions'[req.pk].new_frame
  BY DEF PostFrame, Assign
<1>4. Waiting' = Waiting \cup {req.pk}
  BY <1>3 DEF Waiting
<1> QED
  BY <1>1, <1>2, <1>3, <1>4

LEMMA CleanupStep ==
  ASSUME Types, CleanupStaleSessions
  PROVE  /\ DOMAIN sessions' \subseteq DOMAIN sessions
         /\ \A pk \in DOMAIN sessions' : sessions'[pk] = sessions[pk]
         /\ Waiting' = Waiting \cap DOMAIN sessions'
         /\ loop'.pc = "sleep" /\ loop.pc = "cleanup" /\ loop'.batch = loop.batch
         /\ UNCHANGED <<arrivals, tasks, inflight, epoch, setup, attestation>>
<1>1. /\ DOMAIN sessions' \subseteq DOMAIN sessions
      /\ \A pk \in DOMAIN sessions' : sessions'[pk] = sessions[pk]
  BY DEF CleanupStaleSessions, Without
<1>2. Waiting' = Waiting \cap DOMAIN sessions'
  BY <1>1 DEF Waiting
<1>3. /\ loop'.pc = "sleep" /\ loop.pc = "cleanup" /\ loop'.batch = loop.batch
      /\ UNCHANGED <<arrivals, tasks, inflight, epoch, setup, attestation>>
  BY DEF CleanupStaleSessions, Types, given
<1> QED
  BY <1>1, <1>2, <1>3

(* The steps that leave frames, slots and tasks as they are.                *)
Idle == Browser \/ World \/ LoadInflight \/ UNCHANGED vars

LEMMA IdleStep ==
  ASSUME Types, Idle
  PROVE  /\ UNCHANGED <<arrivals, tasks, inflight, vetkey_cache, setup, attestation>>
         /\ loop'.batch = loop.batch /\ Waiting' = Waiting
         /\ DOMAIN sessions' = DOMAIN sessions
         /\ \A pk \in DOMAIN sessions :
              /\ sessions'[pk].latest_frame = sessions[pk].latest_frame
              /\ sessions'[pk].latest_result = sessions[pk].latest_result
<1> USE DEF given
<1>1. CASE Browser
  <2>1. UNCHANGED <<arrivals, tasks, inflight, vetkey_cache, setup, attestation, loop, sessions>>
    BY <1>1 DEF Browser, Start, Stop, SendFrame, PollResult
  <2> QED
    BY <2>1 DEF Waiting
<1>2. ASSUME NEW pk \in Pk, SessionAges(pk)
      PROVE  /\ UNCHANGED <<arrivals, tasks, inflight, vetkey_cache, setup, attestation>>
             /\ loop'.batch = loop.batch /\ Waiting' = Waiting
             /\ DOMAIN sessions' = DOMAIN sessions
             /\ \A k \in DOMAIN sessions :
                  /\ sessions'[k].latest_frame = sessions[k].latest_frame
                  /\ sessions'[k].latest_result = sessions[k].latest_result
  <2>1. UNCHANGED <<arrivals, tasks, inflight, vetkey_cache, setup, attestation, loop>>
    BY <1>2 DEF SessionAges
  <2>2. DOMAIN sessions' = DOMAIN sessions
    BY <1>2 DEF SessionAges
  <2>3. \A k \in DOMAIN sessions :
          /\ sessions'[k].latest_frame = sessions[k].latest_frame
          /\ sessions'[k].latest_result = sessions[k].latest_result
          /\ sessions'[k].new_frame = sessions[k].new_frame
    BY <1>2 DEF SessionAges, Types, Session
  <2> QED
    BY <2>1, <2>2, <2>3 DEF Waiting
<1>3. CASE CleanupComesDue \/ KeyServerRestarts \/ LoadInflight
  <2>1. UNCHANGED <<arrivals, tasks, inflight, vetkey_cache, setup, attestation, sessions>>
          /\ loop'.batch = loop.batch
    BY <1>3 DEF CleanupComesDue, KeyServerRestarts, LoadInflight, Types
  <2> QED
    BY <2>1 DEF Waiting
<1>4. CASE UNCHANGED vars
  BY <1>4 DEF vars, Waiting
<1> QED
  BY <1>1, <1>2, <1>3, <1>4 DEF Idle, World

-----------------------------------------------------------------------------
(* Numbered, and the slots.                                                 *)

LEMMA NumberedNext ==
  ASSUME Types, Numbered, Slots, [Next]_vars
  PROVE  Numbered'
<1> USE FrameFacts
<1>1. CASE Idle
  BY <1>1, IdleStep DEF Numbered, Taken, FrameTasks
<1>2. ASSUME NEW req \in posts, PostFrame(req)
      PROVE  Numbered'
  <2>0. /\ UNCHANGED <<loop, tasks>> /\ req.pk \in Pk
        /\ DOMAIN sessions' = DOMAIN sessions \cup {req.pk}
        /\ \A pk \in DOMAIN sessions \ {req.pk} : sessions'[pk] = sessions[pk]
        /\ sessions'[req.pk].latest_frame.pk = req.pk
        /\ sessions'[req.pk].latest_frame.seq = arrivals[req.pk] + 1
        /\ req.pk \in DOMAIN sessions =>
             sessions'[req.pk].latest_result = sessions[req.pk].latest_result
        /\ req.pk \notin DOMAIN sessions => sessions'[req.pk].latest_result = None
        /\ Waiting' = Waiting \cup {req.pk}
    BY <1>2, PostFrameStep
  <2>1. Taken' = Taken
    BY <2>0 DEF Taken, FrameTasks
  <2>2. arrivals'[req.pk] = arrivals[req.pk] + 1
          /\ \A pk \in Pk \ {req.pk} : arrivals'[pk] = arrivals[pk]
    BY <1>2, PostFrameStep, ZenonT(60) DEF Types
  <2>3. ASSUME NEW f \in Taken'
        PROVE  /\ f.seq <= arrivals'[f.pk]
               /\ f.pk \in Waiting' => f.seq < arrivals'[f.pk]
    <3>1. f.pk \in Pk /\ f.seq \in Nat /\ arrivals[f.pk] \in Nat
      BY <2>1
    <3>2. f.seq <= arrivals[f.pk] /\ (f.pk \in Waiting => f.seq < arrivals[f.pk])
      BY <2>1 DEF Numbered
    <3>3. CASE f.pk = req.pk
      BY <2>2, <3>1, <3>2, <3>3
    <3>4. CASE f.pk # req.pk
      <4>1. f.pk \in Waiting' => f.pk \in Waiting
        BY <2>0, <3>4
      <4> QED
        BY <2>2, <3>1, <3>2, <3>4, <4>1
    <3> QED
      BY <3>3, <3>4
  <2>4. ASSUME NEW pk \in DOMAIN sessions'
        PROVE  /\ sessions'[pk].latest_frame.pk = pk
               /\ sessions'[pk].latest_frame.seq = arrivals'[pk]
               /\ sessions'[pk].latest_result.seq <= arrivals'[pk]
               /\ pk \in Waiting' => sessions'[pk].latest_result.seq < arrivals'[pk]
    <3>1. CASE pk = req.pk
      <4>1. CASE pk \in DOMAIN sessions
        <5>1. sessions'[pk].latest_result = sessions[pk].latest_result
          BY <2>0, <3>1, <4>1
        <5>2. sessions[pk].latest_result.seq <= arrivals[pk] /\ arrivals[pk] \in Nat
                /\ sessions[pk].latest_result.seq \in Nat
          BY <4>1 DEF Numbered, Types
        <5> QED
          BY <2>0, <2>2, <3>1, <5>1, <5>2
      <4>2. CASE pk \notin DOMAIN sessions
        <5>1. sessions'[pk].latest_result.seq = 0 /\ arrivals[pk] \in Nat
          BY <2>0, <3>1, <4>2 DEF None
        <5> QED
          BY <2>0, <2>2, <3>1, <5>1
      <4> QED
        BY <4>1, <4>2
    <3>2. CASE pk # req.pk
      <4>1. pk \in DOMAIN sessions /\ sessions'[pk] = sessions[pk]
              /\ (pk \in Waiting' => pk \in Waiting)
        BY <2>0, <3>2
      <4>2. arrivals'[pk] = arrivals[pk]
        BY <2>2, <3>2, <4>1 DEF Types
      <4> QED
        BY <4>1, <4>2 DEF Numbered
    <3> QED
      BY <3>1, <3>2
  <2> QED
    BY <2>3, <2>4 DEF Numbered
<1>3. ASSUME NEW pk \in Pk, PostInfer(pk)
      PROVE  Numbered'
  BY <1>3, PostInferStep DEF Numbered, Taken, Waiting
<1>4. CASE Collect
  <2>1. PICK taken \in SUBSET Waiting :
           /\ loop'.batch = {sessions[pk].latest_frame : pk \in taken}
           /\ DOMAIN sessions' = DOMAIN sessions
           /\ \A pk \in DOMAIN sessions :
                /\ sessions'[pk].latest_frame = sessions[pk].latest_frame
                /\ sessions'[pk].latest_result = sessions[pk].latest_result
           /\ Waiting' = Waiting \ taken
    BY <1>4, CollectStep
  <2>2. UNCHANGED <<arrivals, tasks>>
    BY <1>4 DEF Collect
  <2>3. ASSUME NEW f \in Taken'
        PROVE  /\ f.seq <= arrivals[f.pk]
               /\ f.pk \in Waiting' => f.seq < arrivals[f.pk]
    <3>1. CASE f \in FrameTasks
      BY <2>1, <3>1 DEF Numbered, Taken
    <3>2. CASE \E pk \in taken : f = sessions[pk].latest_frame
      <4>1. PICK pk \in taken : f = sessions[pk].latest_frame
        BY <3>2
      <4>2. pk \in DOMAIN sessions /\ f.pk = pk /\ f.seq = arrivals[pk] /\ pk \in Pk
        BY <4>1 DEF Waiting, Numbered, Types
      <4> QED
        BY <2>1, <4>2
    <3> QED
      BY <2>1, <2>2, <3>1, <3>2 DEF Taken, FrameTasks
  <2> QED
    BY <2>1, <2>2, <2>3 DEF Numbered
<1>5. ASSUME NEW frame \in loop.batch, Spawn(frame)
      PROVE  Numbered'
  <2>1. UNCHANGED <<arrivals, sessions>>
    BY <1>5 DEF Spawn
  <2> QED
    BY <1>5, <2>1, SpawnStep DEF Numbered, Waiting
<1>6. CASE CleanupStaleSessions
  BY <1>6, CleanupStep DEF Numbered, Taken, FrameTasks
<1>7. ASSUME NEW req \in DOMAIN tasks, Task(req)
      PROVE  Numbered'
  <2>1. Taken' \subseteq Taken /\ Waiting' = Waiting /\ arrivals' = arrivals
    BY <1>7, TaskStep, ZenonT(60) DEF Taken, FrameTasks, Waiting
  <2>2. ASSUME NEW pk \in DOMAIN sessions'
        PROVE  /\ sessions'[pk].latest_frame.pk = pk
               /\ sessions'[pk].latest_frame.seq = arrivals[pk]
               /\ sessions'[pk].latest_result.seq <= arrivals[pk]
               /\ pk \in Waiting => sessions'[pk].latest_result.seq < arrivals[pk]
    <3>1. pk \in DOMAIN sessions /\ sessions'[pk].latest_frame = sessions[pk].latest_frame
      BY <1>7, TaskStep
    <3>2. CASE sessions'[pk].latest_result = sessions[pk].latest_result
      BY <3>1, <3>2 DEF Numbered
    <3>3. CASE req \in FrameTasks /\ req.pk = pk /\ sessions'[pk].latest_result = req
      <4>1. req.seq <= arrivals[pk] /\ (pk \in Waiting => req.seq < arrivals[pk])
        BY <3>3 DEF Numbered, Taken
      <4>2. sessions'[pk].latest_frame.pk = pk /\ sessions'[pk].latest_frame.seq = arrivals[pk]
        BY <3>1 DEF Numbered
      <4> QED
        BY <3>3, <4>1, <4>2
    <3>4. \/ sessions'[pk].latest_result = sessions[pk].latest_result
          \/ req.kind = "frame" /\ req.pk = pk /\ sessions'[pk].latest_result = req
      BY <1>7, <3>1, TaskStep, ZenonT(60)
    <3> QED
      BY <3>2, <3>3, <3>4 DEF FrameTasks
  <2> QED
    BY <2>1, <2>2 DEF Numbered
<1> QED
  BY <1>1, <1>2, <1>3, <1>4, <1>5, <1>6, <1>7 DEF Next, Handlers, Loop, Idle

(* The frames taken from the sessions are no more than the sessions.        *)
LEMMA TakenFrames ==
  ASSUME NEW S, IsFiniteSet(S), NEW f
  PROVE  /\ IsFiniteSet({f[pk].latest_frame : pk \in S})
         /\ Cardinality({f[pk].latest_frame : pk \in S}) <= Cardinality(S)
<1> DEFINE U == {f[pk].latest_frame : pk \in S}
           g == [pk \in S |-> f[pk].latest_frame]
<1>1. g \in Surjection(S, U)
  BY DEF Surjection
<1> QED
  BY <1>1, FS_Surjection

LEMMA SlotsNext ==
  ASSUME Types, Numbered, Slots, [Next]_vars
  PROVE  Slots'
<1> USE FrameFacts, SetupTypes
<1>0. inflight \in Nat /\ Cardinality(loop.batch) \in Nat /\ inflight = Cardinality(FrameTasks)
  BY FS_CardinalityType DEF Slots
<1>1. CASE Browser \/ World \/ UNCHANGED vars
  <2>1. UNCHANGED <<tasks, inflight, setup>> /\ loop'.batch = loop.batch
    BY <1>1, IdleStep DEF Idle
  <2>2. loop'.pc = loop.pc /\ loop'.available = loop.available
    BY <1>1 DEF Browser, World, Start, Stop, SendFrame, PollResult, SessionAges, CleanupComesDue,
                KeyServerRestarts, vars, Types
  <2> QED
    BY <2>1, <2>2 DEF Slots, FrameTasks
<1>2. CASE LoadInflight
  <2>1. /\ UNCHANGED <<tasks, inflight, setup>> /\ loop'.batch = loop.batch
        /\ loop.pc = "sleep" /\ loop'.pc = "collect"
        /\ loop'.available = setup.batch_size - inflight
    BY <1>2 DEF LoadInflight, Types, given
  <2> QED
    BY <1>0, <2>1 DEF Slots, FrameTasks
<1>3. ASSUME NEW req \in posts, PostFrame(req)
      PROVE  Slots'
  BY <1>3, PostFrameStep DEF Slots, FrameTasks
<1>4. ASSUME NEW pk \in Pk, PostInfer(pk)
      PROVE  Slots'
  <2>1. setup' = setup
    BY <1>4 DEF PostInfer, given
  <2>2. PICK req \in Infer : req.kind = "infer" /\ DOMAIN tasks' = DOMAIN tasks \cup {req}
    BY <1>4, PostInferStep
  <2>3. req \notin loop.batch
    BY <2>2 DEF Types, Frame
  <2> QED
    BY <1>4, <2>1, <2>2, <2>3, PostInferStep DEF Slots
<1>5. CASE Collect
  <2>1. PICK taken \in SUBSET Waiting :
           /\ Cardinality(taken) <= loop.available
           /\ loop'.pc = IF taken = {} THEN "sleep" ELSE "spawn"
           /\ loop'.batch = {sessions[pk].latest_frame : pk \in taken}
           /\ loop'.available = loop.available
    BY <1>5, CollectStep
  <2>2. UNCHANGED <<tasks, inflight, setup>> /\ loop.pc = "collect"
    BY <1>5 DEF Collect, given
  <2>3. IsFiniteSet(taken)
    <3>1. taken \subseteq DOMAIN sessions
      BY DEF Waiting
    <3> QED
      BY <3>1, FS_Subset DEF Types
  <2>4. IsFiniteSet(loop'.batch) /\ Cardinality(loop'.batch) <= Cardinality(taken)
    BY <2>1, <2>3, TakenFrames
  <2>5. Cardinality(taken) \in Nat /\ Cardinality(loop'.batch) \in Nat /\ loop.available \in Nat
    BY <2>3, <2>4, FS_CardinalityType DEF Types
  <2>6. inflight + Cardinality(loop'.batch) <= setup.batch_size
    BY <1>0, <2>1, <2>2, <2>4, <2>5 DEF Slots
  <2>7. ASSUME NEW f \in loop'.batch, f \in DOMAIN tasks
        PROVE  FALSE
    <3>1. PICK pk \in taken : f = sessions[pk].latest_frame
      BY <2>1, <2>7
    <3>2. pk \in DOMAIN sessions /\ f.pk = pk /\ f.seq = arrivals[pk] /\ f \in Frame
      BY <3>1 DEF Waiting, Numbered
    <3>3. f \in Taken
      BY <2>7, <3>2 DEF Taken, FrameTasks
    <3>4. f.seq < arrivals[pk] /\ arrivals[pk] \in Nat
      BY <3>2, <3>3 DEF Numbered, Types
    <3> QED
      BY <3>2, <3>4
  <2>8. (loop'.pc = "spawn") <=> (loop'.batch # {})
    BY <2>1
  <2>9. loop'.pc # "collect"
    BY <2>1
  <2> QED
    BY <2>2, <2>4, <2>6, <2>7, <2>8, <2>9 DEF Slots, FrameTasks
<1>6. ASSUME NEW frame \in loop.batch, Spawn(frame)
      PROVE  Slots'
  <2>1. UNCHANGED setup /\ inflight' = inflight + 1
    BY <1>6 DEF Spawn, given
  <2>2. frame \notin FrameTasks
    BY DEF Slots, FrameTasks
  <2>0. /\ FrameTasks' = FrameTasks \cup {frame} /\ loop'.batch = loop.batch \ {frame}
        /\ loop'.pc = IF loop.batch = {frame} THEN "cleanup" ELSE "spawn"
    BY <1>6, SpawnStep
  <2>3. IsFiniteSet(FrameTasks') /\ Cardinality(FrameTasks') = inflight'
    BY <1>0, <2>0, <2>1, <2>2, FS_AddElement DEF Slots
  <2>4. IsFiniteSet(loop'.batch) /\ Cardinality(loop'.batch) = Cardinality(loop.batch) - 1
    BY <2>0, FS_RemoveElement DEF Slots
  <2>5. inflight' + Cardinality(loop'.batch) <= setup'.batch_size
    BY <1>0, <2>1, <2>4 DEF Slots
  <2>6. loop'.batch \cap DOMAIN tasks' = {}
    BY <1>6, SpawnStep DEF Slots
  <2>7. ((loop'.pc = "spawn") <=> (loop'.batch # {})) /\ loop'.pc # "collect"
    BY <2>0
  <2> QED
    BY <2>3, <2>4, <2>5, <2>6, <2>7 DEF Slots
<1>7. CASE CleanupStaleSessions
  BY <1>7, CleanupStep DEF Slots, FrameTasks
<1>8. ASSUME NEW req \in DOMAIN tasks, Task(req)
      PROVE  Slots'
  <2>1. UNCHANGED <<loop, setup>> /\ loop'.batch \cap DOMAIN tasks' = {}
    BY <1>8, TaskStep, ZenonT(60) DEF Slots
  <2>2. CASE GiveBack(req) /\ req.kind = "frame"
    <3>1. FrameTasks' = FrameTasks \ {req} /\ req \in FrameTasks
      BY <1>8, <2>2, TaskStep DEF FrameTasks
    <3>2. inflight' = inflight - 1
      BY <2>2 DEF GiveBack
    <3>3. IsFiniteSet(FrameTasks') /\ inflight' = Cardinality(FrameTasks')
      BY <3>1, <3>2, FS_RemoveElement DEF Slots
    <3>4. inflight' <= inflight /\ inflight' \in Nat
      BY <1>0, <3>2, <3>3, FS_CardinalityType
    <3> QED
      BY <1>0, <2>1, <3>2, <3>3, <3>4 DEF Slots, Types
  <2>3. CASE ~(GiveBack(req) /\ req.kind = "frame")
    <3>1. FrameTasks' = FrameTasks /\ inflight' = inflight
      BY <1>8, <2>3, TaskStep DEF FrameTasks, GiveBack
    <3> QED
      BY <2>1, <3>1 DEF Slots
  <2> QED
    BY <2>2, <2>3
<1> QED
  BY <1>1, <1>2, <1>3, <1>4, <1>5, <1>6, <1>7, <1>8 DEF Next, Handlers, Loop

-----------------------------------------------------------------------------
(* The keys.                                                                *)

LEMMA EncryptedNext ==
  ASSUME Types, Encrypted, [Next]_vars
  PROVE  Encrypted'
<1>0. /\ epoch \in Nat /\ epoch <= epoch' /\ epoch' \in 1..setup.epochs /\ UNCHANGED setup
      /\ epoch' = epoch \/ KeyServerRestarts
  <2>1. UNCHANGED <<setup, epoch>> \/ KeyServerRestarts
    BY TaskStep, PostFrameStep, CleanupStep
       DEF Next, Browser, Start, Stop, SendFrame, PollResult, Handlers, PostInfer, Loop, LoadInflight,
           Collect, Spawn, World, SessionAges, CleanupComesDue, vars, given
  <2>2. CASE KeyServerRestarts
    BY <2>2, SetupTypes DEF KeyServerRestarts, Encrypted, Types, given
  <2> QED
    BY <2>1, <2>2 DEF Encrypted, Types
<1>1. \A c : c \in 1..epoch => c \in 1..epoch'
  BY <1>0, SetupTypes
<1>2. \A req : MadeFor(req) => MadeFor(req)'
  BY <1>1 DEF MadeFor
<1>3. CASE UNCHANGED <<posts, tasks>> /\ Idle
  BY <1>0, <1>2, <1>3, IdleStep DEF Encrypted
<1>4. ASSUME NEW pk \in Pk, Start(pk) \/ SendFrame(pk)
      PROVE  Encrypted'
  <2>1. epoch \in 1..epoch'
    BY <1>0 DEF Encrypted
  <2>2. \A fid, run : LET req == FramePost(pk, fid, run)
                      IN  req.pk = pk /\ req.ciphertext = [epoch |-> epoch, nonce |-> pk]
    BY DEF FramePost, PostEncrypt
  <2>3. \E fid, run : posts' = posts \cup {FramePost(pk, fid, run)}
    BY <1>4 DEF Start, SendFrame
  <2>4. PICK req : posts' = posts \cup {req} /\ req.pk = pk
                     /\ req.ciphertext = [epoch |-> epoch, nonce |-> pk]
    BY <2>2, <2>3
  <2>5. MadeFor(req)'
    BY <2>1, <2>4 DEF MadeFor
  <2>6. UNCHANGED <<tasks, loop, sessions>>
    BY <1>4 DEF Start, SendFrame
  <2> QED
    BY <1>0, <1>2, <2>4, <2>5, <2>6 DEF Encrypted
<1>5. ASSUME NEW req \in posts, PostFrame(req)
      PROVE  Encrypted'
  <2>1. /\ DOMAIN sessions' = DOMAIN sessions \cup {req.pk} /\ posts' \subseteq posts
        /\ \A pk \in DOMAIN sessions \ {req.pk} : sessions'[pk] = sessions[pk]
        /\ sessions'[req.pk].latest_frame.pk = req.pk
        /\ sessions'[req.pk].latest_frame.ciphertext = req.ciphertext
        /\ UNCHANGED <<tasks, loop, epoch>>
    BY <1>5, PostFrameStep
  <2>2. MadeFor(sessions'[req.pk].latest_frame)
    BY <2>1 DEF Encrypted, MadeFor
  <2> QED
    BY <1>0, <1>2, <2>1, <2>2 DEF Encrypted
<1>6. ASSUME NEW pk \in Pk, PostInfer(pk)
      PROVE  Encrypted'
  <2>1. PICK req \in Infer : /\ req.pk = pk /\ req.ciphertext = PostEncrypt(epoch, pk)
                             /\ DOMAIN tasks' = DOMAIN tasks \cup {req}
    BY <1>6, PostInferStep
  <2>2. MadeFor(req)
    BY <1>0, <2>1 DEF MadeFor, PostEncrypt, Encrypted
  <2>3. UNCHANGED <<posts, loop, sessions, epoch>>
    BY <1>6 DEF PostInfer
  <2>4. \A r \in posts' \cup DOMAIN tasks' \cup loop'.batch : MadeFor(r)'
    BY <1>2, <2>1, <2>2, <2>3 DEF Encrypted
  <2> QED
    BY <1>0, <1>2, <2>3, <2>4 DEF Encrypted
<1>7. CASE Collect
  <2>1. PICK taken \in SUBSET Waiting :
           /\ loop'.batch = {sessions[pk].latest_frame : pk \in taken}
           /\ DOMAIN sessions' = DOMAIN sessions
           /\ \A pk \in DOMAIN sessions :
                sessions'[pk].latest_frame = sessions[pk].latest_frame
    BY <1>7, CollectStep
  <2>2. taken \subseteq DOMAIN sessions
    BY DEF Waiting
  <2>3. UNCHANGED <<posts, tasks, epoch>>
    BY <1>7 DEF Collect
  <2> QED
    BY <1>0, <1>2, <2>1, <2>2, <2>3 DEF Encrypted
<1>8. ASSUME NEW frame \in loop.batch, Spawn(frame)
      PROVE  Encrypted'
  <2>1. UNCHANGED <<posts, sessions, epoch>>
    BY <1>8 DEF Spawn
  <2>2. DOMAIN tasks' = DOMAIN tasks \cup {frame} /\ loop'.batch \subseteq loop.batch
    BY <1>8, SpawnStep
  <2> QED
    BY <1>0, <1>2, <2>1, <2>2 DEF Encrypted
<1>9. CASE CleanupStaleSessions
  <2>1. UNCHANGED <<posts, epoch>>
    BY <1>9 DEF CleanupStaleSessions
  <2> QED
    BY <1>0, <1>2, <1>9, <2>1, CleanupStep DEF Encrypted
<1>10. ASSUME NEW req \in DOMAIN tasks, Task(req)
       PROVE  Encrypted'
  <2>1. DOMAIN tasks' \subseteq DOMAIN tasks
    BY <1>10, TaskStep
  <2> QED
    BY <1>0, <1>2, <1>10, <2>1, TaskStep DEF Encrypted
<1>11. ASSUME NEW pk \in Pk, Stop(pk) \/ PollResult(pk) \/ SessionAges(pk)
       PROVE  UNCHANGED <<posts, tasks>> /\ Idle
  BY <1>11 DEF Stop, PollResult, SessionAges, Idle, Browser, World
<1>12. ASSUME LoadInflight \/ CleanupComesDue \/ KeyServerRestarts \/ UNCHANGED vars
       PROVE  UNCHANGED <<posts, tasks>> /\ Idle
  BY <1>12 DEF LoadInflight, CleanupComesDue, KeyServerRestarts, vars, Idle, World
<1> QED
  BY <1>3, <1>4, <1>5, <1>6, <1>7, <1>8, <1>9, <1>10, <1>11, <1>12
     DEF Next, Browser, Handlers, Loop, World

LEMMA KeysFitNext ==
  ASSUME Types, Encrypted, KeysFit, [Next]_vars
  PROVE  KeysFit'
<1>0. \A c : c \in 1..epoch => c \in 1..epoch'
  <2>1. epoch' = epoch \/ epoch' = epoch + 1
    BY TaskStep, PostFrameStep, CleanupStep
       DEF Next, Browser, Start, Stop, SendFrame, PollResult, Handlers, PostInfer, Loop, LoadInflight,
           Collect, Spawn, World, SessionAges, CleanupComesDue, KeyServerRestarts, vars
  <2> QED
    BY <2>1 DEF Types
<1>1. \A vk : (Fits(vk) => Fits(vk)') /\ (FitsWhole(vk) => FitsWhole(vk)')
  BY <1>0 DEF Fits, FitsWhole
<1>2. CASE UNCHANGED <<tasks, vetkey_cache>>
  BY <1>1, <1>2 DEF KeysFit, At
<1>3. ASSUME NEW req, req \notin DOMAIN tasks, DOMAIN tasks' = DOMAIN tasks \cup {req},
             tasks'[req].stage = "lookup", \A r \in DOMAIN tasks : tasks'[r] = tasks[r],
             UNCHANGED vetkey_cache
      PROVE  KeysFit'
  BY <1>1, <1>3 DEF KeysFit, At
<1>4. ASSUME NEW pk \in Pk, PostInfer(pk)
      PROVE  KeysFit'
  <2>1. UNCHANGED vetkey_cache
    BY <1>4 DEF PostInfer
  <2> QED
    BY <1>3, <1>4, <2>1, PostInferStep
<1>5. ASSUME NEW frame \in loop.batch, Spawn(frame)
      PROVE  KeysFit'
  <2>1. UNCHANGED vetkey_cache
    BY <1>5 DEF Spawn
  <2>2. /\ DOMAIN tasks' = DOMAIN tasks \cup {frame} /\ tasks'[frame].stage = "lookup"
        /\ \A r \in DOMAIN tasks \ {frame} : tasks'[r] = tasks[r]
    BY <1>5, SpawnStep
  <2> QED
    BY <1>1, <2>1, <2>2 DEF KeysFit, At
<1>6. ASSUME NEW req \in DOMAIN tasks, Task(req)
      PROVE  KeysFit'
  <2>0. /\ DOMAIN tasks' \subseteq DOMAIN tasks
        /\ \A r \in DOMAIN tasks \ {req} : tasks'[r] = tasks[r]
        /\ UNCHANGED epoch
    BY <1>6, TaskStep
  <2>1. ASSUME UNCHANGED vetkey_cache,
               req \in DOMAIN tasks' =>
                 /\ tasks'[req].stage = "mpk" => Fits(tasks'[req].vk)
                 /\ tasks'[req].stage \in {"insert", "decrypt"} => FitsWhole(tasks'[req].vk)
        PROVE  KeysFit'
    BY <1>1, <2>0, <2>1 DEF KeysFit, At, Fits, FitsWhole
  <2>2. ASSUME NEW stage \in Stages, Goes(req, stage)
        PROVE  tasks'[req].stage = stage /\ tasks'[req].vk = tasks[req].vk
    BY <2>2 DEF Goes, Types
  <2>3. CASE LookupVetkey(req)
    <3>1. CASE req.pk \in DOMAIN vetkey_cache
      BY <2>1, <2>3, <3>1 DEF LookupVetkey, KeysFit
    <3>2. CASE req.pk \notin DOMAIN vetkey_cache
      BY <2>1, <2>2, <2>3, <3>2 DEF LookupVetkey, Stages
    <3> QED
      BY <3>1, <3>2
  <2>4. CASE RequestVetkey(req)
    <3>1. epoch \in 1..epoch
      BY DEF Encrypted, Types
    <3>2. CASE Goes(req, "give_back")
      BY <2>1, <2>2, <2>4, <3>2 DEF RequestVetkey, Stages
    <3>3. CASE tasks' = [tasks EXCEPT ![req] =
                 [stage |-> "mpk",
                  vk |-> [tsk |-> req, evk |-> PostVetkey(epoch, req, attestation).evk, mpk |-> 0,
                          attestation_verified |->
                            PostVetkey(epoch, req, attestation).attestation_verified]]]
      <4>1. tasks'[req].stage = "mpk" /\ tasks'[req].vk.tsk = req
              /\ tasks'[req].vk.evk = [epoch |-> epoch, tpk |-> req]
        BY <3>3 DEF PostVetkey
      <4> QED
        BY <2>1, <2>4, <3>1, <4>1 DEF RequestVetkey, Fits
    <3> QED
      BY <2>4, <3>2, <3>3 DEF RequestVetkey
  <2>5. CASE RequestMpk(req)
    <3>1. CASE Goes(req, "give_back")
      BY <2>1, <2>2, <2>5, <3>1 DEF RequestMpk, Stages
    <3>2. CASE tasks' = [tasks EXCEPT ![req] =
                 [stage |-> "insert", vk |-> [@.vk EXCEPT !.mpk = GetMpk(epoch)]]]
      <4>1. tasks'[req].stage = "insert" /\ tasks'[req].vk = [tasks[req].vk EXCEPT !.mpk = epoch]
        BY <3>2 DEF GetMpk
      <4>2. tasks[req].vk \in Keys
        BY DEF Types
      <4>3. tasks'[req].vk.tsk = tasks[req].vk.tsk /\ tasks'[req].vk.evk = tasks[req].vk.evk
              /\ tasks'[req].vk.mpk = epoch
        BY <4>1, <4>2 DEF Keys
      <4>4. Fits(tasks[req].vk) /\ epoch \in 1..epoch
        BY <2>5 DEF RequestMpk, KeysFit, Encrypted, Types
      <4> QED
        BY <2>1, <2>5, <4>1, <4>3, <4>4 DEF RequestMpk, Fits, FitsWhole
    <3> QED
      BY <2>5, <3>1, <3>2 DEF RequestMpk
  <2>6. CASE InsertVetkey(req)
    <3>1. FitsWhole(tasks[req].vk)
      BY <2>6 DEF InsertVetkey, KeysFit
    <3>2. \A pk \in DOMAIN vetkey_cache' :
            vetkey_cache'[pk] = tasks[req].vk \/ (pk \in DOMAIN vetkey_cache /\
              vetkey_cache'[pk] = vetkey_cache[pk])
      BY <2>6 DEF InsertVetkey, Assign
    <3>3. tasks'[req].stage = "decrypt" /\ tasks'[req].vk = tasks[req].vk
      BY <2>2, <2>6 DEF InsertVetkey, Stages
    <3> QED
      BY <1>1, <2>0, <3>1, <3>2, <3>3 DEF KeysFit, At
  <2>7. CASE DecryptFrame(req)
    BY <2>1, <2>2, <2>7 DEF DecryptFrame, Stages
  <2>8. CASE CallVllm(req)
    BY <2>1, <2>2, <2>8 DEF CallVllm, Stages
  <2>9. CASE StoreResult(req)
    BY <2>1, <2>2, <2>9 DEF StoreResult, Stages
  <2>10. CASE GiveBack(req)
    <3>1. UNCHANGED vetkey_cache /\ req \notin DOMAIN tasks'
      BY <2>10 DEF GiveBack, Without
    <3> QED
      BY <2>1, <3>1
  <2> QED
    BY <1>6, <2>3, <2>4, <2>5, <2>6, <2>7, <2>8, <2>9, <2>10 DEF Task
<1>7. CASE Idle
  BY <1>2, <1>7, IdleStep
<1>8. CASE Collect \/ CleanupStaleSessions \/ (\E req \in posts : PostFrame(req))
  BY <1>2, <1>8 DEF Collect, CleanupStaleSessions, PostFrame
<1> QED
  BY <1>4, <1>5, <1>6, <1>7, <1>8 DEF Next, Handlers, Loop, Idle

-----------------------------------------------------------------------------
(* One slot.                                                                *)

LEMMA OneTaken ==
  ASSUME Types, Slots, setup.batch_size = 1
  PROVE  \A f, g \in Taken : f = g
<1> SUFFICES ASSUME NEW f \in Taken, NEW g \in Taken, f # g
             PROVE  FALSE
  OBVIOUS
<1>1. FrameTasks \cap loop.batch = {}
  BY DEF Slots, FrameTasks
<1>2. IsFiniteSet(Taken) /\ Cardinality(Taken) = inflight + Cardinality(loop.batch)
  <2>1. Cardinality(FrameTasks \cap loop.batch) = 0
    BY <1>1, FS_EmptySet
  <2>2. Cardinality(FrameTasks) \in Nat /\ Cardinality(loop.batch) \in Nat
    BY FS_CardinalityType DEF Slots
  <2>3. IsFiniteSet(FrameTasks) /\ IsFiniteSet(loop.batch) /\ inflight = Cardinality(FrameTasks)
    BY DEF Slots
  <2>4. /\ IsFiniteSet(FrameTasks \cup loop.batch)
        /\ Cardinality(FrameTasks \cup loop.batch) =
             Cardinality(FrameTasks) + Cardinality(loop.batch) - Cardinality(FrameTasks \cap loop.batch)
    BY <2>3, FS_Union, Zenon
  <2> QED
    BY <2>1, <2>2, <2>3, <2>4 DEF Taken
<1>3. Cardinality({f} \cup {g}) = 2
  <2>1. IsFiniteSet({f}) /\ Cardinality({f}) = 1 /\ g \notin {f}
    BY FS_Singleton, Zenon
  <2>2. Cardinality({f} \cup {g}) = Cardinality({f}) + 1
    BY <2>1, FS_AddElement, Zenon
  <2> QED
    BY <2>1, <2>2
<1>4. Cardinality({f} \cup {g}) <= Cardinality(Taken)
  BY <1>2, FS_Subset
<1>5. Cardinality(Taken) <= 1
  BY <1>2 DEF Slots
<1>6. Cardinality(Taken) \in Nat
  BY <1>2, FS_CardinalityType
<1> QED
  BY <1>3, <1>4, <1>5, <1>6

LEMMA NewerNext ==
  ASSUME Types, Numbered, Slots, Newer, [Next]_vars
  PROVE  Newer'
<1> USE FrameFacts
<1>0. setup' = setup
  BY TaskStep, PostFrameStep, CleanupStep
     DEF Next, Browser, Start, Stop, SendFrame, PollResult, Handlers, PostInfer, Loop, LoadInflight,
         Collect, Spawn, World, SessionAges, CleanupComesDue, KeyServerRestarts, vars, given
<1> SUFFICES ASSUME setup.batch_size = 1, NEW f \in Taken', f.pk \in DOMAIN sessions',
                    ~At(f, "give_back")'
             PROVE  sessions'[f.pk].latest_result.seq < f.seq
  BY <1>0 DEF Newer
<1>1. ASSUME f \in Taken, f.pk \in DOMAIN sessions, ~At(f, "give_back"),
             sessions'[f.pk].latest_result = sessions[f.pk].latest_result
      PROVE  sessions'[f.pk].latest_result.seq < f.seq
  BY <1>1 DEF Newer
<1>2. CASE Idle
  BY <1>1, <1>2, IdleStep DEF Taken, FrameTasks, At
<1>3. ASSUME NEW req \in posts, PostFrame(req)
      PROVE  sessions'[f.pk].latest_result.seq < f.seq
  <2>1. /\ UNCHANGED <<loop, tasks>> /\ DOMAIN sessions' = DOMAIN sessions \cup {req.pk}
        /\ \A pk \in DOMAIN sessions \ {req.pk} : sessions'[pk] = sessions[pk]
        /\ req.pk \in DOMAIN sessions =>
             sessions'[req.pk].latest_result = sessions[req.pk].latest_result
        /\ req.pk \notin DOMAIN sessions => sessions'[req.pk].latest_result = None
    BY <1>3, PostFrameStep
  <2>2. f \in Taken /\ ~At(f, "give_back")
    BY <2>1 DEF Taken, FrameTasks, At
  <2>3. CASE f.pk \in DOMAIN sessions
    BY <1>1, <2>1, <2>2, <2>3
  <2>4. CASE f.pk \notin DOMAIN sessions
    <3>1. sessions'[f.pk].latest_result.seq = 0
      BY <2>1, <2>4 DEF None
    <3>2. f.seq \in Nat \ {0}
      BY <2>2
    <3> QED
      BY <3>1, <3>2
  <2> QED
    BY <2>3, <2>4
<1>4. ASSUME NEW pk \in Pk, PostInfer(pk)
      PROVE  sessions'[f.pk].latest_result.seq < f.seq
  <2>1. f \in Taken /\ UNCHANGED sessions
    BY <1>4, PostInferStep DEF Taken
  <2>2. ~At(f, "give_back")
    BY <1>4, PostInferStep DEF At
  <2> QED
    BY <1>1, <2>1, <2>2
<1>5. CASE Collect
  <2>1. PICK taken \in SUBSET Waiting :
           /\ loop'.batch = {sessions[pk].latest_frame : pk \in taken}
           /\ DOMAIN sessions' = DOMAIN sessions
           /\ \A pk \in DOMAIN sessions :
                sessions'[pk].latest_result = sessions[pk].latest_result
    BY <1>5, CollectStep
  <2>2. UNCHANGED tasks
    BY <1>5 DEF Collect
  <2>3. CASE f \in FrameTasks
    BY <1>1, <2>1, <2>2, <2>3 DEF Taken, At
  <2>4. CASE f \in loop'.batch
    <3>1. PICK pk \in taken : f = sessions[pk].latest_frame
      BY <2>1, <2>4
    <3>2. pk \in DOMAIN sessions /\ f.pk = pk /\ f.seq = arrivals[pk]
            /\ sessions[pk].latest_result.seq < arrivals[pk]
      BY <3>1 DEF Waiting, Numbered
    <3> QED
      BY <2>1, <3>2
  <2> QED
    BY <2>2, <2>3, <2>4 DEF Taken, FrameTasks
<1>6. ASSUME NEW frame \in loop.batch, Spawn(frame)
      PROVE  sessions'[f.pk].latest_result.seq < f.seq
  <2>1. UNCHANGED sessions
    BY <1>6 DEF Spawn
  <2>2. f \in Taken
    BY <1>6, SpawnStep
  <2>3. ~At(f, "give_back")
    BY <1>6, SpawnStep DEF At, Slots
  <2> QED
    BY <1>1, <2>1, <2>2, <2>3
<1>7. CASE CleanupStaleSessions
  BY <1>1, <1>7, CleanupStep DEF Taken, FrameTasks, At
<1>8. ASSUME NEW req \in DOMAIN tasks, Task(req)
      PROVE  sessions'[f.pk].latest_result.seq < f.seq
  <2>1. f \in Taken /\ f.pk \in DOMAIN sessions
    BY <1>8, TaskStep, ZenonT(60) DEF Taken, FrameTasks
  <2>2. ~At(f, "give_back")
    <3>1. CASE f = req
      <4>1. ~GiveBack(req)
        <5>1. req \notin loop'.batch
          BY <1>8, TaskStep DEF Slots
        <5>2. req \in DOMAIN tasks'
          BY <3>1, <5>1 DEF Taken, FrameTasks
        <5> QED
          BY <1>8, <5>2, TaskStep, ZenonT(60)
      <4> QED
        BY <1>8, <3>1, <4>1, TaskStep
    <3>2. CASE f # req
      BY <1>8, <3>2, TaskStep, ZenonT(60) DEF At
    <3> QED
      BY <3>1, <3>2
  <2>3. CASE sessions'[f.pk].latest_result = sessions[f.pk].latest_result
    BY <1>1, <2>1, <2>2, <2>3
  <2>4. CASE StoreResult(req) /\ req.kind = "frame"
    <3>1. f = req
      BY <2>1, <2>4, OneTaken DEF Taken, FrameTasks
    <3>2. At(req, "give_back")'
      BY <2>4 DEF StoreResult, Goes, At, Types
    <3> QED
      BY <3>1, <3>2
  <2> QED
    BY <1>8, <2>1, <2>3, <2>4, TaskStep, ZenonT(60)
<1> QED
  BY <1>2, <1>3, <1>4, <1>5, <1>6, <1>7, <1>8 DEF Next, Handlers, Loop, Idle

(* The stages of a task without failures: only an answer comes before give_back. *)
LEMMA SmoothTask ==
  ASSUME Types, Encrypted, KeysFit, Smooth, NEW req \in DOMAIN tasks, Task(req),
         ~StoreResult(req), ~GiveBack(req)
  PROVE  ~At(req, "give_back")'
<1>1. ASSUME NEW stage \in Stages, Goes(req, stage)
      PROVE  tasks'[req].stage = stage
  BY <1>1 DEF Goes, Types
<1>2. epoch = 1
  BY SetupTypes DEF Smooth, Encrypted
<1>3. CASE LookupVetkey(req)
  BY <1>1, <1>3 DEF LookupVetkey, At, Stages
<1>4. CASE RequestVetkey(req)
  BY <1>4 DEF RequestVetkey, At, Smooth
<1>5. CASE RequestMpk(req)
  BY <1>5 DEF RequestMpk, At, Smooth
<1>6. CASE InsertVetkey(req)
  BY <1>1, <1>6 DEF InsertVetkey, At, Stages
<1>7. CASE DecryptFrame(req)
  <2> DEFINE vk == tasks[req].vk
  <2>1. FitsWhole(vk) /\ MadeFor(req)
    BY <1>7 DEF DecryptFrame, KeysFit, Encrypted
  <2>2. vk.evk.epoch = 1 /\ vk.mpk = 1 /\ vk.evk.tpk = vk.tsk
    BY <1>2, <2>1 DEF FitsWhole, Fits
  <2>3. req.ciphertext \in Ciphertext
    BY DEF Types, Request, Frame, Infer
  <2>4. req.ciphertext = [epoch |-> 1, nonce |-> req.pk]
    BY <1>2, <2>1, <2>3 DEF MadeFor, Ciphertext
  <2>5. Decrypts(vk.evk, vk.tsk, vk.mpk, req.ciphertext, req.pk)
    BY <2>2, <2>4 DEF Decrypts
  <2>6. Goes(req, "vllm")
    BY <1>7, <2>5 DEF DecryptFrame
  <2> QED
    BY <1>1, <2>6 DEF At, Stages
<1>8. CASE CallVllm(req)
  BY <1>1, <1>8 DEF CallVllm, At, Smooth, Stages
<1> QED
  BY <1>3, <1>4, <1>5, <1>6, <1>7, <1>8 DEF Task

LEMMA LastHandledNext ==
  ASSUME IInv, [Next]_vars
  PROVE  LastHandled'
<1> USE FrameFacts DEF IInv
<1>0. UNCHANGED <<setup, attestation>>
  BY TaskStep, PostFrameStep, CleanupStep
     DEF Next, Browser, Start, Stop, SendFrame, PollResult, Handlers, PostInfer, Loop, LoadInflight,
         Collect, Spawn, World, SessionAges, CleanupComesDue, KeyServerRestarts, vars, given
<1> DEFINE Handled(pk) ==
      LET last == sessions[pk].latest_frame
      IN  sessions[pk].latest_result = last \/ (last \in Taken /\ ~At(last, "give_back"))
<1>1. Smooth' <=> Smooth
  BY <1>0 DEF Smooth, Refused
<1> SUFFICES ASSUME Smooth, NEW pk \in DOMAIN sessions', pk \notin Waiting'
             PROVE  Handled(pk)'
  BY <1>1 DEF LastHandled
<1>2. ASSUME pk \in DOMAIN sessions, pk \notin Waiting,
             sessions'[pk].latest_frame = sessions[pk].latest_frame,
             sessions'[pk].latest_result = sessions[pk].latest_result,
             LET last == sessions[pk].latest_frame
             IN  last \in Taken /\ ~At(last, "give_back") =>
                   last \in Taken' /\ ~At(last, "give_back")'
      PROVE  Handled(pk)'
  BY <1>2 DEF LastHandled
<1>3. CASE Idle
  BY <1>2, <1>3, IdleStep DEF Taken, FrameTasks, At
<1>4. ASSUME NEW req \in posts, PostFrame(req)
      PROVE  Handled(pk)'
  <2>1. /\ UNCHANGED <<loop, tasks>> /\ Waiting' = Waiting \cup {req.pk}
        /\ DOMAIN sessions' = DOMAIN sessions \cup {req.pk}
        /\ \A k \in DOMAIN sessions \ {req.pk} : sessions'[k] = sessions[k]
    BY <1>4, PostFrameStep
  <2>2. pk \in DOMAIN sessions /\ pk \notin Waiting /\ sessions'[pk] = sessions[pk]
    BY <2>1
  <2> QED
    BY <1>2, <2>1, <2>2 DEF Taken, FrameTasks, At
<1>5. ASSUME NEW k \in Pk, PostInfer(k)
      PROVE  Handled(pk)'
  <2>1. UNCHANGED sessions /\ Taken' = Taken
    BY <1>5, PostInferStep DEF Taken
  <2>2. \A f : ~At(f, "give_back") => ~At(f, "give_back")'
    <3>1. PICK req : DOMAIN tasks' = DOMAIN tasks \cup {req} /\ tasks'[req].stage = "lookup"
      BY <1>5, PostInferStep
    <3>2. \A r \in DOMAIN tasks : tasks'[r] = tasks[r]
      BY <1>5, PostInferStep
    <3> QED
      BY <3>1, <3>2 DEF At
  <2> QED
    BY <1>2, <2>1, <2>2 DEF Waiting
<1>6. CASE Collect
  <2>1. PICK taken \in SUBSET Waiting :
           /\ loop'.batch = {sessions[k].latest_frame : k \in taken}
           /\ DOMAIN sessions' = DOMAIN sessions
           /\ \A k \in DOMAIN sessions :
                /\ sessions'[k].latest_frame = sessions[k].latest_frame
                /\ sessions'[k].latest_result = sessions[k].latest_result
           /\ Waiting' = Waiting \ taken
    BY <1>6, CollectStep
  <2>2. UNCHANGED tasks /\ loop.batch = {}
    BY <1>6 DEF Collect, Slots
  <2>3. CASE pk \in taken
    <3> DEFINE last == sessions[pk].latest_frame
    <3>1. last \in Taken' /\ sessions'[pk].latest_frame = last /\ last \in Frame
      BY <2>1, <2>3 DEF Taken
    <3>2. last \notin Taken
      BY <2>1, <2>3 DEF Numbered, Types
    <3>3. ~At(last, "give_back")'
      BY <2>2, <3>1, <3>2 DEF At, Taken, FrameTasks
    <3> QED
      BY <3>1, <3>3
  <2>4. CASE pk \notin taken
    BY <1>2, <2>1, <2>2, <2>4 DEF Taken, FrameTasks, At
  <2> QED
    BY <2>3, <2>4
<1>7. ASSUME NEW frame \in loop.batch, Spawn(frame)
      PROVE  Handled(pk)'
  <2>1. UNCHANGED sessions /\ Taken' = Taken
    BY <1>7, SpawnStep DEF Spawn
  <2>2. \A f : ~At(f, "give_back") => ~At(f, "give_back")'
    BY <1>7, SpawnStep DEF At
  <2> QED
    BY <1>2, <2>1, <2>2 DEF Waiting
<1>8. CASE CleanupStaleSessions
  BY <1>2, <1>8, CleanupStep DEF Taken, FrameTasks, At
<1>9. ASSUME NEW req \in DOMAIN tasks, Task(req)
      PROVE  Handled(pk)'
  <2> DEFINE last == sessions[pk].latest_frame
  <2>0. /\ UNCHANGED <<loop, arrivals>> /\ DOMAIN sessions' = DOMAIN sessions
        /\ ~GiveBack(req) => DOMAIN tasks' = DOMAIN tasks
        /\ GiveBack(req) => DOMAIN tasks' = DOMAIN tasks \ {req} /\ At(req, "give_back")
        /\ \A r \in DOMAIN tasks \ {req} : tasks'[r] = tasks[r]
        /\ \A k \in DOMAIN sessions :
             /\ sessions'[k].latest_frame = sessions[k].latest_frame
             /\ sessions'[k].new_frame = sessions[k].new_frame
             /\ \/ sessions'[k].latest_result = sessions[k].latest_result
                \/ StoreResult(req) /\ req.kind = "frame" /\ req.pk = k
    BY <1>9, TaskStep, ZenonT(60)
  <2>1. pk \in DOMAIN sessions /\ pk \notin Waiting /\ sessions'[pk].latest_frame = last
          /\ last \in Frame /\ last.pk = pk /\ last.seq = arrivals[pk] /\ arrivals[pk] \in Nat
    BY <2>0 DEF Waiting, Numbered, Types
  <2>2. CASE req.kind = "frame" /\ StoreResult(req) /\ req.pk = pk
    <3>1. req \in Taken /\ ~At(req, "give_back")
      BY <2>2 DEF Taken, FrameTasks, StoreResult, At
    <3>2. sessions'[pk].latest_result = req
      BY <2>1, <2>2 DEF StoreResult, Types, Session
    <3>3. sessions[pk].latest_result # last
      <4>1. sessions[pk].latest_result.seq < req.seq
        BY <2>1, <2>2, <3>1 DEF Newer, Smooth
      <4>2. req.seq <= arrivals[pk] /\ req.seq \in Nat
        BY <2>2, <3>1 DEF Numbered
      <4> QED
        BY <2>1, <4>1, <4>2
    <3>4. last \in Taken
      BY <2>1, <3>3 DEF LastHandled
    <3>5. last = req
      BY <3>1, <3>4, OneTaken DEF Smooth
    <3> QED
      BY <2>1, <3>2, <3>5
  <2>3. CASE ~(req.kind = "frame" /\ StoreResult(req) /\ req.pk = pk)
    <3>0. \/ sessions'[pk].latest_result = sessions[pk].latest_result
          \/ StoreResult(req) /\ req.kind = "frame" /\ req.pk = pk
      BY <2>0, <2>1
    <3>1. sessions'[pk].latest_result = sessions[pk].latest_result
      BY <2>3, <3>0
    <3>2. ASSUME last \in Taken, ~At(last, "give_back")
          PROVE  last \in Taken' /\ ~At(last, "give_back")'
      <4>1. CASE last = req
        <5>1. req.kind = "frame" /\ ~GiveBack(req) /\ ~StoreResult(req)
          BY <2>0, <2>1, <2>3, <3>2, <4>1
        <5>2. ~At(req, "give_back")'
          BY <1>9, <5>1, SmoothTask
        <5>3. req \in FrameTasks'
          BY <2>0, <5>1 DEF FrameTasks
        <5> QED
          BY <2>1, <4>1, <5>2, <5>3 DEF Taken
      <4>2. CASE last # req
        BY <2>0, <3>2, <4>2 DEF Taken, FrameTasks, At
      <4> QED
        BY <4>1, <4>2
    <3> QED
      BY <1>2, <2>1, <3>1, <3>2
  <2> QED
    BY <2>2, <2>3
<1> QED
  BY <1>3, <1>4, <1>5, <1>6, <1>7, <1>8, <1>9 DEF Next, Handlers, Loop, Idle

-----------------------------------------------------------------------------
(* The theorems about the states.                                           *)

LEMMA IInvInit == Init => IInv
<1> SUFFICES ASSUME Init PROVE IInv
  OBVIOUS
<1>1. Types
  BY TypesInit
<1>2. /\ DOMAIN sessions = {} /\ DOMAIN tasks = {} /\ DOMAIN vetkey_cache = {} /\ posts = {}
      /\ loop.batch = {} /\ loop.pc = "sleep" /\ inflight = 0 /\ epoch = 1
  BY DEF Init
<1>3. FrameTasks = {} /\ Taken = {} /\ Waiting = {}
  BY <1>2 DEF FrameTasks, Taken, Waiting
<1>4. Slots
  BY <1>1, <1>2, <1>3, FS_EmptySet, SetupTypes DEF Slots
<1>5. Encrypted
  BY <1>1, <1>2, SetupTypes DEF Encrypted
<1> QED
  BY <1>1, <1>2, <1>3, <1>4, <1>5 DEF IInv, Numbered, KeysFit, Newer, LastHandled

LEMMA IInvNext == IInv /\ [Next]_vars => IInv'
<1> SUFFICES ASSUME IInv, [Next]_vars PROVE IInv'
  OBVIOUS
<1>1. inflight \in Nat
  BY FS_CardinalityType DEF IInv, Slots
<1> QED
  BY <1>1, TypesNext, NumberedNext, SlotsNext, EncryptedNext, KeysFitNext, NewerNext, LastHandledNext
     DEF IInv

LEMMA IInvAlways == Spec => []IInv
<1> QED
  BY IInvInit, IInvNext, PTL DEF Spec

LEMMA SlotsInvariant == IInv => SlotsAccounted
<1> SUFFICES ASSUME IInv PROVE SlotsAccounted
  OBVIOUS
<1> USE FrameFacts DEF IInv
<1>1. inflight \in Nat /\ Cardinality(loop.batch) \in Nat /\ setup.batch_size \in Nat
  BY FS_CardinalityType, SetupTypes DEF Slots
<1>2. TypeOK
  BY <1>1 DEF TypeOK, Types, Slots, Numbered
<1>3. InflightAccounts
  BY DEF InflightAccounts, Slots
<1>4. ASSUME NEW pk \in Waiting
      PROVE  sessions[pk].latest_frame
               \notin DOMAIN tasks \cup loop.batch \cup {sessions[pk].latest_result}
  <2> DEFINE last == sessions[pk].latest_frame
  <2>1. /\ pk \in DOMAIN sessions /\ last.pk = pk /\ last.seq = arrivals[pk] /\ last \in Frame
        /\ arrivals[pk] \in Nat /\ sessions[pk].latest_result.seq < arrivals[pk]
    BY DEF Waiting, Numbered, Types
  <2>2. last \notin Taken
    BY <2>1 DEF Numbered
  <2> QED
    BY <2>1, <2>2 DEF Taken, FrameTasks
<1>5. DispatchedOnce
  BY <1>4 DEF DispatchedOnce, Slots
<1> QED
  BY <1>2, <1>3, <1>5 DEF SlotsAccounted

LEMMA KeysInvariant == IInv => KeysFitTogether
<1> SUFFICES ASSUME IInv PROVE KeysFitTogether
  OBVIOUS
<1>1. \A pk \in DOMAIN vetkey_cache : vetkey_cache[pk].tsk = vetkey_cache[pk].evk.tpk
  BY DEF IInv, KeysFit, FitsWhole, Fits
<1>2. ASSUME NEW req \in DOMAIN tasks, At(req, "decrypt"), epoch = 1
      PROVE  Decrypts(tasks[req].vk.evk, tasks[req].vk.tsk, tasks[req].vk.mpk,
                      req.ciphertext, req.pk)
  <2>1. FitsWhole(tasks[req].vk) /\ MadeFor(req) /\ req.ciphertext \in Ciphertext
    BY <1>2 DEF IInv, KeysFit, Encrypted, Types, Request, Frame, Infer
  <2>2. tasks[req].vk.evk.epoch = 1 /\ tasks[req].vk.mpk = 1
          /\ tasks[req].vk.tsk = tasks[req].vk.evk.tpk
    BY <1>2, <2>1 DEF FitsWhole, Fits
  <2>3. req.ciphertext = [epoch |-> 1, nonce |-> req.pk]
    BY <1>2, <2>1 DEF MadeFor, Ciphertext
  <2> QED
    BY <2>2, <2>3 DEF Decrypts
<1> QED
  BY <1>1, <1>2 DEF KeysFitTogether

LEMMA QuietInvariant == IInv => QuietShowsLatest
<1> SUFFICES ASSUME IInv, Smooth, FrameTasks = {}, loop.batch = {},
                    NEW pk \in DOMAIN sessions \ Waiting
             PROVE  sessions[pk].latest_result.seq = arrivals[pk]
  BY DEF QuietShowsLatest, Smooth
<1>1. sessions[pk].latest_result = sessions[pk].latest_frame
  BY DEF IInv, LastHandled, Taken
<1> QED
  BY <1>1 DEF IInv, Numbered

(* The loop's account of its slots is right in every state, whatever the clients
   send and however calls end: what runs and what is about to start never
   exceed the batch size, and no frame is dispatched twice.                 *)
THEOREM SidecarSlots == Spec => []SlotsAccounted
<1> QED
  BY IInvAlways, SlotsInvariant, PTL

(* A cached or fetched transport secret stays with the vetKey that was made for it,
   and decrypts while the key server has not been restarted.                *)
THEOREM SidecarKeys == Spec => []KeysFitTogether
<1> QED
  BY IInvAlways, KeysInvariant, PTL

(* One inference at a time and no failures: a session with nothing waiting and
   nothing running shows the answer to its last frame.                      *)
THEOREM SidecarQuiet == Spec => []QuietShowsLatest
<1> QED
  BY IInvAlways, QuietInvariant, PTL

-----------------------------------------------------------------------------
(* The refinement of FrameMailbox, with one slot.                           *)

MWaiting == [pk \in Pk |-> IF pk \in Waiting THEN sessions[pk].latest_frame.seq ELSE 0]
MWorking == [pk \in Pk |-> {req.seq : req \in InWork(pk)}]
MShown == [pk \in Pk |-> IF pk \in DOMAIN sessions THEN sessions[pk].latest_result.seq ELSE 0]

MPost(pk) ==
  /\ arrivals' = [arrivals EXCEPT ![pk] = @ + 1]
  /\ MWaiting' = [MWaiting EXCEPT ![pk] = arrivals[pk] + 1]
  /\ UNCHANGED <<MWorking, MShown>>
MTake(pk) ==
  /\ MWaiting[pk] # 0
  /\ MWaiting' = [MWaiting EXCEPT ![pk] = 0]
  /\ MWorking' = [MWorking EXCEPT ![pk] = @ \cup {MWaiting[pk]}]
  /\ UNCHANGED <<arrivals, MShown>>
MAnswer(pk) ==
  /\ \E f \in MWorking[pk] :
       /\ f > MShown[pk]
       /\ MWorking' = [MWorking EXCEPT ![pk] = @ \ {f}]
       /\ MShown' = [MShown EXCEPT ![pk] = f]
  /\ UNCHANGED <<arrivals, MWaiting>>
MGiveUp(pk) ==
  /\ \E f \in MWorking[pk] : MWorking' = [MWorking EXCEPT ![pk] = @ \ {f}]
  /\ UNCHANGED <<arrivals, MWaiting, MShown>>
MForget(Gone) ==
  /\ MWaiting' = [pk \in Pk |-> IF pk \in Gone THEN 0 ELSE MWaiting[pk]]
  /\ MShown' = [pk \in Pk |-> IF pk \in Gone THEN 0 ELSE MShown[pk]]
  /\ UNCHANGED <<arrivals, MWorking>>
MStutter == UNCHANGED <<arrivals, MWaiting, MWorking, MShown>>

(* The steps of the mailbox, written with the values it is given.           *)
LEMMA MailboxStep ==
  ASSUME \/ \E pk \in Pk : MPost(pk) \/ MTake(pk) \/ MAnswer(pk) \/ MGiveUp(pk)
         \/ \E Gone \in SUBSET Pk : MForget(Gone)
         \/ MStutter
  PROVE  [Mailbox!Next]_(Mailbox!vars)
<1>1. ASSUME NEW pk \in Pk, MPost(pk)
      PROVE  Mailbox!Next
  BY <1>1 DEF MPost, MWaiting, MWorking, MShown, Mailbox!Next, Mailbox!Post
<1>2. ASSUME NEW pk \in Pk, MTake(pk)
      PROVE  Mailbox!Next
  BY <1>2 DEF MTake, MWaiting, MWorking, MShown, Mailbox!Next, Mailbox!Take
<1>3. ASSUME NEW pk \in Pk, MAnswer(pk)
      PROVE  Mailbox!Next
  BY <1>3 DEF MAnswer, MWaiting, MWorking, MShown, Mailbox!Next, Mailbox!Answer
<1>4. ASSUME NEW pk \in Pk, MGiveUp(pk)
      PROVE  Mailbox!Next
  BY <1>4 DEF MGiveUp, MWaiting, MWorking, MShown, Mailbox!Next, Mailbox!GiveUp
<1>5. ASSUME NEW Gone \in SUBSET Pk, MForget(Gone)
      PROVE  Mailbox!Next
  BY <1>5 DEF MForget, MWaiting, MWorking, MShown, Mailbox!Next, Mailbox!Forget
<1>6. CASE MStutter
  BY <1>6 DEF MStutter, MWaiting, MWorking, MShown, Mailbox!vars
<1> QED
  BY <1>1, <1>2, <1>3, <1>4, <1>5, <1>6

LEMMA MailboxInit == Init => Mailbox!Init
<1> SUFFICES ASSUME Init PROVE Mailbox!Init
  OBVIOUS
<1>1. DOMAIN sessions = {} /\ DOMAIN tasks = {} /\ loop.batch = {} /\ arrivals = [pk \in Pk |-> 0]
  BY DEF Init
<1>2. Waiting = {} /\ \A pk \in Pk : InWork(pk) = {}
  BY <1>1 DEF Waiting, InWork, FrameTasks
<1> QED
  BY <1>1, <1>2 DEF Mailbox!Init

LEMMA InWorkIs ==
  /\ \A pk : InWork(pk) = {f \in Taken : f.pk = pk /\ ~At(f, "give_back")}
  /\ \A pk : InWork(pk)' = {f \in Taken' : f.pk = pk /\ ~At(f, "give_back")'}
BY DEF InWork, Taken

(* What is taken and not given back is in work.                             *)
LEMMA SameWork ==
  ASSUME Taken' = Taken, \A f \in Taken : At(f, "give_back")' <=> At(f, "give_back")
  PROVE  UNCHANGED MWorking
<1>1. \A pk : InWork(pk)' = InWork(pk)
  BY InWorkIs
<1> QED
  BY <1>1 DEF MWorking

LEMMA RefinesCollect ==
  ASSUME IInv, setup.batch_size = 1, Collect
  PROVE  MStutter \/ \E pk \in Pk : MTake(pk)
<1> USE FrameFacts DEF IInv
<1>1. PICK taken \in SUBSET Waiting :
        /\ Cardinality(taken) <= loop.available
        /\ loop'.batch = {sessions[pk].latest_frame : pk \in taken}
        /\ DOMAIN sessions' = DOMAIN sessions
        /\ \A pk \in DOMAIN sessions :
             /\ sessions'[pk].latest_frame = sessions[pk].latest_frame
             /\ sessions'[pk].latest_result = sessions[pk].latest_result
        /\ Waiting' = Waiting \ taken
  BY CollectStep
<1>2. UNCHANGED <<tasks, arrivals>> /\ loop.batch = {} /\ loop.pc = "collect"
  BY DEF Collect, Slots
<1>3. taken \subseteq DOMAIN sessions /\ taken \subseteq Pk
  BY DEF Waiting, Types
<1>4. UNCHANGED <<arrivals, MShown>>
  BY <1>1, <1>2 DEF MShown
<1>5. IsFiniteSet(taken) /\ Cardinality(taken) \in Nat /\ Cardinality(taken) <= 1
  <2>1. IsFiniteSet(taken) /\ Cardinality(taken) \in Nat
    BY <1>3, FS_Subset, FS_CardinalityType DEF Types
  <2>2. inflight \in Nat /\ inflight + loop.available <= 1 /\ loop.available \in Nat
    BY <1>2, FS_CardinalityType DEF Slots, Types
  <2> QED
    BY <1>1, <2>1, <2>2
<1>6. CASE taken = {}
  <2>1. Taken' = Taken /\ Waiting' = Waiting
    BY <1>1, <1>2, <1>6 DEF Taken, FrameTasks
  <2>2. UNCHANGED MWorking
    BY <1>2, <2>1, SameWork DEF At
  <2>3. UNCHANGED MWaiting
    BY <1>1, <2>1 DEF MWaiting, Waiting
  <2> QED
    BY <1>4, <2>2, <2>3 DEF MStutter
<1>7. CASE taken # {}
  <2>1. PICK pk : taken = {pk}
    <3>1. Cardinality(taken) = 1
      BY <1>5, <1>7, FS_EmptySet
    <3> QED
      BY <1>5, <3>1, FS_Singleton
  <2> DEFINE last == sessions[pk].latest_frame
  <2>2. pk \in Pk /\ pk \in Waiting /\ pk \in DOMAIN sessions
    BY <1>3, <2>1
  <2>3. last \in Frame /\ last.pk = pk /\ last.seq \in Nat \ {0} /\ last.seq = arrivals[pk]
    BY <2>2 DEF Numbered
  <2>4. loop'.batch = {last} /\ Waiting' = Waiting \ {pk}
    BY <1>1, <2>1
  <2>5. Taken' = Taken \cup {last}
    BY <1>2, <2>4 DEF Taken, FrameTasks
  <2>6. last \notin DOMAIN tasks
    <3>1. last \notin Taken
      BY <2>2, <2>3 DEF Numbered, Types
    <3> QED
      BY <2>3, <3>1 DEF Taken, FrameTasks
  <2>7. InWork(pk)' = InWork(pk) \cup {last} /\ \A k : k # pk => InWork(k)' = InWork(k)
    <3>1. \A f : At(f, "give_back")' <=> At(f, "give_back")
      BY <1>2 DEF At
    <3>2. ~At(last, "give_back")
      BY <2>6 DEF At
    <3> HIDE DEF last
    <3> QED
      BY <2>3, <2>5, <3>1, <3>2, InWorkIs
  <2>8. MWaiting[pk] = last.seq
    BY <2>2 DEF MWaiting
  <2>9. MWorking' = [MWorking EXCEPT ![pk] = @ \cup {MWaiting[pk]}]
    <3>1. {req.seq : req \in InWork(pk)'} = {req.seq : req \in InWork(pk)} \cup {last.seq}
      BY <2>7
    <3> QED
      BY <2>2, <2>7, <2>8, <3>1 DEF MWorking
  <2>10. MWaiting' = [MWaiting EXCEPT ![pk] = 0]
    <3>1. \A k \in Pk : k \in Waiting' => sessions'[k].latest_frame = sessions[k].latest_frame
      BY <1>1 DEF Waiting
    <3> QED
      BY <2>2, <2>4, <3>1 DEF MWaiting
  <2> QED
    BY <1>4, <2>2, <2>3, <2>8, <2>9, <2>10 DEF MTake
<1> QED
  BY <1>6, <1>7

LEMMA RefinesTask ==
  ASSUME IInv, setup.batch_size = 1, NEW req \in DOMAIN tasks, Task(req)
  PROVE  MStutter \/ \E pk \in Pk : MAnswer(pk) \/ MGiveUp(pk)
<1> USE FrameFacts DEF IInv
<1>1. /\ UNCHANGED <<loop, arrivals>> /\ DOMAIN sessions' = DOMAIN sessions
      /\ ~GiveBack(req) => DOMAIN tasks' = DOMAIN tasks
      /\ GiveBack(req) => DOMAIN tasks' = DOMAIN tasks \ {req} /\ At(req, "give_back")
      /\ At(req, "give_back") => GiveBack(req)
      /\ \A r \in DOMAIN tasks \ {req} : tasks'[r] = tasks[r]
      /\ \A k \in DOMAIN sessions :
           /\ sessions'[k].latest_frame = sessions[k].latest_frame
           /\ sessions'[k].new_frame = sessions[k].new_frame
           /\ \/ sessions'[k].latest_result = sessions[k].latest_result
              \/ /\ StoreResult(req) /\ req.kind = "frame" /\ req.pk = k
                 /\ sessions'[k].latest_result = req
  BY TaskStep
<1>2. UNCHANGED MWaiting
  BY <1>1 DEF MWaiting, Waiting
<1>3. ASSUME ~(StoreResult(req) /\ req.kind = "frame" /\ req.pk \in DOMAIN sessions)
      PROVE  UNCHANGED MShown
  <2>1. \A k \in DOMAIN sessions : sessions'[k].latest_result = sessions[k].latest_result
    BY <1>1, <1>3
  <2> QED
    BY <1>1, <2>1 DEF MShown
<1>4. \A f : f # req => (At(f, "give_back")' <=> At(f, "give_back"))
  BY <1>1 DEF At
<1>5. CASE req.kind # "frame"
  <2>1. Taken' = Taken /\ req \notin Taken
    BY <1>1, <1>5 DEF Taken, FrameTasks
  <2>2. UNCHANGED MWorking
    BY <1>4, <2>1, SameWork
  <2> QED
    BY <1>1, <1>2, <1>3, <1>5, <2>2 DEF MStutter
<1>6. CASE req.kind = "frame"
  <2>1. req \in Taken /\ req.pk \in Pk /\ req.seq \in Nat /\ req \notin loop.batch
    BY <1>6 DEF Taken, FrameTasks, Slots
  <2>2. \A f \in Taken : f = req
    BY <2>1, OneTaken
  <2>3. \A pk : pk # req.pk => InWork(pk) = {}
    BY <2>2, InWorkIs
  <2>4. Taken' \subseteq Taken
    BY <1>1 DEF Taken, FrameTasks
  <2>5. \A pk : pk # req.pk => InWork(pk)' = {}
    BY <2>2, <2>4, InWorkIs
  <2>6. CASE GiveBack(req)
    <3>1. InWork(req.pk) = {} /\ InWork(req.pk)' = {}
      <4>1. req \notin Taken'
        BY <1>1, <2>1, <2>6 DEF Taken, FrameTasks
      <4> QED
        BY <1>1, <2>2, <2>4, <2>6, <4>1, InWorkIs
    <3>2. UNCHANGED MWorking
      BY <2>3, <2>5, <3>1 DEF MWorking
    <3>3. ~StoreResult(req)
      BY <2>6 DEF GiveBack, StoreResult, At
    <3> QED
      BY <1>1, <1>2, <1>3, <3>2, <3>3 DEF MStutter
  <2>7. CASE ~GiveBack(req) /\ ~At(req, "give_back")'
    <3>1. Taken' = Taken /\ ~At(req, "give_back")
      BY <1>1, <2>7 DEF Taken, FrameTasks
    <3>2. UNCHANGED MWorking
      BY <2>2, <2>7, <3>1, SameWork
    <3>3. ~StoreResult(req)
      BY <2>7 DEF StoreResult, Goes, At, Types
    <3> QED
      BY <1>1, <1>2, <1>3, <3>2, <3>3 DEF MStutter
  <2>8. CASE ~GiveBack(req) /\ At(req, "give_back")'
    <3>1. ~At(req, "give_back")
      BY <1>1, <2>8
    <3>2. InWork(req.pk) = {req} /\ InWork(req.pk)' = {}
      BY <2>1, <2>2, <2>4, <2>8, <3>1, InWorkIs
    <3>3. MWorking[req.pk] = {req.seq}
      BY <2>1, <3>2 DEF MWorking
    <3>4. MWorking' = [MWorking EXCEPT ![req.pk] = @ \ {req.seq}]
      <4>1. \A pk \in Pk : MWorking'[pk] = IF pk = req.pk THEN MWorking[pk] \ {req.seq} ELSE MWorking[pk]
        BY <2>3, <2>5, <3>2, <3>3 DEF MWorking
      <4> QED
        BY <4>1, ZenonT(60) DEF MWorking
    <3>5. CASE StoreResult(req) /\ req.pk \in DOMAIN sessions
      <4>1. MShown[req.pk] < req.seq
        BY <2>1, <3>1, <3>5 DEF MShown, Newer
      <4>2. sessions'[req.pk].latest_result = req
        BY <1>6, <3>5 DEF StoreResult, Types, Session
      <4>3. MShown' = [MShown EXCEPT ![req.pk] = req.seq]
        <5>1. \A k \in DOMAIN sessions \ {req.pk} :
                sessions'[k].latest_result = sessions[k].latest_result
          BY <1>1
        <5>2. \A k \in Pk : MShown'[k] = IF k = req.pk THEN req.seq ELSE MShown[k]
          BY <1>1, <3>5, <4>2, <5>1 DEF MShown
        <5> QED
          BY <2>1, <5>2 DEF MShown
      <4>4. MShown[req.pk] \in Nat
        BY <2>1, <3>5 DEF MShown
      <4>5. req.seq > MShown[req.pk]
        BY <2>1, <4>1, <4>4
      <4> QED
        BY <1>1, <1>2, <2>1, <3>3, <3>4, <4>3, <4>5 DEF MAnswer
    <3>6. CASE ~(StoreResult(req) /\ req.pk \in DOMAIN sessions)
      BY <1>1, <1>2, <1>3, <2>1, <3>3, <3>4, <3>6 DEF MGiveUp
    <3> QED
      BY <3>5, <3>6
  <2> QED
    BY <2>6, <2>7, <2>8
<1> QED
  BY <1>5, <1>6

LEMMA RefinesPostFrame ==
  ASSUME IInv, NEW req \in posts, PostFrame(req)
  PROVE  MPost(req.pk) /\ req.pk \in Pk
<1> USE FrameFacts DEF IInv
<1>1. /\ UNCHANGED <<loop, tasks>> /\ req.pk \in Pk
      /\ DOMAIN sessions' = DOMAIN sessions \cup {req.pk}
      /\ \A pk \in DOMAIN sessions \ {req.pk} : sessions'[pk] = sessions[pk]
      /\ sessions'[req.pk].latest_frame.seq = arrivals[req.pk] + 1
      /\ req.pk \in DOMAIN sessions =>
           sessions'[req.pk].latest_result = sessions[req.pk].latest_result
      /\ req.pk \notin DOMAIN sessions => sessions'[req.pk].latest_result = None
      /\ Waiting' = Waiting \cup {req.pk}
      /\ arrivals' = [arrivals EXCEPT ![req.pk] = @ + 1]
  BY PostFrameStep
<1>2. UNCHANGED MWorking
  BY <1>1, SameWork DEF Taken, FrameTasks, At
<1>3. UNCHANGED MShown
  BY <1>1 DEF MShown, None
<1>4. \A pk \in Waiting : pk \in DOMAIN sessions
  BY DEF Waiting
<1>5. MWaiting' = [MWaiting EXCEPT ![req.pk] = arrivals[req.pk] + 1]
  BY <1>1, <1>4 DEF MWaiting
<1> QED
  BY <1>1, <1>2, <1>3, <1>5 DEF MPost

(* Every step of the sidecar is one of the mailbox, or leaves it as it is.  *)
LEMMA RefinesNext ==
  ASSUME IInv, setup.batch_size = 1, [Next]_vars
  PROVE  [Mailbox!Next]_(Mailbox!vars)
<1> USE FrameFacts DEF IInv
<1>1. CASE Idle
  <2>1. /\ UNCHANGED <<arrivals, tasks>> /\ loop'.batch = loop.batch /\ Waiting' = Waiting
        /\ DOMAIN sessions' = DOMAIN sessions
        /\ \A pk \in DOMAIN sessions :
             /\ sessions'[pk].latest_frame = sessions[pk].latest_frame
             /\ sessions'[pk].latest_result = sessions[pk].latest_result
    BY <1>1, IdleStep
  <2>2. UNCHANGED MWorking
    BY <2>1, SameWork DEF Taken, FrameTasks, At
  <2>3. UNCHANGED <<MWaiting, MShown>>
    BY <2>1 DEF MWaiting, MShown, Waiting
  <2> QED
    BY <2>1, <2>2, <2>3, MailboxStep DEF MStutter
<1>2. ASSUME NEW req \in posts, PostFrame(req)
      PROVE  [Mailbox!Next]_(Mailbox!vars)
  BY <1>2, RefinesPostFrame, MailboxStep
<1>3. ASSUME NEW pk \in Pk, PostInfer(pk)
      PROVE  [Mailbox!Next]_(Mailbox!vars)
  <2>1. Taken' = Taken /\ UNCHANGED <<arrivals, sessions>>
    BY <1>3, PostInferStep DEF Taken
  <2>2. \A f \in Taken : At(f, "give_back")' <=> At(f, "give_back")
    <3>1. PICK req : DOMAIN tasks' = DOMAIN tasks \cup {req} /\ tasks'[req].stage = "lookup"
                     /\ req \notin DOMAIN tasks
      BY <1>3, PostInferStep
    <3>2. \A r \in DOMAIN tasks : tasks'[r] = tasks[r]
      BY <1>3, PostInferStep
    <3> QED
      BY <3>1, <3>2 DEF At
  <2>3. UNCHANGED <<MWaiting, MShown>>
    BY <2>1 DEF MWaiting, MShown, Waiting
  <2> QED
    BY <2>1, <2>2, <2>3, SameWork, MailboxStep DEF MStutter
<1>4. CASE Collect
  BY <1>4, RefinesCollect, MailboxStep
<1>5. ASSUME NEW frame \in loop.batch, Spawn(frame)
      PROVE  [Mailbox!Next]_(Mailbox!vars)
  <2>1. UNCHANGED <<arrivals, sessions>> /\ Taken' = Taken
    BY <1>5, SpawnStep DEF Spawn
  <2>2. frame \notin DOMAIN tasks
    BY DEF Slots
  <2>3. \A f : At(f, "give_back")' <=> At(f, "give_back")
    BY <1>5, <2>2, SpawnStep, ZenonT(60) DEF At
  <2>4. UNCHANGED <<MWaiting, MShown>>
    BY <2>1 DEF MWaiting, MShown, Waiting
  <2> QED
    BY <2>1, <2>3, <2>4, SameWork, MailboxStep DEF MStutter
<1>6. CASE CleanupStaleSessions
  <2> DEFINE Gone == DOMAIN sessions \ DOMAIN sessions'
  <2>1. /\ DOMAIN sessions' \subseteq DOMAIN sessions /\ loop'.batch = loop.batch
        /\ \A pk \in DOMAIN sessions' : sessions'[pk] = sessions[pk]
        /\ Waiting' = Waiting \cap DOMAIN sessions' /\ UNCHANGED <<arrivals, tasks>>
    BY <1>6, CleanupStep
  <2>2. UNCHANGED MWorking
    BY <2>1, SameWork DEF Taken, FrameTasks, At
  <2>3. \A pk \in Waiting : pk \in DOMAIN sessions
    BY DEF Waiting
  <2>4. MWaiting' = [pk \in Pk |-> IF pk \in Gone THEN 0 ELSE MWaiting[pk]]
    BY <2>1, <2>3 DEF MWaiting
  <2>5. MShown' = [pk \in Pk |-> IF pk \in Gone THEN 0 ELSE MShown[pk]]
    BY <2>1 DEF MShown
  <2>6. Gone \in SUBSET Pk
    BY DEF Types
  <2> HIDE DEF Gone
  <2> QED
    BY <2>1, <2>2, <2>4, <2>5, <2>6, MailboxStep DEF MForget
<1>7. ASSUME NEW req \in DOMAIN tasks, Task(req)
      PROVE  [Mailbox!Next]_(Mailbox!vars)
  BY <1>7, RefinesTask, MailboxStep
<1> QED
  BY <1>1, <1>2, <1>3, <1>4, <1>5, <1>6, <1>7 DEF Next, Handlers, Loop, Idle

(* "latest-frame-wins per session" (sidecar.rs:3): with one inference at a time the
   sidecar implements the mailbox of FrameMailbox, for any clients.         *)
THEOREM SidecarImplementsMailbox == Spec => LatestFrameWins
<1>1. Init => (setup.batch_size = 1 => Mailbox!Init)
  BY MailboxInit
<1>2. IInv /\ [Next]_vars => [setup.batch_size = 1 => [Mailbox!Next]_(Mailbox!vars)]_vars
  BY RefinesNext
<1> QED
  BY <1>1, <1>2, IInvAlways, PTL DEF Spec, LatestFrameWins
==============================================================================

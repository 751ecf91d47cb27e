---------------------------- MODULE ReshareProofs ----------------------------
(***************************************************************************)
(* The safety properties of Reshare, for every field, keys, hash and setup.*)
(*                                                                         *)
(* A new member stops reading at the first message that makes its map full,*)
(* so all that finish have read the same messages (ReadInv, SameDealings). *)
(* A dealing that passes the checks gives its recipient the value of the   *)
(* polynomial its commitment commits to (DealtInv, Accepted), and the new  *)
(* shares are the values of one combination of those polynomials. Its      *)
(* constant term is the secret if the holders' shares lie on a polynomial  *)
(* of degree TOld - 1 (HoldersInv): the next resharing starts from the     *)
(* combination, of degree TNew - 1.                                        *)
(***************************************************************************)
EXTENDS Reshare, ShamirProofs

-----------------------------------------------------------------------------
(* A combination of polynomials of one length, with weights w.              *)
Combined(D, w, C, n) == [k \in 1..n |-> Total([d \in D |-> Times(w[d], C[d][k])])]

LEMMA CombinedType ==
  ASSUME NEW D, IsFiniteSet(D), NEW w \in [D -> Scalar], NEW n \in Nat,
         NEW C \in [D -> Polynomials(n)]
  PROVE  /\ Combined(D, w, C, n) \in Polynomials(n)
         /\ \A k \in 1..n : [d \in D |-> Times(w[d], C[d][k])] \in [D -> Scalar]
<1>1. ASSUME NEW k \in 1..n
      PROVE  /\ [d \in D |-> Times(w[d], C[d][k])] \in [D -> Scalar]
             /\ Total([d \in D |-> Times(w[d], C[d][k])]) \in Scalar
  <2> DEFINE f == [d \in D |-> Times(w[d], C[d][k])]
  <2>1. \A d \in D : C[d][k] \in Scalar
    <3>1. \A d \in D : C[d] \in Seq(Scalar) /\ Len(C[d]) = n
      BY DEF Polynomials
    <3> QED
      BY <3>1
  <2>2. f \in [D -> Scalar]
    BY <2>1, RingTypes
  <2> HIDE DEF f
  <2>3. Total(f) \in Scalar
    BY <2>2, TotalType
  <2> QED
    BY <2>2, <2>3 DEF f
<1> DEFINE t(k) == Total([d \in D |-> Times(w[d], C[d][k])])
<1>2. \A k \in 1..n : t(k) \in Scalar
  BY <1>1
<1>3. Combined(D, w, C, n) = [k \in 1..n |-> t(k)]
  BY DEF Combined
<1> HIDE DEF t
<1>4. [k \in 1..n |-> t(k)] \in Seq(Scalar) /\ Len([k \in 1..n |-> t(k)]) = n
  BY <1>2
<1> QED
  BY <1>1, <1>3, <1>4 DEF Polynomials

(* Its values combine the values.                                           *)
LEMMA CombinedEvaluate ==
  ASSUME NEW D, IsFiniteSet(D), NEW w \in [D -> Scalar], NEW x \in Scalar
  PROVE  \A n \in Nat : \A C \in [D -> Polynomials(n)] :
           Evaluate(Combined(D, w, C, n), x) = Total([d \in D |-> Times(w[d], Evaluate(C[d], x))])
<1> DEFINE Good(n, C) ==
             Evaluate(Combined(D, w, C, n), x) = Total([d \in D |-> Times(w[d], Evaluate(C[d], x))])
           A == {n \in Nat : \A C \in [D -> Polynomials(n)] : Good(n, C)}
<1>1. 0 \in A
  <2> SUFFICES ASSUME NEW C \in [D -> Polynomials(0)] PROVE Good(0, C)
    OBVIOUS
  <2>1. Combined(D, w, C, 0) \in Seq(Scalar) /\ Len(Combined(D, w, C, 0)) = 0
    BY CombinedType DEF Polynomials
  <2>2. Evaluate(Combined(D, w, C, 0), x) = 0
    BY <2>1, EvaluateEmpty
  <2>3. \A d \in D : Times(w[d], Evaluate(C[d], x)) = 0
    <3> SUFFICES ASSUME NEW d \in D PROVE Times(w[d], Evaluate(C[d], x)) = 0
      OBVIOUS
    <3>1. C[d] \in Seq(Scalar) /\ Len(C[d]) = 0
      BY DEF Polynomials
    <3>2. Evaluate(C[d], x) = 0 /\ w[d] \in Scalar
      BY <3>1, EvaluateEmpty
    <3> QED
      BY <3>2, TimesLaws
  <2>4. [d \in D |-> Times(w[d], Evaluate(C[d], x))] = [d \in D |-> 0]
    BY <2>3
  <2> QED
    BY <2>2, <2>4, TotalZero
<1>2. ASSUME NEW n \in Nat, n \in A
      PROVE  n + 1 \in A
  <2> SUFFICES ASSUME NEW C \in [D -> Polynomials(n + 1)] PROVE Good(n + 1, C)
    OBVIOUS
  <2> DEFINE rest == [d \in D |-> Tail(C[d])]
             c == Combined(D, w, C, n + 1)
             ones == [d \in D |-> Times(w[d], C[d][1])]
             E(d) == Evaluate(Tail(C[d]), x)
             rests == [d \in D |-> Times(w[d], E(d))]
             alls == [d \in D |-> Times(w[d], Evaluate(C[d], x))]
  <2>1. \A d \in D : /\ C[d] \in Seq(Scalar) /\ Len(C[d]) = n + 1 /\ Len(C[d]) > 0
                     /\ w[d] \in Scalar
    BY DEF Polynomials
  <2>2. ASSUME NEW d \in D
        PROVE  /\ Tail(C[d]) \in Seq(Scalar) /\ Len(Tail(C[d])) = n /\ C[d][1] \in Scalar
               /\ Evaluate(C[d], x) = Plus(C[d][1], Times(x, E(d))) /\ E(d) \in Scalar
               /\ \A k \in 1..n : Tail(C[d])[k] = C[d][k + 1]
    <3>1. /\ Tail(C[d]) \in Seq(Scalar) /\ Len(Tail(C[d])) = Len(C[d]) - 1 /\ C[d][1] \in Scalar
          /\ Evaluate(C[d], x) = Plus(C[d][1], Times(x, E(d)))
      BY <2>1, EvaluateRest
    <3>2. E(d) \in Scalar
      BY <3>1, EvaluateType
    <3>3. \A k \in 1..n : Tail(C[d])[k] = C[d][k + 1]
      BY <2>1, <3>1
    <3>4. Len(Tail(C[d])) = n
      <4>1. Len(Tail(C[d])) = Len(C[d]) - 1 /\ Len(C[d]) = n + 1
        BY <2>1, <3>1
      <4> QED
        BY <4>1
    <3> HIDE DEF E
    <3> QED
      BY <3>1, <3>2, <3>3, <3>4
  <2>3. rest \in [D -> Polynomials(n)]
    BY <2>2 DEF Polynomials
  <2>4. Evaluate(Combined(D, w, rest, n), x) = Total([d \in D |-> Times(w[d], Evaluate(rest[d], x))])
    <3> HIDE DEF rest
    <3> QED
      BY <1>2, <2>3
  <2>5. c \in Seq(Scalar) /\ Len(c) = n + 1 /\ Len(c) > 0
    <3>1. c \in Polynomials(n + 1)
      BY CombinedType
    <3> QED
      BY <3>1 DEF Polynomials
  <2>6. /\ Tail(c) \in Seq(Scalar) /\ Len(Tail(c)) = n
        /\ Evaluate(c, x) = Plus(c[1], Times(x, Evaluate(Tail(c), x)))
    <3> HIDE DEF c
    <3> QED
      BY <2>5, EvaluateRest
  <2>7. Tail(c) = Combined(D, w, rest, n)
    <3>1. Combined(D, w, rest, n) \in Seq(Scalar) /\ Len(Combined(D, w, rest, n)) = n
      <4> HIDE DEF rest
      <4>1. Combined(D, w, rest, n) \in Polynomials(n)
        BY <2>3, CombinedType
      <4> QED
        BY <4>1 DEF Polynomials
    <3>2. ASSUME NEW k \in 1..n
          PROVE  Tail(c)[k] = Combined(D, w, rest, n)[k]
      <4>1. Tail(c)[k] = c[k + 1] /\ k + 1 \in 1..n + 1
        <5> HIDE DEF c
        <5> QED
          BY <2>5, <2>6
      <4>2. c[k + 1] = Total([d \in D |-> Times(w[d], C[d][k + 1])])
        BY <4>1 DEF Combined
      <4>3. [d \in D |-> Times(w[d], C[d][k + 1])] = [d \in D |-> Times(w[d], rest[d][k])]
        BY <2>2
      <4> QED
        BY <4>1, <4>2, <4>3 DEF Combined
    <3> HIDE DEF rest, c
    <3> QED
      BY <2>6, <3>1, <3>2
  <2>8. c[1] = Total(ones)
    BY DEF Combined
  <2>9. Evaluate(Tail(c), x) = Total(rests)
    <3>1. [d \in D |-> Times(w[d], Evaluate(rest[d], x))] = rests
      OBVIOUS
    <3> QED
      BY <2>4, <2>7, <3>1
  <2>10. ones \in [D -> Scalar] /\ rests \in [D -> Scalar]
    BY <2>1, <2>2, RingTypes
  <2>11. ASSUME NEW d \in D
         PROVE  alls[d] = Plus(ones[d], Times(x, rests[d])) /\ Times(x, rests[d]) \in Scalar
    <3> DEFINE a == C[d][1]
               e == E(d)
               v == w[d]
    <3>1. a \in Scalar /\ e \in Scalar /\ v \in Scalar
      BY <2>1, <2>2
    <3>2. alls[d] = Times(v, Plus(a, Times(x, e))) /\ ones[d] = Times(v, a) /\ rests[d] = Times(v, e)
      BY <2>2
    <3> HIDE DEF a, e, v
    <3>3. Times(x, e) \in Scalar /\ Times(v, e) \in Scalar /\ Times(x, Times(v, e)) \in Scalar
      BY <3>1, RingTypes
    <3>4. Times(v, Plus(a, Times(x, e))) = Plus(Times(v, a), Times(v, Times(x, e)))
      BY <3>1, <3>3, Distributes
    <3>5. Times(v, Times(x, e)) = Times(x, Times(v, e))
      <4>1. Times(Times(v, x), e) = Times(v, Times(x, e)) /\ Times(Times(x, v), e) = Times(x, Times(v, e))
              /\ Times(v, x) = Times(x, v)
        BY <3>1, TimesLaws
      <4> QED
        BY <4>1
    <3> QED
      BY <3>2, <3>3, <3>4, <3>5
  <2>12. Total(alls) = Plus(Total(ones), Times(x, Total(rests)))
    <3> DEFINE xs == [d \in D |-> Times(x, rests[d])]
    <3>1. xs \in [D -> Scalar]
      BY <2>11
    <3>2. alls = [d \in D |-> Plus(ones[d], xs[d])]
      BY <2>11
    <3>3. Total(xs) = Times(x, Total(rests))
      <4> HIDE DEF rests
      <4> QED
        BY <2>10, TotalTimes
    <3> HIDE DEF alls, ones, xs
    <3> QED
      BY <2>10, <3>1, <3>2, <3>3, TotalPlus
  <2> HIDE DEF c, ones, rests
  <2> QED
    BY <2>6, <2>8, <2>9, <2>12 DEF c
<1> HIDE DEF A
<1>3. \A n \in Nat : n \in A
  BY <1>1, <1>2, NatSet
<1> QED
  BY <1>3 DEF A

-----------------------------------------------------------------------------
(* The inductive invariant.                                                 *)

(* Nobody deals before everyone is registered.                              *)
Barrier == channel # <<>> => BarrierOpen

Read(j) == 1..next[j] - 1

(* A new member's map has the last dealing it has read of each sender, and it
   has read no further than the message that makes the map full.           *)
ReadOf(j) ==
  /\ \A n \in Read(j) : channel[n].from \in DOMAIN received[j]
  /\ \A i \in DOMAIN received[j] : \E n \in Read(j) :
       /\ channel[n].from = i /\ received[j][i] = channel[n]
       /\ \A l \in Read(j) : l > n => channel[l].from # i
  /\ DOMAIN received[j] = Old =>
       next[j] > 1 /\ \A l \in 1..next[j] - 2 : channel[l].from # channel[next[j] - 1].from

ReadInv == \A j \in New : ReadOf(j)

(* Operators of Reshare with the state they look at as parameters.          *)
PadFor(p, i, k, msg) == DerivePad(IdentityKey("old", p, i), Exp(IdentityKey("new", p, k)), msg)

DecryptAt(p, j, m) ==
  Minus(m.ciphertexts[j].encrypted_share,
        DerivePad(IdentityKey("new", p, j), Exp(IdentityKey("old", p, m.from)), m.random_msg))

SecretShareAt(p, j, d) == LagrangeInterpolateAtZero([i \in DOMAIN d |-> DecryptAt(p, j, d[i])])

VerifiedAt(h, m) ==
  /\ m.from \in DOMAIN h => m.vss_commitment[1] = h[m.from].pk_share
  /\ \A k \in DOMAIN m.ciphertexts : Consistent(m, k)

RefusedAt(p, h, t, j, d) ==
  \/ \E i \in DOMAIN d : d[i].session # p
  \/ Cardinality(DOMAIN d) < t
  \/ \E i \in DOMAIN d : ~VerifiedAt(h, d[i])
  \/ \E i \in DOMAIN d : j \notin DOMAIN d[i].ciphertexts

LEMMA AtNow ==
  /\ \A j, m : Decrypt(j, m) = DecryptAt(phase, j, m)
  /\ \A j, d : SecretShare(j, d) = SecretShareAt(phase, j, d)
  /\ \A j, m : Verified(j, m) = VerifiedAt(holders, m)
  /\ \A j, d : Refused(j, d) = RefusedAt(phase, holders, TOld, j, d)
<1>1. \A j, m : Decrypt(j, m) = DecryptAt(phase, j, m)
  BY DEF Decrypt, DecryptAt
<1>2. \A j, m : Verified(j, m) = VerifiedAt(holders, m)
  BY DEF Verified, VerifiedAt
<1>3. \A j, d : SecretShare(j, d) = SecretShareAt(phase, j, d)
  BY <1>1 DEF SecretShare, SecretShareAt
<1>4. \A j, d : Refused(j, d) = RefusedAt(phase, holders, TOld, j, d)
  BY <1>2 DEF Refused, RefusedAt
<1> QED
  BY <1>1, <1>2, <1>3, <1>4

(* What a fault leaves of the dealing of polynomial c by i in phase p.      *)
Carries(p, kind, i, m, c) ==
  /\ m.from = i
  /\ m.vss_commitment = Commit(c)
  /\ m.random_msg \in 1..2 * P
  /\ \A k \in DOMAIN m.ciphertexts :
       LET z == m.ciphertexts[k].encrypted_share
           r == m.ciphertexts[k].r_commitment
           pad == PadFor(p, i, k, m.random_msg)
       IN  \/ r = Exp(pad) /\ z = Plus(pad, Evaluate(c, k))
           \/ r = Exp(pad) /\ z = Plus(Plus(pad, Evaluate(c, k)), 1)
           \/ kind = "Pad" /\ z \in Scalar

Coefficients(kind, t) == IF kind = "Degree" THEN t + 1 ELSE t

DealtInv ==
  \A i \in Old : \A n \in DOMAIN channel :
    channel[n].from = i =>
      \E c \in Polynomials(Coefficients(FaultNow(i), TNew)) : Carries(phase, FaultNow(i), i, channel[n], c)

(* How a new member came to its end.                                        *)
OutcomeOf(j) ==
  /\ newTask[j] = "ok" =>
       /\ DOMAIN received[j] = Old /\ ~RefusedAt(phase, holders, TOld, j, received[j])
       /\ \E first \in Old :
            output[j] = [public_key |-> original.pk,
                         public_key_shares |-> PublicKeyShares(first, received[j]),
                         secret_share |-> SecretShareAt(phase, j, received[j])]
  /\ newTask[j] = "failed" =>
       DOMAIN received[j] = Old /\ RefusedAt(phase, holders, TOld, j, received[j])

OutcomeInv == \A j \in New : OutcomeOf(j)

(* main has awaited only tasks that returned an output.                     *)
AwaitInv == \A j \in New : Committees[phase].n + j <= main.awaited => newTask[j] = "ok"

(* The holders' shares are those of the original secret.                    *)
HoldersInv ==
  ~Unnoticed => \E c \in Polynomials(TOld) :
    /\ c[1] = original.sk
    /\ \A i \in Old : holders[i].share = Evaluate(c, i) /\ holders[i].pk_share = Exp(Evaluate(c, i))

Shape ==
  /\ DOMAIN next = New /\ DOMAIN received = New /\ DOMAIN output = New
  /\ \E S : channel \in Seq(S)

Inv == /\ TypeOK /\ Shape /\ Barrier /\ ReadInv /\ DealtInv
       /\ OutcomeInv /\ AwaitInv /\ HoldersInv

-----------------------------------------------------------------------------
LEMMA Sizes ==
  ASSUME setup \in Setups, NEW p \in DOMAIN Committees
  PROVE  /\ Committees[p].n \in 1..P - 1 /\ Committees[p].t \in Nat \ {0} /\ Committees[p].t <= Committees[p].n
         /\ OldOf(p) \in SUBSET Scalar /\ OldOf(p) \subseteq 1..P - 1
         /\ IsFiniteSet(OldOf(p)) /\ Cardinality(OldOf(p)) = Committees[p].n
<1>1. /\ Committees[p] \in [n : 1..P - 1, t : 1..P - 1]
      /\ Committees[p].t <= Committees[p].n
  <2> DEFINE R == [n : 1..P - 1, t : 1..P - 1]
  <2>1. Committees \in Seq(R) /\ \A k \in DOMAIN Committees : Committees[k].t <= Committees[k].n
    BY ReshareAssumption DEF Committees
  <2> HIDE DEF R
  <2>2. Committees[p] \in R
    BY <2>1
  <2> QED
    BY <2>1, <2>2 DEF R
<1>2. Committees[p].n \in 1..P - 1 /\ Committees[p].t \in Nat \ {0} /\ P \in Nat
  BY <1>1, FieldAssumption
<1>3. OldOf(p) \in SUBSET Scalar /\ OldOf(p) \subseteq 1..P - 1
  BY <1>2 DEF OldOf, Scalar
<1>4. IsFiniteSet(OldOf(p)) /\ Cardinality(OldOf(p)) = Committees[p].n
  BY <1>2, FS_Interval DEF OldOf
<1> QED
  BY <1>1, <1>2, <1>3, <1>4

LEMMA CommitteeFacts ==
  ASSUME setup \in Setups, phase \in 1..Len(Committees) - 1
  PROVE  /\ phase \in DOMAIN Committees /\ phase + 1 \in DOMAIN Committees /\ Len(Committees) \in Nat
         /\ phase \in Nat /\ NewOf(phase) = OldOf(phase + 1)
         /\ Committees[phase].n \in 1..P - 1 /\ TOld \in Nat \ {0} /\ TOld <= Committees[phase].n
         /\ Old \in SUBSET Scalar /\ Old \subseteq 1..P - 1 /\ IsFiniteSet(Old)
         /\ Cardinality(Old) = Committees[phase].n
         /\ Committees[phase + 1].n \in 1..P - 1 /\ TNew \in Nat \ {0} /\ TNew <= Committees[phase + 1].n
         /\ New \in SUBSET Scalar /\ New \subseteq 1..P - 1 /\ IsFiniteSet(New)
         /\ Cardinality(New) = Committees[phase + 1].n
<1>1. Committees \in Seq([n : 1..P - 1, t : 1..P - 1])
  BY ReshareAssumption DEF Committees
<1>2. /\ phase \in DOMAIN Committees /\ phase + 1 \in DOMAIN Committees /\ Len(Committees) \in Nat
      /\ phase \in Nat
  BY <1>1
<1>3. NewOf(phase) = OldOf(phase + 1)
  BY DEF NewOf, OldOf
<1> QED
  BY <1>2, <1>3, Sizes DEF Old, New, TOld, TNew

(* Both ends of a pair derive the same pad (evrf::derive_pad).              *)
LEMMA PadAgrees ==
  ASSUME setup \in Setups, phase \in 1..Len(Committees) - 1, NEW i \in Old, NEW k \in New, NEW msg \in 1..2 * P
  PROVE  /\ PadFor(phase, i, k, msg) \in Scalar
         /\ PadFor(phase, i, k, msg) = DerivePad(IdentityKey("new", phase, k), Exp(IdentityKey("old", phase, i)), msg)
<1> DEFINE a == IdentityKey("old", phase, i)
           b == IdentityKey("new", phase, k)
<1>1. a \in Scalar /\ b \in Scalar /\ Gen \in Scalar
  <2>1. phase \in DOMAIN setup.committees /\ i \in 1..P - 1 /\ k \in 1..P - 1
    BY CommitteeFacts DEF Committees
  <2> QED
    BY <2>1, KeyAssumption, PTypes
<1> HIDE DEF a, b
<1>2. Times(a, Times(Gen, b)) = Times(b, Times(Gen, a))
  <2>1. Times(Times(a, Gen), b) = Times(a, Times(Gen, b)) /\ Times(a, Gen) \in Scalar
    BY <1>1, TimesLaws, RingTypes
  <2>2. Times(a, Gen) = Times(Gen, a) /\ Times(Times(a, Gen), b) = Times(b, Times(a, Gen))
    BY <1>1, <2>1, TimesLaws
  <2> QED
    BY <2>1, <2>2
<1>3. Times(a, Times(Gen, b)) \in Scalar
  BY <1>1, RingTypes
<1>4. PadHash(Times(a, Times(Gen, b)), msg) \in Scalar
  BY <1>3, KeyAssumption
<1> QED
  BY <1>2, <1>4 DEF PadFor, DerivePad, Exp, a, b

(* Adding what is not the identity changes a value.                         *)
LEMMA PlusChanges ==
  ASSUME NEW a \in Scalar, NEW b \in Scalar, b # 0
  PROVE  Plus(a, b) # a
<1>1. 0 \in Scalar /\ Plus(0, a) = a /\ Plus(a, b) = Plus(b, a)
  BY PTypes, PlusLaws
<1>2. Plus(b, a) = Plus(0, a) => b = 0
  BY <1>1, PlusCancels
<1> QED
  BY <1>1, <1>2

(* What a dealing decrypts to is a scalar, and the value of its polynomial if
   its ciphertext is consistent and no pad is false.                        *)
LEMMA Decrypted ==
  ASSUME setup \in Setups, phase \in 1..Len(Committees) - 1, NEW i \in Old, NEW c \in Seq(Scalar), NEW m,
         Carries(phase, FaultNow(i), i, m, c), NEW k \in DOMAIN m.ciphertexts, k \in New
  PROVE  /\ Decrypt(k, m) \in Scalar /\ m.from = i
         /\ FaultNow(i) # "Pad" /\ Consistent(m, k) => Decrypt(k, m) = Evaluate(c, k)
<1> DEFINE p == PadFor(phase, i, k, m.random_msg)
           e == Evaluate(c, k)
           z == m.ciphertexts[k].encrypted_share
           r == m.ciphertexts[k].r_commitment
<1>1. /\ m.from = i /\ m.vss_commitment = Commit(c) /\ m.random_msg \in 1..2 * P
      /\ \/ r = Exp(p) /\ z = Plus(p, e)
         \/ r = Exp(p) /\ z = Plus(Plus(p, e), 1)
         \/ FaultNow(i) = "Pad" /\ z \in Scalar
  BY DEF Carries
<1>2. k \in Scalar
  BY <1>1, CommitteeFacts
<1>3. p \in Scalar /\ Decrypt(k, m) = Minus(z, p)
  BY <1>1, PadAgrees DEF Decrypt
<1>4. e \in Scalar /\ ExpectedShareCommitment(m.vss_commitment, k) = Exp(e)
  BY <1>1, <1>2, EvaluateType, ShareCommitted
<1>5. Consistent(m, k) => Exp(z) = Plus(r, Exp(e))
  BY <1>4 DEF Consistent
<1> HIDE DEF p, e, z, r
<1>6. /\ Plus(p, e) \in Scalar /\ Plus(Plus(p, e), 1) \in Scalar /\ 1 \in Scalar /\ Gen \in Scalar \ {0}
      /\ Exp(p) \in Scalar /\ Exp(e) \in Scalar /\ Plus(Exp(p), Exp(e)) \in Scalar
  BY <1>3, <1>4, RingTypes, PTypes
<1>7. z \in Scalar
  BY <1>1, <1>6
<1>8. Decrypt(k, m) \in Scalar
  BY <1>3, <1>7, RingTypes
<1>9. ASSUME FaultNow(i) # "Pad", Consistent(m, k)
      PROVE  Decrypt(k, m) = e
  <2>1. z = Plus(p, e)
    <3> SUFFICES ASSUME r = Exp(p), z = Plus(Plus(p, e), 1) PROVE FALSE
      BY <1>1, <1>9
    <3>1. Exp(z) = Plus(Plus(Exp(p), Exp(e)), Gen)
      <4>1. Exp(Plus(Plus(p, e), 1)) = Plus(Exp(Plus(p, e)), Exp(1)) /\ Exp(Plus(p, e)) = Plus(Exp(p), Exp(e))
        BY <1>3, <1>4, <1>6, ExpLaws
      <4>2. Exp(1) = Gen
        BY <1>6, TimesLaws DEF Exp
      <4> QED
        BY <4>1, <4>2
    <3>2. Exp(z) = Plus(Exp(p), Exp(e))
      BY <1>5, <1>9
    <3> QED
      BY <1>6, <3>1, <3>2, PlusChanges
  <2>2. Plus(p, e) = Plus(e, p) /\ Minus(Plus(e, p), p) = e
    BY <1>3, <1>4, PlusLaws, MinusLaws
  <2> QED
    BY <1>3, <2>1, <2>2
<1> QED
  BY <1>1, <1>8, <1>9 DEF e

(* Two members whose maps are full have the same dealings in them.          *)
LEMMA SameDealings ==
  ASSUME Inv, NEW j \in New, NEW k \in New, DOMAIN received[j] = Old, DOMAIN received[k] = Old
  PROVE  \A i \in Old : received[j][i] = received[k][i]
<1>0. next[j] \in Nat /\ next[k] \in Nat
  BY DEF Inv, TypeOK
<1>1. ASSUME NEW a \in New, NEW b \in New, DOMAIN received[a] = Old, DOMAIN received[b] = Old,
             next[a] \in Nat, next[b] \in Nat, next[a] < next[b]
      PROVE  FALSE
  <2> DEFINE x == channel[next[b] - 1].from
  <2>1. next[b] > 1 /\ \A l \in 1..next[b] - 2 : channel[l].from # x
    BY <1>1 DEF Inv, ReadInv, ReadOf
  <2>2. next[b] - 1 \in Read(b)
    BY <1>1, <2>1 DEF Read
  <2>3. x \in DOMAIN received[b]
    BY <2>2 DEF Inv, ReadInv, ReadOf
  <2>4. x \in DOMAIN received[a]
    BY <1>1, <2>3
  <2>5. PICK n \in Read(a) : channel[n].from = x
    BY <2>4 DEF Inv, ReadInv, ReadOf
  <2>6. n \in 1..next[b] - 2
    BY <1>1, <2>5 DEF Read
  <2> QED
    BY <2>1, <2>5, <2>6
<1>2. next[j] = next[k]
  <2>1. ~(next[j] < next[k]) /\ ~(next[k] < next[j])
    BY <1>0, <1>1
  <2> QED
    BY <1>0, <2>1
<1>3. ASSUME NEW i \in Old
      PROVE  received[j][i] = received[k][i]
  <2>1. PICK a \in Read(j) : /\ channel[a].from = i /\ received[j][i] = channel[a]
                             /\ \A l \in Read(j) : l > a => channel[l].from # i
    BY DEF Inv, ReadInv, ReadOf
  <2>2. PICK b \in Read(k) : /\ channel[b].from = i /\ received[k][i] = channel[b]
                             /\ \A l \in Read(k) : l > b => channel[l].from # i
    BY DEF Inv, ReadInv, ReadOf
  <2>3. a = b
    <3>1. Read(j) = Read(k) /\ a \in Int /\ b \in Int
      BY <1>0, <1>2 DEF Read
    <3>2. ~(a > b) /\ ~(b > a)
      BY <2>1, <2>2, <3>1
    <3> QED
      BY <3>1, <3>2
  <2> QED
    BY <2>1, <2>2, <2>3
<1> QED
  BY <1>3

-----------------------------------------------------------------------------
(* What the members that complete compute.                                  *)

LEMMA Dealt ==
  ASSUME Inv, NEW j \in New, NEW i \in DOMAIN received[j]
  PROVE  /\ i \in Old /\ \E n \in DOMAIN channel : received[j][i] = channel[n] /\ channel[n].from = i
         /\ DOMAIN received[j][i].ciphertexts \subseteq New
         /\ \E c \in Polynomials(Coefficients(FaultNow(i), TNew)) :
              Carries(phase, FaultNow(i), i, received[j][i], c)
<1>1. i \in Old /\ next[j] \in 1..Len(channel) + 1
  BY DEF Inv, TypeOK
<1>2. PICK n \in Read(j) : channel[n].from = i /\ received[j][i] = channel[n]
  BY DEF Inv, ReadInv, ReadOf
<1>3. n \in DOMAIN channel
  <2>1. PICK S : channel \in Seq(S)
    BY DEF Inv, Shape
  <2> QED
    BY <1>1, <2>1 DEF Read
<1> QED
  BY <1>1, <1>2, <1>3 DEF Inv, DealtInv, TypeOK

(* The polynomials behind the dealings they have completed from.            *)
Behind(C) ==
  \A j \in Completed : \A i \in Old :
    received[j][i].vss_commitment = Commit(C[i]) /\ Decrypt(j, received[j][i]) = Evaluate(C[i], j)

LEMMA InRange ==
  Inv => setup \in Setups /\ phase \in 1..Len(Committees) - 1
BY DEF Inv, TypeOK

LEMMA Accepted ==
  ASSUME Inv, NEW j \in Completed
  PROVE  /\ j \in New /\ DOMAIN received[j] = Old
         /\ \A i \in Old : /\ received[j][i].session = phase
                           /\ Verified(j, received[j][i])
                           /\ j \in DOMAIN received[j][i].ciphertexts
         /\ \E first \in Old :
              output[j] = [public_key |-> original.pk,
                           public_key_shares |-> PublicKeyShares(first, received[j]),
                           secret_share |-> SecretShare(j, received[j])]
BY AtNow DEF Inv, OutcomeInv, OutcomeOf, Refused, Completed

LEMMA PolynomialsBehind ==
  ASSUME Inv, fault.kind # "Pad"
  PROVE  \E C : Behind(C) /\ \A i \in Old : C[i] \in Seq(Scalar) /\ (Completed # {} => C[i] \in Polynomials(Coefficients(FaultNow(i), TNew)))
<1>1. CASE Completed = {}
  <2> DEFINE C == [i \in Old |-> <<>>]
  <2>1. \A i \in Old : C[i] \in Seq(Scalar)
    OBVIOUS
  <2>2. Behind(C)
    BY <1>1 DEF Behind
  <2> QED
    BY <1>1, <2>1, <2>2
<1>2. CASE Completed # {}
  <2>1. PICK j \in Completed : TRUE
    BY <1>2
  <2>2. j \in New /\ DOMAIN received[j] = Old
    BY Accepted
  <2> DEFINE Is(i, c) == Carries(phase, FaultNow(i), i, received[j][i], c)
             C == [i \in Old |-> CHOOSE c \in Polynomials(Coefficients(FaultNow(i), TNew)) : Is(i, c)]
  <2>3. \A i \in Old : \E c \in Polynomials(Coefficients(FaultNow(i), TNew)) : Is(i, c)
    BY <2>2, Dealt
  <2>4. \A i \in Old : C[i] \in Polynomials(Coefficients(FaultNow(i), TNew)) /\ Is(i, C[i])
    <3> HIDE DEF Is
    <3> QED
      BY <2>3
  <2> HIDE DEF C
  <2>5. \A i \in Old : C[i] \in Seq(Scalar)
    BY <2>4 DEF Polynomials
  <2>6. ASSUME NEW k \in Completed, NEW i \in Old
        PROVE  received[k][i].vss_commitment = Commit(C[i]) /\ Decrypt(k, received[k][i]) = Evaluate(C[i], k)
    <3>1. k \in New /\ DOMAIN received[k] = Old /\ k \in DOMAIN received[k][i].ciphertexts
            /\ Consistent(received[k][i], k)
      BY Accepted DEF Verified
    <3>2. received[k][i] = received[j][i]
      BY <2>2, <3>1, SameDealings
    <3>3. PICK m : m = received[k][i]
      OBVIOUS
    <3>4. Carries(phase, FaultNow(i), i, m, C[i]) /\ k \in DOMAIN m.ciphertexts /\ Consistent(m, k) /\ C[i] \in Seq(Scalar)
      BY <2>4, <2>5, <3>1, <3>2, <3>3
    <3>5. FaultNow(i) # "Pad"
      BY DEF FaultNow
    <3>6. Decrypt(k, m) = Evaluate(C[i], k)
      BY <3>1, <3>4, <3>5, InRange, Decrypted
    <3> QED
      BY <3>3, <3>4, <3>6 DEF Carries
  <2> QED
    BY <2>4, <2>5, <2>6 DEF Behind
<1> QED
  BY <1>1, <1>2

LEMMA Shares ==
  ASSUME Inv, NEW C, Behind(C), \A i \in Old : C[i] \in Seq(Scalar), NEW j \in Completed
  PROVE  /\ output[j].secret_share = At0(Old, [i \in Old |-> Evaluate(C[i], j)])
         /\ \A k \in DOMAIN output[j].public_key_shares :
              k \in New => output[j].public_key_shares[k] = Exp(At0(Old, [i \in Old |-> Evaluate(C[i], k)]))
<1>1. /\ j \in New /\ DOMAIN received[j] = Old
      /\ \E first \in Old :
           output[j] = [public_key |-> original.pk,
                        public_key_shares |-> PublicKeyShares(first, received[j]),
                        secret_share |-> SecretShare(j, received[j])]
  BY Accepted
<1>2. PICK first \in Old :
        /\ output[j].public_key_shares = PublicKeyShares(first, received[j])
        /\ output[j].secret_share = SecretShare(j, received[j])
  BY <1>1
<1>3. \A i \in Old : received[j][i].vss_commitment = Commit(C[i]) /\ Decrypt(j, received[j][i]) = Evaluate(C[i], j)
  BY DEF Behind
<1>4. ASSUME NEW f, DOMAIN f = Old
      PROVE  LagrangeInterpolateAtZero(f) = At0(Old, f)
  BY <1>4 DEF LagrangeInterpolateAtZero, At0
<1>5. SecretShare(j, received[j]) = At0(Old, [i \in Old |-> Evaluate(C[i], j)])
  <2> DEFINE f == [i \in DOMAIN received[j] |-> Decrypt(j, received[j][i])]
  <2>1. f = [i \in Old |-> Evaluate(C[i], j)]
    BY <1>1, <1>3
  <2>2. DOMAIN f = Old
    BY <1>1
  <2>3. SecretShare(j, received[j]) = LagrangeInterpolateAtZero(f)
    BY DEF SecretShare
  <2> HIDE DEF f
  <2> QED
    BY <1>4, <2>1, <2>2, <2>3
<1>6. ASSUME NEW k \in DOMAIN output[j].public_key_shares, k \in New
      PROVE  output[j].public_key_shares[k] = Exp(At0(Old, [i \in Old |-> Evaluate(C[i], k)]))
  <2> DEFINE f == [i \in DOMAIN received[j] |-> ExpectedShareCommitment(received[j][i].vss_commitment, k)]
             g == [i \in Old |-> Evaluate(C[i], k)]
  <2>1. output[j].public_key_shares[k] = LagrangeInterpolateAtZero(f)
    BY <1>2 DEF PublicKeyShares
  <2>2. k \in Scalar /\ Old \in SUBSET Scalar /\ IsFiniteSet(Old)
    BY <1>6, InRange, CommitteeFacts
  <2>3. g \in [Old -> Scalar]
    BY <2>2, EvaluateType
  <2>4. \A i \in Old : ExpectedShareCommitment(received[j][i].vss_commitment, k) = Times(Gen, g[i])
    <3>1. \A i \in Old : ExpectedShareCommitment(Commit(C[i]), k) = Exp(Evaluate(C[i], k))
      BY <2>2, ShareCommitted
    <3> QED
      BY <1>3, <3>1 DEF Exp
  <2>5. f = [i \in Old |-> Times(Gen, g[i])]
    BY <1>1, <2>4
  <2>6. DOMAIN f = Old
    BY <1>1
  <2> HIDE DEF f, g
  <2>7. At0(Old, [i \in Old |-> Times(Gen, g[i])]) = Times(Gen, At0(Old, g))
    BY <2>2, <2>3, PTypes, At0Times
  <2>8. LagrangeInterpolateAtZero(f) = Exp(At0(Old, g))
    BY <1>4, <2>5, <2>6, <2>7 DEF Exp
  <2> QED
    BY <2>1, <2>8 DEF g
<1> QED
  BY <1>2, <1>5, <1>6

LEMMA OpensFromInvariant == Inv => SharesOpenKeyShares
<1> SUFFICES ASSUME Inv, fault.kind # "Pad", NEW j \in Completed, NEW k \in Completed,
                    j \in DOMAIN output[k].public_key_shares
             PROVE  output[k].public_key_shares[j] = Exp(output[j].secret_share)
  BY DEF SharesOpenKeyShares
<1>1. PICK C : Behind(C) /\ \A i \in Old : C[i] \in Seq(Scalar)
  BY PolynomialsBehind
<1>2. j \in New
  BY DEF Completed
<1>3. output[j].secret_share = At0(Old, [i \in Old |-> Evaluate(C[i], j)])
  BY <1>1, Shares
<1>4. output[k].public_key_shares[j] = Exp(At0(Old, [i \in Old |-> Evaluate(C[i], j)]))
  BY <1>1, <1>2, Shares
<1> QED
  BY <1>3, <1>4

(* The new shares are the values of one polynomial with the original secret. *)
LEMMA NewPolynomial ==
  ASSUME Inv, ~Unnoticed
  PROVE  \E G \in Polynomials(TNew) :
           G[1] = original.sk /\ \A j \in Completed : output[j].secret_share = Evaluate(G, j)
<1>0. /\ Old \in SUBSET Scalar /\ IsFiniteSet(Old) /\ TNew \in Nat \ {0} /\ TOld \in Nat
      /\ New \in SUBSET Scalar /\ TOld <= Cardinality(Old)
      /\ original.sk \in Scalar
  <2>1. original.sk \in Scalar
    BY DEF Inv, TypeOK
  <2> QED
    BY <2>1, InRange, CommitteeFacts
<1>1. CASE Completed = {}
  <2> DEFINE G == [k \in 1..TNew |-> original.sk]
  <2>1. G \in Polynomials(TNew) /\ G[1] = original.sk
    BY <1>0 DEF Polynomials
  <2> QED
    BY <1>1, <2>1
<1>2. CASE Completed # {}
  <2>1. PICK C0 : Behind(C0) /\ \A i \in Old : C0[i] \in Seq(Scalar) /\ C0[i] \in Polynomials(Coefficients(FaultNow(i), TNew))
    BY <1>2, PolynomialsBehind DEF Unnoticed
  <2> DEFINE C == [i \in Old |-> C0[i]]
  <2>2. C \in [Old -> Polynomials(TNew)]
    <3>1. \A i \in Old : Coefficients(FaultNow(i), TNew) = TNew
      BY DEF Coefficients, FaultNow, Unnoticed
    <3> QED
      BY <2>1, <3>1
  <2>3. Behind(C) /\ \A i \in Old : C[i] \in Seq(Scalar) /\ 1 \in 1..Len(C[i]) /\ C[i][1] \in Scalar
    <3>1. Behind(C)
      BY <2>1 DEF Behind
    <3>2. \A i \in Old : C[i] \in Seq(Scalar) /\ Len(C[i]) = TNew
      BY <2>2 DEF Polynomials
    <3> HIDE DEF C
    <3>3. \A i \in Old : 1 \in 1..Len(C[i])
      BY <1>0, <3>2
    <3> QED
      BY <3>1, <3>2, <3>3
  <2> HIDE DEF C
  <2> DEFINE w == [i \in Old |-> LagrangeCoeff(i, Old)]
             G == Combined(Old, w, C, TNew)
  <2>4. w \in [Old -> Scalar] /\ \A i \in Old : w[i] \in Scalar /\ w[i] = LagrangeCoeff(i, Old)
    BY <1>0, CoeffRemove
  <2> HIDE DEF w
  <2>5. G \in Polynomials(TNew)
    BY <1>0, <2>2, <2>4, CombinedType
  <2>6. ASSUME NEW f \in [Old -> Scalar]
        PROVE  Total([i \in Old |-> Times(w[i], f[i])]) = At0(Old, f)
    <3>1. \A i \in Old : Times(w[i], f[i]) = Times(f[i], LagrangeCoeff(i, Old))
      BY <2>4, TimesLaws
    <3>2. [i \in Old |-> Times(w[i], f[i])] = [i \in Old |-> Times(f[i], LagrangeCoeff(i, Old))]
      BY <3>1
    <3> QED
      BY <3>2 DEF At0
  <2>7. ASSUME NEW j \in Completed
        PROVE  output[j].secret_share = Evaluate(G, j)
    <3> DEFINE f == [i \in Old |-> Evaluate(C[i], j)]
    <3>1. j \in Scalar
      BY <1>0 DEF Completed
    <3>2. Evaluate(G, j) = Total([i \in Old |-> Times(w[i], Evaluate(C[i], j))])
      BY <1>0, <2>2, <2>4, <3>1, CombinedEvaluate
    <3>3. f \in [Old -> Scalar]
      BY <2>3, <3>1, EvaluateType
    <3>4. [i \in Old |-> Times(w[i], Evaluate(C[i], j))] = [i \in Old |-> Times(w[i], f[i])]
      OBVIOUS
    <3>5. output[j].secret_share = At0(Old, f)
      BY <2>3, Shares
    <3> HIDE DEF f
    <3> QED
      BY <2>6, <3>2, <3>3, <3>4, <3>5
  <2>8. PICK h \in Polynomials(TOld) :
          /\ h[1] = original.sk
          /\ \A i \in Old : holders[i].share = Evaluate(h, i) /\ holders[i].pk_share = Exp(Evaluate(h, i))
    BY DEF Inv, HoldersInv
  <2>9. \A i \in Old : C[i][1] = Evaluate(h, i)
    <3> SUFFICES ASSUME NEW i \in Old PROVE C[i][1] = Evaluate(h, i)
      OBVIOUS
    <3>1. PICK j \in Completed : TRUE
      BY <1>2
    <3>2. received[j][i].vss_commitment[1] = holders[i].pk_share
      <4>1. received[j][i].from = i
        <5>1. j \in New /\ i \in DOMAIN received[j]
          BY Accepted
        <5> QED
          BY <5>1, Dealt
      <4>2. i \in DOMAIN holders
        BY DEF Inv, TypeOK
      <4> QED
        BY <4>1, <4>2, Accepted DEF Verified
    <3>3. received[j][i].vss_commitment = Commit(C[i])
      BY <2>3 DEF Behind
    <3>4. Commit(C[i])[1] = Exp(C[i][1])
      BY <2>3, CommitType
    <3>5. Evaluate(h, i) \in Scalar /\ C[i][1] \in Scalar
      BY <1>0, <2>3, EvaluateType DEF Polynomials
    <3> QED
      BY <2>8, <3>2, <3>3, <3>4, <3>5, ExpInjective
  <2>10. G[1] = original.sk
    <3> DEFINE f == [i \in Old |-> Evaluate(h, i)]
    <3>1. f \in [Old -> Scalar]
      BY <1>0, EvaluateType DEF Polynomials
    <3>2. G[1] = Total([i \in Old |-> Times(w[i], C[i][1])])
      BY <1>0 DEF Combined
    <3>3. [i \in Old |-> Times(w[i], C[i][1])] = [i \in Old |-> Times(w[i], f[i])]
      BY <2>9
    <3>4. At0(Old, f) = h[1]
      <4>1. h \in Seq(Scalar) /\ Len(h) = TOld /\ TOld > 0
        BY InRange, CommitteeFacts DEF Polynomials
      <4>2. At0(Old, [i \in Old |-> Evaluate(h, i)]) = Constant(h)
        BY <1>0, <4>1, At0Evaluate
      <4>3. Constant(h) = h[1]
        BY <4>1 DEF Constant
      <4> QED
        BY <4>2, <4>3
    <3> HIDE DEF f, G
    <3> QED
      BY <2>6, <2>8, <3>1, <3>2, <3>3, <3>4
  <2> QED
    BY <2>5, <2>7, <2>10
<1> QED
  BY <1>1, <1>2

LEMMA SurvivesFromInvariant == Inv => KeySurvives
<1> SUFFICES ASSUME Inv, ~Unnoticed, NEW S \in kSubset(TNew, Completed)
             PROVE  LagrangeInterpolateAtZero([j \in S |-> output[j].secret_share]) = original.sk
  BY DEF KeySurvives
<1>1. S \in SUBSET Completed /\ Cardinality(S) = TNew
  BY DEF kSubset
<1>2. TNew \in Nat \ {0} /\ New \in SUBSET Scalar /\ IsFiniteSet(New)
  BY InRange, CommitteeFacts
<1>3. S \in SUBSET Scalar /\ IsFiniteSet(S)
  BY <1>1, <1>2, FS_Subset DEF Completed
<1>4. PICK G \in Polynomials(TNew) :
        G[1] = original.sk /\ \A j \in Completed : output[j].secret_share = Evaluate(G, j)
  BY NewPolynomial
<1>5. [j \in S |-> output[j].secret_share] = [j \in S |-> Evaluate(G, j)]
  BY <1>1, <1>4
<1>6. G \in Seq(Scalar) /\ Len(G) \in 1..Cardinality(S)
  BY <1>1, <1>2 DEF Polynomials
<1>7. LagrangeInterpolateAtZero([j \in S |-> Evaluate(G, j)]) = G[1]
  BY <1>3, <1>6, SharesReconstruct
<1> QED
  BY <1>4, <1>5, <1>7

(* Members that finish judge the same dealings.                             *)
LEMMA SoundFromInvariant == Inv => CompletionSound
<1> SUFFICES ASSUME Inv PROVE CompletionUnanimous /\ CompletedFromVerified
  BY DEF CompletionSound, Inv
<1>1. CompletedFromVerified
  BY Accepted DEF CompletedFromVerified, VerifyDealing, Verified
<1>2. CompletionUnanimous
  <2> SUFFICES ASSUME \A n \in DOMAIN channel : DOMAIN channel[n].ciphertexts = New,
                      NEW j \in New, NEW k \in New, newTask[j] = "ok", newTask[k] = "failed"
               PROVE  FALSE
    BY DEF CompletionUnanimous
  <2>1. /\ DOMAIN received[j] = Old /\ DOMAIN received[k] = Old
        /\ ~Refused(j, received[j]) /\ Refused(k, received[k])
    BY AtNow DEF Inv, OutcomeInv, OutcomeOf
  <2>2. \A i \in Old : received[j][i] = received[k][i]
    BY <2>1, SameDealings
  <2>3. \A i \in Old : k \in DOMAIN received[k][i].ciphertexts
    BY <2>1, Dealt
  <2> QED
    BY <2>1, <2>2, <2>3 DEF Refused, Verified
<1> QED
  BY <1>1, <1>2

-----------------------------------------------------------------------------
(* A phase begins: nothing is dealt.                                        *)
Fresh ==
  /\ setup \in Setups
  /\ phase \in 1..Len(Committees) - 1
  /\ original \in [pk : Group, sk : Scalar]
  /\ holders \in [Old -> [share : Scalar, pk_share : Group]]
  /\ oldTask = [i \in Old |-> "start"]
  /\ newTask = [j \in New |-> "start"]
  /\ channel = <<>>
  /\ next = [j \in New |-> 1]
  /\ received = [j \in New |-> <<>>]
  /\ output = [j \in New |-> NoOutput]
  /\ main = [awaited |-> 0, state |-> "waiting"]

LEMMA FreshInv == Fresh => TypeOK /\ Shape /\ Barrier /\ ReadInv /\ DealtInv /\ OutcomeInv /\ AwaitInv
<1> SUFFICES ASSUME Fresh
             PROVE  TypeOK /\ Shape /\ Barrier /\ ReadInv /\ DealtInv /\ OutcomeInv /\ AwaitInv
  OBVIOUS
<1>1. /\ Committees[phase].n \in Nat \ {0} /\ Committees[phase + 1].n \in Nat \ {0}
      /\ 1 \in Old /\ New \subseteq Nat \ {0} /\ Handles \in Nat
  <2>1. /\ Committees[phase].n \in 1..P - 1 /\ Committees[phase + 1].n \in 1..P - 1
        /\ New \subseteq 1..P - 1 /\ P \in Nat
    BY CommitteeFacts, FieldAssumption DEF Fresh
  <2> QED
    BY <2>1 DEF Old, OldOf, Handles
<1>2. channel \in Seq({}) /\ DOMAIN channel = {} /\ Len(channel) = 0
  BY DEF Fresh
<1>3. \A j \in New : /\ next[j] = 1 /\ DOMAIN received[j] = {}
                     /\ output[j] = NoOutput /\ newTask[j] = "start"
  BY DEF Fresh
<1>4. NoOutput.secret_share \in Scalar /\ DOMAIN NoOutput.public_key_shares = {}
  BY PTypes DEF NoOutput
<1>5. TypeOK
  <2>1. oldTask \in [Old -> {"start", "registered", "done"}] /\ newTask \in [New -> {"start", "registered", "ok", "failed"}]
    BY DEF Fresh
  <2>2. main \in [awaited : 0..Handles, state : {"waiting", "panicked", "done"}]
    BY <1>1 DEF Fresh
  <2>3. \A j \in New : next[j] \in 1..Len(channel) + 1
    BY <1>2, <1>3
  <2> QED
    BY <1>2, <1>3, <1>4, <2>1, <2>2, <2>3 DEF TypeOK, Fresh
<1>6. Shape
  BY <1>2 DEF Shape, Fresh
<1>7. ReadInv
  BY <1>1, <1>3 DEF ReadInv, ReadOf, Read
<1>8. Barrier /\ DealtInv
  BY <1>2 DEF Barrier, DealtInv, Fresh
<1>9. OutcomeInv
  BY <1>3 DEF OutcomeInv, OutcomeOf
<1>10. AwaitInv
  <2>1. main.awaited = 0
    BY DEF Fresh
  <2> QED
    BY <1>1, <2>1 DEF AwaitInv
<1> QED
  BY <1>5, <1>6, <1>7, <1>8, <1>9, <1>10

LEMMA FreshInvNext == Fresh' => TypeOK' /\ Shape' /\ Barrier' /\ ReadInv' /\ DealtInv' /\ OutcomeInv' /\ AwaitInv'
BY FreshInv, PTL

LEMMA InitInv == Init => Inv
<1> SUFFICES ASSUME Init PROVE Inv
  OBVIOUS
<1>0. setup \in Setups /\ Len(Committees) > 1 /\ Draws \subseteq Scalar /\ phase = 1
  BY ReshareAssumption DEF Init, Committees, Draws
<1>1. phase \in 1..Len(Committees) - 1
  <2>1. Len(Committees) \in Nat
    BY <1>0, ReshareAssumption DEF Committees
  <2> QED
    BY <1>0, <2>1
<1>2a. PICK omega \in Draws : \E c \in NewRandom(omega, TOld - 1, Draws) :
        /\ original = [pk |-> Exp(omega), sk |-> omega]
        /\ holders = [i \in Old |-> [share |-> Evaluate(c, i), pk_share |-> Exp(Evaluate(c, i))]]
  BY DEF Init
<1>2. PICK c \in NewRandom(omega, TOld - 1, Draws) :
        /\ original = [pk |-> Exp(omega), sk |-> omega]
        /\ holders = [i \in Old |-> [share |-> Evaluate(c, i), pk_share |-> Exp(Evaluate(c, i))]]
  BY <1>2a
<1>3. TOld \in Nat \ {0} /\ TOld - 1 \in Nat /\ (TOld - 1) + 1 = TOld /\ Old \in SUBSET Scalar
  BY <1>0, <1>1, CommitteeFacts
<1>4. c \in Polynomials(TOld) /\ c \in Seq(Scalar) /\ c[1] = omega
  <2>1. c \in Polynomials((TOld - 1) + 1) /\ c \in Seq(Scalar) /\ c[1] = omega
    BY <1>0, <1>2, <1>3, NewRandomType
  <2> QED
    BY <1>3, <2>1
<1>5. \A i \in Old : Evaluate(c, i) \in Scalar /\ Exp(Evaluate(c, i)) \in Group
  BY <1>3, <1>4, EvaluateType, RingTypes DEF Group, Scalar
<1>6. HoldersInv
  BY <1>2, <1>4 DEF HoldersInv
<1>7. Fresh
  <2>1. holders \in [Old -> [share : Scalar, pk_share : Group]]
    BY <1>2, <1>5
  <2>2. original \in [pk : Group, sk : Scalar]
    <3>1. omega \in Scalar /\ Exp(omega) \in Group
      BY <1>0, RingTypes DEF Group, Scalar
    <3> QED
      BY <1>2, <3>1
  <2> QED
    BY <1>0, <1>1, <2>1, <2>2 DEF Init, Fresh
<1> QED
  BY <1>6, <1>7, FreshInv DEF Inv

-----------------------------------------------------------------------------
(* The steps within a phase.                                                *)

LEMMA SamePhase ==
  ASSUME Inv, UNCHANGED <<setup, phase, original, holders, fault>>
  PROVE  /\ Old' = Old /\ New' = New /\ TOld' = TOld /\ TNew' = TNew
         /\ Committees' = Committees /\ Handles' = Handles
         /\ \A i : FaultNow(i)' = FaultNow(i)
         /\ setup' \in Setups /\ phase' \in 1..Len(Committees') - 1
         /\ original' \in [pk : Group, sk : Scalar]
         /\ holders' \in [Old' -> [share : Scalar, pk_share : Group]]
         /\ HoldersInv'
<1>1. /\ Old' = Old /\ New' = New /\ TOld' = TOld /\ TNew' = TNew
      /\ Committees' = Committees /\ Handles' = Handles
  BY DEF Old, New, OldOf, NewOf, TOld, TNew, Committees, Handles
<1>2. \A i : FaultNow(i)' = FaultNow(i)
  BY DEF FaultNow, Faulty
<1>3. HoldersInv'
  BY <1>1 DEF Inv, HoldersInv, Unnoticed
<1>4. /\ setup' \in Setups /\ phase' \in 1..Len(Committees') - 1
      /\ original' \in [pk : Group, sk : Scalar]
      /\ holders' \in [Old' -> [share : Scalar, pk_share : Group]]
  BY <1>1 DEF Inv, TypeOK
<1> QED
  BY <1>1, <1>2, <1>3, <1>4

LEMMA SameDealt ==
  ASSUME Inv, UNCHANGED <<setup, phase, original, holders, fault, channel>>
  PROVE  DealtInv' /\ \A n \in DOMAIN channel' : channel'[n].from \in Old' /\ DOMAIN channel'[n].ciphertexts \subseteq New'
<1>1. DealtInv'
  BY SamePhase DEF Inv, DealtInv
<1>2. \A n \in DOMAIN channel' : channel'[n].from \in Old' /\ DOMAIN channel'[n].ciphertexts \subseteq New'
  BY SamePhase DEF Inv, TypeOK
<1> QED
  BY <1>1, <1>2

(* A member whose reading stays where it is, in a channel that grows.       *)
LEMMA SameReading ==
  ASSUME Inv, NEW j \in New, UNCHANGED <<setup, phase, original, holders, fault>>,
         next'[j] = next[j], received'[j] = received[j],
         \A n \in DOMAIN channel : channel'[n] = channel[n]
  PROVE  ReadOf(j)'
<1>1. next[j] \in 1..Len(channel) + 1 /\ DOMAIN channel = 1..Len(channel) /\ Len(channel) \in Nat
  <2>1. PICK S : channel \in Seq(S)
    BY DEF Inv, Shape
  <2> QED
    BY <2>1 DEF Inv, TypeOK
<1>2. Read(j)' = Read(j) /\ \A n \in Read(j) : channel'[n] = channel[n]
  BY <1>1 DEF Read
<1>3. next[j] > 1 => /\ channel'[next[j] - 1] = channel[next[j] - 1]
                     /\ \A l \in 1..next[j] - 2 : channel'[l] = channel[l]
  BY <1>1
<1>4. ReadOf(j)
  BY DEF Inv, ReadInv
<1>5. \A n \in Read(j)' : channel'[n].from \in DOMAIN received'[j]
  BY <1>2, <1>4 DEF ReadOf
<1>6. ASSUME NEW i \in DOMAIN received'[j]
      PROVE  \E n \in Read(j)' : /\ channel'[n].from = i /\ received'[j][i] = channel'[n]
                                 /\ \A l \in Read(j)' : l > n => channel'[l].from # i
  <2>1. PICK n \in Read(j) : /\ channel[n].from = i /\ received[j][i] = channel[n]
                             /\ \A l \in Read(j) : l > n => channel[l].from # i
    BY <1>4 DEF ReadOf
  <2> QED
    BY <1>2, <2>1
<1>7. DOMAIN received'[j] = Old' =>
        next'[j] > 1 /\ \A l \in 1..next'[j] - 2 : channel'[l].from # channel'[next'[j] - 1].from
  <2>1. DOMAIN received'[j] = Old' => DOMAIN received[j] = Old
    BY SamePhase
  <2> QED
    BY <1>3, <1>4, <2>1 DEF ReadOf
<1> QED
  BY <1>5, <1>6, <1>7 DEF ReadOf

(* A member whose task, map and output stay.                                *)
LEMMA SameOutcome ==
  ASSUME Inv, NEW j \in New, UNCHANGED <<setup, phase, original, holders, fault>>,
         newTask'[j] = newTask[j], received'[j] = received[j], output'[j] = output[j]
  PROVE  OutcomeOf(j)'
<1>1. OutcomeOf(j)
  BY DEF Inv, OutcomeInv
<1>2. Old' = Old /\ TOld' = TOld
  BY SamePhase
<1> QED
  BY <1>1, <1>2 DEF OutcomeOf

(* Each action of a member leaves the rest of the invariant to its own part.*)
LEMMA RegisterOldInv ==
  ASSUME Inv, NEW i \in Old, RegisterOld(i)
  PROVE  Inv'
<1>1. /\ oldTask[i] = "start" /\ oldTask' = [oldTask EXCEPT ![i] = "registered"]
      /\ UNCHANGED <<setup, phase, original, holders, fault, newTask, channel, next, received, output, main>>
  BY DEF RegisterOld
<1>2. Barrier'
  <2>1. channel = <<>>
    BY <1>1 DEF Inv, Barrier, BarrierOpen
  <2> QED
    BY <1>1, <2>1 DEF Barrier
<1>3. TypeOK'
  <2>1. oldTask' \in [Old -> {"start", "registered", "done"}]
    BY <1>1 DEF Inv, TypeOK
  <2> QED
    BY <1>1, <2>1, SamePhase, SameDealt DEF Inv, TypeOK
<1>4. Shape' /\ AwaitInv'
  BY <1>1, SamePhase DEF Inv, Shape, AwaitInv
<1>5. ReadInv' /\ OutcomeInv'
  BY <1>1, SamePhase, SameReading, SameOutcome DEF ReadInv, OutcomeInv
<1> QED
  BY <1>1, <1>2, <1>3, <1>4, <1>5, SamePhase, SameDealt DEF Inv

LEMMA VanishInv ==
  ASSUME Inv, NEW i \in Old, Vanish(i)
  PROVE  Inv'
<1>1. /\ oldTask[i] = "registered" /\ oldTask' = [oldTask EXCEPT ![i] = "done"]
      /\ UNCHANGED <<setup, phase, original, holders, fault, newTask, channel, next, received, output, main>>
  BY DEF Vanish
<1>2. oldTask' \in [Old -> {"start", "registered", "done"}] /\ \A k \in Old : oldTask'[k] = "start" => oldTask[k] = "start"
  BY <1>1 DEF Inv, TypeOK
<1>3. Barrier'
  BY <1>1, <1>2, SamePhase DEF Inv, Barrier, BarrierOpen
<1>4. TypeOK'
  BY <1>1, <1>2, SamePhase, SameDealt DEF Inv, TypeOK
<1>5. Shape' /\ AwaitInv'
  BY <1>1, SamePhase DEF Inv, Shape, AwaitInv
<1>6. ReadInv' /\ OutcomeInv'
  BY <1>1, SamePhase, SameReading, SameOutcome DEF ReadInv, OutcomeInv
<1> QED
  BY <1>1, <1>3, <1>4, <1>5, <1>6, SamePhase, SameDealt DEF Inv

(* Nothing is dealt when a new member registers: it reads from the beginning.*)
LEMMA RegisterNewInv ==
  ASSUME Inv, NEW j \in New, RegisterNew(j)
  PROVE  Inv'
<1>1. /\ newTask[j] = "start" /\ newTask' = [newTask EXCEPT ![j] = "registered"]
      /\ next' = [next EXCEPT ![j] = Len(channel) + 1]
      /\ UNCHANGED <<setup, phase, original, holders, fault, oldTask, channel, received, output, main>>
  BY DEF RegisterNew
<1>2. channel = <<>>
  BY <1>1 DEF Inv, Barrier, BarrierOpen
<1>3. \A k \in New : next'[k] = next[k] /\ next[k] \in 1..Len(channel) + 1
  <2>1. \A k \in New : next[k] \in 1..Len(channel) + 1
    BY DEF Inv, TypeOK
  <2>2. DOMAIN next = New /\ Len(channel) + 1 = 1
    BY <1>2 DEF Inv, Shape
  <2>3. next[j] = 1
    BY <2>1, <2>2
  <2> QED
    BY <1>1, <2>1, <2>2, <2>3
<1>4. /\ newTask' \in [New -> {"start", "registered", "ok", "failed"}]
      /\ newTask'[j] = "registered" /\ \A k \in New \ {j} : newTask'[k] = newTask[k]
  BY <1>1 DEF Inv, TypeOK
<1>5. TypeOK'
  BY <1>1, <1>3, <1>4, SamePhase, SameDealt DEF Inv, TypeOK
<1>6. Shape' /\ AwaitInv' /\ Barrier'
  BY <1>1, <1>2, <1>4, SamePhase DEF Inv, Shape, AwaitInv, Barrier
<1>7. ReadInv'
  BY <1>1, <1>3, SamePhase, SameReading DEF ReadInv
<1>8. OutcomeInv'
  <2>1. ASSUME NEW k \in New PROVE OutcomeOf(k)'
    <3>1. CASE k = j
      BY <1>4, <3>1 DEF OutcomeOf
    <3>2. CASE k # j
      BY <1>1, <1>4, <3>2, SameOutcome
    <3> QED
      BY <3>1, <3>2
  <2> QED
    BY <2>1, <1>1, SamePhase DEF OutcomeInv
<1> QED
  BY <1>1, <1>5, <1>6, <1>7, <1>8, SamePhase, SameDealt DEF Inv

(* Whatever a faulty member changes, its dealing carries its polynomial.    *)
LEMMA BroadcastCarries ==
  ASSUME setup \in Setups, phase \in 1..Len(Committees) - 1, NEW i \in Old, NEW c \in Seq(Scalar),
         NEW msg \in 1..2 * P, Registered = New, NEW m \in Broadcasts(i, ReshareDeal(i, c, msg))
  PROVE  Carries(phase, FaultNow(i), i, m, c) /\ DOMAIN m.ciphertexts \subseteq New
<1> DEFINE z == ReshareDeal(i, c, msg)
           q(k) == PadFor(phase, i, k, msg)
           e(k) == Evaluate(c, k)
           Plain(x, k) == x.r_commitment = Exp(q(k)) /\ x.encrypted_share = Plus(q(k), e(k))
           Off(x, k)   == x.r_commitment = Exp(q(k)) /\ x.encrypted_share = Plus(Plus(q(k), e(k)), 1)
           FalsePad(x) == FaultNow(i) = "Pad" /\ x.encrypted_share \in Scalar
<1>1. /\ z.from = i /\ z.random_msg = msg /\ z.vss_commitment = Commit(c)
      /\ DOMAIN z = {"session", "from", "random_msg", "vss_commitment", "ciphertexts"}
      /\ z.ciphertexts = [k \in New |-> [r_commitment |-> Exp(q(k)), encrypted_share |-> Plus(q(k), e(k))]]
  BY DEF ReshareDeal, PadFor
<1>2. ASSUME NEW k \in New
      PROVE  q(k) \in Scalar /\ e(k) \in Scalar /\ Plus(Plus(q(k), e(k)), 1) \in Scalar
  <2>1. q(k) \in Scalar
    BY PadAgrees
  <2>2. k \in Scalar
    BY CommitteeFacts
  <2>3. e(k) \in Scalar
    BY <2>2, EvaluateType
  <2> HIDE DEF q, e
  <2> QED
    BY <2>1, <2>3, RingTypes, PTypes
<1> HIDE DEF z, q, e
<1>3. /\ DOMAIN z.ciphertexts = New
      /\ \A k \in New : /\ Plain(z.ciphertexts[k], k)
                        /\ DOMAIN z.ciphertexts[k] = {"r_commitment", "encrypted_share"}
  BY <1>1
<1>4. ASSUME NEW cs, m = [z EXCEPT !.ciphertexts = cs]
      PROVE  m.from = i /\ m.random_msg = msg /\ m.vss_commitment = Commit(c) /\ m.ciphertexts = cs
  BY <1>1, <1>4
<1>5. /\ m.from = i /\ m.random_msg = msg /\ m.vss_commitment = Commit(c)
      /\ DOMAIN m.ciphertexts \subseteq New
      /\ \A k \in DOMAIN m.ciphertexts : \/ Plain(m.ciphertexts[k], k)
                                         \/ Off(m.ciphertexts[k], k)
                                         \/ FalsePad(m.ciphertexts[k])
  <2>1. CASE FaultNow(i) = "Share"
    <3>1. PICK l \in New : m = [z EXCEPT !.ciphertexts[l].encrypted_share = Plus(@, 1)]
      BY <2>1 DEF Broadcasts, z
    <3>2. PICK cs : cs = [z.ciphertexts EXCEPT ![l].encrypted_share = Plus(@, 1)]
      OBVIOUS
    <3>3. m = [z EXCEPT !.ciphertexts = cs]
      BY <3>1, <3>2
    <3>4. DOMAIN cs = New /\ \A k \in New \ {l} : cs[k] = z.ciphertexts[k]
      BY <1>3, <3>2
    <3>5. Off(cs[l], l)
      BY <1>3, <3>2
    <3> HIDE DEF Plain, Off, FalsePad
    <3> QED
      BY <1>3, <1>4, <3>3, <3>4, <3>5
  <2>2. CASE FaultNow(i) = "Pad"
    <3>1. PICK l \in New :
            m = [z EXCEPT !.ciphertexts[l] = [r_commitment |-> Plus(@.r_commitment, Gen),
                                              encrypted_share |-> Plus(@.encrypted_share, 1)]]
      BY <2>2 DEF Broadcasts, z
    <3>2. PICK cs : cs = [z.ciphertexts EXCEPT ![l] = [r_commitment |-> Plus(@.r_commitment, Gen),
                                                       encrypted_share |-> Plus(@.encrypted_share, 1)]]
      OBVIOUS
    <3>3. m = [z EXCEPT !.ciphertexts = cs]
      BY <3>1, <3>2
    <3>4. DOMAIN cs = New /\ \A k \in New \ {l} : cs[k] = z.ciphertexts[k]
      BY <1>3, <3>2
    <3>5. cs[l].encrypted_share = Plus(z.ciphertexts[l].encrypted_share, 1)
      BY <1>3, <3>2
    <3>6. FalsePad(cs[l])
      BY <1>2, <1>3, <2>2, <3>5
    <3> HIDE DEF Plain, Off, FalsePad
    <3> QED
      BY <1>3, <1>4, <3>3, <3>4, <3>6
  <2>3. CASE FaultNow(i) = "Session"
    <3>1. m = [z EXCEPT !.session = 0]
      BY <2>3 DEF Broadcasts, z
    <3>2. m.from = i /\ m.random_msg = msg /\ m.vss_commitment = Commit(c) /\ m.ciphertexts = z.ciphertexts
      BY <1>1, <3>1
    <3> QED
      BY <1>3, <3>2
  <2>4. CASE FaultNow(i) = "Missing"
    <3>1. PICK l \in New : m = [z EXCEPT !.ciphertexts = Restrict(@, (DOMAIN @) \ {l})]
      BY <2>4 DEF Broadcasts, z
    <3>2. PICK cs : cs = Restrict(z.ciphertexts, (DOMAIN z.ciphertexts) \ {l})
      OBVIOUS
    <3>3. m = [z EXCEPT !.ciphertexts = cs]
      BY <3>1, <3>2
    <3>4. DOMAIN cs = New \ {l} /\ \A k \in New \ {l} : cs[k] = z.ciphertexts[k]
      BY <1>3, <3>2 DEF Restrict
    <3> HIDE DEF Plain, Off, FalsePad
    <3> QED
      BY <1>3, <1>4, <3>3, <3>4
  <2>5. CASE FaultNow(i) \notin {"Share", "Pad", "Session", "Missing"}
    <3>1. m = z
      BY <2>5 DEF Broadcasts, z
    <3> QED
      BY <1>1, <1>3, <3>1
  <2> QED
    BY <2>1, <2>2, <2>3, <2>4, <2>5
<1> QED
  BY <1>5 DEF Carries, q, e

LEMMA DealInvariant ==
  ASSUME Inv, NEW i \in Old, Deal(i)
  PROVE  Inv'
<1>1. /\ oldTask[i] = "registered" /\ BarrierOpen
      /\ oldTask' = [oldTask EXCEPT ![i] =
                       IF FaultNow(i) = "Twice" /\ ~Sent(i) THEN "registered" ELSE "done"]
      /\ UNCHANGED <<setup, phase, original, holders, fault, newTask, next, received, output, main>>
  BY DEF Deal
<1>2. PICK c \in DealtPolynomials(i) :
        \E m \in Broadcasts(i, ReshareDeal(i, c, RandomMsg(i))) : channel' = Append(channel, m)
  BY DEF Deal
<1>3. PICK m \in Broadcasts(i, ReshareDeal(i, c, RandomMsg(i))) : channel' = Append(channel, m)
  BY <1>2
<1>4. PICK S : channel \in Seq(S)
  BY DEF Inv, Shape
<1>5. /\ Len(channel) \in Nat /\ DOMAIN channel = 1..Len(channel)
      /\ Len(channel') = Len(channel) + 1
      /\ DOMAIN channel' = 1..(Len(channel) + 1)
      /\ \A n \in DOMAIN channel : channel'[n] = channel[n]
      /\ channel'[Len(channel) + 1] = m
      /\ channel' \in Seq(S \cup {m})
  <2>1. channel \in Seq(S \cup {m}) /\ m \in S \cup {m}
    BY <1>4
  <2> QED
    BY <1>3, <2>1
<1>6. c \in Polynomials(Coefficients(FaultNow(i), TNew)) /\ c \in Seq(Scalar)
  <2>1. /\ Draws \in SUBSET Scalar /\ TNew \in Nat /\ TNew - 1 \in Nat /\ (TNew - 1) + 1 = TNew
    BY InRange, CommitteeFacts, ReshareAssumption DEF Draws
  <2>2. holders[i].share \in Scalar /\ Plus(holders[i].share, 1) \in Scalar
    <3>1. holders[i].share \in Scalar
      BY DEF Inv, TypeOK
    <3> QED
      BY <3>1, RingTypes, PTypes
  <2>3. PICK s \in Scalar : c \in NewRandom(s, IF FaultNow(i) = "Degree" THEN TNew ELSE TNew - 1, Draws)
    BY <1>2, <2>2 DEF DealtPolynomials
  <2>4. CASE FaultNow(i) = "Degree"
    <3>1. c \in NewRandom(s, TNew, Draws)
      BY <2>3, <2>4
    <3>2. c \in Polynomials(TNew + 1) /\ c \in Seq(Scalar)
      BY <2>1, <3>1, NewRandomType
    <3> QED
      BY <2>4, <3>2 DEF Coefficients
  <2>5. CASE FaultNow(i) # "Degree"
    <3>1. c \in NewRandom(s, TNew - 1, Draws)
      BY <2>3, <2>5
    <3>2. c \in Polynomials((TNew - 1) + 1) /\ c \in Seq(Scalar)
      BY <2>1, <3>1, NewRandomType
    <3> QED
      BY <2>1, <2>5, <3>2 DEF Coefficients
  <2> QED
    BY <2>4, <2>5
<1>7. RandomMsg(i) \in 1..2 * P
  <2>1. i \in 1..P - 1 /\ Committees[phase].n \in 1..P - 1 /\ P \in Nat
    BY InRange, CommitteeFacts, FieldAssumption
  <2> QED
    BY <2>1 DEF RandomMsg
<1>8. Carries(phase, FaultNow(i), i, m, c) /\ DOMAIN m.ciphertexts \subseteq New
  <2>1. Registered = New
    BY <1>1 DEF BarrierOpen, Registered
  <2> QED
    BY <1>3, <1>6, <1>7, <2>1, InRange, BroadcastCarries
<1>9. m.from = i
  BY <1>8 DEF Carries
<1>10. \A n \in DOMAIN channel' : n \in DOMAIN channel \/ n = Len(channel) + 1
  BY <1>5
<1>11. TypeOK'
  <2>1. oldTask' \in [Old' -> {"start", "registered", "done"}]
    BY <1>1, SamePhase DEF Inv, TypeOK
  <2>2. \A n \in DOMAIN channel' : channel'[n].from \in Old' /\ DOMAIN channel'[n].ciphertexts \subseteq New'
    <3>1. \A n \in DOMAIN channel : channel'[n].from \in Old /\ DOMAIN channel'[n].ciphertexts \subseteq New
      BY <1>5 DEF Inv, TypeOK
    <3> QED
      BY <1>1, <1>5, <1>8, <1>9, <1>10, <3>1, SamePhase
  <2>3. \A j \in New : next'[j] \in 1..Len(channel') + 1
    <3>1. \A j \in New : next[j] \in 1..Len(channel) + 1
      BY DEF Inv, TypeOK
    <3> QED
      BY <1>1, <1>5, <3>1
  <2> QED
    BY <1>1, <2>1, <2>2, <2>3, SamePhase DEF Inv, TypeOK
<1>12. Shape' /\ AwaitInv'
  BY <1>1, <1>5, SamePhase DEF Inv, Shape, AwaitInv
<1>13. Barrier'
  <2>1. \A k \in Old : oldTask'[k] # "start"
    BY <1>1 DEF BarrierOpen, Inv, TypeOK
  <2> QED
    BY <1>1, <2>1, SamePhase DEF Barrier, BarrierOpen
<1>14. ReadInv' /\ OutcomeInv'
  BY <1>1, <1>5, SamePhase, SameReading, SameOutcome DEF ReadInv, OutcomeInv
<1>15. DealtInv'
  <2> SUFFICES ASSUME NEW k \in Old, NEW n \in DOMAIN channel', channel'[n].from = k
               PROVE  \E d \in Polynomials(Coefficients(FaultNow(k), TNew)) :
                        Carries(phase, FaultNow(k), k, channel'[n], d)
    BY <1>1, SamePhase DEF DealtInv
  <2>1. CASE n \in DOMAIN channel
    BY <1>5, <2>1 DEF Inv, DealtInv
  <2>2. CASE n = Len(channel) + 1
    <3>1. channel'[n] = m /\ k = i
      BY <1>5, <1>9, <2>2
    <3> QED
      BY <1>6, <1>8, <3>1
  <2> QED
    BY <1>10, <2>1, <2>2
<1> QED
  BY <1>1, <1>11, <1>12, <1>13, <1>14, <1>15, SamePhase DEF Inv

LEMMA ReceiveInv ==
  ASSUME Inv, NEW j \in New, Receive(j)
  PROVE  Inv'
<1> DEFINE m == channel[next[j]]
<1>1. /\ BarrierOpen /\ newTask[j] = "registered" /\ Cardinality(DOMAIN received[j]) < Committees[phase].n
      /\ next[j] \in DOMAIN channel
      /\ received' = [received EXCEPT ![j] =
                        [i \in (DOMAIN @) \cup {m.from} |-> IF i = m.from THEN m ELSE @[i]]]
      /\ next' = [next EXCEPT ![j] = @ + 1]
      /\ UNCHANGED <<setup, phase, original, holders, fault, oldTask, newTask, channel, output, main>>
  BY DEF Receive, Collecting
<1>2. /\ DOMAIN next = New /\ DOMAIN received = New /\ DOMAIN output = New
      /\ DOMAIN channel = 1..Len(channel) /\ Len(channel) \in Nat
  <2>1. PICK S : channel \in Seq(S)
    BY DEF Inv, Shape
  <2> QED
    BY <2>1 DEF Inv, Shape
<1>3. /\ next'[j] = next[j] + 1 /\ next[j] \in Nat /\ next'[j] \in 1..Len(channel) + 1
      /\ DOMAIN received'[j] = (DOMAIN received[j]) \cup {m.from}
      /\ \A i \in DOMAIN received'[j] : received'[j][i] = IF i = m.from THEN m ELSE received[j][i]
      /\ \A k \in New \ {j} : next'[k] = next[k] /\ received'[k] = received[k]
  BY <1>1, <1>2
<1>4. m.from \in Old /\ DOMAIN received[j] \subseteq Old
  BY <1>1 DEF Inv, TypeOK
<1>5. TypeOK'
  <2>1. \A k \in New : /\ next'[k] \in 1..Len(channel) + 1 /\ DOMAIN received'[k] \subseteq Old
                       /\ output'[k].secret_share \in Scalar
                       /\ DOMAIN output'[k].public_key_shares \subseteq New
    BY <1>1, <1>3, <1>4 DEF Inv, TypeOK
  <2> HIDE DEF m
  <2> QED
    BY <1>1, <2>1, SamePhase, SameDealt DEF Inv, TypeOK
<1>6. Shape'
  BY <1>1, <1>2, SamePhase DEF Inv, Shape
<1>7. Barrier' /\ AwaitInv'
  BY <1>1, SamePhase DEF Inv, Barrier, BarrierOpen, AwaitInv
<1>8. OutcomeInv'
  <2>1. ASSUME NEW k \in New PROVE OutcomeOf(k)'
    <3>1. CASE k = j
      BY <1>1, <3>1 DEF OutcomeOf
    <3>2. CASE k # j
      BY <1>1, <1>3, <3>2, SameOutcome
    <3> QED
      BY <3>1, <3>2
  <2> QED
    BY <2>1, <1>1, SamePhase DEF OutcomeInv
<1>9. ReadOf(j)'
  <2>1. ReadOf(j)
    BY DEF Inv, ReadInv
  <2>2. /\ Read(j)' = Read(j) \cup {next[j]} /\ next[j] \in Read(j)'
        /\ \A n \in Read(j) : next[j] > n /\ n # next[j]
    BY <1>1, <1>2, <1>3 DEF Read
  <2>3. m.from \notin DOMAIN received[j] \/ DOMAIN received'[j] # Old
    <3>1. DOMAIN received[j] # Old
      BY <1>1, InRange, CommitteeFacts
    <3> QED
      BY <1>3, <3>1
  <2>4. \A n \in Read(j)' : channel'[n].from \in DOMAIN received'[j]
    BY <1>1, <1>3, <2>1, <2>2 DEF ReadOf
  <2>5. ASSUME NEW i \in DOMAIN received'[j]
        PROVE  \E n \in Read(j)' : /\ channel'[n].from = i /\ received'[j][i] = channel'[n]
                                   /\ \A l \in Read(j)' : l > n => channel'[l].from # i
    <3>1. CASE i = m.from
      <4>1. received'[j][i] = channel[next[j]] /\ channel[next[j]].from = i
        BY <1>3, <3>1
      <4>2. \A l \in Read(j)' : ~(l > next[j])
        BY <1>3 DEF Read
      <4> QED
        BY <1>1, <2>2, <4>1, <4>2
    <3>2. CASE i # m.from
      <4>1. PICK n \in Read(j) : /\ channel[n].from = i /\ received[j][i] = channel[n]
                                 /\ \A l \in Read(j) : l > n => channel[l].from # i
        BY <1>3, <2>1, <3>2 DEF ReadOf
      <4>2. received'[j][i] = channel[n]
        BY <1>3, <3>2, <4>1
      <4>3. \A l \in Read(j)' : l > n => channel[l].from # i
        BY <2>2, <3>2, <4>1
      <4> QED
        BY <1>1, <2>2, <4>1, <4>2, <4>3
    <3> QED
      BY <3>1, <3>2
  <2>6. ASSUME DOMAIN received'[j] = Old
        PROVE  next'[j] > 1 /\ \A l \in 1..next'[j] - 2 : channel[l].from # channel[next'[j] - 1].from
    <3>1. next'[j] > 1 /\ next'[j] - 1 = next[j] /\ 1..next'[j] - 2 = Read(j)
      BY <1>1, <1>2, <1>3 DEF Read
    <3>2. \A l \in Read(j) : channel[l].from # m.from
      BY <2>1, <2>3, <2>6 DEF ReadOf
    <3> QED
      BY <3>1, <3>2
  <2> QED
    BY <1>1, <2>4, <2>5, <2>6, SamePhase DEF ReadOf
<1>10. ReadInv'
  <2>1. ASSUME NEW k \in New PROVE ReadOf(k)'
    <3>1. CASE k # j
      BY <1>1, <1>3, <3>1, SameReading
    <3> QED
      BY <1>9, <3>1
  <2> QED
    BY <2>1, <1>1, SamePhase DEF ReadInv
<1> HIDE DEF m
<1> QED
  BY <1>1, <1>5, <1>6, <1>7, <1>8, <1>10, SamePhase, SameDealt DEF Inv

(* What a member puts out is of its type.                                   *)
LEMMA FinishedTypes ==
  ASSUME Inv, NEW j \in New, DOMAIN received[j] = Old, ~Refused(j, received[j])
  PROVE  /\ SecretShare(j, received[j]) \in Scalar
         /\ \A first \in Old : DOMAIN PublicKeyShares(first, received[j]) \subseteq New
<1> DEFINE f == [i \in Old |-> Decrypt(j, received[j][i])]
<1>1. Old \in SUBSET Scalar /\ IsFiniteSet(Old)
  BY InRange, CommitteeFacts
<1>2. ASSUME NEW i \in Old PROVE Decrypt(j, received[j][i]) \in Scalar
  <2>1. j \in DOMAIN received[j][i].ciphertexts
    BY DEF Refused
  <2>2. PICK c \in Polynomials(Coefficients(FaultNow(i), TNew)) :
          Carries(phase, FaultNow(i), i, received[j][i], c)
    BY Dealt
  <2>3. c \in Seq(Scalar)
    BY DEF Polynomials
  <2>4. PICK m : m = received[j][i]
    OBVIOUS
  <2>5. Decrypt(j, m) \in Scalar
    BY <2>1, <2>2, <2>3, <2>4, InRange, Decrypted
  <2> QED
    BY <2>4, <2>5
<1>3. f \in [Old -> Scalar]
  BY <1>2
<1>4. SecretShare(j, received[j]) = At0(Old, f)
  BY DEF SecretShare, LagrangeInterpolateAtZero, At0
<1>5. \A first \in Old : DOMAIN PublicKeyShares(first, received[j]) \subseteq New
  BY Dealt DEF PublicKeyShares
<1> HIDE DEF f
<1> QED
  BY <1>1, <1>3, <1>4, <1>5, At0Type

LEMMA FinishInv ==
  ASSUME Inv, NEW j \in New, Finish(j)
  PROVE  Inv'
<1>1. /\ newTask[j] = "registered" /\ ~(Cardinality(DOMAIN received[j]) < Committees[phase].n)
      /\ UNCHANGED <<setup, phase, original, holders, fault, oldTask, channel, next, received, main>>
  BY DEF Finish, Collecting
<1>2. DOMAIN received[j] = Old
  <2>1. DOMAIN received[j] \subseteq Old
    BY DEF Inv, TypeOK
  <2>2. IsFiniteSet(Old) /\ Cardinality(Old) = Committees[phase].n /\ Committees[phase].n \in Nat
    BY InRange, CommitteeFacts
  <2>3. /\ Cardinality(DOMAIN received[j]) \in Nat /\ Cardinality(DOMAIN received[j]) <= Cardinality(Old)
        /\ Cardinality(Old) = Cardinality(DOMAIN received[j]) => DOMAIN received[j] = Old
    <3>1. PICK D : D = DOMAIN received[j]
      OBVIOUS
    <3>2. IsFiniteSet(D) /\ Cardinality(D) <= Cardinality(Old) /\ (Cardinality(Old) = Cardinality(D) => Old = D)
      BY <2>1, <2>2, <3>1, FS_Subset
    <3>3. Cardinality(D) \in Nat
      BY <3>2, FS_CardinalityType
    <3> QED
      BY <3>1, <3>2, <3>3
  <2> QED
    BY <1>1, <2>2, <2>3
<1>3. \/ /\ Refused(j, received[j]) /\ newTask' = [newTask EXCEPT ![j] = "failed"] /\ output' = output
      \/ /\ ~Refused(j, received[j]) /\ newTask' = [newTask EXCEPT ![j] = "ok"]
         /\ \E first \in Old :
              output' = [output EXCEPT ![j] =
                           [public_key |-> original.pk,
                            public_key_shares |-> PublicKeyShares(first, received[j]),
                            secret_share |-> SecretShare(j, received[j])]]
  BY <1>2 DEF Finish
<1>4. /\ \/ newTask'[j] = "failed" /\ Refused(j, received[j]) /\ output'[j] = output[j]
         \/ /\ newTask'[j] = "ok" /\ ~Refused(j, received[j])
            /\ \E first \in Old :
                 output'[j] = [public_key |-> original.pk,
                               public_key_shares |-> PublicKeyShares(first, received[j]),
                               secret_share |-> SecretShare(j, received[j])]
      /\ \A k \in New \ {j} : newTask'[k] = newTask[k] /\ output'[k] = output[k]
      /\ DOMAIN output' = New /\ newTask' \in [New -> {"start", "registered", "ok", "failed"}]
  <2>1. DOMAIN output = New /\ newTask \in [New -> {"start", "registered", "ok", "failed"}]
    BY DEF Inv, Shape, TypeOK
  <2> QED
    BY <1>3, <2>1
<1>5. output'[j].secret_share \in Scalar /\ DOMAIN output'[j].public_key_shares \subseteq New
  <2>1. CASE newTask'[j] = "failed"
    BY <1>4, <2>1 DEF Inv, TypeOK
  <2>2. CASE newTask'[j] = "ok"
    BY <1>2, <1>4, <2>2, FinishedTypes
  <2> QED
    BY <1>4, <2>1, <2>2
<1>6. TypeOK'
  <2>1. \A k \in New : /\ next'[k] \in 1..Len(channel') + 1 /\ DOMAIN received'[k] \subseteq Old
                       /\ output'[k].secret_share \in Scalar
                       /\ DOMAIN output'[k].public_key_shares \subseteq New
    BY <1>1, <1>4, <1>5 DEF Inv, TypeOK
  <2> QED
    BY <1>1, <1>4, <2>1, SamePhase, SameDealt DEF Inv, TypeOK
<1>7. Shape' /\ AwaitInv' /\ Barrier'
  BY <1>1, <1>4, SamePhase DEF Inv, Shape, AwaitInv, Barrier, BarrierOpen
<1>8. ReadInv'
  BY <1>1, SamePhase, SameReading DEF ReadInv
<1>9. OutcomeInv'
  <2>1. ASSUME NEW k \in New PROVE OutcomeOf(k)'
    <3>1. CASE k = j
      BY <1>1, <1>2, <1>4, <3>1, AtNow, SamePhase DEF OutcomeOf
    <3>2. CASE k # j
      BY <1>1, <1>4, <3>2, SameOutcome
    <3> QED
      BY <3>1, <3>2
  <2> QED
    BY <2>1, <1>1, SamePhase DEF OutcomeInv
<1> QED
  BY <1>1, <1>6, <1>7, <1>8, <1>9, SamePhase, SameDealt DEF Inv

-----------------------------------------------------------------------------
(* The steps of main.                                                       *)

LEMMA MainInv ==
  ASSUME Inv, MainAwaits \/ MainPanics \/ MainDone \/ UNCHANGED vars
  PROVE  Inv'
<1>1. UNCHANGED <<setup, phase, original, holders, fault, oldTask, newTask, channel, next, received, output>>
  BY DEF MainAwaits, MainPanics, MainDone, tasks, vars
<1>2. main \in [awaited : 0..Handles, state : {"waiting", "panicked", "done"}] /\ Handles \in Nat
      /\ Committees[phase].n \in Nat /\ New \subseteq Nat \ {0}
  <2>1. /\ Committees[phase].n \in 1..P - 1 /\ Committees[phase + 1].n \in 1..P - 1
        /\ New \subseteq 1..P - 1 /\ P \in Nat
    BY InRange, CommitteeFacts, FieldAssumption
  <2> QED
    BY <2>1, SMTT(60) DEF Inv, TypeOK, Handles
<1>3. /\ main'.awaited \in 0..Handles /\ main' \in [awaited : 0..Handles, state : {"waiting", "panicked", "done"}]
      /\ \/ main'.awaited = main.awaited
         \/ /\ main'.awaited = main.awaited + 1
            /\ \/ main.awaited + 1 \in Old
               \/ main.awaited + 1 \notin Old /\ newTask[main.awaited + 1 - Committees[phase].n] = "ok"
  <2>1. CASE MainAwaits
    <3> DEFINE h == main.awaited + 1
    <3>1. main.awaited < Handles /\ h \in 0..Handles
      BY <1>2, <2>1 DEF MainAwaits
    <3>2. \/ h \in Old /\ main' = [main EXCEPT !.awaited = h]
          \/ h \notin Old /\ newTask[h - Committees[phase].n] = "ok" /\ main' = [main EXCEPT !.awaited = h]
          \/ main' = [main EXCEPT !.state = "panicked"]
      BY <2>1 DEF MainAwaits
    <3> QED
      BY <1>2, <3>1, <3>2
  <2>2. CASE MainPanics \/ MainDone \/ UNCHANGED vars
    <3>1. main' = main \/ main' = [main EXCEPT !.state = "panicked"] \/ main' = [main EXCEPT !.state = "done"]
      BY <2>2 DEF MainPanics, MainDone, vars
    <3> QED
      BY <1>2, <3>1
  <2> QED
    BY <2>1, <2>2
<1>4. AwaitInv'
  <2> SUFFICES ASSUME NEW j \in New, Committees[phase].n + j <= main'.awaited PROVE newTask[j] = "ok"
    BY <1>1, SamePhase DEF AwaitInv
  <2>1. CASE Committees[phase].n + j <= main.awaited
    BY <2>1 DEF Inv, AwaitInv
  <2>2. CASE ~(Committees[phase].n + j <= main.awaited)
    <3>1. /\ main'.awaited = main.awaited + 1 /\ Committees[phase].n + j = main.awaited + 1
          /\ j = main.awaited + 1 - Committees[phase].n /\ main.awaited + 1 \notin Old
      BY <1>2, <1>3, <2>2 DEF Old, OldOf
    <3> QED
      BY <1>3, <3>1
  <2> QED
    BY <2>1, <2>2
<1>5. TypeOK'
  BY <1>1, <1>3, SamePhase, SameDealt DEF Inv, TypeOK
<1>6. Shape' /\ Barrier'
  BY <1>1, SamePhase DEF Inv, Shape, Barrier, BarrierOpen
<1>7. ReadInv' /\ OutcomeInv'
  BY <1>1, SamePhase, SameReading, SameOutcome DEF ReadInv, OutcomeInv
<1> QED
  BY <1>1, <1>4, <1>5, <1>6, <1>7, SamePhase, SameDealt DEF Inv

(* The next resharing starts from shares of the same secret.                *)
LEMMA StartNextInv ==
  ASSUME Inv, StartNext
  PROVE  Inv'
<1>1. /\ main.awaited = Handles /\ MainAccepts /\ phase + 1 < Len(Committees)
      /\ phase' = phase + 1 /\ holders' = NextHolders
      /\ UNCHANGED <<setup, original, fault>>
  BY DEF StartNext
<1>2. /\ phase \in Nat /\ Len(Committees) \in Nat /\ New \in SUBSET Scalar /\ New \subseteq 1..P - 1
      /\ Committees[phase].n \in 1..P - 1 /\ Committees[phase + 1].n \in 1..P - 1 /\ P \in Nat
  BY InRange, CommitteeFacts, FieldAssumption
<1>3. /\ Committees' = Committees /\ Old' = New /\ TOld' = TNew /\ phase' \in 1..Len(Committees') - 1
  <2>1. Committees' = Committees
    BY <1>1 DEF Committees
  <2>2. Old' = New /\ TOld' = TNew
    BY <1>1, <2>1 DEF Old, New, OldOf, NewOf, TOld, TNew
  <2> QED
    BY <1>1, <1>2, <2>1, <2>2
<1>4. ASSUME NEW j \in New
      PROVE  /\ holders'[j] = [share |-> output[j].secret_share, pk_share |-> Exp(output[j].secret_share)]
             /\ output[j].secret_share \in Scalar /\ Exp(output[j].secret_share) \in Group
  <2>1. output[j].public_key_shares[j] = Exp(output[j].secret_share)
    BY <1>1 DEF MainAccepts
  <2>2. output[j].secret_share \in Scalar
    BY DEF Inv, TypeOK
  <2> QED
    BY <1>1, <2>1, <2>2, RingTypes DEF NextHolders, Group, Scalar
<1>5. holders' \in [Old' -> [share : Scalar, pk_share : Group]]
  <2>1. DOMAIN holders' = New /\ holders' = [j \in New |-> holders'[j]]
    BY <1>1 DEF NextHolders
  <2> QED
    BY <1>3, <1>4, <2>1
<1>6. Fresh'
  <2>1. Old' = OldOf(phase + 1) /\ New' = NewOf(phase + 1)
    BY <1>1, <1>3 DEF Old, New, OldOf, NewOf
  <2>2. setup' \in Setups /\ original' \in [pk : Group, sk : Scalar]
    BY <1>1 DEF Inv, TypeOK
  <2> QED
    BY <1>3, <1>5, <2>1, <2>2 DEF StartNext, Fresh
<1>7. HoldersInv'
  <2> SUFFICES ASSUME ~Unnoticed
               PROVE  \E c \in Polynomials(TNew) :
                        /\ c[1] = original.sk
                        /\ \A i \in New : /\ holders'[i].share = Evaluate(c, i)
                                          /\ holders'[i].pk_share = Exp(Evaluate(c, i))
    BY <1>1, <1>3 DEF HoldersInv, Unnoticed
  <2>1. Completed = New
    <3>1. \A j \in New : Committees[phase].n + j <= main.awaited
      BY <1>1, <1>2 DEF Handles, New, NewOf
    <3> QED
      BY <3>1 DEF Inv, AwaitInv, Completed
  <2>2. PICK G \in Polynomials(TNew) :
          G[1] = original.sk /\ \A j \in Completed : output[j].secret_share = Evaluate(G, j)
    BY NewPolynomial
  <2>3. ASSUME NEW i \in New
        PROVE  holders'[i].share = Evaluate(G, i) /\ holders'[i].pk_share = Exp(Evaluate(G, i))
    <3>1. output[i].secret_share = Evaluate(G, i)
      BY <2>1, <2>2
    <3>2. PICK s, x : s = output[i].secret_share /\ x = Exp(output[i].secret_share)
      OBVIOUS
    <3>3. holders'[i] = [share |-> s, pk_share |-> x]
      BY <1>4, <3>2
    <3>4. holders'[i].share = s /\ holders'[i].pk_share = x
      BY <3>3
    <3> QED
      BY <3>1, <3>2, <3>4
  <2> QED
    BY <2>2, <2>3
<1> QED
  BY <1>6, <1>7, FreshInvNext DEF Inv

LEMMA NextInv == Inv /\ [Next]_vars => Inv'
<1> SUFFICES ASSUME Inv, [Next]_vars PROVE Inv'
  OBVIOUS
<1>1. CASE Main
  BY <1>1, MainInv, StartNextInv DEF Main
<1>2. ASSUME NEW i \in Old, OldStep(i) PROVE Inv'
  BY <1>2, RegisterOldInv, DealInvariant, VanishInv DEF OldStep
<1>3. ASSUME NEW j \in New, NewStep(j) PROVE Inv'
  BY <1>3, RegisterNewInv, ReceiveInv, FinishInv DEF NewStep
<1>4. CASE UNCHANGED vars
  BY <1>4, MainInv
<1> QED
  BY <1>1, <1>2, <1>3, <1>4 DEF Next

(* Any TNew members that complete hold the secret from before the first resharing,
   whatever the committees and thresholds it went through (reshare.rs:6-8 and
   main.rs:397-451).                                                       *)
THEOREM Survives == Spec => []KeySurvives
  BY InitInv, NextInv, SurvivesFromInvariant, PTL DEF Spec

(* The share of a member that completes opens its public key share in every
   output that lists it, also when a dealer sent two dealings (main.rs:453-461).*)
THEOREM SharesOpen == Spec => []SharesOpenKeyShares
  BY InitInv, NextInv, OpensFromInvariant, PTL DEF Spec

(* Nobody completes from a dealing that verify_dealing refuses, and no member
   completes while another fails, unless a dealing leaves one out
   (reshare_protocol.rs:127-140 and reshare.rs:132-139).                    *)
THEOREM SoundCompletion == Spec => []CompletionSound
  BY InitInv, NextInv, SoundFromInvariant, PTL DEF Spec
=============================================================================

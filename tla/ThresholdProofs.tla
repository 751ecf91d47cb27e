---------------------------- MODULE ThresholdProofs ----------------------------
(***************************************************************************)
(* What a replica and the beacon rely on when they combine partial         *)
(* signatures, for every field, committee, quorum and polynomial and every *)
(* order in which the signatures come in: dealt shares open the commitment *)
(* and nothing else does, any quorum gives the one signature of the group  *)
(* key, and fewer shares than a quorum say nothing about the key.          *)
(*                                                                         *)
(* Of the beacon, for every number of rounds: with good shares every round *)
(* verifies and leads back to the first one, and a wrong share shows.      *)
(***************************************************************************)
EXTENDS ThresholdSigning, Beacon, ShamirProofs

(* The list of partial signatures.                                          *)

(* Every entry is the signature of its signer's share, no signer has two.   *)
Collected(c, h, v) ==
  /\ v \in Seq(Node \X Group)
  /\ \A k \in 1..Len(v) : v[k][2] = Times(h, Evaluate(c, v[k][1]))
  /\ \A k, l \in 1..Len(v) : v[k][1] = v[l][1] => k = l

SignersOf(v, n) == {v[k][1] : k \in 1..n}

LEMMA SignersCounted ==
  ASSUME NEW c, NEW h, NEW v, Collected(c, h, v), NEW n \in 0..Len(v)
  PROVE  /\ SignersOf(v, n) \subseteq Node /\ SignersOf(v, n) \in SUBSET Scalar
         /\ IsFiniteSet(SignersOf(v, n)) /\ Cardinality(SignersOf(v, n)) = n
         /\ [k \in 1..n |-> v[k][1]] \in Bijection(1..n, SignersOf(v, n))
<1> DEFINE S == SignersOf(v, n)
           g == [k \in 1..n |-> v[k][1]]
<1>1. v \in Seq(Node \X Group) /\ Len(v) \in Nat /\ n \in Nat /\ \A k \in 1..n : k \in 1..Len(v)
  BY DEF Collected
<1>2. \A k \in 1..n : v[k] \in Node \X Group
  BY <1>1
<1>3. S \subseteq Node
  BY <1>2 DEF SignersOf
<1>4. Node \subseteq Scalar
  BY PTypes, CommitteeAssumption DEF Node, Scalar
<1>5. g \in [1..n -> S] /\ \A x \in S : \E k \in 1..n : g[k] = x
  BY DEF SignersOf
<1>6. \A k, l \in 1..n : g[k] = g[l] => k = l
  BY <1>1 DEF Collected
<1> HIDE DEF g, S
<1>7. g \in Bijection(1..n, S)
  BY <1>5, <1>6 DEF Bijection, Injection, Surjection, IsInjective
<1>8. IsFiniteSet(1..n) /\ Cardinality(1..n) = n
  BY <1>1, FS_Interval
<1>9. ExistsBijection(1..n, S)
  BY <1>7 DEF ExistsBijection
<1>10. IsFiniteSet(S) /\ Cardinality(S) = n
  BY <1>8, <1>9, FS_Bijection
<1> QED
  BY <1>3, <1>4, <1>7, <1>10 DEF g, S

(* The first n signatures of the list, whoever they are from and in whatever
   order, combine to the signature of the constant term of a polynomial with at
   most n coefficients (signing.rs combine_dynamic).                        *)
LEMMA CombinesToSignature ==
  ASSUME NEW c \in Seq(Scalar), NEW h \in Scalar, NEW v, Collected(c, h, v),
         NEW n \in 1..Len(v), Len(c) \in 1..n
  PROVE  CombineDynamic(v, n) = PartialSign(h, c[1])
<1> DEFINE S == SignersOf(v, n)
           g == [k \in 1..n |-> v[k][1]]
           share == [i \in S |-> Evaluate(c, i)]
           f == [i \in S |-> Times(Times(h, Evaluate(c, i)), LagrangeCoeff(i, S))]
           used == SubSeq(v, 1, IF Len(v) > n THEN n ELSE Len(v))
<1>1. v \in Seq(Node \X Group) /\ Len(v) \in Nat /\ n \in Nat /\ n \in 0..Len(v)
  BY DEF Collected
<1>2. /\ S \subseteq Node /\ S \in SUBSET Scalar /\ IsFiniteSet(S) /\ Cardinality(S) = n
      /\ g \in Bijection(1..n, S)
  BY <1>1, SignersCounted
<1>3. Len(used) = n /\ DOMAIN used = 1..n /\ \A k \in 1..n : used[k] = v[k]
  BY <1>1
<1> HIDE DEF used
<1>4. S = {used[k][1] : k \in DOMAIN used}
  BY <1>3 DEF SignersOf
<1>5. share \in [S -> Scalar] /\ \A i \in S : LagrangeCoeff(i, S) \in Scalar
  BY <1>2, EvaluateType, CoeffRemove
<1>6. f \in [S -> Scalar]
  BY <1>2, <1>5, EvaluateType, RingTypes
<1>7. [k \in DOMAIN used |-> Times(used[k][2], LagrangeCoeff(used[k][1], S))] = [k \in 1..n |-> f[g[k]]]
  <2>1. ASSUME NEW k \in 1..n
        PROVE  Times(used[k][2], LagrangeCoeff(used[k][1], S)) = f[g[k]]
    <3>1. g[k] = v[k][1]
      OBVIOUS
    <3>2. v[k][1] \in S
      BY DEF SignersOf
    <3>3. k \in 1..Len(v)
      BY <1>1
    <3>4. v[k][2] = Times(h, Evaluate(c, v[k][1]))
      BY <3>3 DEF Collected
    <3> QED
      BY <1>3, <3>1, <3>2, <3>4
  <2> HIDE DEF f, g
  <2> QED
    BY <1>3, <2>1
<1>8. Total([k \in 1..n |-> f[g[k]]]) = Total(f)
  <2>1. IsFiniteSet(1..n)
    BY <1>1, FS_Interval
  <2> HIDE DEF f, g, S
  <2> QED
    BY <1>2, <1>6, <2>1, TotalRenamed
<1>9. Total(f) = At0(S, [i \in S |-> Times(h, share[i])])
  <2> HIDE DEF S
  <2> QED
    BY DEF At0
<1>10. At0(S, [i \in S |-> Times(h, share[i])]) = Times(h, At0(S, share))
  <2> HIDE DEF S, share
  <2> QED
    BY <1>2, <1>5, At0Times
<1>11. At0(S, share) = c[1]
  <2> HIDE DEF S
  <2>1. At0(S, [i \in S |-> Evaluate(c, i)]) = Constant(c)
    BY <1>1, <1>2, At0Evaluate
  <2>2. Constant(c) = c[1]
    BY DEF Constant
  <2> QED
    BY <2>1, <2>2
<1>12. CombineDynamic(v, n) = Total([k \in DOMAIN used |-> Times(used[k][2], LagrangeCoeff(used[k][1], S))])
  BY <1>4 DEF CombineDynamic, used
<1> HIDE DEF S, share, f, g
<1> QED
  BY <1>7, <1>8, <1>9, <1>10, <1>11, <1>12 DEF PartialSign

-----------------------------------------------------------------------------
(* Polynomials through given points.                                        *)

(* a and (x - m) times a polynomial is a polynomial with one coefficient more. *)
LEMMA RootTimes ==
  ASSUME NEW n \in Nat
  PROVE  \A q \in Polynomials(n), m \in Scalar, a \in Scalar :
           \E r \in Polynomials(n + 1) :
             \A x \in Scalar : Evaluate(r, x) = Plus(a, Times(Minus(x, m), Evaluate(q, x)))
<1> DEFINE Grows(l) ==
             \A q \in Polynomials(l), m \in Scalar, a \in Scalar :
               \E r \in Polynomials(l + 1) :
                 \A x \in Scalar : Evaluate(r, x) = Plus(a, Times(Minus(x, m), Evaluate(q, x)))
           A == {l \in Nat : Grows(l)}
<1>1. ASSUME NEW d \in Seq(Scalar), NEW s \in Scalar
      PROVE  LET r == <<s>> \o d
             IN  /\ r \in Seq(Scalar) /\ Len(r) = Len(d) + 1
                 /\ \A x \in Scalar : Evaluate(r, x) = Plus(s, Times(x, Evaluate(d, x)))
  <2> DEFINE r == <<s>> \o d
  <2>1. <<s>> \in Seq(Scalar) /\ Len(<<s>>) = 1
    OBVIOUS
  <2>2. r \in Seq(Scalar) /\ Len(r) = Len(d) + 1 /\ r[1] = s /\ Len(d) \in Nat
    BY <2>1
  <2>3. Tail(r) = d
    <3>1. /\ Tail(r) \in Seq(Scalar) /\ Len(Tail(r)) = Len(d)
          /\ \A k \in 1..Len(d) : Tail(r)[k] = r[k + 1] /\ r[k + 1] = d[k]
      BY <2>1, <2>2
    <3> QED
      BY <3>1
  <2> HIDE DEF r
  <2>4. \A x \in Scalar : Evaluate(r, x) = Plus(r[1], Times(x, Evaluate(Tail(r), x)))
    BY <2>2, EvaluateRest
  <2> QED
    BY <2>2, <2>3, <2>4 DEF r
<1>2. 0 \in A
  <2> SUFFICES ASSUME NEW q \in Polynomials(0), NEW m \in Scalar, NEW a \in Scalar
               PROVE  \E r \in Polynomials(1) :
                        \A x \in Scalar : Evaluate(r, x) = Plus(a, Times(Minus(x, m), Evaluate(q, x)))
    OBVIOUS
  <2>1. q \in Seq(Scalar) /\ Len(q) = 0
    BY DEF Polynomials
  <2>2. PICK r : r = <<a>> \o q
    OBVIOUS
  <2>a. /\ r \in Seq(Scalar) /\ Len(r) = Len(q) + 1
        /\ \A x \in Scalar : Evaluate(r, x) = Plus(a, Times(x, Evaluate(q, x)))
    BY <1>1, <2>1, <2>2
  <2>3. /\ r \in Seq(Scalar) /\ Len(r) = 1
        /\ \A x \in Scalar : Evaluate(r, x) = Plus(a, Times(x, Evaluate(q, x)))
    BY <2>1, <2>a
  <2>4. \A x \in Scalar : Evaluate(q, x) = 0 /\ Minus(x, m) \in Scalar
    BY <2>1, EvaluateEmpty, RingTypes
  <2>5. \A x \in Scalar : Times(x, Evaluate(q, x)) = Times(Minus(x, m), Evaluate(q, x))
    BY <2>4, TimesLaws
  <2>6. r \in Polynomials(1)
    BY <2>3 DEF Polynomials
  <2> QED
    BY <2>3, <2>5, <2>6
<1>3. ASSUME NEW l \in Nat, Grows(l) PROVE Grows(l + 1)
  <2> SUFFICES ASSUME NEW q \in Polynomials(l + 1), NEW m \in Scalar, NEW a \in Scalar
               PROVE  \E r \in Polynomials((l + 1) + 1) :
                        \A x \in Scalar : Evaluate(r, x) = Plus(a, Times(Minus(x, m), Evaluate(q, x)))
    OBVIOUS
  <2>1. q \in Seq(Scalar) /\ Len(q) = l + 1 /\ Len(q) > 0 /\ l + 1 \in Nat
    BY DEF Polynomials
  <2>2. PICK b, p : b = q[1] /\ p = Tail(q)
    OBVIOUS
  <2>3. b \in Scalar /\ p \in Seq(Scalar) /\ Len(p) = l
    BY <2>1, <2>2, EvaluateRest, PTypes
  <2>4. \A x \in Scalar : Evaluate(q, x) = Plus(b, Times(x, Evaluate(p, x)))
    BY <2>1, <2>2, EvaluateRest
  <2>5. p \in Polynomials(l)
    BY <2>3 DEF Polynomials
  <2>6. PICK d \in Polynomials(l + 1) :
          \A x \in Scalar : Evaluate(d, x) = Plus(b, Times(Minus(x, m), Evaluate(p, x)))
    BY <1>3, <2>3, <2>5
  <2>7. d \in Seq(Scalar) /\ Len(d) = l + 1
    BY DEF Polynomials
  <2>8. PICK s : s = Minus(a, Times(m, b))
    OBVIOUS
  <2>9. s \in Scalar /\ Times(m, b) \in Scalar /\ Plus(s, Times(m, b)) = a
    BY <2>3, <2>8, RingTypes, MinusLaws
  <2>10. PICK r : r = <<s>> \o d
    OBVIOUS
  <2>11. /\ r \in Seq(Scalar) /\ Len(r) = (l + 1) + 1
         /\ \A x \in Scalar : Evaluate(r, x) = Plus(s, Times(x, Evaluate(d, x)))
    BY <1>1, <2>7, <2>9, <2>10
  <2>12. ASSUME NEW x \in Scalar
         PROVE  Evaluate(r, x) = Plus(a, Times(Minus(x, m), Evaluate(q, x)))
    <3>1. PICK y, e : y = Minus(x, m) /\ e = Evaluate(p, x)
      OBVIOUS
    <3>2. y \in Scalar /\ Plus(y, m) = x /\ e \in Scalar
      BY <2>3, <3>1, RingTypes, MinusLaws, EvaluateType
    <3>3. Evaluate(r, x) = Plus(s, Times(x, Plus(b, Times(y, e))))
      BY <2>6, <2>11, <3>1
    <3>4. Evaluate(q, x) = Plus(b, Times(x, e))
      BY <2>4, <3>1
    <3>5. /\ Times(y, e) \in Scalar /\ Times(x, e) \in Scalar /\ Times(x, b) \in Scalar
          /\ Times(y, b) \in Scalar /\ Times(x, Times(y, e)) \in Scalar
      BY <2>3, <3>2, RingTypes
    <3>6. Times(x, Plus(b, Times(y, e))) = Plus(Times(x, b), Times(x, Times(y, e)))
      BY <2>3, <3>5, Distributes
    <3>7. Times(y, Plus(b, Times(x, e))) = Plus(Times(y, b), Times(y, Times(x, e)))
      BY <2>3, <3>2, <3>5, Distributes
    <3>8. Times(x, Times(y, e)) = Times(y, Times(x, e))
      <4>1. Times(x, Times(y, e)) = Times(Times(x, y), e) /\ Times(y, Times(x, e)) = Times(Times(y, x), e)
        BY <3>2, TimesLaws
      <4>2. Times(x, y) = Times(y, x)
        BY <3>2, TimesLaws
      <4> QED
        BY <4>1, <4>2
    <3>9. Times(x, b) = Plus(Times(y, b), Times(m, b))
      <4>1. Times(b, Plus(y, m)) = Plus(Times(b, y), Times(b, m))
        BY <2>3, <3>2, Distributes
      <4>2. Times(b, Plus(y, m)) = Times(x, b) /\ Times(b, y) = Times(y, b) /\ Times(b, m) = Times(m, b)
        BY <2>3, <3>2, TimesLaws
      <4> QED
        BY <4>1, <4>2
    <3>10. Plus(s, Times(x, b)) = Plus(a, Times(y, b))
      <4>1. PICK u, w : u = Times(y, b) /\ w = Times(m, b)
        OBVIOUS
      <4>2. u \in Scalar /\ w \in Scalar /\ Plus(s, w) = a /\ Plus(w, u) \in Scalar
        BY <2>9, <3>5, <4>1, RingTypes
      <4>3. Plus(u, w) = Plus(w, u)
        BY <4>2, PlusLaws
      <4>4. Plus(s, Plus(w, u)) = Plus(Plus(s, w), u)
        BY <2>9, <4>2, PlusLaws
      <4> QED
        BY <3>9, <4>1, <4>2, <4>3, <4>4
    <3>11. PICK z : z = Times(x, Times(y, e))
      OBVIOUS
    <3>12. z \in Scalar
      BY <3>5, <3>11
    <3>13. Plus(s, Plus(Times(x, b), z)) = Plus(Plus(s, Times(x, b)), z)
      BY <2>9, <3>5, <3>12, PlusLaws
    <3>14. Plus(a, Plus(Times(y, b), z)) = Plus(Plus(a, Times(y, b)), z)
      BY <3>5, <3>12, PlusLaws
    <3> QED
      BY <3>1, <3>3, <3>4, <3>6, <3>7, <3>8, <3>10, <3>11, <3>13, <3>14
  <2>13. r \in Polynomials((l + 1) + 1)
    BY <2>11 DEF Polynomials
  <2> QED
    BY <2>12, <2>13
<1>4. \A l \in Nat : l \in A => l + 1 \in A
  <2> HIDE DEF Grows
  <2> QED
    BY <1>3
<1>5. \A l \in Nat : l \in A
  <2> HIDE DEF A
  <2> QED
    BY <1>2, <1>4, NatSet
<1> QED
  BY <1>5

(* Through any points goes a polynomial with any number of coefficients that is
   not less than theirs.                                                    *)
LEMMA Interpolates ==
  ASSUME NEW S \in SUBSET Scalar, IsFiniteSet(S), NEW n \in Nat
  PROVE  \A w \in [S -> Scalar] :
           \E c \in Polynomials(n + Cardinality(S)) : \A i \in S : Evaluate(c, i) = w[i]
<1> DEFINE Through(s, w, c) == \A i \in s : Evaluate(c, i) = w[i]
           A == {s \in SUBSET S : \A w \in [S -> Scalar] :
                   \E c \in Polynomials(n + Cardinality(s)) : Through(s, w, c)}
<1>1. {} \in A
  <2> DEFINE c == [k \in 1..n |-> 0]
  <2>1. c \in Seq(Scalar) /\ Len(c) = n
    BY PTypes
  <2>2. Cardinality({}) = 0 /\ n + 0 = n
    BY FS_EmptySet
  <2>3. c \in Polynomials(n)
    BY <2>1 DEF Polynomials
  <2> QED
    BY <2>2, <2>3
<1>2. ASSUME NEW s \in SUBSET S, NEW m \in S \ s, s \in A
      PROVE  s \cup {m} \in A
  <2> SUFFICES ASSUME NEW w \in [S -> Scalar]
               PROVE  \E c \in Polynomials(n + Cardinality(s \cup {m})) : Through(s \cup {m}, w, c)
    OBVIOUS
  <2>1. IsFiniteSet(s) /\ Cardinality(s) \in Nat
    BY FS_Subset, FS_CardinalityType
  <2>2. Cardinality(s \cup {m}) = Cardinality(s) + 1
    BY <1>2, <2>1, FS_AddElement
  <2>3. PICK l : l = n + Cardinality(s)
    OBVIOUS
  <2>4. l \in Nat /\ n + Cardinality(s \cup {m}) = l + 1
    BY <2>1, <2>2, <2>3
  <2>5. \A i \in s : /\ i \in Scalar /\ Minus(i, m) \in Scalar \ {0} /\ Reciprocal(Minus(i, m)) \in Scalar
                     /\ Times(Minus(i, m), Reciprocal(Minus(i, m))) = 1
    <3>1. \A i \in s : i \in Scalar /\ m \in Scalar /\ i # m
      BY <1>2
    <3>2. \A i \in s : Minus(i, m) \in Scalar \ {0}
      BY <3>1, RingTypes, MinusZero
    <3> QED
      BY <3>1, <3>2, ReciprocalExists
  <2> DEFINE slope(i) == Times(Minus(w[i], w[m]), Reciprocal(Minus(i, m)))
             u == [i \in S |-> IF i \in s THEN slope(i) ELSE 0]
  <2>6. \A i \in s : /\ slope(i) \in Scalar /\ w[i] \in Scalar /\ w[m] \in Scalar
                     /\ Minus(w[i], w[m]) \in Scalar
    BY <1>2, <2>5, RingTypes
  <2>7. u \in [S -> Scalar]
    <3> HIDE DEF slope
    <3> QED
      BY <2>6, PTypes
  <2>8. PICK q \in Polynomials(l) : Through(s, u, q)
    <3> HIDE DEF u, Through
    <3> QED
      BY <1>2, <2>3, <2>7
  <2>9. m \in Scalar /\ w[m] \in Scalar
    BY <1>2
  <2>10. PICK c \in Polynomials(l + 1) :
           \A x \in Scalar : Evaluate(c, x) = Plus(w[m], Times(Minus(x, m), Evaluate(q, x)))
    BY <2>4, <2>9, RootTimes
  <2>11. ASSUME NEW i \in s PROVE Evaluate(c, i) = w[i]
    <3>1. PICK y, z, a : y = Minus(i, m) /\ z = Reciprocal(Minus(i, m)) /\ a = Minus(w[i], w[m])
      OBVIOUS
    <3>2. y \in Scalar /\ z \in Scalar /\ a \in Scalar /\ Times(y, z) = 1 /\ Plus(a, w[m]) = w[i]
      BY <2>5, <2>6, <3>1, MinusLaws
    <3>3. Evaluate(q, i) = Times(a, z)
      BY <2>8, <3>1
    <3>4. Times(y, Times(a, z)) = a
      <4>1. Times(y, Times(a, z)) = Times(Times(y, a), z) /\ Times(y, a) = Times(a, y)
        BY <3>2, TimesLaws
      <4>2. Times(Times(a, y), z) = Times(a, Times(y, z))
        BY <3>2, TimesLaws
      <4> QED
        BY <3>2, <4>1, <4>2, TimesLaws
    <3>5. Evaluate(c, i) = Plus(w[m], a)
      BY <2>5, <2>10, <3>1, <3>3, <3>4
    <3>6. Plus(w[m], a) = Plus(a, w[m])
      BY <2>9, <3>2, PlusLaws
    <3> QED
      BY <3>2, <3>5, <3>6
  <2>12. Evaluate(c, m) = w[m]
    <3>1. Minus(m, m) = 0 /\ q \in Seq(Scalar)
      BY <2>9, MinusZero DEF Polynomials
    <3>2. Evaluate(q, m) \in Scalar
      BY <2>9, <3>1, EvaluateType
    <3>3. Times(0, Evaluate(q, m)) = 0
      BY <3>2, TimesLaws
    <3>4. Plus(w[m], 0) = w[m]
      BY <2>9, PlusLaws
    <3> QED
      BY <2>9, <2>10, <3>1, <3>3, <3>4
  <2> QED
    BY <2>4, <2>10, <2>11, <2>12
<1>3. \A s \in SUBSET S : s \in A
  <2> HIDE DEF A
  <2> QED
    BY <1>1, <1>2, PartSet
<1> QED
  BY <1>3

(* Fewer points than coefficients leave the constant term open.             *)
LEMMA PointsHide ==
  ASSUME NEW S \in SUBSET (Scalar \ {0}), IsFiniteSet(S), NEW n \in Nat, Cardinality(S) < n,
         NEW c \in Seq(Scalar), NEW secret \in Scalar
  PROVE  \E d \in NewRandom(secret, n - 1, Scalar) : \A i \in S : Evaluate(d, i) = Evaluate(c, i)
<1> DEFINE R == S \cup {0}
           w == [i \in R |-> IF i = 0 THEN secret ELSE Evaluate(c, i)]
<1>1. Cardinality(S) \in Nat /\ IsFiniteSet(R) /\ Cardinality(R) = Cardinality(S) + 1
  BY FS_CardinalityType, FS_AddElement
<1>2. R \in SUBSET Scalar /\ 0 \in R
  BY PTypes
<1>3. w \in [R -> Scalar]
  BY EvaluateType
<1>4. w[0] = secret /\ \A i \in S : w[i] = Evaluate(c, i)
  BY <1>2
<1> HIDE DEF R, w
<1>5. PICK more : more = n - (Cardinality(S) + 1)
  OBVIOUS
<1>6. more \in Nat /\ more + Cardinality(R) = n
  BY <1>1, <1>5
<1>7. PICK d \in Polynomials(n) : \A i \in R : Evaluate(d, i) = w[i]
  BY <1>1, <1>2, <1>3, <1>6, Interpolates
<1>8. d \in Seq(Scalar) /\ Len(d) = n /\ Len(d) > 0 /\ n - 1 \in Nat
  BY <1>1 DEF Polynomials
<1>9. d[1] = secret
  <2>1. Evaluate(d, 0) = Plus(d[1], Times(0, Evaluate(Tail(d), 0))) /\ d[1] \in Scalar /\ Tail(d) \in Seq(Scalar)
    BY <1>8, EvaluateRest, PTypes
  <2>2. Times(0, Evaluate(Tail(d), 0)) = 0
    BY <2>1, EvaluateType, TimesLaws, PTypes
  <2>3. Plus(d[1], 0) = d[1]
    BY <2>1, PlusLaws
  <2> QED
    BY <1>2, <1>4, <1>7, <2>1, <2>2, <2>3
<1>10. d \in NewRandom(secret, n - 1, Scalar)
  <2> DEFINE cs == [k \in 1..n - 1 |-> d[k + 1]]
  <2>1. cs \in [1..n - 1 -> Scalar] /\ cs \in Seq(Scalar) /\ Len(cs) = n - 1
    <3>1. \A k \in 1..n - 1 : k + 1 \in 1..Len(d)
      BY <1>8
    <3>2. \A k \in 1..n - 1 : d[k + 1] \in Scalar
      BY <1>8, <3>1
    <3> QED
      BY <1>8, <3>2
  <2>2. \A k \in 1..n - 1 : cs[k] = d[k + 1]
    OBVIOUS
  <2> HIDE DEF cs
  <2>3. <<secret>> \in Seq(Scalar) /\ Len(<<secret>>) = 1 /\ <<secret>>[1] = secret
    OBVIOUS
  <2>4. PICK e : e = <<secret>> \o cs
    OBVIOUS
  <2>5. /\ e \in Seq(Scalar) /\ Len(e) = n /\ e[1] = secret
        /\ \A k \in 1..n : k # 1 => e[k] = cs[k - 1]
    BY <1>8, <2>1, <2>3, <2>4
  <2>6. \A k \in 1..n : k # 1 => k - 1 \in 1..n - 1 /\ (k - 1) + 1 = k
    BY <1>8
  <2>7. \A k \in 1..n : e[k] = d[k]
    BY <1>9, <2>2, <2>5, <2>6
  <2>8. e = d
    BY <1>8, <2>5, <2>7
  <2> QED
    BY <2>1, <2>4, <2>8 DEF NewRandom
<1>11. \A i \in S : i \in R
  BY DEF R
<1> QED
  BY <1>4, <1>7, <1>10, <1>11

-----------------------------------------------------------------------------
(* The collection.                                                          *)

Inv ==
  /\ poly \in Seq(Scalar) /\ Len(poly) = T
  /\ hash \in Group \ {Identity}
  /\ Collected(poly, hash, partials)

LEMMA ShareIs ==
  ASSUME NEW i \in Node
  PROVE  Share(i) = Evaluate(poly, i) /\ i \in Scalar \ {0}
<1>1. Node \subseteq Scalar \ {0}
  BY PTypes, CommitteeAssumption DEF Node, Scalar
<1> QED
  BY <1>1 DEF Share, GenerateShares, Node

LEMMA SignersIs ==
  ASSUME Inv
  PROVE  /\ Signers = SignersOf(partials, Len(partials)) /\ Len(partials) \in Nat
         /\ partials \in Seq(Node \X Group)
         /\ Signers \subseteq Node /\ Signers \in SUBSET Scalar
         /\ IsFiniteSet(Signers) /\ Cardinality(Signers) = Len(partials)
<1>1. partials \in Seq(Node \X Group) /\ Len(partials) \in Nat /\ Len(partials) \in 0..Len(partials)
  BY DEF Inv, Collected
<1>2. Signers = SignersOf(partials, Len(partials))
  BY <1>1 DEF Signers, SignersOf
<1> QED
  BY <1>1, <1>2, SignersCounted DEF Inv

LEMMA Invariant == Spec => []Inv
<1>1. Init => Inv
  <2> SUFFICES ASSUME Init PROVE Inv
    OBVIOUS
  <2>1. PICK secret \in Scalar : poly \in NewRandom(secret, T - 1, Scalar)
    BY DEF Init
  <2>2. T - 1 \in Nat /\ (T - 1) + 1 = T
    BY CommitteeAssumption
  <2>3. poly \in Seq(Scalar) /\ Len(poly) = T
    BY <2>1, <2>2, NewRandomType
  <2>4. partials \in Seq(Node \X Group) /\ Len(partials) = 0
    BY DEF Init
  <2>5. Collected(poly, hash, partials)
    BY <2>4 DEF Collected
  <2> QED
    BY <2>3, <2>5 DEF Inv, Init
<1>2. Inv /\ [Next]_vars => Inv'
  <2> SUFFICES ASSUME Inv, [Next]_vars PROVE Inv'
    OBVIOUS
  <2>1. CASE UNCHANGED vars
    BY <2>1 DEF Inv, vars
  <2>2. ASSUME NEW i \in Node, Collect(i) PROVE Inv'
    <3>1. PICK sig : sig = PartialSign(hash, Share(i))
      OBVIOUS
    <3>2. i \notin Signers /\ partials' = Append(partials, <<i, sig>>) /\ UNCHANGED <<poly, hash>>
      BY <2>2, <3>1 DEF Collect
    <3>3. i \in Scalar /\ sig = Times(hash, Evaluate(poly, i))
      BY <3>1, ShareIs DEF PartialSign
    <3>4. sig \in Group
      BY <3>3, EvaluateType, RingTypes DEF Inv, Group, Scalar
    <3>5. PICK v, w, n : v = partials /\ w = partials' /\ n = Len(partials)
      OBVIOUS
    <3>6. v \in Seq(Node \X Group) /\ n \in Nat /\ <<i, sig>> \in Node \X Group /\ n = Len(v)
      BY <3>4, <3>5 DEF Inv, Collected
    <3>7. /\ w \in Seq(Node \X Group) /\ Len(w) = n + 1 /\ w[n + 1] = <<i, sig>>
          /\ \A k \in 1..n : w[k] = v[k]
      BY <3>2, <3>5, <3>6
    <3>8. w[n + 1][1] = i /\ w[n + 1][2] = sig
      BY <3>7
    <3>9. \A k \in 1..n : v[k][1] # i
      <4>1. DOMAIN v = 1..n
        BY <3>6
      <4>2. Signers = {v[k][1] : k \in DOMAIN v}
        BY <3>5 DEF Signers
      <4> QED
        BY <3>2, <4>1, <4>2
    <3>10. \A k \in 1..n + 1 : k \in 1..n \/ k = n + 1
      BY <3>6
    <3>11. \A k \in 1..n + 1 : w[k][2] = Times(hash, Evaluate(poly, w[k][1]))
      BY <3>3, <3>5, <3>6, <3>7, <3>8, <3>10 DEF Inv, Collected
    <3>12. \A k, l \in 1..n + 1 : w[k][1] = w[l][1] => k = l
      BY <3>5, <3>6, <3>7, <3>8, <3>9, <3>10 DEF Inv, Collected
    <3>13. Collected(poly, hash, w)
      BY <3>7, <3>11, <3>12 DEF Collected
    <3>14. Collected(poly', hash', partials')
      BY <3>2, <3>5, <3>13
    <3> QED
      BY <3>2, <3>14 DEF Inv
  <2> QED
    BY <2>1, <2>2 DEF Next
<1> QED
  BY <1>1, <1>2, PTL DEF Spec

(* The list holds one signature at most for each signer (replica.rs:419-422, the
   test before push_vote).                                                  *)
THEOREM Types == Spec => []TypeOK
<1>1. Inv => TypeOK
  <2> SUFFICES ASSUME Inv PROVE TypeOK
    OBVIOUS
  <2>1. poly \in [1..T -> Scalar]
    BY DEF Inv
  <2> QED
    BY <2>1, SignersIs DEF Inv, TypeOK
<1> QED
  BY <1>1, Invariant, PTL

(* vss.rs:38-88: the share dealt to a member, and no other value, opens the
   commitment at its point.                                                 *)
THEOREM SharesMatch == Spec => []SharesMatchCommitment
<1>1. Inv => SharesMatchCommitment
  <2> SUFFICES ASSUME Inv, NEW i \in Node
               PROVE  /\ VerifyShare(Commit(poly), i, Share(i))
                      /\ \A s \in Scalar \ {Share(i)} : ~VerifyShare(Commit(poly), i, s)
    BY DEF SharesMatchCommitment
  <2>1. Share(i) = Evaluate(poly, i) /\ i \in Scalar /\ poly \in Seq(Scalar)
    BY ShareIs DEF Inv
  <2>2. VerifyShare(Commit(poly), i, Share(i))
    BY <2>1, SharesVerify
  <2>3. ASSUME NEW s \in Scalar, VerifyShare(Commit(poly), i, s) PROVE s = Share(i)
    <3>1. Exp(Evaluate(poly, i)) = Exp(s)
      BY <2>1, <2>3, ShareCommitted DEF VerifyShare
    <3> QED
      BY <2>1, <3>1, ExpInjective, EvaluateType
  <2> QED
    BY <2>2, <2>3
<1> QED
  BY <1>1, Invariant, PTL

(* signing.rs combine_dynamic: once a quorum has signed, its partial signatures
   combine to the one signature of the group key, which verifies; replicas that
   combined different quorums have the same seed.                           *)
THEOREM QuorumsSign == Spec => []QuorumSigns
<1>1. Inv => QuorumSigns
  <2> SUFFICES ASSUME Inv, Len(partials) >= T
               PROVE  /\ CombineDynamic(partials, T) = Signature
                      /\ VerifySignature(hash, CombineDynamic(partials, T), PublicKey)
    BY DEF QuorumSigns
  <2>1. /\ poly \in Seq(Scalar) /\ Len(poly) = T /\ hash \in Scalar
        /\ Collected(poly, hash, partials) /\ Len(partials) \in Nat
    BY SignersIs DEF Inv, Group, Scalar
  <2>2. T \in 1..Len(partials) /\ Len(poly) \in 1..T
    BY <2>1, CommitteeAssumption
  <2>3. CombineDynamic(partials, T) = Signature
    BY <2>1, <2>2, CombinesToSignature DEF Signature, GroupSign
  <2>4. VerifySignature(hash, Signature, PublicKey)
    <3>1. PICK a : a = poly[1]
      OBVIOUS
    <3>2. a \in Scalar /\ Gen \in Scalar
      BY <2>1, <2>2, <3>1, PTypes
    <3>3. Times(Times(Gen, a), hash) = Times(Gen, Times(a, hash)) /\ Times(a, hash) = Times(hash, a)
      BY <2>1, <3>2, TimesLaws
    <3> QED
      BY <3>1, <3>3 DEF VerifySignature, Signature, GroupSign, PublicKey, PartialSign, Exp
  <2> QED
    BY <2>3, <2>4
<1> QED
  BY <1>1, Invariant, PTL

(* protocol.rs:687-724: whatever fewer than T members hold, every secret is that
   of some polynomial that deals them the same shares.                      *)
THEOREM FewerHide == Spec => []FewerSharesHideSecret
<1>1. Inv => FewerSharesHideSecret
  <2> SUFFICES ASSUME Inv, Len(partials) < T, NEW secret \in Scalar
               PROVE  \E c \in NewRandom(secret, T - 1, Scalar) : \A i \in Signers : Evaluate(c, i) = Share(i)
    BY DEF FewerSharesHideSecret
  <2>1. /\ Signers \subseteq Node /\ IsFiniteSet(Signers) /\ Cardinality(Signers) < T
        /\ T \in Nat /\ poly \in Seq(Scalar)
    BY SignersIs, CommitteeAssumption DEF Inv
  <2>2. \A i \in Signers : Share(i) = Evaluate(poly, i) /\ i \in Scalar \ {0}
    BY <2>1, ShareIs
  <2>3. Signers \in SUBSET (Scalar \ {0})
    BY <2>2
  <2>4. PICK c \in NewRandom(secret, T - 1, Scalar) : \A i \in Signers : Evaluate(c, i) = Evaluate(poly, i)
    BY <2>1, <2>3, PointsHide
  <2> QED
    BY <2>2, <2>4
<1> QED
  BY <1>1, Invariant, PTL

(* The subsets of a cache.                                                   *)

(* cache.rs: whatever is asked for, a cache keeps quorums, one at least.     *)
LEMMA CacheKeeps ==
  ASSUME NEW num_check \in Nat
  PROVE  LET cache == LagrangeCache([i \in Node |-> i], T, num_check)
         IN  /\ Len(cache) \in Nat \ {0} /\ DOMAIN cache = 1..Len(cache)
             /\ \A m \in DOMAIN cache :
                  \E S \in SUBSET Node : /\ IsFiniteSet(S) /\ Cardinality(S) = T
                                         /\ cache[m] = [i \in S |-> LagrangeCoeff(i, S)]
<1> DEFINE ids == [i \in Node |-> i]
           all == Combinations(ids, T)
           cache == LagrangeCache(ids, T, num_check)
<1>1. /\ all \in Seq(Seq(Nat)) /\ Len(all) > 0 /\ Len(all) \in Nat \ {0}
      /\ \A x \in 1..Len(all) : Combination(all[x], N, N, T)
  <2>1. N \in Nat /\ T \in 0..N /\ Node = 1..N
    BY CommitteeAssumption DEF Node
  <2>2. all = Combinations([i \in 1..N |-> i], T)
    BY <2>1
  <2> HIDE DEF all
  <2>3. /\ all \in Seq(Seq(Nat)) /\ Len(all) > 0
        /\ \A x \in 1..Len(all) : Combination(all[x], N, N, T)
    BY <2>1, <2>2, CombinationsList
  <2> QED
    BY <2>3
<1> HIDE DEF all
<1>2. PICK total, indices : total = Len(all) /\ indices = CacheIndices(total, num_check)
  OBVIOUS
<1>3. total \in Nat \ {0}
  BY <1>1, <1>2
<1>4. /\ indices \in Seq(0..total - 1) /\ Len(indices) > 0
      /\ ToSet(indices) \subseteq 0..total - 1
  BY <1>2, <1>3, CacheIndicesList
<1>5. DOMAIN indices = 1..Len(indices) /\ Len(indices) \in Nat \ {0}
  BY <1>4
<1> DEFINE Members(m) == ToSet(all[indices[m] + 1])
<1>6. cache = [m \in DOMAIN indices |-> [i \in Members(m) |-> LagrangeCoeff(i, Members(m))]]
  BY <1>2 DEF LagrangeCache, all
<1> HIDE DEF cache
<1>7. DOMAIN cache = 1..Len(indices) /\ Len(cache) = Len(indices)
  BY <1>5, <1>6
<1>8. ASSUME NEW m \in DOMAIN cache
      PROVE  \E S \in SUBSET Node : /\ IsFiniteSet(S) /\ Cardinality(S) = T
                                    /\ cache[m] = [i \in S |-> LagrangeCoeff(i, S)]
  <2>1. PICK S : S = Members(m)
    OBVIOUS
  <2>2. m \in 1..Len(indices)
    BY <1>7
  <2>3. indices[m] \in 0..total - 1
    <3>1. indices[m] \in ToSet(indices)
      BY <1>5, <2>2 DEF ToSet
    <3> QED
      BY <1>4, <3>1
  <2>4. indices[m] + 1 \in 1..Len(all)
    BY <1>2, <1>3, <2>3
  <2>5. Combination(all[indices[m] + 1], N, N, T)
    BY <1>1, <2>4
  <2>6. N - N + 1..N = Node
    BY CommitteeAssumption DEF Node
  <2>7. S \subseteq Node /\ IsFiniteSet(S) /\ Cardinality(S) = T
    BY <2>1, <2>5, <2>6 DEF Combination
  <2>8. cache[m] = [i \in S |-> LagrangeCoeff(i, S)]
    BY <1>5, <1>6, <1>7, <2>1
  <2> QED
    BY <2>7, <2>8
<1> QED
  BY <1>5, <1>7, <1>8 DEF cache

(* combine_one over a quorum whose partial signatures are those of its shares. *)
LEMMA QuorumCombines ==
  ASSUME NEW c \in Seq(Scalar), Len(c) = T, NEW h \in Scalar,
         NEW S \in SUBSET Node, IsFiniteSet(S), Cardinality(S) = T,
         NEW signed, \A i \in S : signed[i] = Times(h, Evaluate(c, i))
  PROVE  CombineOne([i \in S |-> LagrangeCoeff(i, S)], signed) = PartialSign(h, c[1])
<1> DEFINE coeffs == [i \in S |-> LagrangeCoeff(i, S)]
           share == [i \in S |-> Evaluate(c, i)]
<1>1. S \in SUBSET Scalar /\ Len(c) <= Cardinality(S) /\ Len(c) # 0
  <2>1. S \subseteq Scalar
    BY ShareIs
  <2> QED
    BY <2>1, CommitteeAssumption
<1>2. share \in [S -> Scalar] /\ \A i \in S : signed[i] = Times(h, share[i])
  BY <1>1, EvaluateType
<1>3. CombineOne(coeffs, signed) = Total([i \in S |-> Times(signed[i], LagrangeCoeff(i, S))])
  <2>1. DOMAIN coeffs = S /\ \A i \in S : coeffs[i] = LagrangeCoeff(i, S)
    OBVIOUS
  <2> HIDE DEF coeffs
  <2>2. CombineOne(coeffs, signed) = Total([i \in DOMAIN coeffs |-> Times(signed[i], coeffs[i])])
    BY DEF CombineOne
  <2>3. [i \in DOMAIN coeffs |-> Times(signed[i], coeffs[i])]
          = [i \in S |-> Times(signed[i], LagrangeCoeff(i, S))]
    BY <2>1
  <2> QED
    BY <2>2, <2>3
<1> HIDE DEF share
<1>4. [i \in S |-> Times(signed[i], LagrangeCoeff(i, S))]
        = [i \in S |-> Times(Times(h, share[i]), LagrangeCoeff(i, S))]
  BY <1>2
<1>5. At0(S, [i \in S |-> Times(h, share[i])])
        = Total([i \in S |-> Times(Times(h, share[i]), LagrangeCoeff(i, S))])
  BY DEF At0
<1>6. At0(S, [i \in S |-> Times(h, share[i])]) = Times(h, At0(S, share))
  BY <1>1, <1>2, At0Times
<1>7. At0(S, share) = c[1]
  <2>1. At0(S, share) = Constant(c)
    BY <1>1, At0Evaluate DEF share
  <2> QED
    BY <1>1, <2>1 DEF Constant
<1> QED
  BY <1>3, <1>4, <1>5, <1>6, <1>7 DEF PartialSign

(* cache.rs and threshold_crypto main.rs: every subset a cache keeps, however many
   it is asked for, combines the partial signatures to the one signature, and the
   subsets kept are as evenly spread as the code says.                      *)
THEOREM CachesAgree == Spec => []CacheAgrees
<1> DEFINE ids == [i \in Node |-> i]
           all == Combinations(ids, T)
           bySigner == [i \in Node |-> PartialSign(hash, Share(i))]
<1>1. Len(all) \in Nat \ {0}
  <2>1. N \in Nat /\ T \in 0..N /\ Node = 1..N
    BY CommitteeAssumption DEF Node
  <2>2. all = Combinations([i \in 1..N |-> i], T)
    BY <2>1
  <2> HIDE DEF all
  <2>3. all \in Seq(Seq(Nat)) /\ Len(all) > 0
    BY <2>1, <2>2, CombinationsList
  <2> QED
    BY <2>3
<1>2. ASSUME Inv, NEW num_check \in 0..N + 2
      PROVE  LET total == Len(all)
                 indices == CacheIndices(total, num_check)
                 cache == LagrangeCache(ids, T, num_check)
             IN  /\ ToSet(indices) \subseteq 0..total - 1
                 /\ \A m \in 1..Len(indices) - 1 : indices[m] < indices[m + 1]
                 /\ num_check > 1 => {0, total - 1} \subseteq ToSet(indices)
                 /\ cache # <<>>
                 /\ \A m \in DOMAIN cache : CombineOne(cache[m], bySigner) = Signature
  <2> DEFINE cache == LagrangeCache(ids, T, num_check)
  <2> HIDE DEF all
  <2>1. PICK total, indices : total = Len(all) /\ indices = CacheIndices(total, num_check)
    OBVIOUS
  <2>2. total \in Nat \ {0} /\ num_check \in Nat
    BY <1>1, <2>1, CommitteeAssumption
  <2>3. /\ ToSet(indices) \subseteq 0..total - 1
        /\ \A m \in 1..Len(indices) - 1 : indices[m] < indices[m + 1]
        /\ num_check > 1 => {0, total - 1} \subseteq ToSet(indices)
    BY <2>1, <2>2, CacheIndicesList
  <2>4. /\ Len(cache) \in Nat \ {0} /\ DOMAIN cache = 1..Len(cache)
        /\ \A m \in DOMAIN cache :
             \E S \in SUBSET Node : /\ IsFiniteSet(S) /\ Cardinality(S) = T
                                    /\ cache[m] = [i \in S |-> LagrangeCoeff(i, S)]
    BY <2>2, CacheKeeps
  <2> HIDE DEF cache
  <2>5. cache # <<>>
    <3>1. 1 \in DOMAIN cache /\ DOMAIN <<>> = {}
      BY <2>4
    <3> QED
      BY <3>1
  <2>6. ASSUME NEW m \in DOMAIN cache PROVE CombineOne(cache[m], bySigner) = Signature
    <3>1. PICK S \in SUBSET Node : /\ IsFiniteSet(S) /\ Cardinality(S) = T
                                  /\ cache[m] = [i \in S |-> LagrangeCoeff(i, S)]
      BY <2>4
    <3>2. \A i \in S : bySigner[i] = Times(hash, Evaluate(poly, i))
      BY ShareIs DEF PartialSign
    <3>3. poly \in Seq(Scalar) /\ Len(poly) = T /\ hash \in Scalar
      BY <1>2 DEF Inv, Group, Scalar
    <3> HIDE DEF bySigner
    <3>4. CombineOne([i \in S |-> LagrangeCoeff(i, S)], bySigner) = PartialSign(hash, poly[1])
      BY <3>1, <3>2, <3>3, QuorumCombines
    <3> QED
      BY <3>1, <3>4 DEF Signature, GroupSign
  <2> HIDE DEF bySigner, ids
  <2> QED
    BY <2>1, <2>3, <2>5, <2>6 DEF cache
<1>3. Inv => CacheAgrees
  BY <1>2 DEF CacheAgrees, all
<1> QED
  BY <1>3, Invariant, PTL

-----------------------------------------------------------------------------
(* The beacon.                                                               *)

LEMMA TimesInjective ==
  ASSUME NEW a \in Scalar \ {0}, NEW h \in Scalar, NEW g \in Scalar, Times(h, a) = Times(g, a)
  PROVE  h = g
<1> DEFINE d == Minus(h, g)
<1>1. d \in Scalar /\ Plus(d, g) = h /\ a \in Scalar
  BY RingTypes, MinusLaws
<1> HIDE DEF d
<1>2. Times(a, Plus(d, g)) = Plus(Times(a, d), Times(a, g))
  BY <1>1, Distributes
<1>3. Times(a, h) = Times(h, a) /\ Times(a, g) = Times(g, a)
  BY <1>1, TimesLaws
<1>4. Times(a, d) \in Scalar /\ Times(a, g) \in Scalar /\ 0 \in Scalar
  BY <1>1, RingTypes, PTypes
<1>5. Plus(Times(a, d), Times(a, g)) = Plus(0, Times(a, g))
  BY <1>1, <1>2, <1>3, <1>4, PlusLaws
<1>6. Times(a, d) = 0
  BY <1>4, <1>5, PlusCancels
<1>7. d = 0
  BY <1>1, <1>6, Cancel
<1> QED
  BY <1>1, <1>7, PlusLaws

(* signing.rs verify: a signature verifies under a key when it is the one of the
   key's secret.                                                            *)
LEMMA VerifiesIs ==
  ASSUME NEW h \in Scalar, NEW s \in Scalar, NEW a \in Scalar
  PROVE  VerifySignature(h, s, Exp(a)) <=> s = Times(h, a)
<1>1. Gen \in Scalar /\ Times(a, h) \in Scalar /\ Times(a, h) = Times(h, a)
  BY PTypes, RingTypes, TimesLaws
<1>2. Times(Times(Gen, a), h) = Times(Gen, Times(a, h))
  BY <1>1, TimesLaws
<1>3. VerifySignature(h, s, Exp(a)) <=> Exp(Times(a, h)) = Exp(s)
  BY <1>2 DEF VerifySignature, Exp
<1> QED
  BY <1>1, <1>3, ExpInjective

(* threshold_combine, for a polynomial c and shares off by e.                *)
OffShares(c, e, h) == [i \in Node |-> PartialSign(h, Plus(GenerateShares(c, N)[i], e[i]))]
Results(c, e, h) == [m \in DOMAIN Cache |-> CombineOne(Cache[m], OffShares(c, e, h))]
Combined(c, e, h, do_verify) ==
  LET results == Results(c, e, h)
  IN  [sig |-> results[1], match |-> \A m \in 1..Len(results) - 1 : results[m] = results[m + 1],
       valid |-> do_verify => VerifySignature(h, results[1], Exp(c[1]))]

LEMMA CombinedIs ==
  ASSUME NEW h, NEW do_verify
  PROVE  ThresholdCombine(h, do_verify) = Combined(poly, error, h, do_verify)
BY DEF ThresholdCombine, Combined, Results, OffShares, KeyShare, Share, PublicKey

Faultless(e) == {i \in Node : e[i] = 0}

(* What the subsets of the cache give: the group's signature, for those without a
   share that is off.                                                       *)
LEMMA ResultsAre ==
  ASSUME NEW c \in Seq(Scalar), Len(c) = T, NEW e \in [Node -> {0, 1}], NEW h \in Scalar
  PROVE  /\ Len(Cache) \in Nat \ {0} /\ DOMAIN Cache = 1..Len(Cache)
         /\ DOMAIN Results(c, e, h) = 1..Len(Cache) /\ Len(Results(c, e, h)) = Len(Cache)
         /\ \A m \in 1..Len(Cache) :
              /\ DOMAIN Cache[m] \subseteq Node
              /\ Results(c, e, h)[m] \in Scalar
              /\ DOMAIN Cache[m] \subseteq Faultless(e) => Results(c, e, h)[m] = Times(h, c[1])
<1> DEFINE signed == OffShares(c, e, h)
<1>1. /\ Len(Cache) \in Nat \ {0} /\ DOMAIN Cache = 1..Len(Cache)
      /\ \A m \in DOMAIN Cache :
           \E S \in SUBSET Node : /\ IsFiniteSet(S) /\ Cardinality(S) = T
                                  /\ Cache[m] = [i \in S |-> LagrangeCoeff(i, S)]
  BY BeaconAssumption, CacheKeeps DEF Cache
<1>2. DOMAIN Results(c, e, h) = 1..Len(Cache) /\ Len(Results(c, e, h)) = Len(Cache)
  BY <1>1 DEF Results
<1>3. \A i \in Node : GenerateShares(c, N)[i] = Evaluate(c, i) /\ Evaluate(c, i) \in Scalar
  BY ShareIs, EvaluateType DEF GenerateShares, Node
<1>4. \A i \in Node : e[i] \in Scalar
  BY PTypes
<1>5. \A i \in Node : signed[i] = Times(h, Plus(Evaluate(c, i), e[i])) /\ signed[i] \in Scalar
  <2>1. \A i \in Node : signed[i] = Times(h, Plus(Evaluate(c, i), e[i]))
    BY <1>3 DEF OffShares, PartialSign
  <2> QED
    BY <1>3, <1>4, <2>1, RingTypes
<1> HIDE DEF signed
<1>6. ASSUME NEW m \in 1..Len(Cache)
      PROVE  /\ DOMAIN Cache[m] \subseteq Node
             /\ Results(c, e, h)[m] \in Scalar
             /\ DOMAIN Cache[m] \subseteq Faultless(e) => Results(c, e, h)[m] = Times(h, c[1])
  <2>1. PICK S \in SUBSET Node : /\ IsFiniteSet(S) /\ Cardinality(S) = T
                                 /\ Cache[m] = [i \in S |-> LagrangeCoeff(i, S)]
    BY <1>1
  <2>2. DOMAIN Cache[m] = S
    BY <2>1
  <2>3. Results(c, e, h)[m] = CombineOne(Cache[m], signed)
    BY <1>1 DEF Results, signed
  <2>4. CombineOne(Cache[m], signed) \in Scalar
    <3>1. S \in SUBSET Scalar
      BY ShareIs
    <3>2. \A i \in S : Times(signed[i], LagrangeCoeff(i, S)) \in Scalar
      BY <1>5, <2>1, <3>1, CoeffRemove, RingTypes
    <3> DEFINE f == [i \in S |-> Times(signed[i], LagrangeCoeff(i, S))]
    <3>3. f \in [S -> Scalar]
      BY <3>2
    <3>4. [i \in DOMAIN Cache[m] |-> Times(signed[i], Cache[m][i])] = f
      BY <2>1
    <3> HIDE DEF f
    <3>5. Total(f) \in Scalar
      BY <2>1, <3>3, TotalType
    <3> QED
      BY <3>4, <3>5 DEF CombineOne
  <2>5. ASSUME S \subseteq Faultless(e) PROVE CombineOne(Cache[m], signed) = Times(h, c[1])
    <3>1. \A i \in S : i \in Node /\ e[i] = 0
      BY <2>5 DEF Faultless
    <3>2. \A i \in S : signed[i] = Times(h, Evaluate(c, i))
      BY <1>3, <1>5, <3>1, PlusLaws
    <3>3. CombineOne([i \in S |-> LagrangeCoeff(i, S)], signed) = PartialSign(h, c[1])
      BY <2>1, <3>2, QuorumCombines
    <3> QED
      BY <2>1, <3>3 DEF PartialSign
  <2> QED
    BY <2>2, <2>3, <2>4, <2>5
<1> QED
  BY <1>1, <1>2, <1>6

LEMMA AdjacentEqual ==
  ASSUME NEW n \in Nat \ {0}, NEW v, \A m \in 1..n - 1 : v[m] = v[m + 1]
  PROVE  \A m \in 1..n : v[m] = v[1]
<1> DEFINE A == {m \in Nat : m + 1 \in 1..n => v[m + 1] = v[1]}
<1>1. 0 \in A
  OBVIOUS
<1>2. \A m \in Nat : m \in A => m + 1 \in A
  <2> SUFFICES ASSUME NEW m \in Nat, m \in A, (m + 1) + 1 \in 1..n
               PROVE  v[(m + 1) + 1] = v[1]
    OBVIOUS
  <2>1. m + 1 \in 1..n - 1 /\ m + 1 \in 1..n
    OBVIOUS
  <2> QED
    BY <2>1
<1>3. \A m \in Nat : m \in A
  <2> HIDE DEF A
  <2> QED
    BY <1>1, <1>2, NatSet
<1> QED
  <2> SUFFICES ASSUME NEW m \in 1..n PROVE v[m] = v[1]
    OBVIOUS
  <2>1. m - 1 \in Nat /\ (m - 1) + 1 = m
    OBVIOUS
  <2>2. m - 1 \in A
    BY <1>3, <2>1
  <2> QED
    BY <2>1, <2>2

Spared(e) == \E m \in DOMAIN Cache : DOMAIN Cache[m] \subseteq Faultless(e)

(* A match of all subsets is right if one of them is, and a verified signature is
   shown as what it is.                                                     *)
LEMMA CombinedShows ==
  ASSUME NEW c \in Seq(Scalar), Len(c) = T, NEW e \in [Node -> {0, 1}], NEW h \in Scalar,
         NEW do_verify \in BOOLEAN
  PROVE  LET r == Combined(c, e, h, do_verify)
         IN  /\ r.sig \in Scalar
             /\ Spared(e) /\ r.match => r.sig = Times(h, c[1])
             /\ Faultless(e) = Node => r.match /\ r.valid /\ r.sig = Times(h, c[1])
             /\ do_verify => (r.valid <=> r.sig = Times(h, c[1]))
<1> DEFINE r == Combined(c, e, h, do_verify)
<1>1. PICK results, n : results = Results(c, e, h) /\ n = Len(Cache)
  OBVIOUS
<1>2. /\ n \in Nat \ {0} /\ DOMAIN Cache = 1..n /\ Len(results) = n
      /\ \A m \in 1..n : /\ DOMAIN Cache[m] \subseteq Node /\ results[m] \in Scalar
                         /\ DOMAIN Cache[m] \subseteq Faultless(e) => results[m] = Times(h, c[1])
  BY <1>1, ResultsAre
<1>3. /\ r.sig = results[1]
      /\ r.match = (\A m \in 1..n - 1 : results[m] = results[m + 1])
      /\ r.valid = (do_verify => VerifySignature(h, results[1], Exp(c[1])))
  BY <1>1, <1>2 DEF Combined
<1> HIDE DEF r
<1>4. 1 \in 1..n /\ \A m \in 1..n - 1 : m \in 1..n /\ m + 1 \in 1..n
  BY <1>2
<1>5. c[1] \in Scalar
  BY CommitteeAssumption
<1>6. VerifySignature(h, results[1], Exp(c[1])) <=> results[1] = Times(h, c[1])
  BY <1>2, <1>4, <1>5, VerifiesIs
<1>7. Spared(e) /\ r.match => r.sig = Times(h, c[1])
  <2> SUFFICES ASSUME Spared(e), r.match PROVE r.sig = Times(h, c[1])
    OBVIOUS
  <2>1. PICK m \in 1..n : DOMAIN Cache[m] \subseteq Faultless(e)
    BY <1>2 DEF Spared
  <2>2. \A l \in 1..n : results[l] = results[1]
    BY <1>2, <1>3, AdjacentEqual
  <2> QED
    BY <1>2, <1>3, <2>1, <2>2
<1>8. Faultless(e) = Node => r.match /\ r.valid /\ r.sig = Times(h, c[1])
  <2> SUFFICES ASSUME Faultless(e) = Node PROVE r.match /\ r.valid /\ r.sig = Times(h, c[1])
    OBVIOUS
  <2>1. \A m \in 1..n : results[m] = Times(h, c[1])
    BY <1>2
  <2> QED
    BY <1>3, <1>4, <1>6, <2>1
<1> QED
  BY <1>2, <1>3, <1>4, <1>6, <1>7, <1>8 DEF r

-----------------------------------------------------------------------------
(* The rounds so far.                                                        *)

PrevOf(r, mode) == IF mode = "chained" THEN r.prev ELSE NoneSig
Message(rs, k, mode) == DigestMessage(k - 1, PrevOf(rs[k], mode))

(* The digests of the rounds were hashed, each to a value of its own, and what a
   round shows is what the combination of its two signatures gave.          *)
Shows(c, e, o, rs) ==
  \A k \in 1..Len(rs) :
    /\ \A mode \in Mode : Message(rs, k, mode) \in DOMAIN o
    /\ rs[k].chained = Combined(c, e, o[Message(rs, k, "chained")], DoVerify(k - 1))
    /\ rs[k].unchained = Combined(c, e, o[Message(rs, k, "unchained")], DoVerify(k - 1))

Hashes(o, n) ==
  /\ \A m \in DOMAIN o : o[m] \in Scalar \ {0} /\ m.round \in 0..n - 1
  /\ \A m, l \in DOMAIN o : o[m] = o[l] => m = l

Chains(rs, last) ==
  /\ \A k \in 1..Len(rs) : rs[k].prev # NoneSig
  /\ \A k \in 1..Len(rs) - 1 : rs[k + 1].prev = rs[k].chained.sig
  /\ IF rs = <<>> THEN last = Zeros ELSE rs[1].prev = Zeros /\ last = rs[Len(rs)].chained.sig
  /\ last # NoneSig

(* The loop goes on after a match only.                                      *)
Matches(rs, ended) ==
  \A k \in 1..Len(rs) : k < Len(rs) \/ ~ended => rs[k].chained.match /\ rs[k].unchained.match

BeaconInv ==
  /\ poly \in Seq(Scalar) /\ Len(poly) = T /\ error \in [Node -> {0, 1}]
  /\ \E V : rounds \in Seq(V)
  /\ Shows(poly, error, oracle, rounds)
  /\ Hashes(oracle, Len(rounds))
  /\ Chains(rounds, prev_chained)
  /\ Matches(rounds, exited)

LEMMA BeaconInvInit == BeaconInit => BeaconInv
<1> SUFFICES ASSUME BeaconInit PROVE BeaconInv
  OBVIOUS
<1>1. PICK secret \in Draws : poly \in NewRandom(secret, T - 1, Draws)
  BY DEF BeaconInit
<1>2. T - 1 \in Nat /\ (T - 1) + 1 = T /\ Draws \in SUBSET Scalar /\ secret \in Scalar
  BY CommitteeAssumption, BeaconAssumption
<1>3. poly \in Seq(Scalar) /\ Len(poly) = T
  BY <1>1, <1>2, NewRandomType
<1>4. error \in [Node -> {0, 1}]
  BY DEF BeaconInit
<1>5. rounds \in Seq({}) /\ Len(rounds) = 0 /\ rounds = <<>> /\ DOMAIN oracle = {}
      /\ prev_chained = Zeros
  BY DEF BeaconInit, AtRest
<1>6. Shows(poly, error, oracle, rounds) /\ Hashes(oracle, Len(rounds))
      /\ Chains(rounds, prev_chained) /\ Matches(rounds, exited)
  BY <1>5 DEF Shows, Hashes, Chains, Matches, NoneSig, Zeros
<1> QED
  BY <1>3, <1>4, <1>5, <1>6 DEF BeaconInv

LEMMA Widened ==
  ASSUME NEW V, NEW v \in Seq(V), NEW x
  PROVE  /\ Append(v, x) \in Seq(V \cup {x}) /\ Len(Append(v, x)) = Len(v) + 1
         /\ Append(v, x)[Len(v) + 1] = x /\ \A k \in 1..Len(v) : Append(v, x)[k] = v[k]
<1>1. v \in Seq(V \cup {x})
  BY \A k \in 1..Len(v) : v[k] \in V \cup {x}
<1> QED
  BY <1>1

LEMMA BeaconInvNext == BeaconInv /\ RunRound => BeaconInv'
<1> SUFFICES ASSUME BeaconInv, RunRound PROVE BeaconInv'
  OBVIOUS
<1>1. PICK n, cm, um : /\ n = Len(rounds) /\ cm = DigestMessage(n, prev_chained)
                       /\ um = DigestMessage(n, NoneSig)
  OBVIOUS
<1>2. PICK answers \in [{cm, um} -> (1..P - 1) \ {oracle[m] : m \in DOMAIN oracle}] :
        /\ cm # um => answers[cm] # answers[um]
        /\ oracle' = [m \in DOMAIN oracle \cup DOMAIN answers |->
                        IF m \in DOMAIN answers THEN answers[m] ELSE oracle[m]]
        /\ rounds' = Append(rounds, [prev |-> prev_chained,
                                     chained |-> ThresholdCombine(answers[cm], DoVerify(n)),
                                     unchained |-> ThresholdCombine(answers[um], DoVerify(n))])
        /\ prev_chained' = ThresholdCombine(answers[cm], DoVerify(n)).sig
        /\ exited' = ~(/\ ThresholdCombine(answers[cm], DoVerify(n)).match
                       /\ ThresholdCombine(answers[um], DoVerify(n)).match)
  BY <1>1 DEF RunRound, Fresh
<1>3. ~exited /\ UNCHANGED <<poly, error>>
  BY DEF RunRound
<1>4. PICK rc, ru : /\ rc = Combined(poly, error, answers[cm], DoVerify(n))
                    /\ ru = Combined(poly, error, answers[um], DoVerify(n))
  OBVIOUS
<1>5. PICK new : new = [prev |-> prev_chained, chained |-> rc, unchained |-> ru]
  OBVIOUS
<1>6. /\ rounds' = Append(rounds, new) /\ prev_chained' = rc.sig
      /\ exited' = ~(rc.match /\ ru.match)
  BY <1>2, <1>4, <1>5, CombinedIs
<1>7. /\ new.prev = prev_chained /\ new.chained = rc /\ new.unchained = ru
  BY <1>5
<1>8. PICK V, rs, rs1 : rounds \in Seq(V) /\ rs = rounds /\ rs1 = rounds'
  BY DEF BeaconInv
<1>9. n \in Nat /\ rs \in Seq(V) /\ Len(rs) = n
  BY <1>1, <1>8
<1>10. /\ rs1 \in Seq(V \cup {new}) /\ Len(rs1) = n + 1 /\ rs1[n + 1] = new
       /\ \A k \in 1..n : rs1[k] = rs[k]
  BY <1>6, <1>8, <1>9, Widened
<1>11. \A k \in 1..n + 1 : k \in 1..n \/ k = n + 1
  BY <1>9
<1>12. PICK o, o1 : o = oracle /\ o1 = oracle'
  OBVIOUS
<1>13. /\ DOMAIN o1 = DOMAIN o \cup {cm, um}
       /\ o1[cm] = answers[cm] /\ o1[um] = answers[um]
       /\ \A m \in DOMAIN o \ {cm, um} : o1[m] = o[m]
  BY <1>2, <1>12
<1>14. cm.round = n /\ um.round = n /\ cm.prev = prev_chained /\ um.prev = NoneSig
  BY <1>1 DEF DigestMessage
<1>15. /\ \A m \in DOMAIN o : o[m] \in Scalar \ {0} /\ m.round \in 0..n - 1
       /\ \A m, l \in DOMAIN o : o[m] = o[l] => m = l
  BY <1>8, <1>9, <1>12 DEF BeaconInv, Hashes
<1>16. cm \notin DOMAIN o /\ um \notin DOMAIN o
  BY <1>9, <1>14, <1>15
<1>17. \A m \in {cm, um} : answers[m] \in Scalar \ {0} /\ \A l \in DOMAIN o : o[l] # answers[m]
  <2>1. \A m \in {cm, um} : answers[m] \in 1..P - 1 /\ \A l \in DOMAIN o : o[l] # answers[m]
    BY <1>2, <1>12
  <2>2. 1..P - 1 \subseteq Scalar \ {0}
    BY PTypes DEF Scalar
  <2> QED
    BY <2>1, <2>2
<1>18. Hashes(o1, n + 1)
  <2>1. \A m \in DOMAIN o1 : o1[m] \in Scalar \ {0} /\ m.round \in 0..(n + 1) - 1
    <3>1. 0..n - 1 \subseteq 0..(n + 1) - 1 /\ n \in 0..(n + 1) - 1
      BY <1>9
    <3>2. \A m \in DOMAIN o : o1[m] \in Scalar \ {0} /\ m.round \in 0..(n + 1) - 1
      BY <1>13, <1>15, <1>16, <3>1
    <3>3. \A m \in {cm, um} : o1[m] \in Scalar \ {0} /\ m.round \in 0..(n + 1) - 1
      BY <1>13, <1>14, <1>17, <3>1
    <3> QED
      BY <1>13, <3>2, <3>3
  <2>2. \A m \in DOMAIN o : o1[m] = o[m]
    BY <1>13, <1>16
  <2>3. \A m \in {cm, um} : o1[m] = answers[m]
    BY <1>13
  <2>4. \A m, l \in {cm, um} : o1[m] = o1[l] => m = l
    BY <1>2, <2>3
  <2>5. \A m \in {cm, um}, l \in DOMAIN o : o1[m] # o1[l]
    BY <1>17, <2>2, <2>3
  <2>6. \A m, l \in DOMAIN o1 : o1[m] = o1[l] => m = l
    <3> SUFFICES ASSUME NEW m \in DOMAIN o1, NEW l \in DOMAIN o1, o1[m] = o1[l] PROVE m = l
      OBVIOUS
    <3>1. CASE m \in DOMAIN o /\ l \in DOMAIN o
      BY <1>15, <2>2, <3>1
    <3>2. CASE m \in {cm, um} /\ l \in {cm, um}
      BY <2>4, <3>2
    <3> QED
      BY <1>13, <2>5, <3>1, <3>2
  <2> QED
    BY <2>1, <2>6 DEF Hashes
<1>19. Shows(poly, error, o1, rs1)
  <2>1. ASSUME NEW k \in 1..n
        PROVE  /\ \A mode \in Mode : Message(rs1, k, mode) \in DOMAIN o1
               /\ rs1[k].chained = Combined(poly, error, o1[Message(rs1, k, "chained")], DoVerify(k - 1))
               /\ rs1[k].unchained = Combined(poly, error, o1[Message(rs1, k, "unchained")], DoVerify(k - 1))
    <3>1. \A mode \in Mode : Message(rs1, k, mode) = Message(rs, k, mode)
      BY <1>10 DEF Message
    <3>2. /\ \A mode \in Mode : Message(rs, k, mode) \in DOMAIN o
          /\ rs[k].chained = Combined(poly, error, o[Message(rs, k, "chained")], DoVerify(k - 1))
          /\ rs[k].unchained = Combined(poly, error, o[Message(rs, k, "unchained")], DoVerify(k - 1))
      BY <1>8, <1>9, <1>12 DEF BeaconInv, Shows
    <3>3. \A mode \in Mode : o1[Message(rs, k, mode)] = o[Message(rs, k, mode)]
      BY <1>13, <1>16, <3>2
    <3>4. "chained" \in Mode /\ "unchained" \in Mode
      BY DEF Mode
    <3>5. PICK mc, mu : mc = Message(rs, k, "chained") /\ mu = Message(rs, k, "unchained")
      OBVIOUS
    <3>6. Message(rs1, k, "chained") = mc /\ Message(rs1, k, "unchained") = mu
          /\ o1[mc] = o[mc] /\ o1[mu] = o[mu]
      BY <3>1, <3>3, <3>4, <3>5
    <3>7. \A mode \in Mode : Message(rs1, k, mode) \in DOMAIN o1
      BY <1>13, <3>1, <3>2
    <3>8. rs1[k] = rs[k]
      BY <1>10
    <3> QED
      BY <3>2, <3>5, <3>6, <3>7, <3>8
  <2>2. Message(rs1, n + 1, "chained") = cm /\ Message(rs1, n + 1, "unchained") = um
    <3>1. (n + 1) - 1 = n
      BY <1>9
    <3>2. PrevOf(rs1[n + 1], "chained") = prev_chained /\ PrevOf(rs1[n + 1], "unchained") = NoneSig
      BY <1>7, <1>10 DEF PrevOf
    <3> QED
      BY <1>1, <3>1, <3>2 DEF Message
  <2>3. /\ \A mode \in Mode : Message(rs1, n + 1, mode) \in DOMAIN o1
        /\ rs1[n + 1].chained = Combined(poly, error, o1[Message(rs1, n + 1, "chained")], DoVerify((n + 1) - 1))
        /\ rs1[n + 1].unchained = Combined(poly, error, o1[Message(rs1, n + 1, "unchained")], DoVerify((n + 1) - 1))
    <3>1. (n + 1) - 1 = n
      BY <1>9
    <3>2. \A mode \in Mode : Message(rs1, n + 1, mode) \in DOMAIN o1
      BY <1>13, <2>2 DEF Mode
    <3> QED
      BY <1>4, <1>7, <1>10, <1>13, <2>2, <3>1, <3>2
  <2> QED
    BY <1>9, <1>10, <1>11, <2>1, <2>3 DEF Shows
<1>20. Chains(rs1, rc.sig)
  <2>1. /\ \A k \in 1..n : rs[k].prev # NoneSig
        /\ \A k \in 1..n - 1 : rs[k + 1].prev = rs[k].chained.sig
        /\ n = 0 => prev_chained = Zeros
        /\ n # 0 => rs[1].prev = Zeros /\ prev_chained = rs[n].chained.sig
        /\ prev_chained # NoneSig
    <3>1. Chains(rs, prev_chained)
      BY <1>8 DEF BeaconInv
    <3>2. n # 0 <=> rs # <<>>
      BY <1>9
    <3> QED
      BY <1>9, <3>1, <3>2 DEF Chains
  <2>2. rc.sig # NoneSig
    <3>1. rc.sig \in Scalar
      <4>1. answers[cm] \in Scalar /\ DoVerify(n) \in BOOLEAN
        BY <1>17 DEF DoVerify
      <4> QED
        BY <1>4, <4>1, CombinedShows DEF BeaconInv
    <3> QED
      BY <3>1, PTypes DEF Scalar, NoneSig
  <2>3. \A k \in 1..n + 1 : rs1[k].prev # NoneSig
    BY <1>7, <1>10, <1>11, <2>1
  <2>4. \A k \in 1..(n + 1) - 1 : rs1[k + 1].prev = rs1[k].chained.sig
    <3> SUFFICES ASSUME NEW k \in 1..n PROVE rs1[k + 1].prev = rs1[k].chained.sig
      BY <1>9
    <3>1. CASE k = n
      BY <1>7, <1>9, <1>10, <2>1, <3>1
    <3>2. CASE k # n
      <4>1. k \in 1..n - 1 /\ k + 1 \in 1..n
        BY <1>9, <3>2
      <4> QED
        BY <1>10, <2>1, <4>1
    <3> QED
      BY <3>1, <3>2
  <2>5. rs1 # <<>> /\ rs1[1].prev = Zeros
    <3>1. Len(rs1) # 0
      BY <1>9, <1>10
    <3>2. rs1 # <<>>
      BY <3>1
    <3>3. CASE n = 0
      <4>1. rs1[1] = new
        BY <1>10, <3>3
      <4> QED
        BY <1>7, <2>1, <3>2, <3>3, <4>1
    <3>4. CASE n # 0
      <4>1. 1 \in 1..n
        BY <1>9, <3>4
      <4>2. rs1[1] = rs[1]
        BY <1>10, <4>1
      <4> QED
        BY <2>1, <3>2, <3>4, <4>2
    <3> QED
      BY <3>3, <3>4
  <2> QED
    BY <1>7, <1>9, <1>10, <2>2, <2>3, <2>4, <2>5 DEF Chains
<1>21. Matches(rs1, exited')
  <2>1. \A k \in 1..n : rs[k].chained.match /\ rs[k].unchained.match
    BY <1>3, <1>8, <1>9 DEF BeaconInv, Matches
  <2>2. ~exited' => rc.match /\ ru.match
    BY <1>6
  <2> QED
    BY <1>7, <1>10, <1>11, <2>1, <2>2 DEF Matches
<1> QED
  BY <1>3, <1>6, <1>8, <1>10, <1>12, <1>18, <1>19, <1>20, <1>21 DEF BeaconInv

LEMMA BeaconInvariant == BeaconSpec => []BeaconInv
<1>1. BeaconInv /\ [BeaconNext]_<<poly, beaconVars>> => BeaconInv'
  <2>1. CASE UNCHANGED <<poly, beaconVars>>
    BY <2>1 DEF BeaconInv, beaconVars
  <2> QED
    BY <2>1, BeaconInvNext DEF BeaconNext
<1> QED
  BY <1>1, BeaconInvInit, PTL DEF BeaconSpec

(* What a round shows of each mode.                                          *)
LEMMA RoundShows ==
  ASSUME BeaconInv, NEW k \in DOMAIN rounds, NEW mode \in Mode
  PROVE  /\ k \in 1..Len(rounds) /\ Len(rounds) \in Nat
         /\ Message(rounds, k, mode) \in DOMAIN oracle
         /\ oracle[Message(rounds, k, mode)] \in Scalar /\ rounds[k][mode].sig \in Scalar
         /\ rounds[k][mode]
              = Combined(poly, error, oracle[Message(rounds, k, mode)], DoVerify(k - 1))
         /\ DoVerify(k - 1) \in BOOLEAN
<1>1. k \in 1..Len(rounds) /\ Len(rounds) \in Nat
  BY DEF BeaconInv
<1>2. PICK m : m = Message(rounds, k, mode)
  OBVIOUS
<1>3. m \in DOMAIN oracle /\ rounds[k][mode] = Combined(poly, error, oracle[m], DoVerify(k - 1))
  <2>1. CASE mode = "chained"
    BY <1>1, <1>2, <2>1 DEF BeaconInv, Shows
  <2>2. CASE mode = "unchained"
    BY <1>1, <1>2, <2>2 DEF BeaconInv, Shows
  <2> QED
    BY <2>1, <2>2 DEF Mode
<1>4. oracle[m] \in Scalar /\ DoVerify(k - 1) \in BOOLEAN
  BY <1>3 DEF BeaconInv, Hashes, DoVerify
<1>5. rounds[k][mode].sig \in Scalar
  <2>1. PICK r : r = rounds[k][mode]
    OBVIOUS
  <2>2. r = Combined(poly, error, oracle[m], DoVerify(k - 1))
    BY <1>3, <2>1
  <2>3. r.sig \in Scalar
    BY <1>4, <2>2, CombinedShows DEF BeaconInv
  <2> QED
    BY <2>1, <2>3
<1> QED
  BY <1>1, <1>2, <1>3, <1>4, <1>5

LEMMA RightIs ==
  ASSUME BeaconInv, NEW k \in DOMAIN rounds, NEW mode \in Mode
  PROVE  Right(k, mode) <=> rounds[k][mode].sig = Times(oracle[Message(rounds, k, mode)], poly[1])
BY DEF Right, GroupSign, PartialSign, Message, PrevOf

(* Whatever shares are off: if a checked subset goes without them, the process ends
   before a wrong signature is chained on, and in every round that is verified a
   wrong signature is shown as one (main.rs run_round, --verify-every).      *)
THEOREM BeaconFaults == BeaconSpec => []FaultsShow
<1>1. BeaconInv => FaultStopsOrHarmless
  <2> SUFFICES ASSUME BeaconInv, NEW m \in DOMAIN Cache, DOMAIN Cache[m] \cap Off = {},
                      NEW k \in DOMAIN rounds, ~(exited /\ k = Len(rounds)), NEW mode \in Mode
               PROVE  Right(k, mode)
    BY DEF FaultStopsOrHarmless
  <2>1. PICK h, r : h = oracle[Message(rounds, k, mode)] /\ r = rounds[k][mode]
    OBVIOUS
  <2>2. /\ k \in 1..Len(rounds) /\ Len(rounds) \in Nat /\ h \in Scalar
        /\ r = Combined(poly, error, h, DoVerify(k - 1)) /\ DoVerify(k - 1) \in BOOLEAN
    BY <2>1, RoundShows
  <2>3. Spared(error)
    <3>1. m \in 1..Len(Cache) /\ DOMAIN Cache[m] \subseteq Node
      <4>1. \E h1 \in Scalar : TRUE
        BY PTypes
      <4> QED
        BY <4>1, ResultsAre DEF BeaconInv
    <3>2. DOMAIN Cache[m] \subseteq Faultless(error)
      BY <3>1 DEF Off, Faultless
    <3> QED
      BY <3>2 DEF Spared
  <2>4. r.match
    <3>1. rounds[k].chained.match /\ rounds[k].unchained.match
      BY <2>2 DEF BeaconInv, Matches
    <3>2. CASE mode = "chained"
      BY <2>1, <3>1, <3>2
    <3>3. CASE mode = "unchained"
      BY <2>1, <3>1, <3>3
    <3> QED
      BY <3>2, <3>3 DEF Mode
  <2>5. r.sig = Times(h, poly[1])
    BY <2>2, <2>3, <2>4, CombinedShows DEF BeaconInv
  <2> QED
    BY <2>1, <2>5, RightIs
<1>2. BeaconInv => VerifiedRoundsTell
  <2> SUFFICES ASSUME BeaconInv, VerifyEvery \in Nat, NEW k \in DOMAIN rounds, NEW mode \in Mode,
                      VerifyEvery = 0 \/ (k - 1) % VerifyEvery = 0
               PROVE  rounds[k][mode].valid <=> Right(k, mode)
    BY DEF VerifiedRoundsTell
  <2>1. PICK h, r : h = oracle[Message(rounds, k, mode)] /\ r = rounds[k][mode]
    OBVIOUS
  <2>2. h \in Scalar /\ r = Combined(poly, error, h, DoVerify(k - 1)) /\ DoVerify(k - 1) \in BOOLEAN
    BY <2>1, RoundShows
  <2>3. DoVerify(k - 1)
    BY BeaconAssumption DEF DoVerify
  <2>4. r.valid <=> r.sig = Times(h, poly[1])
    BY <2>2, <2>3, CombinedShows DEF BeaconInv
  <2> QED
    BY <2>1, <2>4, RightIs
<1> QED
  BY <1>1, <1>2, BeaconInvariant, PTL DEF FaultsShow

(* Without an error each round has the signature of the group.               *)
LEMMA SignatureOf ==
  ASSUME BeaconInv, Off = {}, NEW k \in DOMAIN rounds, NEW mode \in Mode
  PROVE  rounds[k][mode].sig = Times(oracle[Message(rounds, k, mode)], poly[1])
<1>1. PICK h, r : h = oracle[Message(rounds, k, mode)] /\ r = rounds[k][mode]
  OBVIOUS
<1>2. h \in Scalar /\ r = Combined(poly, error, h, DoVerify(k - 1)) /\ DoVerify(k - 1) \in BOOLEAN
  BY <1>1, RoundShows
<1>3. Faultless(error) = Node
  BY DEF Off, Faultless
<1>4. r.sig = Times(h, poly[1])
  BY <1>2, <1>3, CombinedShows DEF BeaconInv
<1> QED
  BY <1>1, <1>4

(* A signature on a digest of the oracle verifies with the hash of that digest and
   with no other.                                                           *)
LEMMA OneHash ==
  ASSUME BeaconInv, NEW g \in Scalar, NEW m \in DOMAIN oracle
  PROVE  /\ VerifySignature(oracle[m], Times(oracle[m], poly[1]), PublicKey)
         /\ (/\ PublicKey # Identity
             /\ VerifySignature(g, Times(oracle[m], poly[1]), PublicKey)) => g = oracle[m]
<1>1. PICK h, a : h = oracle[m] /\ a = poly[1]
  OBVIOUS
<1>2. h \in Scalar /\ a \in Scalar
  BY <1>1, CommitteeAssumption DEF BeaconInv, Hashes
<1>3. Times(g, a) \in Scalar /\ Times(h, a) \in Scalar
  BY <1>2, RingTypes
<1>4. PublicKey = Exp(a)
  BY <1>1 DEF PublicKey
<1>5. VerifySignature(h, Times(h, a), Exp(a))
  BY <1>2, <1>3, VerifiesIs
<1>6. ASSUME PublicKey # Identity, VerifySignature(g, Times(h, a), Exp(a)) PROVE g = h
  <2>1. a # 0
    <3>1. Exp(0) = 0
      BY PTypes, TimesLaws DEF Exp
    <3> QED
      BY <1>4, <1>6, <3>1 DEF Identity
  <2>2. Times(h, a) = Times(g, a)
    BY <1>2, <1>3, <1>6, VerifiesIs
  <2> QED
    BY <1>2, <2>1, <2>2, TimesInjective
<1> QED
  BY <1>1, <1>4, <1>5, <1>6

(* What was signed verifies: the oracle answers a digest it knows as it did before. *)
LEMMA SignedVerifies ==
  ASSUME BeaconInv, Off = {}, NEW k \in DOMAIN rounds, NEW m \in Mode,
         NEW d, d = Message(rounds, k, m)
  PROVE  /\ Answers(d) = {oracle[d]}
         /\ VerifySignature(oracle[d], rounds[k][m].sig, PublicKey) = TRUE
<1>1. d \in DOMAIN oracle /\ oracle[d] \in Scalar
  BY RoundShows
<1>2. Answers(d) = {oracle[d]}
  BY <1>1 DEF Answers
<1>3. rounds[k][m].sig = Times(oracle[d], poly[1])
  BY SignatureOf
<1>4. VerifySignature(oracle[d], rounds[k][m].sig, PublicKey)
  BY <1>1, <1>3, OneHash
<1>5. VerifySignature(oracle[d], rounds[k][m].sig, PublicKey) = TRUE
  BY <1>4 DEF VerifySignature
<1> QED
  BY <1>2, <1>5

(* What verifies has the digest of the round and mode its signature is from.  *)
LEMMA VerifiesSigned ==
  ASSUME BeaconInv, Off = {}, PublicKey # Identity, NEW k \in DOMAIN rounds, NEW m \in Mode,
         NEW d, NEW answer \in Answers(d),
         VerifySignature(answer, rounds[k][m].sig, PublicKey)
  PROVE  d = Message(rounds, k, m)
<1>1. PICK l : l = Message(rounds, k, m)
  OBVIOUS
<1>2. l \in DOMAIN oracle /\ rounds[k][m].sig = Times(oracle[l], poly[1])
  BY <1>1, RoundShows, SignatureOf
<1>3. answer \in Scalar /\ (answer = oracle[l] => d = l)
  <2>1. CASE d \in DOMAIN oracle
    BY <1>2, <2>1 DEF Answers, BeaconInv, Hashes
  <2>2. CASE d \notin DOMAIN oracle
    <3>1. answer \in 1..P - 1 /\ answer # oracle[l]
      BY <1>2, <2>2 DEF Answers, Fresh
    <3> QED
      BY <3>1, PTypes DEF Scalar
  <2> QED
    BY <2>1, <2>2
<1>4. answer = oracle[l]
  BY <1>2, <1>3, OneHash
<1> QED
  BY <1>1, <1>3, <1>4

(* Without a share that is off every beacon of every round verifies in its mode and
   is shown valid, the chain leads back to the zeros, and of everything that can be
   put together from the rounds, read in either mode, exactly that verifies which the
   group signed (beacon.rs, main.rs).                                       *)
THEOREM BeaconSound == BeaconSpec => []BeaconsSound
<1>1. BeaconInv => BeaconsVerify
  <2> SUFFICES ASSUME BeaconInv, Off = {}
               PROVE  /\ \A mode \in Mode : \A b \in Beacons(mode) : Verify(b, mode) = {TRUE}
                      /\ \A k \in DOMAIN rounds, mode \in Mode : rounds[k][mode].valid /\ rounds[k][mode].match
                      /\ \A k \in DOMAIN rounds :
                           rounds[k].prev = IF k = 1 THEN Zeros ELSE rounds[k - 1].chained.sig
    BY DEF BeaconsVerify
  <2>1. ASSUME NEW mode \in Mode, NEW b \in Beacons(mode) PROVE Verify(b, mode) = {TRUE}
    <3>1. PICK k \in DOMAIN rounds : b = BeaconNew(k - 1, PrevOf(rounds[k], mode), rounds[k][mode].sig)
      BY DEF Beacons, PrevOf
    <3>2. /\ b.round = k - 1 /\ b.previous_signature = PrevOf(rounds[k], mode)
          /\ b.signature = rounds[k][mode].sig
      BY <3>1 DEF BeaconNew
    <3>3. Digest(b, mode) = Message(rounds, k, mode)
      BY <3>2 DEF Digest, Message, PrevOf
    <3>4. PICK d : d = Message(rounds, k, mode)
      OBVIOUS
    <3>5. /\ Answers(d) = {oracle[d]}
          /\ VerifySignature(oracle[d], b.signature, PublicKey) = TRUE
      BY <3>2, <3>4, SignedVerifies
    <3>6. Verify(b, mode) = {VerifySignature(answer, b.signature, PublicKey) : answer \in Answers(d)}
      BY <3>3, <3>4 DEF Verify
    <3> QED
      BY <3>5, <3>6
  <2>2. ASSUME NEW k \in DOMAIN rounds, NEW mode \in Mode
        PROVE  rounds[k][mode].valid /\ rounds[k][mode].match
    <3>1. PICK h, r : h = oracle[Message(rounds, k, mode)] /\ r = rounds[k][mode]
      OBVIOUS
    <3>2. h \in Scalar /\ r = Combined(poly, error, h, DoVerify(k - 1)) /\ DoVerify(k - 1) \in BOOLEAN
      BY <3>1, RoundShows
    <3>3. Faultless(error) = Node
      BY DEF Off, Faultless
    <3>4. r.match /\ r.valid
      BY <3>2, <3>3, CombinedShows DEF BeaconInv
    <3> QED
      BY <3>1, <3>4
  <2>3. ASSUME NEW k \in DOMAIN rounds
        PROVE  rounds[k].prev = IF k = 1 THEN Zeros ELSE rounds[k - 1].chained.sig
    <3>1. k \in 1..Len(rounds) /\ Len(rounds) \in Nat /\ rounds # <<>>
      BY DEF BeaconInv
    <3>2. CASE k = 1
      BY <3>1, <3>2 DEF BeaconInv, Chains
    <3>3. CASE k # 1
      <4>1. k - 1 \in 1..Len(rounds) - 1 /\ (k - 1) + 1 = k
        BY <3>1, <3>3
      <4>2. \A l \in 1..Len(rounds) - 1 : rounds[l + 1].prev = rounds[l].chained.sig
        BY DEF BeaconInv, Chains
      <4>3. rounds[(k - 1) + 1].prev = rounds[k - 1].chained.sig
        BY <4>1, <4>2
      <4> QED
        BY <3>3, <4>1, <4>3
    <3> QED
      BY <3>2, <3>3
  <2> QED
    BY <2>1, <2>2, <2>3
<1>2. BeaconInv => OnlySignedVerify
  <2> SUFFICES ASSUME BeaconInv, Off = {}, PublicKey # Identity, NEW b \in Mixed, NEW mode \in Mode,
                      NEW answer \in Answers(Digest(b, mode))
               PROVE  VerifySignature(answer, b.signature, PublicKey) = Signed(b, mode)
    BY DEF OnlySignedVerify, Verify
  <2>0. PICK n \in 0..Len(rounds), prev \in Group \cup {Zeros, NoneSig}, sig \in Signatures :
          b = BeaconNew(n, prev, sig)
    BY DEF Mixed
  <2>1. PICK k \in DOMAIN rounds, m \in Mode : sig = rounds[k][m].sig
    BY DEF Signatures
  <2>2. b.round = n /\ b.previous_signature = prev /\ b.signature = rounds[k][m].sig
    BY <2>0, <2>1 DEF BeaconNew
  <2>3. PICK d : d = Digest(b, mode)
    OBVIOUS
  <2>4. d.round = n /\ d.prev = IF mode = "chained" THEN prev ELSE NoneSig
    BY <2>2, <2>3 DEF Digest, DigestMessage
  <2>5. ASSUME VerifySignature(answer, b.signature, PublicKey) PROVE Signed(b, mode)
    <3>1. d = Message(rounds, k, m)
      BY <2>2, <2>3, <2>5, VerifiesSigned
    <3>2. n = k - 1 /\ d.prev = PrevOf(rounds[k], m)
      BY <2>4, <3>1 DEF Message, DigestMessage
    <3>3. CASE m = "chained"
      <4>1. k \in 1..Len(rounds)
        BY RoundShows DEF Mode
      <4>2. d.prev = rounds[k].prev /\ rounds[k].prev # NoneSig
        BY <3>2, <3>3, <4>1 DEF PrevOf, BeaconInv, Chains
      <4>3. mode = "chained" /\ prev = rounds[k].prev
        BY <2>4, <4>2
      <4>4. b.signature = rounds[k].chained.sig
        BY <2>2, <3>3
      <4> QED
        BY <2>2, <3>2, <4>3, <4>4 DEF Signed
    <3>4. CASE m = "unchained"
      <4>1. d.prev = NoneSig
        BY <3>2, <3>4 DEF PrevOf
      <4>2. mode = "unchained" \/ prev = NoneSig
        BY <2>4, <4>1 DEF Mode
      <4>3. b.signature = rounds[k].unchained.sig
        BY <2>2, <3>4
      <4> QED
        BY <2>2, <3>2, <4>2, <4>3 DEF Signed
    <3> QED
      BY <3>3, <3>4 DEF Mode
  <2>6. ASSUME Signed(b, mode) PROVE VerifySignature(answer, b.signature, PublicKey)
    <3>1. PICK l \in DOMAIN rounds :
            /\ n = l - 1
            /\ \/ mode = "chained" /\ prev = rounds[l].prev /\ b.signature = rounds[l].chained.sig
               \/ (mode = "unchained" \/ prev = NoneSig) /\ b.signature = rounds[l].unchained.sig
      BY <2>2, <2>6 DEF Signed
    <3>2. PICK w \in Mode : /\ PrevOf(rounds[l], w) = (IF mode = "chained" THEN prev ELSE NoneSig)
                            /\ b.signature = rounds[l][w].sig
      <4>1. CASE mode = "chained" /\ prev = rounds[l].prev /\ b.signature = rounds[l].chained.sig
        <5>1. "chained" \in Mode /\ PrevOf(rounds[l], "chained") = prev
          BY <4>1 DEF Mode, PrevOf
        <5> QED
          BY <4>1, <5>1
      <4>2. CASE (mode = "unchained" \/ prev = NoneSig) /\ b.signature = rounds[l].unchained.sig
        <5>1. "unchained" \in Mode /\ PrevOf(rounds[l], "unchained") = NoneSig
          BY DEF Mode, PrevOf
        <5> QED
          BY <4>2, <5>1
      <4> QED
        BY <3>1, <4>1, <4>2
    <3>3. Digest(b, mode) = Message(rounds, l, w)
      BY <2>2, <3>1, <3>2 DEF Digest, Message
    <3>4. PICK e : e = Message(rounds, l, w)
      OBVIOUS
    <3>5. Answers(e) = {oracle[e]} /\ VerifySignature(oracle[e], rounds[l][w].sig, PublicKey) = TRUE
      BY <3>4, SignedVerifies
    <3>6. answer = oracle[e]
      BY <3>3, <3>4, <3>5
    <3> QED
      BY <3>2, <3>5, <3>6
  <2> QED
    BY <2>5, <2>6 DEF VerifySignature, Signed
<1> QED
  BY <1>1, <1>2, BeaconInvariant, PTL DEF BeaconsSound
=============================================================================

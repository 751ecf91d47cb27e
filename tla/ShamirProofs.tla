---------------------------- MODULE ShamirProofs ----------------------------
(***************************************************************************)
(* What the operators of Shamir compute, in every field.                   *)
(*                                                                         *)
(* Induction is over a set: a set of numbers with 0 and the successor of   *)
(* each of its members has all of them (NatSet), a set of parts of a       *)
(* finite set with {} and every part one larger has all parts (PartSet).   *)
(***************************************************************************)
EXTENDS Shamir, FiniteSetTheorems, WellFoundedInduction, TLAPS

LEMMA NatSet ==
  ASSUME NEW A, 0 \in A, \A n \in Nat : n \in A => n + 1 \in A
  PROVE  \A n \in Nat : n \in A
<1> DEFINE T == {n \in Nat : n \notin A}
           Less == OpToRel(<, Nat)
<1> SUFFICES ASSUME T # {} PROVE FALSE
  OBVIOUS
<1>1. PICK n \in T : \A m \in T : ~(<<m, n>> \in Less)
  <2> HIDE DEF T, Less
  <2>1. IsWellFoundedOn(Less, Nat)
    BY NatLessThanWellFounded DEF Less
  <2>2. T \subseteq Nat
    BY DEF T
  <2> QED
    BY <2>1, <2>2, WFMin, Zenon
<1>2. n \in Nat /\ n # 0 /\ n - 1 \in Nat /\ n - 1 < n /\ n = (n - 1) + 1
  OBVIOUS
<1>3. <<n - 1, n>> \in Less
  BY <1>2 DEF OpToRel
<1>4. n - 1 \in A
  BY <1>1, <1>2, <1>3
<1> QED
  BY <1>2, <1>4

LEMMA PartSet ==
  ASSUME NEW S, IsFiniteSet(S), NEW A, {} \in A,
         \A part \in SUBSET S : \A x \in S \ part : part \in A => part \cup {x} \in A
  PROVE  \A part \in SUBSET S : part \in A
<1> DEFINE T == {part \in SUBSET S : part \notin A}
           Smaller == StrictSubsetOrdering(S)
<1> SUFFICES ASSUME T # {} PROVE FALSE
  OBVIOUS
<1>1. PICK part \in T : \A other \in T : ~(<<other, part>> \in Smaller)
  <2> HIDE DEF T, Smaller
  <2>1. IsWellFoundedOn(Smaller, SUBSET S)
    BY FS_StrictSubsetOrderingWellFounded, FS_FiniteSubsetsOfFinite, Zenon DEF Smaller
  <2>2. T \subseteq SUBSET S
    BY DEF T
  <2> QED
    BY <2>1, <2>2, WFMin, Zenon
<1>2. PICK x : x \in part
  OBVIOUS
<1> DEFINE less == part \ {x}
<1>3. less \in SUBSET S /\ x \in S \ less /\ less \cup {x} = part /\ less # part
  BY <1>2
<1>4. <<less, part>> \in Smaller
  BY <1>3 DEF StrictSubsetOrdering
<1>5. less \in A
  BY <1>1, <1>3, <1>4
<1> QED
  BY <1>3, <1>5

-----------------------------------------------------------------------------
(* Arithmetic modulo P.                                                     *)

LEMMA PTypes == P \in Nat \ {0, 1} /\ Gen \in Scalar \ {0} /\ 0 \in Scalar /\ 1 \in Scalar
  BY FieldAssumption DEF Scalar

LEMMA Division ==
  ASSUME NEW a \in Int
  PROVE  a = P * (a \div P) + (a % P) /\ a \div P \in Int /\ a % P \in Scalar
  BY PTypes DEF Scalar

LEMMA OneRemainder ==
  ASSUME NEW q \in Int, NEW r \in Scalar
  PROVE  (P * q + r) % P = r
<1> DEFINE a == P * q + r
<1>1. a \in Int
  BY PTypes DEF Scalar
<1>2. a = P * (a \div P) + (a % P) /\ a \div P \in Int /\ a % P \in Scalar
  BY <1>1, Division
<1>3. ASSUME NEW s \in Int, NEW t \in Scalar, P * q + r = P * s + t
      PROVE  r = t
  BY <1>3, PTypes DEF Scalar
<1> QED
  BY <1>2, <1>3

LEMMA RemainderSmall == \A a \in Scalar : a % P = a
<1> TAKE a \in Scalar
<1>1. (P * 0 + a) % P = a
  BY OneRemainder
<1> QED
  BY <1>1, PTypes DEF Scalar

LEMMA RemainderPlus ==
  ASSUME NEW a \in Int, NEW b \in Int
  PROVE  ((a % P) + b) % P = (a + b) % P
<1> DEFINE r == a % P
           x == (r + b) \div P
           y == (r + b) % P
           z == a \div P
<1>1. a = P * z + r /\ z \in Int /\ r \in Scalar
  BY Division
<1>2. r + b \in Int
  BY <1>1, PTypes DEF Scalar
<1>3. r + b = P * x + y /\ x \in Int /\ y \in Scalar
  BY <1>2, Division
<1>4. a + b = P * (x + z) + y
  <2> HIDE DEF r, x, y, z
  <2> QED
    BY <1>1, <1>3, PTypes DEF Scalar
<1>5. (P * (x + z) + y) % P = y
  BY <1>1, <1>3, OneRemainder
<1> QED
  BY <1>4, <1>5

LEMMA RemainderTimes ==
  ASSUME NEW a \in Int, NEW b \in Int
  PROVE  ((a % P) * b) % P = (a * b) % P
<1> DEFINE r == a % P
           x == (r * b) \div P
           y == (r * b) % P
           z == a \div P
<1>1. a = P * z + r /\ z \in Int /\ r \in Scalar
  BY Division
<1>2. r * b \in Int
  BY <1>1, PTypes DEF Scalar
<1>3. r * b = P * x + y /\ x \in Int /\ y \in Scalar
  BY <1>2, Division
<1>4. a * b = P * (x + z * b) + y
  <2> HIDE DEF r, x, y, z
  <2> QED
    BY <1>1, <1>3, PTypes DEF Scalar
<1>5. (P * (x + z * b) + y) % P = y
  BY <1>1, <1>3, OneRemainder
<1> QED
  BY <1>4, <1>5

(* The laws of the field, as the proofs below use them.                     *)
LEMMA RingTypes ==
  /\ \A a, b \in Scalar : Plus(a, b) \in Scalar /\ Minus(a, b) \in Scalar /\ Times(a, b) \in Scalar
  /\ \A a \in Scalar : Exp(a) \in Scalar
<1>1. \A a, b \in Scalar : a + b \in Int /\ a - b \in Int /\ a * b \in Int
  BY PTypes DEF Scalar
<1>2. \A a, b \in Scalar : Plus(a, b) \in Scalar /\ Minus(a, b) \in Scalar /\ Times(a, b) \in Scalar
  BY <1>1, Division DEF Plus, Minus, Times
<1> QED
  BY <1>2, PTypes DEF Exp

LEMMA PlusLaws ==
  /\ \A a \in Scalar : Plus(0, a) = a /\ Plus(a, 0) = a
  /\ \A a, b \in Scalar : Plus(a, b) = Plus(b, a)
  /\ \A a, b, c \in Scalar : Plus(Plus(a, b), c) = Plus(a, Plus(b, c))
<1>1. \A a \in Scalar : a \in Int
  BY PTypes DEF Scalar
<1>2. \A a \in Scalar : Plus(0, a) = a /\ Plus(a, 0) = a
  BY <1>1, RemainderSmall DEF Plus
<1>3. \A a, b \in Scalar : Plus(a, b) = Plus(b, a)
  BY <1>1 DEF Plus
<1>4. ASSUME NEW a \in Scalar, NEW b \in Scalar, NEW c \in Scalar
      PROVE  Plus(Plus(a, b), c) = Plus(a, Plus(b, c))
  <2>1. a \in Int /\ b \in Int /\ c \in Int /\ a + b \in Int /\ b + c \in Int
    BY <1>1
  <2>2. (((a + b) % P) + c) % P = ((a + b) + c) % P
    BY <2>1, RemainderPlus
  <2>3. (((b + c) % P) + a) % P = ((b + c) + a) % P
    BY <2>1, RemainderPlus
  <2>4. (a + b) + c = (b + c) + a
    BY <2>1
  <2>5. ((b + c) % P) + a = a + ((b + c) % P)
    BY <2>1, Division, PTypes DEF Scalar
  <2> QED
    BY <2>2, <2>3, <2>4, <2>5 DEF Plus
<1> QED
  BY <1>2, <1>3, <1>4

LEMMA TimesLaws ==
  /\ \A a \in Scalar : Times(1, a) = a /\ Times(a, 1) = a /\ Times(0, a) = 0 /\ Times(a, 0) = 0
  /\ \A a, b \in Scalar : Times(a, b) = Times(b, a)
  /\ \A a, b, c \in Scalar : Times(Times(a, b), c) = Times(a, Times(b, c))
<1>1. \A a \in Scalar : a \in Int
  BY PTypes DEF Scalar
<1>2. \A a \in Scalar : Times(1, a) = a /\ Times(a, 1) = a /\ Times(0, a) = 0 /\ Times(a, 0) = 0
  <2>1. \A a \in Scalar : 1 * a = a /\ a * 1 = a /\ 0 * a = 0 /\ a * 0 = 0
    BY <1>1
  <2> QED
    BY <2>1, RemainderSmall, PTypes DEF Times
<1>3. \A a, b \in Scalar : Times(a, b) = Times(b, a)
  BY <1>1 DEF Times
<1>4. ASSUME NEW a \in Scalar, NEW b \in Scalar, NEW c \in Scalar
      PROVE  Times(Times(a, b), c) = Times(a, Times(b, c))
  <2>1. a \in Int /\ b \in Int /\ c \in Int /\ a * b \in Int /\ b * c \in Int
    BY <1>1
  <2>2. (((a * b) % P) * c) % P = ((a * b) * c) % P
    BY <2>1, RemainderTimes
  <2>3. (((b * c) % P) * a) % P = ((b * c) * a) % P
    BY <2>1, RemainderTimes
  <2>4. (a * b) * c = (b * c) * a
    BY <2>1
  <2>5. ((b * c) % P) * a = a * ((b * c) % P)
    BY <2>1, Division, PTypes DEF Scalar
  <2> QED
    BY <2>2, <2>3, <2>4, <2>5 DEF Times
<1> QED
  BY <1>2, <1>3, <1>4

LEMMA Distributes ==
  \A a, b, c \in Scalar : Times(a, Plus(b, c)) = Plus(Times(a, b), Times(a, c))
<1> SUFFICES ASSUME NEW a \in Scalar, NEW b \in Scalar, NEW c \in Scalar
             PROVE  Times(a, Plus(b, c)) = Plus(Times(a, b), Times(a, c))
  OBVIOUS
<1> DEFINE ab == a * b
           ac == a * c
<1>1. a \in Int /\ b \in Int /\ c \in Int /\ b + c \in Int /\ ab \in Int /\ ac \in Int
  BY PTypes DEF Scalar
<1>2. (((b + c) % P) * a) % P = ((b + c) * a) % P
  BY <1>1, RemainderTimes
<1>3. ((b + c) % P) * a = a * ((b + c) % P)
  BY <1>1, Division, PTypes DEF Scalar
<1>4. (b + c) * a = ab + ac
  BY <1>1
<1>5. ((ab % P) + (ac % P)) % P = (ab + (ac % P)) % P
  <2>1. ac % P \in Int
    BY <1>1, Division, PTypes DEF Scalar
  <2> QED
    BY <1>1, <2>1, RemainderPlus
<1>6. ((ac % P) + ab) % P = (ac + ab) % P
  BY <1>1, RemainderPlus
<1>7. (ac % P) + ab = ab + (ac % P) /\ ac + ab = ab + ac
  BY <1>1, Division, PTypes DEF Scalar
<1> QED
  BY <1>2, <1>3, <1>4, <1>5, <1>6, <1>7 DEF Times, Plus

LEMMA MinusLaws ==
  /\ \A a, b \in Scalar : Plus(Minus(a, b), b) = a
  /\ \A a, b \in Scalar : Minus(Plus(a, b), b) = a
<1>1. \A a \in Scalar : a \in Int
  BY PTypes DEF Scalar
<1>2. ASSUME NEW a \in Scalar, NEW b \in Scalar
      PROVE  Plus(Minus(a, b), b) = a
  <2>1. a \in Int /\ b \in Int /\ a - b \in Int /\ (a - b) + b = a
    BY <1>1
  <2>2. (((a - b) % P) + b) % P = ((a - b) + b) % P
    BY <2>1, RemainderPlus
  <2> QED
    BY <2>1, <2>2, RemainderSmall DEF Plus, Minus
<1>3. ASSUME NEW a \in Scalar, NEW b \in Scalar
      PROVE  Minus(Plus(a, b), b) = a
  <2>1. a \in Int /\ b \in Int /\ a + b \in Int /\ -b \in Int /\ (a + b) + (-b) = a
    BY <1>1
  <2>2. (((a + b) % P) + (-b)) % P = ((a + b) + (-b)) % P
    BY <2>1, RemainderPlus
  <2>3. ((a + b) % P) + (-b) = ((a + b) % P) - b
    BY <2>1, Division, PTypes DEF Scalar
  <2> QED
    BY <2>1, <2>2, <2>3, RemainderSmall DEF Plus, Minus
<1> QED
  BY <1>2, <1>3

(* Exp is a homomorphism of the groups.                                     *)
LEMMA ExpLaws ==
  /\ \A a, b \in Scalar : Exp(Plus(a, b)) = Plus(Exp(a), Exp(b))
  /\ \A a, b \in Scalar : Exp(Times(a, b)) = Times(Exp(a), b)
  /\ Exp(0) = Identity
<1>1. \A a, b \in Scalar : Exp(Plus(a, b)) = Plus(Exp(a), Exp(b))
  BY Distributes, PTypes DEF Exp
<1>2. \A a, b \in Scalar : Exp(Times(a, b)) = Times(Exp(a), b)
  BY TimesLaws, PTypes DEF Exp
<1>3. Exp(0) = Identity
  BY TimesLaws, PTypes DEF Exp, Identity
<1> QED
  BY <1>1, <1>2, <1>3

-----------------------------------------------------------------------------
(* Folds over a finite set. g says what an element does to the result for the
   others; the result is the same whichever element is picked.             *)

LEMMA CardinalityLess ==
  ASSUME NEW S, IsFiniteSet(S), NEW s \in SUBSET S, NEW x \in s
  PROVE  /\ s \ {x} \in SUBSET S /\ Cardinality(s) \in Nat
         /\ Cardinality(s \ {x}) = Cardinality(s) - 1 /\ Cardinality(s \ {x}) \in Nat
<1>1. IsFiniteSet(s)
  BY FS_Subset
<1> QED
  BY <1>1, FS_RemoveElement, FS_CardinalityType

(* pick chooses from the parts of S; h is the fold of g with that choice;
   g gives the same for two elements in either order.                       *)
Picks(S, pick) == \A s \in SUBSET S : s # {} => pick[s] \in s
Folds(S, base, g, pick, h) ==
  \A s \in SUBSET S : h[s] = IF s = {} THEN base ELSE g[<<pick[s], h[s \ {pick[s]}]>>]
Commutes(S, V, g) ==
  \A x, y \in S, v \in V : g[<<x, g[<<y, v>>]>>] = g[<<y, g[<<x, v>>]>>]
AnyOrder(S, g, h) == \A s \in SUBSET S : \A x \in s : h[s] = g[<<x, h[s \ {x}]>>]
HasFold(S, V, base, g) == \E h \in [SUBSET S -> V] : h[{}] = base /\ AnyOrder(S, g, h)

LEMMA FoldExists ==
  ASSUME NEW S, IsFiniteSet(S), NEW V, NEW base \in V, NEW g \in [S \X V -> V],
         NEW pick, Picks(S, pick)
  PROVE  \E h \in [SUBSET S -> V] : Folds(S, base, g, pick, h)
<1> USE DEF Picks, Folds
<1> DEFINE Below(h, n) ==
      \A s \in SUBSET S : Cardinality(s) <= n =>
        h[s] = IF s = {} THEN base ELSE g[<<pick[s], h[s \ {pick[s]}]>>]
    A == {n \in Nat : \E h \in [SUBSET S -> V] : Below(h, n)}
<1>1. \A s \in SUBSET S : Cardinality(s) \in Nat /\ (Cardinality(s) <= 0 => s = {})
  <2> SUFFICES ASSUME NEW s \in SUBSET S
               PROVE  Cardinality(s) \in Nat /\ (Cardinality(s) <= 0 => s = {})
    OBVIOUS
  <2>1. IsFiniteSet(s)
    BY FS_Subset
  <2>2. Cardinality(s) \in Nat /\ (Cardinality(s) = 0 <=> s = {})
    BY <2>1, FS_CardinalityType, FS_EmptySet
  <2> QED
    BY <2>2
<1>2. 0 \in A
  <2>1. [s \in SUBSET S |-> base] \in [SUBSET S -> V]
    OBVIOUS
  <2>2. Below([s \in SUBSET S |-> base], 0)
    BY <1>1
  <2> QED
    BY <2>1, <2>2
<1>3. ASSUME NEW n \in Nat, n \in A
      PROVE  n + 1 \in A
  <2>1. PICK h \in [SUBSET S -> V] : Below(h, n)
    BY <1>3
  <2> DEFINE k == [s \in SUBSET S |-> IF Cardinality(s) <= n \/ s = {} THEN h[s]
                                      ELSE g[<<pick[s], h[s \ {pick[s]}]>>]]
  <2>2. k \in [SUBSET S -> V]
    OBVIOUS
  <2>3. ASSUME NEW s \in SUBSET S, Cardinality(s) <= n + 1
        PROVE  k[s] = IF s = {} THEN base ELSE g[<<pick[s], k[s \ {pick[s]}]>>]
    <3>1. CASE s = {}
      <4>1. Cardinality(s) <= n
        BY <3>1, FS_EmptySet
      <4> QED
        BY <2>1, <3>1, <4>1
    <3>2. CASE s # {}
      <4> DEFINE r == s \ {pick[s]}
      <4>1. pick[s] \in s
        BY <3>2
      <4>2. r \in SUBSET S /\ Cardinality(r) = Cardinality(s) - 1 /\ Cardinality(r) \in Nat
              /\ Cardinality(s) \in Nat
        BY <4>1, CardinalityLess
      <4>3. k[r] = h[r]
        BY <2>3, <4>2
      <4>4. k[s] = g[<<pick[s], h[r]>>]
        BY <2>1, <3>2
      <4> QED
        BY <3>2, <4>3, <4>4
    <3> QED
      BY <3>1, <3>2
  <2>4. Below(k, n + 1)
    BY <2>3
  <2>5. \E m \in [SUBSET S -> V] : Below(m, n + 1)
    <3> HIDE DEF k, Below
    <3> QED
      BY <2>2, <2>4, Zenon
  <2>6. n + 1 \in Nat
    OBVIOUS
  <2> HIDE DEF Below
  <2> QED
    BY <2>5, <2>6, Zenon
<1>4. Cardinality(S) \in A
  <2>1. Cardinality(S) \in Nat
    BY FS_CardinalityType
  <2> HIDE DEF A
  <2> QED
    BY <1>2, <1>3, <2>1, NatSet
<1>5. PICK h \in [SUBSET S -> V] : Below(h, Cardinality(S))
  BY <1>4
<1>6. \A s \in SUBSET S : Cardinality(s) <= Cardinality(S)
  BY FS_Subset
<1> QED
  BY <1>5, <1>6

LEMMA FoldAnyOrder ==
  ASSUME NEW S, IsFiniteSet(S), NEW V, NEW base \in V, NEW g \in [S \X V -> V],
         NEW pick, Picks(S, pick), NEW h \in [SUBSET S -> V], Folds(S, base, g, pick, h),
         Commutes(S, V, g)
  PROVE  AnyOrder(S, g, h)
<1> USE DEF Picks, Folds, Commutes, AnyOrder
<1> DEFINE EachLast(s) == \A x \in s : h[s] = g[<<x, h[s \ {x}]>>]
           A == {n \in Nat : \A s \in SUBSET S : Cardinality(s) = n => EachLast(s)}
<1>1. \A s \in SUBSET S : Cardinality(s) \in Nat /\ (Cardinality(s) = 0 => s = {})
  <2> SUFFICES ASSUME NEW s \in SUBSET S
               PROVE  Cardinality(s) \in Nat /\ (Cardinality(s) = 0 => s = {})
    OBVIOUS
  <2>1. IsFiniteSet(s)
    BY FS_Subset
  <2> QED
    BY <2>1, FS_CardinalityType, FS_EmptySet
<1>2. 0 \in A
  BY <1>1
<1>3. ASSUME NEW n \in Nat, n \in A
      PROVE  n + 1 \in A
  <2>a. SUFFICES ASSUME NEW s \in SUBSET S, Cardinality(s) = n + 1
                 PROVE  EachLast(s)
    <3>1. n + 1 \in Nat
      OBVIOUS
    <3> HIDE DEF EachLast
    <3> QED
      BY <3>1
  <2>b. SUFFICES ASSUME NEW x \in s
                 PROVE  h[s] = g[<<x, h[s \ {x}]>>]
    OBVIOUS
  <2> DEFINE y == pick[s]
  <2>1. y \in s /\ h[s] = g[<<y, h[s \ {y}]>>]
    OBVIOUS
  <2>2. CASE x = y
    BY <2>1, <2>2
  <2>3. CASE x # y
    <3>a. \A z \in s : s \ {z} \in SUBSET S /\ Cardinality(s \ {z}) = n
      BY <2>a, CardinalityLess
    <3>1. /\ s \ {y} \in SUBSET S /\ Cardinality(s \ {y}) = n
          /\ s \ {x} \in SUBSET S /\ Cardinality(s \ {x}) = n
      BY <2>1, <3>a
    <3>2. EachLast(s \ {y}) /\ EachLast(s \ {x})
      BY <1>3, <3>1
    <3> DEFINE rest == s \ {x, y}
    <3>3. (s \ {y}) \ {x} = rest /\ (s \ {x}) \ {y} = rest /\ rest \in SUBSET S
      OBVIOUS
    <3>4. h[s \ {y}] = g[<<x, h[rest]>>] /\ h[s \ {x}] = g[<<y, h[rest]>>]
      BY <2>1, <2>3, <3>2, <3>3
    <3>5. h[rest] \in V /\ x \in S /\ y \in S
      BY <2>1, <3>3
    <3> QED
      BY <2>1, <3>4, <3>5
  <2> QED
    BY <2>2, <2>3
<1>4. \A n \in Nat : n \in A
  <2> HIDE DEF A
  <2> QED
    BY <1>2, <1>3, NatSet
<1> QED
  BY <1>1, <1>4, SMTT(60)

(* The choice of the library's folds.                                       *)
First(s) == CHOOSE x \in s : TRUE

(* Two functions with the same recursion agree.                             *)
LEMMA SameFold ==
  ASSUME NEW S, IsFiniteSet(S), NEW h, NEW k, h[{}] = k[{}],
         \A s \in SUBSET S : s # {} /\ h[s \ {First(s)}] = k[s \ {First(s)}] => h[s] = k[s]
  PROVE  h[S] = k[S]
<1> DEFINE A == {n \in Nat : \A s \in SUBSET S : Cardinality(s) = n => h[s] = k[s]}
<1>1. \A s \in SUBSET S : Cardinality(s) \in Nat /\ (Cardinality(s) = 0 => s = {})
  <2> SUFFICES ASSUME NEW s \in SUBSET S
               PROVE  Cardinality(s) \in Nat /\ (Cardinality(s) = 0 => s = {})
    OBVIOUS
  <2>1. IsFiniteSet(s)
    BY FS_Subset
  <2> QED
    BY <2>1, FS_CardinalityType, FS_EmptySet
<1>2. 0 \in A
  BY <1>1
<1>3. ASSUME NEW n \in Nat, n \in A
      PROVE  n + 1 \in A
  <2> SUFFICES ASSUME NEW s \in SUBSET S, Cardinality(s) = n + 1
               PROVE  h[s] = k[s]
    OBVIOUS
  <2>1. CASE s = {}
    BY <2>1
  <2>2. CASE s # {}
    <3>1. First(s) \in s
      BY <2>2 DEF First
    <3>2. s \ {First(s)} \in SUBSET S /\ Cardinality(s \ {First(s)}) = n
      BY <3>1, CardinalityLess
    <3> QED
      BY <1>3, <2>2, <3>2
  <2> QED
    BY <2>1, <2>2
<1>4. \A n \in Nat : n \in A
  <2> HIDE DEF A
  <2> QED
    BY <1>2, <1>3, NatSet
<1> QED
  BY <1>1, <1>4

(* A fold that gives the same whatever the order.                           *)
LEMMA FoldAny ==
  ASSUME NEW S, IsFiniteSet(S), NEW V, NEW base \in V, NEW g \in [S \X V -> V],
         Commutes(S, V, g)
  PROVE  HasFold(S, V, base, g)
<1>1. PICK pick : Picks(S, pick)
  <2> DEFINE choice == [s \in SUBSET S |-> CHOOSE x \in s : TRUE]
  <2>1. \A s \in SUBSET S : s # {} => choice[s] \in s
    OBVIOUS
  <2> QED
    BY <2>1 DEF Picks
<1>2. PICK h \in [SUBSET S -> V] : Folds(S, base, g, pick, h)
  BY <1>1, FoldExists, Zenon
<1>3. AnyOrder(S, g, h)
  BY <1>1, <1>2, FoldAnyOrder, Zenon
<1>4. h[{}] = base
  BY <1>2 DEF Folds
<1> QED
  BY <1>3, <1>4 DEF HasFold

-----------------------------------------------------------------------------
(* Total and Multiply, over every part of a finite domain.                  *)

Sums(S, f, h) ==
  h[{}] = 0 /\ \A s \in SUBSET S : \A x \in s : h[s] = Plus(f[x], h[s \ {x}])
Products(S, f, h) ==
  h[{}] = 1 /\ \A s \in SUBSET S : \A x \in s : h[s] = Times(f[x], h[s \ {x}])

LEMMA TotalSums ==
  ASSUME NEW S, IsFiniteSet(S), NEW f \in [S -> Scalar]
  PROVE  \E h \in [SUBSET S -> Scalar] : Sums(S, f, h) /\ Total(f) = h[S]
<1>1. PICK g \in [S \X Scalar -> Scalar] : \A x \in S, v \in Scalar : g[<<x, v>>] = Plus(f[x], v)
  <2> DEFINE add == [xv \in S \X Scalar |-> Plus(f[xv[1]], xv[2])]
  <2>1. add \in [S \X Scalar -> Scalar]
    BY RingTypes
  <2>2. \A x \in S, v \in Scalar : add[<<x, v>>] = Plus(f[x], v)
    OBVIOUS
  <2> QED
    BY <2>1, <2>2
<1>2. Commutes(S, Scalar, g)
  <2> SUFFICES ASSUME NEW x \in S, NEW y \in S, NEW v \in Scalar
               PROVE  g[<<x, g[<<y, v>>]>>] = g[<<y, g[<<x, v>>]>>]
    BY DEF Commutes
  <2>1. Plus(f[y], v) \in Scalar /\ Plus(f[x], v) \in Scalar /\ f[x] \in Scalar /\ f[y] \in Scalar
    BY RingTypes
  <2>2. Plus(f[x], Plus(f[y], v)) = Plus(f[y], Plus(f[x], v))
    <3>1. Plus(f[x], Plus(f[y], v)) = Plus(Plus(f[x], f[y]), v)
            /\ Plus(f[y], Plus(f[x], v)) = Plus(Plus(f[y], f[x]), v)
            /\ Plus(f[x], f[y]) = Plus(f[y], f[x])
      BY <2>1, PlusLaws
    <3> QED
      BY <3>1
  <2> QED
    BY <1>1, <2>1, <2>2
<1>3. 0 \in Scalar
  BY PTypes
<1>4. PICK h \in [SUBSET S -> Scalar] :
        h[{}] = 0 /\ AnyOrder(S, g, h)
  <2>1. HasFold(S, Scalar, 0, g)
    BY <1>2, <1>3, FoldAny
  <2> QED
    BY <2>1 DEF HasFold
<1>5. Sums(S, f, h)
  <2> SUFFICES ASSUME NEW s \in SUBSET S, NEW x \in s
               PROVE  h[s] = Plus(f[x], h[s \ {x}])
    BY <1>3, <1>4 DEF Sums
  <2>1. x \in S /\ h[s \ {x}] \in Scalar
    OBVIOUS
  <2> QED
    BY <1>1, <1>4, <2>1 DEF AnyOrder
<1> DEFINE Step(iter) == [s \in SUBSET S |-> IF s = {} THEN 0
                            ELSE LET x == CHOOSE x \in s : TRUE IN Plus(f[x], iter[s \ {x}])]
           result == CHOOSE iter : iter = Step(iter)
<1>6. \A s \in SUBSET S : s # {} => First(s) \in s
  BY DEF First
<1>7. h = Step(h)
  <2>1. \A s \in SUBSET S : h[s] = IF s = {} THEN 0 ELSE Plus(f[First(s)], h[s \ {First(s)}])
    BY <1>5, <1>6 DEF Sums
  <2> QED
    BY <2>1 DEF First
<1>8. result = Step(result)
  BY <1>7
<1>9. \A s \in SUBSET S : result[s] = IF s = {} THEN 0 ELSE Plus(f[First(s)], result[s \ {First(s)}])
  <2> HIDE DEF result
  <2> QED
    BY <1>8 DEF First
<1>10. Total(f) = result[S]
  <2>1. DOMAIN f = S
    OBVIOUS
  <2> QED
    BY <2>1 DEF Total, FoldFunction, FoldFunctionOnSet, MapThenFoldSet
<1> HIDE DEF result
<1>11. h[{}] = result[{}]
  BY <1>5, <1>9 DEF Sums
<1>12. ASSUME NEW s \in SUBSET S, s # {}, h[s \ {First(s)}] = result[s \ {First(s)}]
       PROVE  h[s] = result[s]
  <2>1. First(s) \in s /\ h[s] = IF s = {} THEN h[{}] ELSE Plus(f[First(s)], h[s \ {First(s)}])
    BY <1>5, <1>6, <1>12 DEF Sums
  <2>2. result[s] = Plus(f[First(s)], result[s \ {First(s)}])
    BY <1>9, <1>12
  <2> QED
    BY <1>12, <2>1, <2>2
<1>13. h[S] = result[S]
  BY <1>11, <1>12, SameFold
<1> QED
  BY <1>5, <1>10, <1>13

LEMMA MultiplyProducts ==
  ASSUME NEW S, IsFiniteSet(S), NEW f \in [S -> Scalar]
  PROVE  \E h \in [SUBSET S -> Scalar] : Products(S, f, h) /\ Multiply(f) = h[S]
<1>1. PICK g \in [S \X Scalar -> Scalar] : \A x \in S, v \in Scalar : g[<<x, v>>] = Times(f[x], v)
  <2> DEFINE add == [xv \in S \X Scalar |-> Times(f[xv[1]], xv[2])]
  <2>1. add \in [S \X Scalar -> Scalar]
    BY RingTypes
  <2>2. \A x \in S, v \in Scalar : add[<<x, v>>] = Times(f[x], v)
    OBVIOUS
  <2> QED
    BY <2>1, <2>2
<1>2. Commutes(S, Scalar, g)
  <2> SUFFICES ASSUME NEW x \in S, NEW y \in S, NEW v \in Scalar
               PROVE  g[<<x, g[<<y, v>>]>>] = g[<<y, g[<<x, v>>]>>]
    BY DEF Commutes
  <2>1. Times(f[y], v) \in Scalar /\ Times(f[x], v) \in Scalar /\ f[x] \in Scalar /\ f[y] \in Scalar
    BY RingTypes
  <2>2. Times(f[x], Times(f[y], v)) = Times(f[y], Times(f[x], v))
    <3>1. Times(f[x], Times(f[y], v)) = Times(Times(f[x], f[y]), v)
            /\ Times(f[y], Times(f[x], v)) = Times(Times(f[y], f[x]), v)
            /\ Times(f[x], f[y]) = Times(f[y], f[x])
      BY <2>1, TimesLaws
    <3> QED
      BY <3>1
  <2> QED
    BY <1>1, <2>1, <2>2
<1>3. 1 \in Scalar
  BY PTypes
<1>4. PICK h \in [SUBSET S -> Scalar] :
        h[{}] = 1 /\ AnyOrder(S, g, h)
  <2>1. HasFold(S, Scalar, 1, g)
    BY <1>2, <1>3, FoldAny
  <2> QED
    BY <2>1 DEF HasFold
<1>5. Products(S, f, h)
  <2> SUFFICES ASSUME NEW s \in SUBSET S, NEW x \in s
               PROVE  h[s] = Times(f[x], h[s \ {x}])
    BY <1>4 DEF Products
  <2>1. x \in S /\ h[s \ {x}] \in Scalar
    OBVIOUS
  <2> QED
    BY <1>1, <1>4, <2>1 DEF AnyOrder
<1> DEFINE Step(iter) == [s \in SUBSET S |-> IF s = {} THEN 1
                            ELSE LET x == CHOOSE x \in s : TRUE IN Times(f[x], iter[s \ {x}])]
           result == CHOOSE iter : iter = Step(iter)
<1>6. \A s \in SUBSET S : s # {} => First(s) \in s
  BY DEF First
<1>7. h = Step(h)
  <2>1. \A s \in SUBSET S : h[s] = IF s = {} THEN 1 ELSE Times(f[First(s)], h[s \ {First(s)}])
    BY <1>5, <1>6 DEF Products
  <2> QED
    BY <2>1 DEF First
<1>8. result = Step(result)
  BY <1>7
<1>9. \A s \in SUBSET S : result[s] = IF s = {} THEN 1 ELSE Times(f[First(s)], result[s \ {First(s)}])
  <2> HIDE DEF result
  <2> QED
    BY <1>8 DEF First
<1>10. Multiply(f) = result[S]
  <2>1. DOMAIN f = S
    OBVIOUS
  <2> QED
    BY <2>1 DEF Multiply, FoldFunction, FoldFunctionOnSet, MapThenFoldSet
<1> HIDE DEF result
<1>11. h[{}] = result[{}]
  BY <1>5, <1>9 DEF Products
<1>12. ASSUME NEW s \in SUBSET S, s # {}, h[s \ {First(s)}] = result[s \ {First(s)}]
       PROVE  h[s] = result[s]
  <2>1. First(s) \in s /\ h[s] = IF s = {} THEN h[{}] ELSE Times(f[First(s)], h[s \ {First(s)}])
    BY <1>5, <1>6, <1>12 DEF Products
  <2>2. result[s] = Times(f[First(s)], result[s \ {First(s)}])
    BY <1>9, <1>12
  <2> QED
    BY <1>12, <2>1, <2>2
<1>13. h[S] = result[S]
  BY <1>11, <1>12, SameFold
<1> QED
  BY <1>5, <1>10, <1>13

-----------------------------------------------------------------------------
(* Laws of sums and products over a finite set.                             *)

LEMMA TotalType ==
  ASSUME NEW S, IsFiniteSet(S), NEW f \in [S -> Scalar]
  PROVE  Total(f) \in Scalar /\ Multiply(f) \in Scalar
<1>1. Total(f) \in Scalar
  <2>1. PICK h \in [SUBSET S -> Scalar] : Sums(S, f, h) /\ Total(f) = h[S]
    BY TotalSums
  <2> QED
    BY <2>1
<1>2. PICK h \in [SUBSET S -> Scalar] : Products(S, f, h) /\ Multiply(f) = h[S]
  BY MultiplyProducts
<1> QED
  BY <1>1, <1>2

LEMMA TotalEmpty ==
  ASSUME NEW f \in [{} -> Scalar]
  PROVE  Total(f) = 0 /\ Multiply(f) = 1
<1>1. IsFiniteSet({})
  BY FS_EmptySet
<1>2. PICK h \in [SUBSET {} -> Scalar] : Sums({}, f, h) /\ Total(f) = h[{}]
  BY <1>1, TotalSums
<1>3. PICK k \in [SUBSET {} -> Scalar] : Products({}, f, k) /\ Multiply(f) = k[{}]
  BY <1>1, MultiplyProducts
<1> QED
  BY <1>2, <1>3 DEF Sums, Products

(* A sum over a part, by the sums over the parts of the whole.              *)
LEMMA TotalPart ==
  ASSUME NEW S, IsFiniteSet(S), NEW f \in [S -> Scalar], NEW part \in SUBSET S,
         NEW h, Sums(S, f, h)
  PROVE  Total([x \in part |-> f[x]]) = h[part]
<1> DEFINE g == [x \in part |-> f[x]]
<1>1. IsFiniteSet(part) /\ g \in [part -> Scalar]
  BY FS_Subset
<1>2. PICK k \in [SUBSET part -> Scalar] : Sums(part, g, k) /\ Total(g) = k[part]
  <2> HIDE DEF g
  <2> QED
    BY <1>1, TotalSums
<1> DEFINE A == {s \in SUBSET part : h[s] = k[s]}
<1>3. {} \in A
  BY <1>2 DEF Sums
<1>4. ASSUME NEW s \in SUBSET part, NEW x \in part \ s, s \in A
      PROVE  s \cup {x} \in A
  <2>1. (s \cup {x}) \ {x} = s /\ x \in s \cup {x} /\ s \cup {x} \in SUBSET part /\ s \cup {x} \in SUBSET S
    OBVIOUS
  <2>2. h[s \cup {x}] = Plus(f[x], h[s])
    BY <2>1 DEF Sums
  <2>3. k[s \cup {x}] = Plus(g[x], k[s])
    <3> HIDE DEF g
    <3> QED
      BY <1>2, <2>1 DEF Sums
  <2> QED
    BY <1>4, <2>1, <2>2, <2>3
<1>5. \A s \in SUBSET part : s \in A
  <2> HIDE DEF A
  <2> QED
    BY <1>1, <1>3, <1>4, PartSet
<1> QED
  BY <1>2, <1>5

LEMMA MultiplyPart ==
  ASSUME NEW S, IsFiniteSet(S), NEW f \in [S -> Scalar], NEW part \in SUBSET S,
         NEW h, Products(S, f, h)
  PROVE  Multiply([x \in part |-> f[x]]) = h[part]
<1> DEFINE g == [x \in part |-> f[x]]
<1>1. IsFiniteSet(part) /\ g \in [part -> Scalar]
  BY FS_Subset
<1>2. PICK k \in [SUBSET part -> Scalar] : Products(part, g, k) /\ Multiply(g) = k[part]
  <2> HIDE DEF g
  <2> QED
    BY <1>1, MultiplyProducts
<1> DEFINE A == {s \in SUBSET part : h[s] = k[s]}
<1>3. {} \in A
  BY <1>2 DEF Products
<1>4. ASSUME NEW s \in SUBSET part, NEW x \in part \ s, s \in A
      PROVE  s \cup {x} \in A
  <2>1. (s \cup {x}) \ {x} = s /\ x \in s \cup {x} /\ s \cup {x} \in SUBSET part /\ s \cup {x} \in SUBSET S
    OBVIOUS
  <2>2. h[s \cup {x}] = Times(f[x], h[s])
    BY <2>1 DEF Products
  <2>3. k[s \cup {x}] = Times(g[x], k[s])
    <3> HIDE DEF g
    <3> QED
      BY <1>2, <2>1 DEF Products
  <2> QED
    BY <1>4, <2>1, <2>2, <2>3
<1>5. \A s \in SUBSET part : s \in A
  <2> HIDE DEF A
  <2> QED
    BY <1>1, <1>3, <1>4, PartSet
<1> QED
  BY <1>2, <1>5

LEMMA TotalRemove ==
  ASSUME NEW S, IsFiniteSet(S), NEW f \in [S -> Scalar], NEW x \in S
  PROVE  /\ Total(f) = Plus(f[x], Total([y \in S \ {x} |-> f[y]]))
         /\ Multiply(f) = Times(f[x], Multiply([y \in S \ {x} |-> f[y]]))
<1>1. PICK h \in [SUBSET S -> Scalar] : Sums(S, f, h) /\ Total(f) = h[S]
  BY TotalSums
<1>2. PICK k \in [SUBSET S -> Scalar] : Products(S, f, k) /\ Multiply(f) = k[S]
  BY MultiplyProducts
<1>3. S \ {x} \in SUBSET S
  OBVIOUS
<1>4. Total([y \in S \ {x} |-> f[y]]) = h[S \ {x}]
  BY <1>1, <1>3, TotalPart
<1>5. Multiply([y \in S \ {x} |-> f[y]]) = k[S \ {x}]
  BY <1>2, <1>3, MultiplyPart
<1>6. h[S] = Plus(f[x], h[S \ {x}])
  BY <1>1 DEF Sums
<1>7. k[S] = Times(f[x], k[S \ {x}])
  BY <1>2 DEF Products
<1> QED
  BY <1>1, <1>2, <1>4, <1>5, <1>6, <1>7

LEMMA PlusExchange ==
  ASSUME NEW a \in Scalar, NEW b \in Scalar, NEW c \in Scalar, NEW d \in Scalar
  PROVE  Plus(Plus(a, b), Plus(c, d)) = Plus(Plus(a, c), Plus(b, d))
<1>1. Plus(c, d) \in Scalar /\ Plus(b, d) \in Scalar /\ Plus(b, c) \in Scalar /\ Plus(c, b) \in Scalar
  BY RingTypes
<1>2. Plus(Plus(a, b), Plus(c, d)) = Plus(a, Plus(b, Plus(c, d)))
  BY <1>1, PlusLaws
<1>3. Plus(b, Plus(c, d)) = Plus(Plus(b, c), d) /\ Plus(c, Plus(b, d)) = Plus(Plus(c, b), d)
  BY PlusLaws
<1>4. Plus(b, c) = Plus(c, b)
  BY PlusLaws
<1>5. Plus(Plus(a, c), Plus(b, d)) = Plus(a, Plus(c, Plus(b, d)))
  BY <1>1, PlusLaws
<1> QED
  BY <1>2, <1>3, <1>4, <1>5

LEMMA TotalPlus ==
  ASSUME NEW S, IsFiniteSet(S), NEW f \in [S -> Scalar], NEW g \in [S -> Scalar]
  PROVE  Total([x \in S |-> Plus(f[x], g[x])]) = Plus(Total(f), Total(g))
<1> DEFINE fg == [x \in S |-> Plus(f[x], g[x])]
<1>1. fg \in [S -> Scalar]
  BY RingTypes
<1>2. \A x \in S : fg[x] = Plus(f[x], g[x])
  OBVIOUS
<1> HIDE DEF fg
<1>3. PICK h \in [SUBSET S -> Scalar] : Sums(S, f, h) /\ Total(f) = h[S]
  BY TotalSums
<1>4. PICK k \in [SUBSET S -> Scalar] : Sums(S, g, k) /\ Total(g) = k[S]
  BY TotalSums
<1>5. PICK m \in [SUBSET S -> Scalar] : Sums(S, fg, m) /\ Total(fg) = m[S]
  BY <1>1, TotalSums
<1> DEFINE A == {s \in SUBSET S : m[s] = Plus(h[s], k[s])}
<1>6. {} \in A
  BY <1>3, <1>4, <1>5, PlusLaws, PTypes DEF Sums
<1>7. ASSUME NEW s \in SUBSET S, NEW x \in S \ s, s \in A
      PROVE  s \cup {x} \in A
  <2>1. (s \cup {x}) \ {x} = s /\ x \in s \cup {x} /\ s \cup {x} \in SUBSET S
    OBVIOUS
  <2>2. h[s \cup {x}] = Plus(f[x], h[s]) /\ k[s \cup {x}] = Plus(g[x], k[s])
          /\ m[s \cup {x}] = Plus(fg[x], m[s])
    BY <1>3, <1>4, <1>5, <2>1, ZenonT(60) DEF Sums
  <2>3. f[x] \in Scalar /\ g[x] \in Scalar /\ h[s] \in Scalar /\ k[s] \in Scalar
    OBVIOUS
  <2>4. Plus(Plus(f[x], g[x]), Plus(h[s], k[s])) = Plus(Plus(f[x], h[s]), Plus(g[x], k[s]))
    BY <2>3, PlusExchange
  <2> QED
    BY <1>2, <1>7, <2>1, <2>2, <2>4
<1>8. \A s \in SUBSET S : s \in A
  <2> HIDE DEF A
  <2> QED
    BY <1>6, <1>7, PartSet
<1> QED
  BY <1>3, <1>4, <1>5, <1>8 DEF fg

LEMMA TotalTimes ==
  ASSUME NEW S, IsFiniteSet(S), NEW f \in [S -> Scalar], NEW a \in Scalar
  PROVE  Total([x \in S |-> Times(a, f[x])]) = Times(a, Total(f))
<1> DEFINE af == [x \in S |-> Times(a, f[x])]
<1>1. af \in [S -> Scalar]
  BY RingTypes
<1>2. \A x \in S : af[x] = Times(a, f[x])
  OBVIOUS
<1> HIDE DEF af
<1>3. PICK h \in [SUBSET S -> Scalar] : Sums(S, f, h) /\ Total(f) = h[S]
  BY TotalSums
<1>4. PICK m \in [SUBSET S -> Scalar] : Sums(S, af, m) /\ Total(af) = m[S]
  BY <1>1, TotalSums
<1> DEFINE A == {s \in SUBSET S : m[s] = Times(a, h[s])}
<1>5. {} \in A
  BY <1>3, <1>4, TimesLaws DEF Sums
<1>6. ASSUME NEW s \in SUBSET S, NEW x \in S \ s, s \in A
      PROVE  s \cup {x} \in A
  <2>1. (s \cup {x}) \ {x} = s /\ x \in s \cup {x} /\ s \cup {x} \in SUBSET S
    OBVIOUS
  <2>2. h[s \cup {x}] = Plus(f[x], h[s]) /\ m[s \cup {x}] = Plus(af[x], m[s])
    <3>1. h[s \cup {x}] = Plus(f[x], h[s])
      BY <1>3, <2>1 DEF Sums
    <3>2. m[s \cup {x}] = Plus(af[x], m[s])
      BY <1>4, <2>1 DEF Sums
    <3> QED
      BY <3>1, <3>2
  <2>3. f[x] \in Scalar /\ h[s] \in Scalar
    OBVIOUS
  <2>4. Times(a, Plus(f[x], h[s])) = Plus(Times(a, f[x]), Times(a, h[s]))
    BY <2>3, Distributes
  <2> QED
    BY <1>2, <1>6, <2>1, <2>2, <2>4
<1>7. \A s \in SUBSET S : s \in A
  <2> HIDE DEF A
  <2> QED
    BY <1>5, <1>6, PartSet
<1> QED
  BY <1>3, <1>4, <1>7 DEF af

LEMMA TotalExp ==
  ASSUME NEW S, IsFiniteSet(S), NEW f \in [S -> Scalar]
  PROVE  Total([x \in S |-> Exp(f[x])]) = Exp(Total(f))
<1>1. Gen \in Scalar
  BY PTypes
<1>2. Total([x \in S |-> Times(Gen, f[x])]) = Times(Gen, Total(f))
  BY <1>1, TotalTimes
<1> QED
  BY <1>2 DEF Exp

LEMMA TotalZero ==
  ASSUME NEW S, IsFiniteSet(S)
  PROVE  Total([x \in S |-> 0]) = 0
<1> DEFINE f == [x \in S |-> 0]
<1>1. 0 \in Scalar /\ f \in [S -> Scalar] /\ Total(f) \in Scalar
  BY PTypes, TotalType
<1>2. Total([x \in S |-> Times(0, f[x])]) = Times(0, Total(f))
  <2> HIDE DEF f
  <2> QED
    BY <1>1, TotalTimes
<1>3. [x \in S |-> Times(0, f[x])] = f
  BY <1>1, TimesLaws
<1> QED
  BY <1>1, <1>2, <1>3, TimesLaws

(* A table, summed by rows or by columns.                                   *)
LEMMA TotalSwap ==
  ASSUME NEW S, IsFiniteSet(S), NEW T, IsFiniteSet(T), NEW f \in [S -> [T -> Scalar]]
  PROVE  Total([x \in S |-> Total([y \in T |-> f[x][y]])])
           = Total([y \in T |-> Total([x \in S |-> f[x][y]])])
<1> DEFINE Row(x) == [y \in T |-> f[x][y]]
           Col(y, s) == [x \in s |-> f[x][y]]
           cols(s) == [y \in T |-> Total(Col(y, s))]
           rows(s) == [x \in s |-> Total(Row(x))]
           A == {s \in SUBSET S : Total(rows(s)) = Total(cols(s))}
<1>1. \A x \in S : Row(x) \in [T -> Scalar] /\ Total(Row(x)) \in Scalar
  BY TotalType
<1>2. ASSUME NEW s \in SUBSET S
      PROVE  /\ IsFiniteSet(s) /\ rows(s) \in [s -> Scalar] /\ cols(s) \in [T -> Scalar]
             /\ \A y \in T : Col(y, s) \in [s -> Scalar]
  <2>1. IsFiniteSet(s)
    BY FS_Subset
  <2>2. rows(s) \in [s -> Scalar]
    <3> HIDE DEF Row
    <3> QED
      BY <1>1
  <2>3. ASSUME NEW y \in T
        PROVE  Col(y, s) \in [s -> Scalar] /\ Total(Col(y, s)) \in Scalar
    <3>1. Col(y, s) \in [s -> Scalar]
      OBVIOUS
    <3> HIDE DEF Col
    <3> QED
      BY <2>1, <3>1, TotalType
  <2>4. cols(s) \in [T -> Scalar]
    <3> HIDE DEF Col
    <3> QED
      BY <2>3
  <2> QED
    BY <2>1, <2>2, <2>3, <2>4
<1>3. {} \in A
  <2>1. rows({}) \in [{} -> Scalar] /\ \A y \in T : Col(y, {}) \in [{} -> Scalar]
    OBVIOUS
  <2>2. Total(rows({})) = 0 /\ \A y \in T : Total(Col(y, {})) = 0
    <3> HIDE DEF rows, Col
    <3> QED
      BY <2>1, TotalEmpty
  <2>3. cols({}) = [y \in T |-> Times(0, 0)]
    <3>1. Times(0, 0) = 0
      BY TimesLaws, PTypes
    <3> HIDE DEF Col
    <3> QED
      BY <2>2, <3>1
  <2>4. Total([y \in T |-> Times(0, [z \in T |-> 0][y])]) = Times(0, Total([z \in T |-> 0]))
    <3>1. [z \in T |-> 0] \in [T -> Scalar] /\ 0 \in Scalar
      BY PTypes
    <3> QED
      BY <3>1, TotalTimes
  <2>5. [y \in T |-> Times(0, [z \in T |-> 0][y])] = [y \in T |-> Times(0, 0)]
    OBVIOUS
  <2>6. Times(0, Total([z \in T |-> 0])) = 0
    <3>1. [z \in T |-> 0] \in [T -> Scalar]
      BY PTypes
    <3>2. Total([z \in T |-> 0]) \in Scalar
      BY <3>1, TotalType
    <3> QED
      BY <3>2, TimesLaws
  <2>7. Total(cols({})) = 0
    BY <2>3, <2>4, <2>5, <2>6
  <2> HIDE DEF cols, rows
  <2> QED
    BY <2>2, <2>7
<1>4. ASSUME NEW s \in SUBSET S, NEW x \in S \ s, s \in A
      PROVE  s \cup {x} \in A
  <2> DEFINE u == s \cup {x}
  <2>1. u \in SUBSET S /\ x \in u /\ u \ {x} = s /\ x \in S
    OBVIOUS
  <2>2. Total(rows(u)) = Plus(Total(Row(x)), Total(rows(s)))
    <3>1. rows(u) \in [u -> Scalar] /\ IsFiniteSet(u)
      BY <1>2, <2>1
    <3>2. Total(rows(u)) = Plus(rows(u)[x], Total([y \in u \ {x} |-> rows(u)[y]]))
      <4> HIDE DEF rows, u
      <4> QED
        BY <2>1, <3>1, TotalRemove, ZenonT(60)
    <3>3. [y \in u \ {x} |-> rows(u)[y]] = rows(s) /\ rows(u)[x] = Total(Row(x))
      <4> HIDE DEF Row
      <4> QED
        BY <2>1
    <3> QED
      BY <3>2, <3>3
  <2>3. ASSUME NEW t \in T
        PROVE  Total(Col(t, u)) = Plus(Row(x)[t], Total(Col(t, s)))
    <3>1. Col(t, u) \in [u -> Scalar] /\ IsFiniteSet(u)
      BY <1>2, <2>1
    <3>2. Total(Col(t, u)) = Plus(Col(t, u)[x], Total([z \in u \ {x} |-> Col(t, u)[z]]))
      <4> HIDE DEF Col, u
      <4>1. \A q \in [u -> Scalar] : Total(q) = Plus(q[x], Total([z \in u \ {x} |-> q[z]]))
        <5>1. IsFiniteSet(u) /\ x \in u
          BY <2>1, <3>1
        <5> QED
          BY <5>1, TotalRemove, ZenonT(60)
      <4> QED
        BY <3>1, <4>1
    <3>3. [z \in u \ {x} |-> Col(t, u)[z]] = Col(t, s) /\ Col(t, u)[x] = Row(x)[t]
      BY <2>1
    <3> QED
      BY <3>2, <3>3
  <2>4. cols(u) = [y \in T |-> Plus(Row(x)[y], cols(s)[y])]
    <3> HIDE DEF Row, Col, u
    <3> QED
      BY <2>3
  <2>5. Total([y \in T |-> Plus(Row(x)[y], cols(s)[y])]) = Plus(Total(Row(x)), Total(cols(s)))
    <3>1. Row(x) \in [T -> Scalar] /\ cols(s) \in [T -> Scalar]
      BY <1>1, <1>2, <2>1
    <3> HIDE DEF Row, cols
    <3> QED
      BY <3>1, TotalPlus
  <2> HIDE DEF rows, cols, Row
  <2> QED
    BY <1>4, <2>1, <2>2, <2>4, <2>5
<1>5. \A s \in SUBSET S : s \in A
  <2> HIDE DEF A
  <2> QED
    BY <1>3, <1>4, PartSet
<1>6. Total(rows(S)) = Total(cols(S))
  <2> HIDE DEF rows, cols
  <2> QED
    BY <1>5
<1> QED
  BY <1>6

(* The sum over a set under other names.                                    *)
LEMMA TotalRenamed ==
  ASSUME NEW K, IsFiniteSet(K), NEW S, IsFiniteSet(S), NEW g \in Bijection(K, S),
         NEW f \in [S -> Scalar]
  PROVE  Total([k \in K |-> f[g[k]]]) = Total(f)
<1> DEFINE F == [k \in K |-> f[g[k]]]
           Image(part) == {g[k] : k \in part}
<1>1. /\ g \in [K -> S] /\ \A k, l \in K : g[k] = g[l] => k = l
      /\ \A x \in S : \E k \in K : g[k] = x
  BY Zenon DEF Bijection, Injection, Surjection, IsInjective
<1>2. F \in [K -> Scalar] /\ \A k \in K : F[k] = f[g[k]]
  BY <1>1
<1> HIDE DEF F
<1>3. PICK h \in [SUBSET K -> Scalar] : Sums(K, F, h) /\ Total(F) = h[K]
  BY <1>2, TotalSums
<1>4. PICK j \in [SUBSET S -> Scalar] : Sums(S, f, j) /\ Total(f) = j[S]
  BY TotalSums
<1> DEFINE A == {part \in SUBSET K : h[part] = j[Image(part)]}
<1>5. {} \in A
  <2>1. Image({}) = {}
    OBVIOUS
  <2> QED
    BY <1>3, <1>4, <2>1 DEF Sums
<1>6. ASSUME NEW part \in SUBSET K, NEW k \in K \ part, part \in A
      PROVE  part \cup {k} \in A
  <2>1. (part \cup {k}) \ {k} = part /\ k \in part \cup {k} /\ part \cup {k} \in SUBSET K
    OBVIOUS
  <2>2. /\ Image(part \cup {k}) \in SUBSET S /\ g[k] \in Image(part \cup {k})
        /\ Image(part \cup {k}) \ {g[k]} = Image(part)
    BY <1>1
  <2>3. h[part \cup {k}] = Plus(F[k], h[part])
    BY <1>3, <2>1 DEF Sums
  <2>4. j[Image(part \cup {k})] = Plus(f[g[k]], j[Image(part)])
    <3>1. PICK all, rest : all = Image(part \cup {k}) /\ rest = Image(part)
      OBVIOUS
    <3>2. all \in SUBSET S /\ g[k] \in all /\ all \ {g[k]} = rest
      <4> HIDE DEF Image
      <4> QED
        BY <2>2, <3>1
    <3>3. j[all] = Plus(f[g[k]], j[rest])
      BY <1>4, <3>2 DEF Sums
    <3> QED
      BY <3>1, <3>3
  <2>5. h[part] = j[Image(part)]
    BY <1>6
  <2>6. h[part \cup {k}] = j[Image(part \cup {k})]
    <3> HIDE DEF Image
    <3> QED
      BY <1>2, <2>3, <2>4, <2>5
  <2> QED
    BY <2>1, <2>6
<1>7. \A part \in SUBSET K : part \in A
  <2> HIDE DEF A
  <2> QED
    BY <1>5, <1>6, PartSet
<1>8. Image(K) = S
  BY <1>1
<1>9. h[K] = j[Image(K)]
  BY <1>7
<1> HIDE DEF Image
<1> QED
  BY <1>3, <1>4, <1>8, <1>9 DEF F

-----------------------------------------------------------------------------
(* The field: P is prime, so every number but 0 has a reciprocal.           *)

(* The least multiple of a, modulo P, that is not 0 is 1: the remainder of P
   by it is a smaller one.                                                  *)
LEMMA ReciprocalExists ==
  ASSUME NEW a \in Scalar \ {0}
  PROVE  Reciprocal(a) \in Scalar /\ Times(a, Reciprocal(a)) = 1
<1> DEFINE T == {r \in Nat : r \in 1..P - 1 /\ \E b \in Int : (a * b) % P = r}
           Less == OpToRel(<, Nat)
<1>1. a \in Int /\ a \in 1..P - 1 /\ P \in Nat /\ P > 1
  BY PTypes DEF Scalar
<1>2. a \in T
  <2>1. (a * 1) % P = a
    <3>1. a * 1 = a
      BY <1>1
    <3> QED
      BY <3>1, RemainderSmall
  <2>2. \E b \in Int : (a * b) % P = a
    BY <2>1
  <2>3. a \in Nat /\ a \in 1..P - 1
    BY <1>1
  <2> QED
    BY <2>2, <2>3
<1>3. PICK r \in T : \A s \in T : ~(<<s, r>> \in Less)
  <2> HIDE DEF Less
  <2>1. IsWellFoundedOn(Less, Nat)
    BY NatLessThanWellFounded DEF Less
  <2>2. T \subseteq Nat /\ T # {}
    BY <1>2
  <2> HIDE DEF T
  <2> QED
    BY <2>1, <2>2, WFMin, Zenon
<1>4. PICK b \in Int : (a * b) % P = r
  BY <1>3
<1>5. r \in 1..P - 1 /\ r \in Nat
  BY <1>3
<1>6. r = 1
  <2> SUFFICES ASSUME r # 1 PROVE FALSE
    OBVIOUS
  <2> DEFINE s == P % r
             q == P \div r
             k == (a * b) \div P
  <2>1. r \in 2..P - 1
    BY <1>5, PTypes
  <2>2. s # 0
    BY <2>1, FieldAssumption
  <2>3. P = r * q + s /\ q \in Int /\ s \in 1..r - 1
    BY <1>1, <2>1, <2>2
  <2>4. a * b = P * k + r /\ k \in Int
    <3>1. a * b \in Int
      BY <1>1
    <3> QED
      BY <1>4, <3>1, Division
  <2> HIDE DEF s, q, k
  <2>5. a * (-(b * q)) = P * (-(k * q) - 1) + s
    <3> DEFINE kq == k * q
               rq == r * q
    <3>1. kq \in Int /\ rq \in Int /\ b * q \in Int
      BY <1>5, <2>3, <2>4
    <3>2. (a * b) * q = P * kq + rq
      BY <1>1, <1>5, <2>3, <2>4
    <3>3. a * (-(b * q)) = -((a * b) * q)
      BY <1>1, <2>3
    <3>4. P * (-kq - 1) = -(P * kq) - P
      BY <1>1, <3>1
    <3>5. P * kq \in Int
      BY <1>1, <3>1
    <3> QED
      BY <1>1, <2>3, <3>1, <3>2, <3>3, <3>4, <3>5
  <2>6. (a * (-(b * q))) % P = s
    <3>1. -(k * q) - 1 \in Int /\ s \in Scalar
      BY <1>5, <2>3, <2>4 DEF Scalar
    <3> QED
      BY <2>5, <3>1, OneRemainder
  <2>7. s \in T
    <3>1. s \in Nat /\ s \in 1..P - 1 /\ -(b * q) \in Int
      BY <1>1, <1>5, <2>3
    <3> QED
      BY <2>6, <3>1
  <2>8. <<s, r>> \in Less
    BY <1>5, <2>3 DEF OpToRel
  <2> HIDE DEF T, Less
  <2> QED
    BY <1>3, <2>7, <2>8
<1>7. Times(a, b % P) = 1
  <2>1. ((b % P) * a) % P = (b * a) % P
    BY <1>1, RemainderTimes
  <2>2. (b % P) * a = a * (b % P) /\ b * a = a * b
    <3>1. b % P \in Int
      BY Division, PTypes DEF Scalar
    <3> QED
      BY <1>1, <3>1
  <2> QED
    BY <1>4, <1>6, <2>1, <2>2 DEF Times
<1>8. b % P \in Scalar
  BY Division
<1> QED
  BY <1>7, <1>8 DEF Reciprocal

LEMMA Cancel ==
  ASSUME NEW a \in Scalar \ {0}, NEW b \in Scalar, Times(a, b) = 0
  PROVE  b = 0
<1>1. Reciprocal(a) \in Scalar /\ Times(a, Reciprocal(a)) = 1
  BY ReciprocalExists
<1> DEFINE r == Reciprocal(a)
<1>2. Times(r, Times(a, b)) = 0
  BY <1>1, TimesLaws
<1>3. Times(r, Times(a, b)) = Times(Times(r, a), b)
  BY <1>1, TimesLaws
<1>4. Times(r, a) = 1
  BY <1>1, TimesLaws
<1> QED
  BY <1>2, <1>3, <1>4, TimesLaws

LEMMA MinusZero ==
  ASSUME NEW a \in Scalar, NEW b \in Scalar
  PROVE  (Minus(a, b) = 0 <=> a = b) /\ Minus(a, a) = 0
<1>1. Plus(Minus(a, b), b) = a
  BY MinusLaws
<1>2. Minus(Plus(0, a), a) = 0
  BY MinusLaws, PTypes
<1>3. Plus(0, a) = a /\ Plus(0, b) = b
  BY PlusLaws
<1> QED
  BY <1>1, <1>2, <1>3

-----------------------------------------------------------------------------
(* Loops: what a function of the number of rounds computes. g says what a round
   does to the result of the rounds before it.                             *)

Loops(n, base, g, h) == \A k \in 0..n : h[k] = IF k = 0 THEN base ELSE g[<<k, h[k - 1]>>]
HasLoop(n, V, base, g) == \E h \in [0..n -> V] : Loops(n, base, g, h)

LEMMA LoopExists ==
  ASSUME NEW n \in Nat, NEW V, NEW base \in V, NEW g \in [(1..n) \X V -> V]
  PROVE  HasLoop(n, V, base, g)
<1> DEFINE Upto(h, m) == \A k \in 0..n : k <= m => h[k] = IF k = 0 THEN base ELSE g[<<k, h[k - 1]>>]
           A == {m \in Nat : \E h \in [0..n -> V] : Upto(h, m)}
<1>1. 0 \in A
  <2>1. [k \in 0..n |-> base] \in [0..n -> V] /\ Upto([k \in 0..n |-> base], 0)
    OBVIOUS
  <2> QED
    BY <2>1
<1>2. ASSUME NEW m \in Nat, m \in A
      PROVE  m + 1 \in A
  <2>1. PICK h \in [0..n -> V] : Upto(h, m)
    BY <1>2
  <2> DEFINE j == [k \in 0..n |-> IF k = m + 1 THEN g[<<k, h[k - 1]>>] ELSE h[k]]
  <2>2. j \in [0..n -> V]
    OBVIOUS
  <2>3. Upto(j, m + 1)
    <3> SUFFICES ASSUME NEW k \in 0..n, k <= m + 1
                 PROVE  j[k] = IF k = 0 THEN base ELSE g[<<k, j[k - 1]>>]
      OBVIOUS
    <3>1. CASE k = m + 1
      <4>1. k # 0 /\ k - 1 \in 0..n /\ k - 1 # m + 1
        BY <3>1
      <4> QED
        BY <3>1, <4>1
    <3>2. CASE k = 0
      <4>1. 0 \in 0..n /\ 0 <= m /\ 0 # m + 1
        OBVIOUS
      <4>2. h[0] = base
        BY <2>1, <4>1
      <4> QED
        BY <3>2, <4>1, <4>2
    <3>3. CASE k # 0 /\ k # m + 1
      <4>1. k - 1 \in 0..n /\ k - 1 # m + 1 /\ k <= m
        BY <3>3
      <4>2. h[k] = g[<<k, h[k - 1]>>]
        BY <2>1, <3>3, <4>1
      <4> QED
        BY <3>3, <4>1, <4>2
    <3> QED
      BY <3>1, <3>2, <3>3
  <2>4. \E f \in [0..n -> V] : Upto(f, m + 1)
    <3> HIDE DEF j, Upto
    <3> QED
      BY <2>2, <2>3
  <2>5. m + 1 \in Nat
    OBVIOUS
  <2> HIDE DEF Upto
  <2> QED
    BY <2>4, <2>5
<1>3. n \in A
  <2>1. \A m \in Nat : m \in A
    <3> HIDE DEF A
    <3> QED
      BY <1>1, <1>2, NatSet
  <2> QED
    BY <2>1
<1> QED
  BY <1>3 DEF HasLoop, Loops

(* Two loops that start alike and whose rounds agree.                       *)
SameRounds(n, h, j) == h[0] = j[0] /\ \A k \in 1..n : h[k - 1] = j[k - 1] => h[k] = j[k]

LEMMA SameLoop ==
  ASSUME NEW n \in Nat, NEW h, NEW j, SameRounds(n, h, j)
  PROVE  \A k \in 0..n : h[k] = j[k]
<1> USE DEF SameRounds
<1> DEFINE A == {m \in Nat : m <= n => h[m] = j[m]}
<1>1. 0 \in A
  OBVIOUS
<1>2. ASSUME NEW m \in Nat, m \in A
      PROVE  m + 1 \in A
  <2>1. m + 1 \in Nat /\ (m + 1) - 1 = m
    OBVIOUS
  <2>2. CASE m + 1 <= n
    <3>1. m + 1 \in 1..n /\ m <= n
      BY <2>2
    <3> QED
      BY <1>2, <2>1, <3>1
  <2> QED
    BY <2>1, <2>2
<1>3. \A m \in Nat : m \in A
  <2> HIDE DEF A
  <2> QED
    BY <1>1, <1>2, NatSet
<1> QED
  BY <1>3

-----------------------------------------------------------------------------
(* Polynomials.                                                             *)

(* Horner's method: the rounds of Evaluate.                                 *)
Horner(c, x, h) ==
  /\ h[0] = 0
  /\ \A k \in 1..Len(c) : h[k] = Plus(Times(h[k - 1], x), c[Len(c) - k + 1])

LEMMA EvaluateLoop ==
  ASSUME NEW c \in Seq(Scalar), NEW x \in Scalar
  PROVE  \E h \in [0..Len(c) -> Scalar] : Horner(c, x, h) /\ Evaluate(c, x) = h[Len(c)]
<1> DEFINE n == Len(c)
<1>1. n \in Nat /\ 0 \in 0..n /\ \A k \in 1..n : c[n - k + 1] \in Scalar
  <2>1. \A k \in 1..n : n - k + 1 \in 1..n
    OBVIOUS
  <2> QED
    BY <2>1
<1>2. PICK g \in [(1..n) \X Scalar -> Scalar] :
        \A k \in 1..n, v \in Scalar : g[<<k, v>>] = Plus(Times(v, x), c[n - k + 1])
  <2> DEFINE round == [kv \in (1..n) \X Scalar |-> Plus(Times(kv[2], x), c[n - kv[1] + 1])]
  <2>1. \A kv \in (1..n) \X Scalar : Plus(Times(kv[2], x), c[n - kv[1] + 1]) \in Scalar
    BY <1>1, RingTypes
  <2>2. round \in [(1..n) \X Scalar -> Scalar]
    BY <2>1
  <2>3. \A k \in 1..n, v \in Scalar : round[<<k, v>>] = Plus(Times(v, x), c[n - k + 1])
    OBVIOUS
  <2> QED
    BY <2>2, <2>3
<1>3. 0 \in Scalar
  BY PTypes
<1>4. PICK h \in [0..n -> Scalar] : Loops(n, 0, g, h)
  <2>1. HasLoop(n, Scalar, 0, g)
    BY <1>1, <1>3, LoopExists
  <2> QED
    BY <2>1 DEF HasLoop
<1>5. Horner(c, x, h)
  <2>1. h[0] = 0
    BY <1>1, <1>4 DEF Loops
  <2>2. ASSUME NEW k \in 1..n
        PROVE  h[k] = Plus(Times(h[k - 1], x), c[n - k + 1])
    <3>1. k \in 0..n /\ k # 0 /\ k - 1 \in 0..n
      BY <1>1
    <3>2. h[k] = g[<<k, h[k - 1]>>] /\ h[k - 1] \in Scalar
      BY <1>4, <3>1 DEF Loops
    <3> QED
      BY <1>2, <3>2
  <2> QED
    BY <2>1, <2>2 DEF Horner
<1> DEFINE Round(f) == [k \in 0..Len(c) |->
                          IF k = 0 THEN 0 ELSE Plus(Times(f[k - 1], x), c[Len(c) - k + 1])]
           result == CHOOSE f : f = Round(f)
<1>6. h = Round(h)
  <2>1. \A k \in 0..n : h[k] = IF k = 0 THEN 0 ELSE Plus(Times(h[k - 1], x), c[Len(c) - k + 1])
    BY <1>5 DEF Horner
  <2> QED
    BY <2>1
<1>7. result = Round(result)
  BY <1>6
<1>8. Evaluate(c, x) = result[n]
  BY DEF Evaluate
<1> HIDE DEF result
<1>9. \A k \in 0..n : result[k] = IF k = 0 THEN 0 ELSE Plus(Times(result[k - 1], x), c[Len(c) - k + 1])
  BY <1>7
<1>10. h[0] = result[0]
  BY <1>1, <1>5, <1>9 DEF Horner
<1>11. ASSUME NEW k \in 1..n, h[k - 1] = result[k - 1]
       PROVE  h[k] = result[k]
  <2>1. k \in 0..n /\ k # 0
    BY <1>1
  <2> QED
    BY <1>5, <1>9, <1>11, <2>1 DEF Horner
<1>12. h[n] = result[n]
  <2>1. SameRounds(n, h, result)
    BY <1>10, <1>11 DEF SameRounds
  <2>2. \A k \in 0..n : h[k] = result[k]
    BY <1>1, <2>1, SameLoop
  <2> QED
    BY <1>1, <2>2
<1> QED
  BY <1>5, <1>8, <1>12

(* The rounds of ExpectedShareCommitment: the powers of x, and the sum.     *)
Powers(C, x, h) ==
  h[0] = 1 /\ \A k \in 1..Len(C) : h[k] = Times(h[k - 1], x)
CommitmentSums(C, pow, h) ==
  h[0] = Identity /\ \A k \in 1..Len(C) : h[k] = Plus(h[k - 1], Times(C[k], pow[k - 1]))

LEMMA ShareCommitmentLoop ==
  ASSUME NEW C \in Seq(Scalar), NEW x \in Scalar
  PROVE  \E pow, h \in [0..Len(C) -> Scalar] :
           Powers(C, x, pow) /\ CommitmentSums(C, pow, h) /\ ExpectedShareCommitment(C, x) = h[Len(C)]
<1> DEFINE n == Len(C)
<1>1. n \in Nat /\ 0 \in 0..n /\ \A k \in 1..n : C[k] \in Scalar
  OBVIOUS
<1>2. PICK f \in [(1..n) \X Scalar -> Scalar] :
        \A k \in 1..n, v \in Scalar : f[<<k, v>>] = Times(v, x)
  <2> DEFINE round == [kv \in (1..n) \X Scalar |-> Times(kv[2], x)]
  <2>1. round \in [(1..n) \X Scalar -> Scalar]
    BY RingTypes
  <2>2. \A k \in 1..n, v \in Scalar : round[<<k, v>>] = Times(v, x)
    OBVIOUS
  <2> QED
    BY <2>1, <2>2
<1>3. 0 \in Scalar /\ 1 \in Scalar
  BY PTypes
<1>4. PICK pow \in [0..n -> Scalar] : Loops(n, 1, f, pow)
  <2>1. HasLoop(n, Scalar, 1, f)
    BY <1>1, <1>3, LoopExists
  <2> QED
    BY <2>1 DEF HasLoop
<1>5. Powers(C, x, pow)
  <2>1. pow[0] = 1
    BY <1>1, <1>4 DEF Loops
  <2>2. ASSUME NEW k \in 1..n
        PROVE  pow[k] = Times(pow[k - 1], x)
    <3>1. k \in 0..n /\ k # 0 /\ k - 1 \in 0..n
      BY <1>1
    <3>2. pow[k] = f[<<k, pow[k - 1]>>] /\ pow[k - 1] \in Scalar
      BY <1>4, <3>1 DEF Loops
    <3> QED
      BY <1>2, <3>2
  <2> QED
    BY <2>1, <2>2 DEF Powers
<1>6. PICK g \in [(1..n) \X Scalar -> Scalar] :
        \A k \in 1..n, v \in Scalar : g[<<k, v>>] = Plus(v, Times(C[k], pow[k - 1]))
  <2> DEFINE round == [kv \in (1..n) \X Scalar |-> Plus(kv[2], Times(C[kv[1]], pow[kv[1] - 1]))]
  <2>1. ASSUME NEW kv \in (1..n) \X Scalar
        PROVE  Plus(kv[2], Times(C[kv[1]], pow[kv[1] - 1])) \in Scalar
    <3>1. kv[1] - 1 \in 0..n /\ kv[2] \in Scalar /\ C[kv[1]] \in Scalar
      BY <1>1
    <3> QED
      BY <3>1, RingTypes
  <2>2. round \in [(1..n) \X Scalar -> Scalar]
    BY <2>1
  <2>3. \A k \in 1..n, v \in Scalar : round[<<k, v>>] = Plus(v, Times(C[k], pow[k - 1]))
    OBVIOUS
  <2> QED
    BY <2>2, <2>3
<1>7. PICK h \in [0..n -> Scalar] : Loops(n, 0, g, h)
  <2>1. HasLoop(n, Scalar, 0, g)
    BY <1>1, <1>3, LoopExists
  <2> QED
    BY <2>1 DEF HasLoop
<1>8. CommitmentSums(C, pow, h)
  <2>1. h[0] = Identity
    BY <1>1, <1>7 DEF Loops, Identity
  <2>2. ASSUME NEW k \in 1..n
        PROVE  h[k] = Plus(h[k - 1], Times(C[k], pow[k - 1]))
    <3>1. k \in 0..n /\ k # 0 /\ k - 1 \in 0..n
      BY <1>1
    <3>2. h[k] = g[<<k, h[k - 1]>>] /\ h[k - 1] \in Scalar
      BY <1>7, <3>1 DEF Loops
    <3> QED
      BY <1>6, <3>2
  <2> QED
    BY <2>1, <2>2 DEF CommitmentSums
<1> DEFINE PowRound(F) == [k \in 0..Len(C) |-> IF k = 0 THEN 1 ELSE Times(F[k - 1], x)]
           x_pow == CHOOSE F : F = PowRound(F)
           Round(F) == [k \in 0..Len(C) |->
                          IF k = 0 THEN Identity ELSE Plus(F[k - 1], Times(C[k], x_pow[k - 1]))]
           result == CHOOSE F : F = Round(F)
<1>9. ExpectedShareCommitment(C, x) = result[n]
  BY DEF ExpectedShareCommitment
<1>10. pow = PowRound(pow)
  <2>1. \A k \in 0..n : pow[k] = IF k = 0 THEN 1 ELSE Times(pow[k - 1], x)
    BY <1>5 DEF Powers
  <2> QED
    BY <2>1
<1>11. x_pow = PowRound(x_pow)
  BY <1>10
<1>12. \A k \in 0..n : pow[k] = x_pow[k]
  <2> HIDE DEF x_pow
  <2>1. \A k \in 0..n : x_pow[k] = IF k = 0 THEN 1 ELSE Times(x_pow[k - 1], x)
    BY <1>11
  <2>2. pow[0] = x_pow[0]
    BY <1>1, <1>5, <2>1 DEF Powers
  <2>3. ASSUME NEW k \in 1..n, pow[k - 1] = x_pow[k - 1]
        PROVE  pow[k] = x_pow[k]
    <3>1. k \in 0..n /\ k # 0
      BY <1>1
    <3> QED
      BY <1>5, <2>1, <2>3, <3>1 DEF Powers
  <2>4. SameRounds(n, pow, x_pow)
    BY <2>2, <2>3 DEF SameRounds
  <2> QED
    BY <1>1, <2>4, SameLoop
<1> HIDE DEF x_pow
<1>13. h = Round(h)
  <2>1. ASSUME NEW k \in 0..n
        PROVE  h[k] = IF k = 0 THEN Identity ELSE Plus(h[k - 1], Times(C[k], x_pow[k - 1]))
    <3>1. CASE k = 0
      BY <1>8, <3>1 DEF CommitmentSums
    <3>2. CASE k # 0
      <4>1. k \in 1..n /\ k - 1 \in 0..n
        BY <1>1, <3>2
      <4> QED
        BY <1>8, <1>12, <3>2, <4>1 DEF CommitmentSums
    <3> QED
      BY <3>1, <3>2
  <2> QED
    BY <2>1
<1>14. result = Round(result)
  BY <1>13
<1> HIDE DEF result
<1>15. \A k \in 0..n : result[k] = IF k = 0 THEN Identity ELSE Plus(result[k - 1], Times(C[k], x_pow[k - 1]))
  BY <1>14
<1>16. \A k \in 0..n : h[k] = IF k = 0 THEN Identity ELSE Plus(h[k - 1], Times(C[k], x_pow[k - 1]))
  BY <1>13
<1>17. h[n] = result[n]
  <2>1. h[0] = result[0]
    BY <1>1, <1>15, <1>16
  <2>2. ASSUME NEW k \in 1..n, h[k - 1] = result[k - 1]
        PROVE  h[k] = result[k]
    <3>1. k \in 0..n /\ k # 0
      BY <1>1
    <3> QED
      BY <1>15, <1>16, <2>2, <3>1
  <2>3. SameRounds(n, h, result)
    BY <2>1, <2>2 DEF SameRounds
  <2>4. \A k \in 0..n : h[k] = result[k]
    BY <1>1, <2>3, SameLoop
  <2> QED
    BY <1>1, <2>4
<1> QED
  BY <1>5, <1>8, <1>9, <1>17

LEMMA EvaluateType ==
  ASSUME NEW c \in Seq(Scalar), NEW x \in Scalar
  PROVE  Evaluate(c, x) \in Scalar
<1>1. PICK h \in [0..Len(c) -> Scalar] : Horner(c, x, h) /\ Evaluate(c, x) = h[Len(c)]
  BY EvaluateLoop
<1>2. Len(c) \in 0..Len(c)
  OBVIOUS
<1> QED
  BY <1>1, <1>2

(* The value of a polynomial is its constant term and x times the value of the
   rest.                                                                   *)
LEMMA EvaluateRest ==
  ASSUME NEW c \in Seq(Scalar), Len(c) > 0, NEW x \in Scalar
  PROVE  /\ Tail(c) \in Seq(Scalar) /\ Len(Tail(c)) = Len(c) - 1 /\ c[1] \in Scalar
         /\ Evaluate(c, x) = Plus(c[1], Times(x, Evaluate(Tail(c), x)))
<1> DEFINE d == Tail(c)
           n == Len(d)
<1>1. d \in Seq(Scalar) /\ n \in Nat /\ Len(c) = n + 1 /\ \A k \in 1..n : d[k] = c[k + 1]
  OBVIOUS
<1> HIDE DEF d
<1>2. PICK h \in [0..Len(c) -> Scalar] : Horner(c, x, h) /\ Evaluate(c, x) = h[Len(c)]
  BY EvaluateLoop
<1>3. PICK j \in [0..Len(d) -> Scalar] : Horner(d, x, j) /\ Evaluate(d, x) = j[Len(d)]
  BY <1>1, EvaluateLoop
<1>4. h[0] = j[0]
  BY <1>2, <1>3 DEF Horner
<1>5. ASSUME NEW k \in 1..n, h[k - 1] = j[k - 1]
      PROVE  h[k] = j[k]
  <2>1. k \in 1..Len(c) /\ n - k + 1 \in 1..n /\ Len(c) - k + 1 = (n - k + 1) + 1
    BY <1>1
  <2>2. d[n - k + 1] = c[Len(c) - k + 1]
    BY <1>1, <2>1
  <2>3. h[k] = Plus(Times(h[k - 1], x), c[Len(c) - k + 1])
    BY <1>2, <2>1 DEF Horner
  <2>4. j[k] = Plus(Times(j[k - 1], x), d[n - k + 1])
    BY <1>3 DEF Horner
  <2> QED
    BY <1>5, <2>2, <2>3, <2>4
<1>6. h[n] = j[n]
  <2>1. SameRounds(n, h, j)
    BY <1>4, <1>5 DEF SameRounds
  <2>2. \A k \in 0..n : h[k] = j[k]
    BY <1>1, <2>1, SameLoop
  <2> QED
    BY <1>1, <2>2
<1>7. h[n + 1] = Plus(Times(h[n], x), c[1])
  <2>1. n + 1 \in 1..Len(c) /\ (n + 1) - 1 = n /\ Len(c) - (n + 1) + 1 = 1
    BY <1>1
  <2> QED
    BY <1>2, <2>1 DEF Horner
<1>8. c[1] \in Scalar /\ h[n] \in Scalar /\ Times(h[n], x) \in Scalar
  <2>1. n \in 0..Len(c) /\ 1 \in 1..Len(c)
    BY <1>1
  <2>2. c[1] \in Scalar /\ h[n] \in Scalar
    BY <1>2, <2>1
  <2> QED
    BY <2>2, RingTypes
<1>9. Plus(Times(h[n], x), c[1]) = Plus(c[1], Times(x, h[n]))
  BY <1>8, PlusLaws, TimesLaws
<1> QED
  BY <1>1, <1>2, <1>3, <1>6, <1>7, <1>8, <1>9 DEF d

LEMMA EvaluateEmpty ==
  ASSUME NEW c \in Seq(Scalar), Len(c) = 0, NEW x \in Scalar
  PROVE  Evaluate(c, x) = 0
<1>1. PICK h \in [0..Len(c) -> Scalar] : Horner(c, x, h) /\ Evaluate(c, x) = h[Len(c)]
  BY EvaluateLoop
<1> QED
  BY <1>1 DEF Horner

(* At every point the check of a share against the commitment to a polynomial
   accepts its value there (vss::commit, vss::verify_share): the sum the check
   builds, and the part of Horner's method that is left, always make up the
   commitment to the value.                                                 *)
LEMMA CommitType ==
  ASSUME NEW c \in Seq(Scalar)
  PROVE  /\ Commit(c) \in Seq(Scalar) /\ Len(Commit(c)) = Len(c)
         /\ \A k \in 1..Len(c) : Commit(c)[k] = Exp(c[k])
<1>1. \A k \in 1..Len(c) : Exp(c[k]) \in Scalar
  BY RingTypes
<1> QED
  BY <1>1 DEF Commit

LEMMA ShareCommitted ==
  ASSUME NEW c \in Seq(Scalar), NEW x \in Scalar
  PROVE  ExpectedShareCommitment(Commit(c), x) = Exp(Evaluate(c, x))
<1> DEFINE C == Commit(c)
           n == Len(c)
<1>1. /\ n \in Nat /\ \A k \in 1..n : c[k] \in Scalar
      /\ C \in Seq(Scalar) /\ Len(C) = n /\ \A k \in 1..n : C[k] = Exp(c[k]) /\ C[k] \in Scalar
  BY CommitType, RingTypes
<1> HIDE DEF C
<1>2. PICK h \in [0..n -> Scalar] : Horner(c, x, h) /\ Evaluate(c, x) = h[n]
  BY EvaluateLoop
<1>3. PICK pow, r \in [0..n -> Scalar] :
        Powers(C, x, pow) /\ CommitmentSums(C, pow, r) /\ ExpectedShareCommitment(C, x) = r[n]
  BY <1>1, ShareCommitmentLoop
<1>4. Exp(h[n]) \in Scalar /\ n \in 0..n /\ 0 \in 0..n
  BY <1>1, RingTypes
<1> DEFINE A == {k \in Nat : k <= n => Plus(r[k], Times(pow[k], Exp(h[n - k]))) = Exp(h[n])}
<1>5. 0 \in A
  <2>1. r[0] = 0 /\ pow[0] = 1 /\ n - 0 = n
    BY <1>1, <1>3 DEF CommitmentSums, Powers, Identity
  <2> QED
    BY <1>4, <2>1, PlusLaws, TimesLaws
<1>6. ASSUME NEW k \in Nat, k \in A
      PROVE  k + 1 \in A
  <2> DEFINE m == n - (k + 1)
             e == Exp(h[m])
             p == pow[k]
             ck == C[k + 1]
  <2>1. SUFFICES ASSUME k + 1 <= n
                 PROVE  Plus(r[k + 1], Times(pow[k + 1], e)) = Exp(h[n])
    OBVIOUS
  <2>2. /\ k \in 0..n /\ k <= n /\ k + 1 \in 1..n /\ (k + 1) - 1 = k /\ m \in 0..n
        /\ n - k \in 1..n /\ (n - k) - 1 = m /\ n - (n - k) + 1 = k + 1
    BY <1>1, <2>1
  <2>3. h[n - k] = Plus(Times(h[m], x), c[k + 1])
    BY <1>2, <2>2 DEF Horner
  <2>4. p \in Scalar /\ e \in Scalar /\ ck \in Scalar /\ h[m] \in Scalar /\ c[k + 1] \in Scalar /\ r[k] \in Scalar
    BY <1>1, <1>2, <1>3, <2>2, RingTypes
  <2>5. Exp(h[n - k]) = Plus(Times(e, x), ck)
    <3>1. Times(h[m], x) \in Scalar
      BY <2>4, RingTypes
    <3>2. Exp(Plus(Times(h[m], x), c[k + 1])) = Plus(Exp(Times(h[m], x)), Exp(c[k + 1]))
      BY <2>4, <3>1, ExpLaws
    <3>3. Exp(Times(h[m], x)) = Times(e, x)
      BY <2>4, ExpLaws
    <3> QED
      BY <1>1, <2>2, <2>3, <3>2, <3>3
  <2>6. r[k + 1] = Plus(r[k], Times(ck, p)) /\ pow[k + 1] = Times(p, x)
    BY <1>1, <1>3, <2>2 DEF CommitmentSums, Powers
  <2>7. Plus(r[k], Times(p, Exp(h[n - k]))) = Exp(h[n])
    BY <1>6, <2>2
  <2> HIDE DEF m, e, p, ck
  <2>8. Times(p, Plus(Times(e, x), ck)) = Plus(Times(Times(p, x), e), Times(ck, p))
    <3>1. Times(e, x) \in Scalar /\ Times(p, x) \in Scalar /\ Times(Times(p, x), e) \in Scalar
            /\ Times(ck, p) \in Scalar
      BY <2>4, RingTypes
    <3>2. Times(p, Plus(Times(e, x), ck)) = Plus(Times(p, Times(e, x)), Times(p, ck))
      BY <2>4, <3>1, Distributes
    <3>3. Times(e, x) = Times(x, e) /\ Times(Times(p, x), e) = Times(p, Times(x, e)) /\ Times(p, ck) = Times(ck, p)
      BY <2>4, TimesLaws
    <3> QED
      BY <3>2, <3>3
  <2>9. Plus(r[k], Plus(Times(Times(p, x), e), Times(ck, p)))
          = Plus(Plus(r[k], Times(ck, p)), Times(Times(p, x), e))
    <3>1. Times(p, x) \in Scalar
      BY <2>4, RingTypes
    <3>2. Times(Times(p, x), e) \in Scalar /\ Times(ck, p) \in Scalar
      BY <2>4, <3>1, RingTypes
    <3> QED
      BY <2>4, <3>2, PlusLaws
  <2> QED
    BY <2>5, <2>6, <2>7, <2>8, <2>9
<1>7. n \in A
  <2>1. \A k \in Nat : k \in A
    <3> HIDE DEF A
    <3> QED
      BY <1>5, <1>6, NatSet
  <2> QED
    BY <1>1, <2>1
<1>8. Plus(r[n], Times(pow[n], Exp(h[0]))) = Exp(h[n])
  <2>1. n - n = 0 /\ n <= n
    BY <1>1
  <2> QED
    BY <1>7, <2>1
<1>9. Times(pow[n], Exp(h[0])) = 0
  BY <1>2, <1>3, <1>4, ExpLaws, TimesLaws DEF Horner, Identity
<1>10. r[n] = Exp(h[n])
  BY <1>3, <1>4, <1>8, <1>9, PlusLaws
<1> QED
  BY <1>2, <1>3, <1>10 DEF C

(* An honest dealing verifies, in every field and at every point.           *)
THEOREM SharesVerify ==
  ASSUME NEW c \in Seq(Scalar), NEW x \in Scalar
  PROVE  VerifyShare(Commit(c), x, Evaluate(c, x))
BY ShareCommitted DEF VerifyShare

-----------------------------------------------------------------------------
(* Interpolation at zero.                                                   *)

(* Cancelling a sum.                                                        *)
LEMMA PlusCancels ==
  ASSUME NEW a \in Scalar, NEW b \in Scalar, NEW c \in Scalar, Plus(a, c) = Plus(b, c)
  PROVE  a = b
<1>1. Minus(Plus(a, c), c) = a /\ Minus(Plus(b, c), c) = b
  BY MinusLaws
<1> QED
  BY <1>1

(* The factor of another member in a member's coefficient.                  *)
Factor(j, i) == Times(j, Reciprocal(Minus(j, i)))

LEMMA FactorType ==
  ASSUME NEW i \in Scalar, NEW j \in Scalar, i # j
  PROVE  Factor(j, i) \in Scalar /\ Times(Minus(j, i), Factor(j, i)) = j
<1> DEFINE d == Minus(j, i)
           r == Reciprocal(d)
<1>1. d \in Scalar \ {0}
  BY RingTypes, MinusZero
<1> HIDE DEF d
<1>2. r \in Scalar /\ Times(d, r) = 1
  BY <1>1, ReciprocalExists
<1> HIDE DEF r
<1>3. Times(j, r) \in Scalar
  BY <1>2, RingTypes
<1>4. Times(d, Times(j, r)) = Times(Times(d, r), j)
  <2>1. Times(j, r) = Times(r, j)
    BY <1>2, TimesLaws
  <2> QED
    BY <1>1, <1>2, <2>1, TimesLaws
<1> QED
  BY <1>2, <1>3, <1>4, TimesLaws DEF Factor, d, r

LEMMA CoeffRemove ==
  ASSUME NEW S \in SUBSET Scalar, IsFiniteSet(S), NEW i \in S
  PROVE  /\ LagrangeCoeff(i, S) \in Scalar
         /\ \A m \in S \ {i} :
              Times(Minus(m, i), LagrangeCoeff(i, S)) = Times(m, LagrangeCoeff(i, S \ {m}))
<1> DEFINE Others(s) == [j \in s \ {i} |-> Factor(j, i)]
<1>1. \A s \in SUBSET S : IsFiniteSet(s) /\ IsFiniteSet(s \ {i}) /\ Others(s) \in [s \ {i} -> Scalar]
  <2> SUFFICES ASSUME NEW s \in SUBSET S
               PROVE  IsFiniteSet(s) /\ IsFiniteSet(s \ {i}) /\ Others(s) \in [s \ {i} -> Scalar]
    OBVIOUS
  <2>1. IsFiniteSet(s) /\ IsFiniteSet(s \ {i})
    BY FS_Subset
  <2>2. \A j \in s \ {i} : Factor(j, i) \in Scalar
    BY FactorType
  <2> QED
    BY <2>1, <2>2
<1>2. \A s : LagrangeCoeff(i, s) = Multiply(Others(s))
  BY DEF LagrangeCoeff, Factor
<1>3. \A s \in SUBSET S : LagrangeCoeff(i, s) \in Scalar
  <2> HIDE DEF Others
  <2> QED
    BY <1>1, <1>2, TotalType
<1>4. ASSUME NEW m \in S \ {i}
      PROVE  Times(Minus(m, i), LagrangeCoeff(i, S)) = Times(m, LagrangeCoeff(i, S \ {m}))
  <2> DEFINE f == Others(S)
             w == LagrangeCoeff(i, S \ {m})
  <2>1. f \in [S \ {i} -> Scalar] /\ IsFiniteSet(S \ {i}) /\ m \in S \ {i}
    BY <1>1
  <2>2. Multiply(f) = Times(f[m], Multiply([y \in (S \ {i}) \ {m} |-> f[y]]))
    <3> HIDE DEF f
    <3> QED
      BY <2>1, TotalRemove
  <2>3. [y \in (S \ {i}) \ {m} |-> f[y]] = Others(S \ {m}) /\ f[m] = Factor(m, i)
    <3>1. (S \ {i}) \ {m} = (S \ {m}) \ {i}
      OBVIOUS
    <3>2. \A y \in (S \ {m}) \ {i} : f[y] = Factor(y, i)
      BY <3>1
    <3>3. f[m] = Factor(m, i)
      OBVIOUS
    <3> HIDE DEF f
    <3> QED
      BY <3>1, <3>2, <3>3
  <2>4. LagrangeCoeff(i, S) = Times(Factor(m, i), w)
    BY <1>2, <2>2, <2>3
  <2>5. w \in Scalar /\ m \in Scalar /\ i \in Scalar /\ Minus(m, i) \in Scalar
          /\ Factor(m, i) \in Scalar /\ Times(Minus(m, i), Factor(m, i)) = m
    BY <1>3, FactorType, RingTypes
  <2> HIDE DEF w
  <2>6. Times(Minus(m, i), Times(Factor(m, i), w)) = Times(Times(Minus(m, i), Factor(m, i)), w)
    BY <2>5, TimesLaws
  <2> QED
    BY <2>4, <2>5, <2>6 DEF w
<1> QED
  BY <1>3, <1>4

(* The interpolation of f over s.                                           *)
At0(s, f) == Total([i \in s |-> Times(f[i], LagrangeCoeff(i, s))])

(* It is linear.                                                            *)
LEMMA At0Type ==
  ASSUME NEW S \in SUBSET Scalar, IsFiniteSet(S), NEW f \in [S -> Scalar]
  PROVE  At0(S, f) \in Scalar
<1> DEFINE t == [i \in S |-> Times(f[i], LagrangeCoeff(i, S))]
<1>1. t \in [S -> Scalar]
  BY CoeffRemove, RingTypes
<1> HIDE DEF t
<1>2. Total(t) \in Scalar
  BY <1>1, TotalType
<1> QED
  BY <1>2 DEF At0, t

LEMMA At0Plus ==
  ASSUME NEW S \in SUBSET Scalar, IsFiniteSet(S), NEW f \in [S -> Scalar], NEW g \in [S -> Scalar]
  PROVE  At0(S, [i \in S |-> Plus(f[i], g[i])]) = Plus(At0(S, f), At0(S, g))
<1> DEFINE w == [i \in S |-> LagrangeCoeff(i, S)]
           tf == [i \in S |-> Times(f[i], LagrangeCoeff(i, S))]
           tg == [i \in S |-> Times(g[i], LagrangeCoeff(i, S))]
           h == [i \in S |-> Plus(f[i], g[i])]
<1>1. ASSUME NEW i \in S
      PROVE  /\ tf[i] \in Scalar /\ tg[i] \in Scalar
             /\ Times(h[i], LagrangeCoeff(i, S)) = Plus(tf[i], tg[i])
  <2> DEFINE l == LagrangeCoeff(i, S)
  <2>1. l \in Scalar /\ f[i] \in Scalar /\ g[i] \in Scalar
    BY CoeffRemove
  <2> HIDE DEF l
  <2>2. Plus(f[i], g[i]) \in Scalar /\ Times(f[i], l) \in Scalar /\ Times(g[i], l) \in Scalar
    BY <2>1, RingTypes
  <2>3. Times(l, Plus(f[i], g[i])) = Plus(Times(l, f[i]), Times(l, g[i]))
    BY <2>1, Distributes
  <2>4. Times(Plus(f[i], g[i]), l) = Plus(Times(f[i], l), Times(g[i], l))
    BY <2>1, <2>2, <2>3, TimesLaws
  <2>5. h[i] = Plus(f[i], g[i]) /\ tf[i] = Times(f[i], l) /\ tg[i] = Times(g[i], l)
    BY DEF l
  <2> QED
    BY <2>2, <2>4, <2>5 DEF l
<1>2. tf \in [S -> Scalar] /\ tg \in [S -> Scalar]
  BY <1>1
<1>3. [i \in S |-> Times(h[i], LagrangeCoeff(i, S))] = [i \in S |-> Plus(tf[i], tg[i])]
  <2> HIDE DEF h, tf, tg
  <2> QED
    BY <1>1
<1>4. Total([i \in S |-> Plus(tf[i], tg[i])]) = Plus(Total(tf), Total(tg))
  <2> HIDE DEF tf, tg
  <2> QED
    BY <1>2, TotalPlus
<1> QED
  BY <1>3, <1>4 DEF At0

LEMMA At0Times ==
  ASSUME NEW S \in SUBSET Scalar, IsFiniteSet(S), NEW f \in [S -> Scalar], NEW a \in Scalar
  PROVE  At0(S, [i \in S |-> Times(a, f[i])]) = Times(a, At0(S, f))
<1> DEFINE tf == [i \in S |-> Times(f[i], LagrangeCoeff(i, S))]
           h == [i \in S |-> Times(a, f[i])]
<1>1. ASSUME NEW i \in S
      PROVE  tf[i] \in Scalar /\ Times(h[i], LagrangeCoeff(i, S)) = Times(a, tf[i])
  <2> DEFINE l == LagrangeCoeff(i, S)
  <2>1. l \in Scalar /\ f[i] \in Scalar
    BY CoeffRemove
  <2>2. h[i] = Times(a, f[i]) /\ tf[i] = Times(f[i], l)
    OBVIOUS
  <2> HIDE DEF l, h, tf
  <2>3. Times(f[i], l) \in Scalar
    BY <2>1, RingTypes
  <2>4. Times(Times(a, f[i]), l) = Times(a, Times(f[i], l))
    BY <2>1, TimesLaws
  <2> QED
    BY <2>2, <2>3, <2>4 DEF l
<1>2. tf \in [S -> Scalar]
  BY <1>1
<1>3. [i \in S |-> Times(h[i], LagrangeCoeff(i, S))] = [i \in S |-> Times(a, tf[i])]
  <2> HIDE DEF h, tf
  <2> QED
    BY <1>1
<1>4. Total([i \in S |-> Times(a, tf[i])]) = Times(a, Total(tf))
  <2> HIDE DEF tf
  <2> QED
    BY <1>2, TotalTimes
<1> QED
  BY <1>3, <1>4 DEF At0

(* Multiplying by the point: what a member's coefficient becomes when another is
   left out gives the sum with that other at zero.                          *)
LEMMA At0Shift ==
  ASSUME NEW S \in SUBSET Scalar, IsFiniteSet(S), NEW g \in [S -> Scalar], NEW m \in S
  PROVE  Plus(At0(S, [i \in S |-> Times(i, g[i])]), Times(m, At0(S \ {m}, g))) = Times(m, At0(S, g))
<1> DEFINE R == S \ {m}
           xg == [i \in S |-> Times(i, g[i])]
           t == [i \in S |-> Times(xg[i], LagrangeCoeff(i, S))]
           k == [i \in R |-> Times(g[i], LagrangeCoeff(i, R))]
           u == [i \in S |-> IF i = m THEN 0 ELSE Times(m, k[i])]
           v == [i \in S |-> Times(g[i], LagrangeCoeff(i, S))]
<1>1. R \in SUBSET Scalar /\ IsFiniteSet(R) /\ R \in SUBSET S /\ m \in Scalar /\ 0 \in Scalar
  BY FS_Subset, PTypes
<1>2. ASSUME NEW i \in R
      PROVE  k[i] \in Scalar /\ Times(m, k[i]) \in Scalar
  <2>1. LagrangeCoeff(i, R) \in Scalar /\ g[i] \in Scalar
    BY <1>1, CoeffRemove
  <2> QED
    BY <1>1, <2>1, RingTypes
<1>3. ASSUME NEW i \in S
      PROVE  t[i] \in Scalar /\ v[i] \in Scalar /\ Plus(t[i], u[i]) = Times(m, v[i])
  <2> DEFINE l == LagrangeCoeff(i, S)
  <2>1. l \in Scalar /\ g[i] \in Scalar /\ i \in Scalar
    BY CoeffRemove
  <2>2. t[i] = Times(Times(i, g[i]), l) /\ v[i] = Times(g[i], l)
    OBVIOUS
  <2>3. Times(i, g[i]) \in Scalar /\ Times(g[i], l) \in Scalar
    <3> HIDE DEF l
    <3> QED
      BY <2>1, RingTypes
  <2>4. t[i] \in Scalar /\ v[i] \in Scalar /\ Times(Times(i, g[i]), l) = Times(i, Times(g[i], l))
    <3> HIDE DEF l, t, v
    <3> QED
      BY <2>1, <2>2, <2>3, RingTypes, TimesLaws
  <2>5. CASE i = m
    <3>1. u[i] = 0
      BY <2>5
    <3> HIDE DEF u, t, v, l
    <3> QED
      BY <2>2, <2>4, <2>5, <3>1, PlusLaws
  <2>6. CASE i # m
    <3> DEFINE w == LagrangeCoeff(i, R)
               d == Minus(m, i)
    <3>1. u[i] = Times(m, Times(g[i], w)) /\ w \in Scalar
      <4>1. i \in R
        BY <2>6
      <4> QED
        BY <1>1, <2>6, <4>1, CoeffRemove
    <3>2. Times(d, l) = Times(m, w) /\ d \in Scalar
      BY <2>1, <2>6, <1>1, CoeffRemove, RingTypes
    <3>3. Plus(d, i) = m
      BY <1>1, <2>1, MinusLaws
    <3> HIDE DEF u, t, v, l, w, d
    <3>4. Times(m, Times(g[i], w)) = Times(d, Times(g[i], l))
      <4>1. Times(m, Times(g[i], w)) = Times(g[i], Times(m, w))
        <5>1. Times(Times(m, g[i]), w) = Times(m, Times(g[i], w)) /\ Times(Times(g[i], m), w) = Times(g[i], Times(m, w))
          BY <1>1, <2>1, <3>1, TimesLaws
        <5>2. Times(m, g[i]) = Times(g[i], m)
          BY <1>1, <2>1, TimesLaws
        <5> QED
          BY <5>1, <5>2
      <4>2. Times(d, Times(g[i], l)) = Times(g[i], Times(d, l))
        <5>1. Times(Times(d, g[i]), l) = Times(d, Times(g[i], l)) /\ Times(Times(g[i], d), l) = Times(g[i], Times(d, l))
          BY <2>1, <3>2, TimesLaws
        <5>2. Times(d, g[i]) = Times(g[i], d)
          BY <2>1, <3>2, TimesLaws
        <5> QED
          BY <5>1, <5>2
      <4> QED
        BY <3>2, <4>1, <4>2
    <3> DEFINE gl == Times(g[i], l)
    <3>5. gl \in Scalar /\ t[i] = Times(i, gl) /\ u[i] = Times(d, gl) /\ v[i] = gl
      BY <2>2, <2>3, <2>4, <3>1, <3>4
    <3> HIDE DEF gl
    <3>6. Times(gl, Plus(i, d)) = Plus(Times(gl, i), Times(gl, d))
      BY <2>1, <3>2, <3>5, Distributes
    <3>7. Times(gl, i) = Times(i, gl) /\ Times(gl, d) = Times(d, gl) /\ Plus(i, d) = Plus(d, i)
            /\ Times(gl, m) = Times(m, gl)
      BY <1>1, <2>1, <3>2, <3>5, TimesLaws, PlusLaws
    <3> QED
      BY <2>4, <3>3, <3>5, <3>6, <3>7
  <2> QED
    BY <2>4, <2>5, <2>6
<1>4. t \in [S -> Scalar] /\ v \in [S -> Scalar] /\ u \in [S -> Scalar] /\ k \in [R -> Scalar]
  <2>1. t \in [S -> Scalar] /\ v \in [S -> Scalar]
    BY <1>3
  <2>2. k \in [R -> Scalar]
    BY <1>2
  <2>3. \A i \in S : (IF i = m THEN 0 ELSE Times(m, k[i])) \in Scalar
    <3> HIDE DEF k
    <3> QED
      BY <1>1, <1>2
  <2> HIDE DEF k
  <2> QED
    BY <2>1, <2>2, <2>3
<1>5. Total([i \in S |-> Times(m, v[i])]) = Times(m, Total(v))
  <2> HIDE DEF v
  <2> QED
    BY <1>1, <1>4, TotalTimes
<1>6. Total([i \in S |-> Plus(t[i], u[i])]) = Plus(Total(t), Total(u))
  <2> HIDE DEF t, u
  <2> QED
    BY <1>4, TotalPlus
<1>7. [i \in S |-> Plus(t[i], u[i])] = [i \in S |-> Times(m, v[i])]
  <2> HIDE DEF t, u, v
  <2> QED
    BY <1>3
<1>8. Total(u) = Times(m, Total(k))
  <2>1. Total(u) = Plus(u[m], Total([i \in S \ {m} |-> u[i]]))
    <3> HIDE DEF u
    <3> QED
      BY <1>4, TotalRemove
  <2>2. [i \in S \ {m} |-> u[i]] = [i \in R |-> Times(m, k[i])] /\ u[m] = 0
    <3> HIDE DEF k
    <3> QED
      OBVIOUS
  <2>3. Total([i \in R |-> Times(m, k[i])]) = Times(m, Total(k))
    <3> HIDE DEF k, R
    <3> QED
      BY <1>1, <1>4, TotalTimes
  <2>4. Times(m, Total(k)) \in Scalar
    <3> HIDE DEF k, R
    <3> QED
      BY <1>1, <1>4, TotalType, RingTypes
  <2> HIDE DEF u, k
  <2> QED
    BY <2>1, <2>2, <2>3, <2>4, PlusLaws
<1> HIDE DEF k
<1> QED
  BY <1>5, <1>6, <1>7, <1>8 DEF At0, k

(* Three terms, the sum of any two of which cancels.                        *)
LEMMA OneTimes ==
  ASSUME NEW a \in Scalar, NEW b \in Scalar, a # b, NEW y \in Scalar, NEW u \in Scalar,
         Plus(y, a) = Times(a, u), Plus(y, b) = Times(b, u)
  PROVE  u = 1
<1> DEFINE d == Minus(a, b)
           e == Minus(u, 1)
<1>1. d \in Scalar \ {0} /\ e \in Scalar /\ 1 \in Scalar /\ Plus(d, b) = a /\ Plus(e, 1) = u
  BY RingTypes, MinusZero, MinusLaws, PTypes
<1> HIDE DEF d, e
<1>2. Times(d, u) \in Scalar /\ Times(b, u) \in Scalar /\ Plus(y, b) \in Scalar /\ Times(d, e) \in Scalar
  BY <1>1, RingTypes
<1>3. Times(a, u) = Plus(Times(d, u), Times(b, u))
  <2>1. Times(u, Plus(d, b)) = Plus(Times(u, d), Times(u, b))
    BY <1>1, Distributes
  <2>2. Times(u, a) = Times(a, u) /\ Times(u, d) = Times(d, u) /\ Times(u, b) = Times(b, u)
    BY <1>1, TimesLaws
  <2> QED
    BY <1>1, <2>1, <2>2
<1>4. Plus(y, a) = Plus(d, Plus(y, b))
  <2>1. Plus(d, Plus(y, b)) = Plus(Plus(d, y), b) /\ Plus(y, Plus(d, b)) = Plus(Plus(y, d), b)
    BY <1>1, PlusLaws
  <2>2. Plus(d, y) = Plus(y, d)
    BY <1>1, PlusLaws
  <2> QED
    BY <1>1, <2>1, <2>2
<1>5. d = Times(d, u)
  <2>1. Plus(d, Plus(y, b)) = Plus(Times(d, u), Plus(y, b))
    BY <1>3, <1>4
  <2> QED
    BY <1>1, <1>2, <2>1, PlusCancels
<1>6. Times(d, e) = 0
  <2>1. Times(d, Plus(e, 1)) = Plus(Times(d, e), Times(d, 1))
    BY <1>1, Distributes
  <2>2. Times(d, 1) = d
    BY <1>1, TimesLaws
  <2>3. Plus(Times(d, e), d) = Plus(0, d)
    BY <1>1, <1>5, <2>1, <2>2, PlusLaws
  <2> QED
    BY <1>1, <1>2, <2>3, PlusCancels, PTypes
<1>7. e = 0
  BY <1>1, <1>6, Cancel
<1> QED
  BY <1>1, <1>7, PlusLaws

(* The coefficients of any set of members add up to one.                    *)
LEMMA At0One ==
  ASSUME NEW S \in SUBSET Scalar, IsFiniteSet(S), S # {}
  PROVE  At0(S, [i \in S |-> 1]) = 1
<1> DEFINE One(s) == [i \in s |-> 1]
           A == {n \in Nat : \A s \in SUBSET S : Cardinality(s) = n /\ s # {} => At0(s, One(s)) = 1}
<1>1. \A s \in SUBSET S : IsFiniteSet(s) /\ s \in SUBSET Scalar /\ One(s) \in [s -> Scalar]
        /\ Cardinality(s) \in Nat /\ (Cardinality(s) = 0 => s = {})
  <2> SUFFICES ASSUME NEW s \in SUBSET S
               PROVE  IsFiniteSet(s) /\ s \in SUBSET Scalar /\ One(s) \in [s -> Scalar]
                        /\ Cardinality(s) \in Nat /\ (Cardinality(s) = 0 => s = {})
    OBVIOUS
  <2>1. IsFiniteSet(s) /\ One(s) \in [s -> Scalar]
    BY FS_Subset, PTypes
  <2> QED
    BY <2>1, FS_CardinalityType, FS_EmptySet
<1>2. 0 \in A
  <2> HIDE DEF One
  <2> QED
    BY <1>1
<1>3. ASSUME NEW n \in Nat, n \in A
      PROVE  n + 1 \in A
  <2>1. n + 1 \in Nat
    OBVIOUS
  <2>2. ASSUME NEW s \in SUBSET S, Cardinality(s) = n + 1, s # {}
        PROVE  At0(s, One(s)) = 1
    <3>1. PICK a \in s : TRUE
      BY <2>2
    <3>2. CASE s = {a}
      <4> DEFINE t == [i \in s |-> Times(One(s)[i], LagrangeCoeff(i, s))]
      <4>1. LagrangeCoeff(a, s) = 1
        <5> DEFINE none == [j \in s \ {a} |-> Times(j, Reciprocal(Minus(j, a)))]
        <5>1. s \ {a} = {} /\ none \in [{} -> Scalar]
          BY <3>2
        <5> HIDE DEF none
        <5>2. Multiply(none) = 1
          BY <5>1, TotalEmpty
        <5> QED
          BY <5>2 DEF LagrangeCoeff, none
      <4>2. Times(1, 1) = 1 /\ 1 \in Scalar
        BY TimesLaws, PTypes
      <4>3. t \in [s -> Scalar] /\ t[a] = 1
        BY <3>2, <4>1, <4>2
      <4> DEFINE rest == [i \in s \ {a} |-> t[i]]
      <4>4. rest \in [{} -> Scalar]
        BY <3>2
      <4>5. Total(t) = Plus(t[a], Total(rest))
        <5> HIDE DEF t
        <5> QED
          BY <1>1, <3>1, <4>3, TotalRemove
      <4>6. Total(rest) = 0
        <5> HIDE DEF rest
        <5> QED
          BY <4>4, TotalEmpty
      <4>7. Plus(1, 0) = 1
        BY <4>2, PlusLaws
      <4>8. At0(s, One(s)) = Total(t)
        BY DEF At0
      <4> HIDE DEF t, rest
      <4> QED
        BY <4>3, <4>5, <4>6, <4>7, <4>8
    <3>3. CASE s # {a}
      <4>1. PICK b \in s : b # a
        BY <3>1, <3>3
      <4> DEFINE u == At0(s, One(s))
                 y == At0(s, [i \in s |-> Times(i, One(s)[i])])
      <4>2. IsFiniteSet(s) /\ s \in SUBSET Scalar /\ One(s) \in [s -> Scalar] /\ a \in Scalar /\ b \in Scalar
        BY <1>1, <3>1, <4>1
      <4>3. u \in Scalar
        <5> HIDE DEF One
        <5> QED
          BY <4>2, At0Type
      <4>4. y \in Scalar
        <5> DEFINE xs == [i \in s |-> Times(i, One(s)[i])]
        <5>1. xs \in [s -> Scalar]
          BY <4>2, RingTypes, PTypes
        <5> HIDE DEF xs
        <5>2. At0(s, xs) \in Scalar
          BY <4>2, <5>1, At0Type
        <5> QED
          BY <5>2 DEF xs
      <4>5. ASSUME NEW m \in s, s # {m}
            PROVE  Plus(y, m) = Times(m, u)
        <5>1. Plus(y, Times(m, At0(s \ {m}, One(s)))) = Times(m, u)
          <6> HIDE DEF One
          <6> QED
            BY <4>2, At0Shift
        <5>2. At0(s \ {m}, One(s)) = At0(s \ {m}, One(s \ {m}))
          <6>1. [i \in s \ {m} |-> Times(One(s)[i], LagrangeCoeff(i, s \ {m}))]
                  = [i \in s \ {m} |-> Times(One(s \ {m})[i], LagrangeCoeff(i, s \ {m}))]
            OBVIOUS
          <6> QED
            BY <6>1 DEF At0
        <5>3. At0(s \ {m}, One(s \ {m})) = 1
          <6>1. s \ {m} \in SUBSET S /\ Cardinality(s \ {m}) = n /\ s \ {m} # {}
            BY <2>2, <4>5, CardinalityLess
          <6> HIDE DEF One
          <6> QED
            BY <1>3, <6>1
        <5>4. Times(m, 1) = m
          BY <4>2, TimesLaws
        <5> HIDE DEF One, y, u
        <5> QED
          BY <5>1, <5>2, <5>3, <5>4
      <4>6. Plus(y, a) = Times(a, u) /\ Plus(y, b) = Times(b, u)
        <5>1. s # {a} /\ s # {b}
          BY <3>1, <3>3, <4>1
        <5> HIDE DEF y, u
        <5> QED
          BY <3>1, <4>1, <4>5, <5>1
      <4>7. u = 1
        <5> HIDE DEF y, u
        <5> QED
          BY <4>1, <4>2, <4>3, <4>4, <4>6, OneTimes
      <4> QED
        BY <4>7
    <3> QED
      BY <3>2, <3>3
  <2> HIDE DEF One
  <2> QED
    BY <2>1, <2>2
<1>4. \A n \in Nat : n \in A
  <2> HIDE DEF A
  <2> QED
    BY <1>2, <1>3, NatSet
<1>5. At0(S, One(S)) = 1
  <2> HIDE DEF One
  <2> QED
    BY <1>1, <1>4
<1> QED
  BY <1>5

(* As many shares of a polynomial as it has coefficients give its constant term,
   whoever holds them.                                                      *)
Constant(c) == IF Len(c) = 0 THEN 0 ELSE c[1]

LEMMA At0Evaluate ==
  ASSUME NEW S \in SUBSET Scalar, IsFiniteSet(S), NEW c \in Seq(Scalar), Len(c) <= Cardinality(S)
  PROVE  At0(S, [i \in S |-> Evaluate(c, i)]) = Constant(c)
<1> DEFINE Values(d, s) == [i \in s |-> Evaluate(d, i)]
           A == {n \in Nat : \A d \in Seq(Scalar), s \in SUBSET S :
                   Len(d) = n /\ n <= Cardinality(s) => At0(s, Values(d, s)) = Constant(d)}
<1>1. \A s \in SUBSET S : IsFiniteSet(s) /\ s \in SUBSET Scalar /\ Cardinality(s) \in Nat
  BY FS_Subset, FS_CardinalityType
<1>2. \A d \in Seq(Scalar), s \in SUBSET S : Values(d, s) \in [s -> Scalar]
  BY EvaluateType
<1>3. 0 \in A
  <2> SUFFICES ASSUME NEW d \in Seq(Scalar), NEW s \in SUBSET S, Len(d) = 0
               PROVE  At0(s, Values(d, s)) = 0
    BY DEF Constant
  <2>1. 0 \in Scalar /\ Times(0, 0) = 0
    BY PTypes, TimesLaws
  <2> DEFINE z == [i \in s |-> 0]
  <2>2. z \in [s -> Scalar]
    BY <2>1
  <2>3. Values(d, s) = [i \in s |-> Times(0, z[i])]
    <3>1. \A i \in s : Evaluate(d, i) = 0 /\ Times(0, z[i]) = 0
      BY <2>1, EvaluateEmpty
    <3> HIDE DEF z
    <3> QED
      BY <3>1
  <2> HIDE DEF z
  <2>4. At0(s, [i \in s |-> Times(0, z[i])]) = Times(0, At0(s, z))
    BY <1>1, <2>1, <2>2, At0Times
  <2>5. At0(s, z) \in Scalar
    BY <1>1, <2>2, At0Type
  <2> QED
    BY <2>3, <2>4, <2>5, TimesLaws
<1>4. ASSUME NEW n \in Nat, n \in A
      PROVE  n + 1 \in A
  <2>1. n + 1 \in Nat
    OBVIOUS
  <2>2. ASSUME NEW d \in Seq(Scalar), NEW s \in SUBSET S, Len(d) = n + 1, n + 1 <= Cardinality(s)
        PROVE  At0(s, Values(d, s)) = Constant(d)
    <3> DEFINE g == Values(Tail(d), s)
               xg == [i \in s |-> Times(i, g[i])]
               one == [i \in s |-> 1]
               cs == [i \in s |-> Times(d[1], one[i])]
    <3>1. IsFiniteSet(s) /\ s \in SUBSET Scalar /\ Cardinality(s) \in Nat /\ s # {}
      <4>1. IsFiniteSet(s) /\ s \in SUBSET Scalar /\ Cardinality(s) \in Nat
        BY <1>1
      <4>2. Cardinality(s) # 0
        BY <2>2, <4>1
      <4> QED
        BY <4>1, <4>2, FS_EmptySet
    <3>2. /\ Tail(d) \in Seq(Scalar) /\ Len(Tail(d)) = n /\ d[1] \in Scalar
          /\ \A i \in s : Evaluate(d, i) = Plus(d[1], Times(i, Evaluate(Tail(d), i)))
      <4>1. Len(d) > 0 /\ (n + 1) - 1 = n
        BY <2>2
      <4> QED
        BY <2>2, <3>1, <4>1, EvaluateRest
    <3>3. g \in [s -> Scalar] /\ one \in [s -> Scalar]
      BY <1>2, <3>2, PTypes
    <3>4. xg \in [s -> Scalar] /\ cs \in [s -> Scalar]
      <4> HIDE DEF g, one
      <4> QED
        BY <3>1, <3>2, <3>3, RingTypes
    <3>5. Values(d, s) = [i \in s |-> Plus(cs[i], xg[i])]
      <4>1. \A i \in s : g[i] = Evaluate(Tail(d), i) /\ cs[i] = d[1]
        BY <3>2, TimesLaws
      <4>2. \A i \in s : Evaluate(d, i) = Plus(cs[i], xg[i])
        <5>1. \A i \in s : xg[i] = Times(i, g[i])
          OBVIOUS
        <5> HIDE DEF g, cs, xg
        <5> QED
          BY <3>2, <4>1, <5>1
      <4> HIDE DEF g, cs, xg
      <4> QED
        BY <4>2
    <3>6. At0(s, [i \in s |-> Plus(cs[i], xg[i])]) = Plus(At0(s, cs), At0(s, xg))
      <4> HIDE DEF cs, xg
      <4> QED
        BY <3>1, <3>4, At0Plus
    <3>7. At0(s, cs) = d[1]
      <4>1. At0(s, cs) = Times(d[1], At0(s, one))
        <5> HIDE DEF one
        <5> QED
          BY <3>1, <3>2, <3>3, At0Times
      <4>2. At0(s, one) = 1
        BY <3>1, At0One
      <4> QED
        BY <3>2, <4>1, <4>2, TimesLaws
    <3>8. At0(s, xg) = 0
      <4>1. PICK m : m \in s
        BY <3>1
      <4>2. Plus(At0(s, xg), Times(m, At0(s \ {m}, g))) = Times(m, At0(s, g))
        <5> HIDE DEF g
        <5> QED
          BY <3>1, <3>3, <4>1, At0Shift
      <4>3. At0(s, g) = Constant(Tail(d))
        <5>1. n <= Cardinality(s)
          BY <2>2, <3>1
        <5> QED
          BY <1>4, <3>2, <5>1
      <4>4. At0(s \ {m}, g) = Constant(Tail(d))
        <5>1. s \ {m} \in SUBSET S /\ Cardinality(s \ {m}) = Cardinality(s) - 1
          BY <4>1, CardinalityLess
        <5>2. n <= Cardinality(s \ {m})
          BY <2>2, <3>1, <5>1
        <5>3. At0(s \ {m}, Values(Tail(d), s \ {m})) = Constant(Tail(d))
          <6> HIDE DEF Values
          <6> QED
            BY <1>4, <3>2, <5>1, <5>2
        <5>4. [i \in s \ {m} |-> Times(g[i], LagrangeCoeff(i, s \ {m}))]
                = [i \in s \ {m} |-> Times(Values(Tail(d), s \ {m})[i], LagrangeCoeff(i, s \ {m}))]
          OBVIOUS
        <5> QED
          BY <5>3, <5>4 DEF At0
      <4>5. At0(s, xg) \in Scalar /\ At0(s, g) \in Scalar /\ m \in Scalar
        <5>1. m \in Scalar
          BY <3>1, <4>1
        <5> HIDE DEF xg, g
        <5> QED
          BY <3>1, <3>3, <3>4, <5>1, At0Type
      <4> DEFINE mg == Times(m, At0(s, g))
      <4>6. mg \in Scalar /\ 0 \in Scalar
        <5> HIDE DEF g
        <5> QED
          BY <4>5, RingTypes, PTypes
      <4>7. Plus(At0(s, xg), mg) = Plus(0, mg)
        <5>1. Plus(At0(s, xg), mg) = mg
          <6> HIDE DEF xg, g
          <6> QED
            BY <4>2, <4>3, <4>4
        <5> HIDE DEF mg
        <5> QED
          BY <4>6, <5>1, PlusLaws
      <4> HIDE DEF mg, xg
      <4> QED
        BY <4>5, <4>6, <4>7, PlusCancels
    <3>9. Constant(d) = d[1] /\ Plus(d[1], 0) = d[1]
      <4>1. Len(d) # 0
        BY <2>2
      <4> QED
        BY <3>2, <4>1, PlusLaws DEF Constant
    <3> HIDE DEF cs, xg
    <3> QED
      BY <3>5, <3>6, <3>7, <3>8, <3>9
  <2> HIDE DEF Values
  <2> QED
    BY <2>1, <2>2
<1>5. \A n \in Nat : n \in A
  <2> HIDE DEF A
  <2> QED
    BY <1>3, <1>4, NatSet
<1>6. At0(S, Values(c, S)) = Constant(c)
  <2>1. Len(c) \in A /\ Len(c) <= Cardinality(S)
    BY <1>5
  <2> HIDE DEF Values
  <2> QED
    BY <2>1
<1> QED
  BY <1>6

(* The shares of any threshold of members reconstruct the secret, in every field,
   for every committee and every polynomial (shamir.rs).                    *)
THEOREM SharesReconstruct ==
  ASSUME NEW S \in SUBSET Scalar, IsFiniteSet(S), NEW c \in Seq(Scalar),
         Len(c) \in 1..Cardinality(S)
  PROVE  LagrangeInterpolateAtZero([i \in S |-> Evaluate(c, i)]) = c[1]
<1>1. LagrangeInterpolateAtZero([i \in S |-> Evaluate(c, i)]) = At0(S, [i \in S |-> Evaluate(c, i)])
  BY DEF LagrangeInterpolateAtZero, At0
<1>2. Len(c) <= Cardinality(S) /\ Len(c) # 0
  BY FS_CardinalityType
<1> QED
  BY <1>1, <1>2, At0Evaluate DEF Constant

(* Exp tells values apart.                                                  *)
LEMMA ExpInjective ==
  ASSUME NEW a \in Scalar, NEW b \in Scalar, Exp(a) = Exp(b)
  PROVE  a = b
<1> DEFINE d == Minus(a, b)
<1>1. d \in Scalar /\ Plus(d, b) = a
  BY RingTypes, MinusLaws
<1> HIDE DEF d
<1>2. Exp(Plus(d, b)) = Plus(Exp(d), Exp(b)) /\ Exp(d) \in Scalar /\ Exp(b) \in Scalar /\ 0 \in Scalar
  BY <1>1, ExpLaws, RingTypes, PTypes
<1>3. Plus(Exp(d), Exp(b)) = Plus(0, Exp(b))
  BY <1>1, <1>2, PlusLaws
<1>4. Exp(d) = 0
  BY <1>2, <1>3, PlusCancels
<1>5. d = 0
  BY <1>1, <1>4, Cancel, PTypes DEF Exp
<1> QED
  BY <1>1, <1>5, PlusLaws

(* A commitment with the generator added to its first element is one to the
   polynomial with 1 added to its constant term.                            *)
LEMMA CommitPlusOne ==
  ASSUME NEW c \in Seq(Scalar), Len(c) > 0
  PROVE  LET d == [c EXCEPT ![1] = Plus(@, 1)]
         IN  /\ d \in Seq(Scalar) /\ Len(d) = Len(c)
             /\ Commit(d) = [Commit(c) EXCEPT ![1] = Plus(@, Gen)]
             /\ \A x \in Scalar : Evaluate(d, x) = Plus(1, Evaluate(c, x))
<1> DEFINE d == [c EXCEPT ![1] = Plus(@, 1)]
<1>1. 1 \in Scalar /\ c[1] \in Scalar /\ Plus(c[1], 1) \in Scalar
  <2>1. c[1] \in Scalar
    OBVIOUS
  <2> QED
    BY <2>1, PTypes, RingTypes
<1>2. d \in Seq(Scalar) /\ Len(d) = Len(c) /\ d[1] = Plus(c[1], 1) /\ Tail(d) = Tail(c)
      /\ DOMAIN d = DOMAIN c /\ \A k \in DOMAIN c : k # 1 => d[k] = c[k]
  BY <1>1
<1> HIDE DEF d
<1>3. Exp(Plus(c[1], 1)) = Plus(Exp(c[1]), Gen)
  <2>1. Exp(1) = Gen
    BY TimesLaws, PTypes DEF Exp
  <2> QED
    BY <1>1, <2>1, ExpLaws
<1>4. Commit(d) = [Commit(c) EXCEPT ![1] = Plus(@, Gen)]
  <2>1. \A k \in DOMAIN c : Exp(d[k]) = IF k = 1 THEN Plus(Exp(c[1]), Gen) ELSE Exp(c[k])
    BY <1>2, <1>3
  <2> QED
    BY <1>2, <2>1 DEF Commit
<1>5. ASSUME NEW x \in Scalar
      PROVE  Evaluate(d, x) = Plus(1, Evaluate(c, x))
  <2> DEFINE r == Times(x, Evaluate(Tail(c), x))
  <2>1. Evaluate(d, x) = Plus(Plus(c[1], 1), r)
    BY <1>2, EvaluateRest
  <2>2. Evaluate(c, x) = Plus(c[1], r) /\ Tail(c) \in Seq(Scalar)
    BY EvaluateRest
  <2>3. r \in Scalar
    BY <2>2, EvaluateType, RingTypes
  <2> HIDE DEF r
  <2>4. Plus(c[1], 1) = Plus(1, c[1]) /\ Plus(Plus(1, c[1]), r) = Plus(1, Plus(c[1], r))
    BY <1>1, <2>3, PlusLaws
  <2> QED
    BY <2>1, <2>2, <2>4
<1> QED
  BY <1>2, <1>4, <1>5 DEF d

-----------------------------------------------------------------------------
(* Dealers. D is a set of them and C the polynomial of each.                *)

JointShare(D, C, x) == Total([j \in D |-> Evaluate(C[j], x)])
JointSecret(D, C)   == Total([j \in D |-> C[j][1]])

Polynomials(n) == {c \in Seq(Scalar) : Len(c) = n}

(* shamir.rs:46 new_random: the secret, and as many coefficients as the degree.*)
LEMMA NewRandomType ==
  ASSUME NEW s \in Scalar, NEW d \in Nat, NEW draws \in SUBSET Scalar, NEW c \in NewRandom(s, d, draws)
  PROVE  c \in Polynomials(d + 1) /\ c \in Seq(Scalar) /\ Len(c) = d + 1 /\ c[1] = s
<1>1. PICK cs \in [1..d -> draws] : c = <<s>> \o cs
  BY DEF NewRandom
<1>2. cs \in Seq(Scalar) /\ Len(cs) = d
  OBVIOUS
<1>3. <<s>> \in Seq(Scalar) /\ Len(<<s>>) = 1
  OBVIOUS
<1>4. <<s>> \o cs \in Seq(Scalar) /\ Len(<<s>> \o cs) = 1 + d /\ (<<s>> \o cs)[1] = s
  BY <1>2, <1>3
<1> QED
  BY <1>1, <1>4 DEF Polynomials

LEMMA JointTypes ==
  ASSUME NEW D, IsFiniteSet(D), NEW n \in Nat \ {0}, NEW C \in [D -> Polynomials(n)]
  PROVE  /\ JointSecret(D, C) \in Scalar
         /\ [j \in D |-> C[j][1]] \in [D -> Scalar]
         /\ \A x \in Scalar : /\ JointShare(D, C, x) \in Scalar
                              /\ [j \in D |-> Evaluate(C[j], x)] \in [D -> Scalar]
<1>1. \A j \in D : C[j] \in Seq(Scalar) /\ C[j][1] \in Scalar
  <2>1. \A j \in D : C[j] \in Seq(Scalar) /\ Len(C[j]) = n
    BY DEF Polynomials
  <2>2. \A j \in D : 1 \in 1..Len(C[j])
    BY <2>1
  <2> QED
    BY <2>1, <2>2
<1>2. [j \in D |-> C[j][1]] \in [D -> Scalar]
  BY <1>1
<1>3. JointSecret(D, C) \in Scalar
  BY <1>2, TotalType DEF JointSecret
<1>4. ASSUME NEW x \in Scalar
      PROVE  JointShare(D, C, x) \in Scalar /\ [j \in D |-> Evaluate(C[j], x)] \in [D -> Scalar]
  <2>1. [j \in D |-> Evaluate(C[j], x)] \in [D -> Scalar]
    BY <1>1, EvaluateType
  <2> QED
    BY <2>1, TotalType DEF JointShare
<1> QED
  BY <1>2, <1>3, <1>4

(* The commitments of the dealers open to the joint share and to the joint
   secret.                                                                 *)
LEMMA JointCommitted ==
  ASSUME NEW D, IsFiniteSet(D), NEW n \in Nat \ {0}, NEW C \in [D -> Polynomials(n)]
  PROVE  /\ \A x \in Scalar :
              Total([j \in D |-> ExpectedShareCommitment(Commit(C[j]), x)]) = Exp(JointShare(D, C, x))
         /\ Total([j \in D |-> Commit(C[j])[1]]) = Exp(JointSecret(D, C))
<1>1. \A j \in D : C[j] \in Seq(Scalar) /\ 1 \in 1..Len(C[j])
  BY DEF Polynomials
<1>2. ASSUME NEW x \in Scalar
      PROVE  Total([j \in D |-> ExpectedShareCommitment(Commit(C[j]), x)]) = Exp(JointShare(D, C, x))
  <2> DEFINE v == [j \in D |-> Evaluate(C[j], x)]
  <2>1. v \in [D -> Scalar]
    BY <1>1, EvaluateType
  <2>2. [j \in D |-> ExpectedShareCommitment(Commit(C[j]), x)] = [j \in D |-> Exp(v[j])]
    <3>1. \A j \in D : ExpectedShareCommitment(Commit(C[j]), x) = Exp(v[j])
      BY <1>1, ShareCommitted
    <3> HIDE DEF v
    <3> QED
      BY <3>1
  <2>3. Total([j \in D |-> Exp(v[j])]) = Exp(Total(v))
    <3> HIDE DEF v
    <3> QED
      BY <2>1, TotalExp
  <2> QED
    BY <2>2, <2>3 DEF JointShare
<1>3. Total([j \in D |-> Commit(C[j])[1]]) = Exp(JointSecret(D, C))
  <2> DEFINE v == [j \in D |-> C[j][1]]
  <2>1. v \in [D -> Scalar]
    BY JointTypes
  <2>2. [j \in D |-> Commit(C[j])[1]] = [j \in D |-> Exp(v[j])]
    <3>1. \A j \in D : Commit(C[j])[1] = Exp(C[j][1])
      BY <1>1, CommitType
    <3> QED
      BY <3>1
  <2>3. Total([j \in D |-> Exp(v[j])]) = Exp(Total(v))
    <3> HIDE DEF v
    <3> QED
      BY <2>1, TotalExp
  <2> QED
    BY <2>2, <2>3 DEF JointSecret
<1> QED
  BY <1>2, <1>3

(* Interpolating sums is summing interpolations.                            *)
LEMMA At0Total ==
  ASSUME NEW S \in SUBSET Scalar, IsFiniteSet(S), NEW D, IsFiniteSet(D),
         NEW f \in [D -> [S -> Scalar]]
  PROVE  At0(S, [i \in S |-> Total([j \in D |-> f[j][i]])]) = Total([j \in D |-> At0(S, f[j])])
<1> DEFINE w(i) == LagrangeCoeff(i, S)
           row == [j \in D |-> [i \in S |-> Times(f[j][i], w(i))]]
<1>1. \A i \in S : w(i) \in Scalar
  BY CoeffRemove
<1> HIDE DEF w
<1>2. row \in [D -> [S -> Scalar]]
  BY <1>1, RingTypes
<1>3. ASSUME NEW i \in S
      PROVE  Times(Total([j \in D |-> f[j][i]]), w(i)) = Total([j \in D |-> row[j][i]])
  <2> DEFINE v == [j \in D |-> f[j][i]]
  <2>1. v \in [D -> Scalar] /\ Total(v) \in Scalar
    <3>1. v \in [D -> Scalar]
      OBVIOUS
    <3> HIDE DEF v
    <3> QED
      BY <3>1, TotalType
  <2>2. Total([j \in D |-> Times(w(i), v[j])]) = Times(w(i), Total(v))
    <3> HIDE DEF v
    <3> QED
      BY <1>1, <2>1, TotalTimes
  <2>3. [j \in D |-> Times(w(i), v[j])] = [j \in D |-> row[j][i]]
    <3>1. \A j \in D : Times(w(i), v[j]) = row[j][i]
      BY <1>1, <2>1, TimesLaws
    <3> HIDE DEF v, row
    <3> QED
      BY <3>1
  <2>4. Times(w(i), Total(v)) = Times(Total(v), w(i))
    <3> HIDE DEF v
    <3> QED
      BY <1>1, <2>1, TimesLaws
  <2> HIDE DEF row
  <2> QED
    BY <2>2, <2>3, <2>4
<1>4. Total([i \in S |-> Total([j \in D |-> row[j][i]])]) = Total([j \in D |-> Total([i \in S |-> row[j][i]])])
  <2> HIDE DEF row
  <2>1. Total([j \in D |-> Total([i \in S |-> row[j][i]])]) = Total([i \in S |-> Total([j \in D |-> row[j][i]])])
    BY <1>2, TotalSwap
  <2> QED
    BY <2>1
<1>5. At0(S, [i \in S |-> Total([j \in D |-> f[j][i]])]) = Total([i \in S |-> Total([j \in D |-> row[j][i]])])
  <2> DEFINE sum == [i \in S |-> Total([j \in D |-> f[j][i]])]
  <2>1. \A i \in S : Times(sum[i], w(i)) = Total([j \in D |-> row[j][i]])
    <3> HIDE DEF row
    <3> QED
      BY <1>3
  <2> HIDE DEF sum, row
  <2>2. At0(S, sum) = Total([i \in S |-> Times(sum[i], w(i))])
    BY DEF At0, w
  <2>3. [i \in S |-> Times(sum[i], w(i))] = [i \in S |-> Total([j \in D |-> row[j][i]])]
    BY <2>1
  <2> QED
    BY <2>2, <2>3 DEF sum
<1>6. Total([j \in D |-> At0(S, f[j])]) = Total([j \in D |-> Total([i \in S |-> row[j][i]])])
  <2>1. \A j \in D : At0(S, f[j]) = Total([i \in S |-> row[j][i]])
    BY DEF At0, w
  <2> HIDE DEF row
  <2>2. [j \in D |-> At0(S, f[j])] = [j \in D |-> Total([i \in S |-> row[j][i]])]
    BY <2>1
  <2> QED
    BY <2>2
<1> HIDE DEF row
<1> QED
  BY <1>4, <1>5, <1>6

(* A threshold of joint shares gives the joint secret.                      *)
LEMMA JointReconstructs ==
  ASSUME NEW S \in SUBSET Scalar, IsFiniteSet(S), NEW D, IsFiniteSet(D),
         NEW n \in Nat \ {0}, NEW C \in [D -> Polynomials(n)], n <= Cardinality(S)
  PROVE  At0(S, [i \in S |-> JointShare(D, C, i)]) = JointSecret(D, C)
<1> DEFINE f == [j \in D |-> [i \in S |-> Evaluate(C[j], i)]]
<1>1. \A j \in D : C[j] \in Seq(Scalar) /\ Len(C[j]) = n
  BY DEF Polynomials
<1>2. f \in [D -> [S -> Scalar]]
  BY <1>1, EvaluateType
<1>3. \A j \in D : At0(S, f[j]) = C[j][1]
  <2> SUFFICES ASSUME NEW j \in D PROVE At0(S, f[j]) = C[j][1]
    OBVIOUS
  <2>1. At0(S, [i \in S |-> Evaluate(C[j], i)]) = Constant(C[j])
    BY <1>1, At0Evaluate
  <2>2. Constant(C[j]) = C[j][1]
    BY <1>1 DEF Constant
  <2> QED
    BY <2>1, <2>2
<1>4. At0(S, [i \in S |-> Total([j \in D |-> f[j][i]])]) = Total([j \in D |-> At0(S, f[j])])
  <2> HIDE DEF f
  <2> QED
    BY <1>2, At0Total
<1>5. [i \in S |-> Total([j \in D |-> f[j][i]])] = [i \in S |-> JointShare(D, C, i)]
  <2>1. ASSUME NEW i \in S
        PROVE  Total([j \in D |-> f[j][i]]) = JointShare(D, C, i)
    <3>1. [j \in D |-> f[j][i]] = [j \in D |-> Evaluate(C[j], i)]
      OBVIOUS
    <3> QED
      BY <3>1 DEF JointShare
  <2> HIDE DEF f
  <2> QED
    BY <2>1
<1>6. [j \in D |-> At0(S, f[j])] = [j \in D |-> C[j][1]]
  <2> HIDE DEF f
  <2> QED
    BY <1>3
<1> HIDE DEF f
<1> QED
  BY <1>4, <1>5, <1>6 DEF JointSecret

-----------------------------------------------------------------------------
(* The combinations of the members 1..m of a committee, and those a cache keeps. *)

(* a lists j members after the first m - n, none of them twice.             *)
Combination(a, m, n, j) ==
  /\ a \in Seq(Nat) /\ Len(a) = j
  /\ ToSet(a) \subseteq m - n + 1..m
  /\ IsFiniteSet(ToSet(a)) /\ Cardinality(ToSet(a)) = j

(* w[j] lists such combinations, and one at least when there are members enough. *)
CombosOf(w, m, n, k) ==
  /\ w \in [0..k -> Seq(Seq(Nat))]
  /\ \A j \in 0..k : /\ \A x \in 1..Len(w[j]) : Combination(w[j][x], m, n, j)
                     /\ j <= n => Len(w[j]) > 0

(* One round of the recursion: the combinations of the last n members, from those
   of the last n - 1.                                                       *)
NoMembers(k) == [j \in 0..k |-> IF j = 0 THEN << <<>> >> ELSE <<>>]
WithMember(a, combos) == [x \in DOMAIN combos |-> <<a>> \o combos[x]]
Grown(m, n, k, w) ==
  [j \in 0..k |-> IF j = 0 THEN << <<>> >>
                  ELSE IF n < j THEN <<>>
                  ELSE WithMember(m - n + 1, w[j - 1]) \o w[j]]

LEMMA WithMemberType ==
  ASSUME NEW a \in Nat, NEW combos \in Seq(Seq(Nat))
  PROVE  /\ WithMember(a, combos) \in Seq(Seq(Nat)) /\ Len(WithMember(a, combos)) = Len(combos)
         /\ \A x \in 1..Len(combos) : WithMember(a, combos)[x] = <<a>> \o combos[x]
<1>1. \A x \in 1..Len(combos) : combos[x] \in Seq(Nat)
  OBVIOUS
<1>2. \A x \in 1..Len(combos) : <<a>> \o combos[x] \in Seq(Nat)
  BY <1>1
<1>3. DOMAIN combos = 1..Len(combos) /\ Len(combos) \in Nat
  OBVIOUS
<1> QED
  BY <1>2, <1>3 DEF WithMember

LEMMA GrownType ==
  ASSUME NEW m \in Nat, NEW n \in 1..m, NEW k \in Nat, NEW w \in [0..k -> Seq(Seq(Nat))]
  PROVE  Grown(m, n, k, w) \in [0..k -> Seq(Seq(Nat))]
<1>1. m - n + 1 \in Nat /\ << <<>> >> \in Seq(Seq(Nat)) /\ <<>> \in Seq(Seq(Nat))
  OBVIOUS
<1>2. ASSUME NEW j \in 0..k, j # 0
      PROVE  WithMember(m - n + 1, w[j - 1]) \o w[j] \in Seq(Seq(Nat))
  <2>1. j - 1 \in 0..k
    BY <1>2
  <2>2. w[j - 1] \in Seq(Seq(Nat)) /\ w[j] \in Seq(Seq(Nat))
    BY <2>1
  <2>3. WithMember(m - n + 1, w[j - 1]) \in Seq(Seq(Nat))
    BY <1>1, <2>2, WithMemberType
  <2> QED
    BY <2>2, <2>3
<1> QED
  BY <1>1, <1>2 DEF Grown

(* A member put before a combination of later ones.                         *)
LEMMA CombinationGrows ==
  ASSUME NEW m \in Nat, NEW n \in 1..m, NEW j \in Nat, NEW a, Combination(a, m, n - 1, j)
  PROVE  Combination(<<m - n + 1>> \o a, m, n, j + 1)
<1> DEFINE b == <<m - n + 1>> \o a
<1>1. a \in Seq(Nat) /\ Len(a) = j /\ m - n + 1 \in Nat
  BY DEF Combination
<1>2. /\ b \in Seq(Nat) /\ Len(b) = j + 1 /\ b[1] = m - n + 1
      /\ \A x \in 1..j : b[x + 1] = a[x]
  BY <1>1
<1> HIDE DEF b
<1>3. ToSet(b) = ToSet(a) \cup {m - n + 1}
  <2>1. DOMAIN b = 1..j + 1 /\ DOMAIN a = 1..j
    BY <1>1, <1>2
  <2>2. \A x \in 1..j + 1 : x = 1 \/ (x - 1 \in 1..j /\ (x - 1) + 1 = x)
    OBVIOUS
  <2>3. \A x \in 1..j : x + 1 \in 1..j + 1
    OBVIOUS
  <2>4. 1 \in 1..j + 1
    OBVIOUS
  <2>5. ASSUME NEW y \in ToSet(b) PROVE y \in ToSet(a) \cup {m - n + 1}
    <3>1. PICK x \in 1..j + 1 : y = b[x]
      BY <2>1 DEF ToSet
    <3>2. CASE x = 1
      BY <1>2, <3>1, <3>2
    <3>3. CASE x - 1 \in 1..j /\ (x - 1) + 1 = x
      <4>1. y = a[x - 1]
        BY <1>2, <3>1, <3>3
      <4> QED
        BY <2>1, <3>3, <4>1 DEF ToSet
    <3> QED
      BY <2>2, <3>2, <3>3
  <2>6. ASSUME NEW y \in ToSet(a) PROVE y \in ToSet(b)
    <3>1. PICK x \in 1..j : y = a[x]
      BY <2>1 DEF ToSet
    <3>2. y = b[x + 1] /\ x + 1 \in DOMAIN b
      BY <1>2, <2>1, <2>3, <3>1
    <3> QED
      BY <3>2 DEF ToSet
  <2>7. m - n + 1 \in ToSet(b)
    BY <1>2, <2>1, <2>4 DEF ToSet
  <2> QED
    BY <2>5, <2>6, <2>7
<1>4. /\ ToSet(a) \subseteq m - n + 2..m /\ IsFiniteSet(ToSet(a)) /\ Cardinality(ToSet(a)) = j
      /\ m - n + 1 \notin m - n + 2..m
  BY DEF Combination
<1>5. m - n + 1 \notin ToSet(a)
  BY <1>4
<1>6. IsFiniteSet(ToSet(b)) /\ Cardinality(ToSet(b)) = j + 1
  BY <1>3, <1>4, <1>5, FS_AddElement
<1>7. ToSet(b) \subseteq m - n + 1..m
  BY <1>3, <1>4
<1> QED
  BY <1>2, <1>6, <1>7 DEF Combination, b

LEMMA OneAfterOther ==
  ASSUME NEW V, NEW u \in Seq(V), NEW v \in Seq(V)
  PROVE  /\ Len(u \o v) = Len(u) + Len(v) /\ Len(v) \in Nat
         /\ \A x \in 1..Len(u) : (u \o v)[x] = u[x]
         /\ \A x \in 1..Len(v) : (u \o v)[Len(u) + x] = v[x]
  OBVIOUS

LEMMA CombosGrow ==
  ASSUME NEW m \in Nat, NEW n \in 1..m, NEW k \in Nat, NEW w, CombosOf(w, m, n - 1, k)
  PROVE  CombosOf(Grown(m, n, k, w), m, n, k)
<1> DEFINE g == Grown(m, n, k, w)
<1>1. w \in [0..k -> Seq(Seq(Nat))] /\ g \in [0..k -> Seq(Seq(Nat))] /\ m - n + 1 \in Nat
  BY GrownType DEF CombosOf
<1>2. g[0] = << <<>> >>
  BY DEF Grown
<1>3. ASSUME NEW j \in 1..k PROVE g[j] = IF n < j THEN <<>> ELSE WithMember(m - n + 1, w[j - 1]) \o w[j]
  BY <1>3 DEF Grown
<1> HIDE DEF g
<1>4. ASSUME NEW j \in 0..k, j = 0
      PROVE  Len(g[j]) > 0 /\ \A x \in 1..Len(g[j]) : Combination(g[j][x], m, n, j)
  <2>1. Len(g[j]) = 1 /\ g[j][1] = <<>>
    <3>1. Len(<< <<>> >>) = 1 /\ << <<>> >>[1] = <<>>
      OBVIOUS
    <3> QED
      BY <1>2, <1>4, <3>1
  <2>2. <<>> \in Seq(Nat) /\ Len(<<>>) = 0 /\ ToSet(<<>>) = {}
    BY DEF ToSet
  <2>3. Combination(<<>>, m, n, 0)
    BY <2>2, FS_EmptySet DEF Combination
  <2> QED
    BY <1>4, <2>1, <2>3
<1>5. ASSUME NEW j \in 1..k, n < j
      PROVE  Len(g[j]) = 0
  BY <1>3, <1>5
<1>6. ASSUME NEW j \in 1..k, ~(n < j)
      PROVE  Len(g[j]) > 0 /\ \A x \in 1..Len(g[j]) : Combination(g[j][x], m, n, j)
  <2>1. PICK u, v, c : u = WithMember(m - n + 1, w[j - 1]) /\ v = w[j] /\ c = w[j - 1]
    OBVIOUS
  <2>2. j - 1 \in 0..k /\ j \in 0..k /\ (j - 1) + 1 = j /\ j - 1 \in Nat /\ j - 1 <= n - 1
    BY <1>6
  <2>3. v \in Seq(Seq(Nat)) /\ c \in Seq(Seq(Nat))
    BY <1>1, <2>1, <2>2
  <2>4. /\ u \in Seq(Seq(Nat)) /\ Len(u) = Len(c) /\ Len(c) \in Nat
        /\ \A x \in 1..Len(c) : u[x] = <<m - n + 1>> \o c[x]
    <3>1. PICK a \in Nat : a = m - n + 1
      BY <1>1
    <3>2. u = WithMember(a, c)
      BY <2>1, <3>1
    <3>3. /\ u \in Seq(Seq(Nat)) /\ Len(u) = Len(c)
          /\ \A x \in 1..Len(c) : u[x] = <<a>> \o c[x]
      BY <2>3, <3>2, WithMemberType
    <3> QED
      BY <2>3, <3>1, <3>3
  <2>5. g[j] = u \o v
    BY <1>3, <1>6, <2>1
  <2>6. Len(c) > 0 /\ \A x \in 1..Len(c) : Combination(c[x], m, n - 1, j - 1)
    BY <2>1, <2>2 DEF CombosOf
  <2>7. \A x \in 1..Len(v) : Combination(v[x], m, n - 1, j)
    BY <2>1, <2>2 DEF CombosOf
  <2>8. ASSUME NEW x \in 1..Len(c) PROVE Combination(u[x], m, n, j)
    <3>1. Combination(<<m - n + 1>> \o c[x], m, n, (j - 1) + 1)
      BY <2>2, <2>6, CombinationGrows
    <3> QED
      BY <2>2, <2>4, <3>1
  <2>9. ASSUME NEW x \in 1..Len(v) PROVE Combination(v[x], m, n, j)
    <3>1. m - (n - 1) + 1..m \subseteq m - n + 1..m
      OBVIOUS
    <3> QED
      BY <2>7, <3>1 DEF Combination
  <2>10. /\ Len(g[j]) = Len(c) + Len(v) /\ Len(v) \in Nat
         /\ \A x \in 1..Len(c) : g[j][x] = u[x]
         /\ \A x \in 1..Len(v) : g[j][Len(c) + x] = v[x]
    <3>1. /\ Len(u \o v) = Len(u) + Len(v) /\ Len(v) \in Nat
          /\ \A x \in 1..Len(u) : (u \o v)[x] = u[x]
          /\ \A x \in 1..Len(v) : (u \o v)[Len(u) + x] = v[x]
      <4>1. PICK V : V = Seq(Nat)
        OBVIOUS
      <4>2. u \in Seq(V) /\ v \in Seq(V)
        BY <2>3, <2>4, <4>1
      <4> QED
        BY <4>2, OneAfterOther
    <3> QED
      BY <2>4, <2>5, <3>1, Zenon
  <2>11. \A x \in 1..Len(g[j]) : x \in 1..Len(c) \/ (x - Len(c) \in 1..Len(v) /\ Len(c) + (x - Len(c)) = x)
    BY <2>4, <2>10
  <2>12. ASSUME NEW x \in 1..Len(g[j]) PROVE Combination(g[j][x], m, n, j)
    <3>1. CASE x \in 1..Len(c)
      BY <2>8, <2>10, <3>1
    <3>2. CASE x - Len(c) \in 1..Len(v) /\ Len(c) + (x - Len(c)) = x
      <4>1. g[j][x] = v[x - Len(c)]
        BY <2>10, <3>2
      <4> QED
        BY <2>9, <3>2, <4>1
    <3> QED
      BY <2>11, <3>1, <3>2
  <2> QED
    BY <2>4, <2>6, <2>10, <2>12
<1>7. ASSUME NEW j \in 0..k
      PROVE  /\ \A x \in 1..Len(g[j]) : Combination(g[j][x], m, n, j)
             /\ j <= n => Len(g[j]) > 0
  <2>1. CASE j = 0
    BY <1>4, <2>1
  <2>2. CASE j \in 1..k /\ n < j
    BY <1>5, <2>2
  <2>3. CASE j \in 1..k /\ ~(n < j)
    BY <1>6, <2>3
  <2> QED
    BY <2>1, <2>2, <2>3
<1> QED
  BY <1>1, <1>7 DEF CombosOf, g

LEMMA CombosOfNone ==
  ASSUME NEW m \in Nat, NEW k \in Nat
  PROVE  CombosOf(NoMembers(k), m, 0, k)
<1>1. NoMembers(k) \in [0..k -> Seq(Seq(Nat))]
  <2>1. << <<>> >> \in Seq(Seq(Nat)) /\ <<>> \in Seq(Seq(Nat))
    OBVIOUS
  <2> QED
    BY <2>1 DEF NoMembers
<1>2. <<>> \in Seq(Nat) /\ Len(<<>>) = 0 /\ ToSet(<<>>) = {}
  BY DEF ToSet
<1>3. Combination(<<>>, m, 0, 0)
  BY <1>2, FS_EmptySet DEF Combination
<1>4. Len(<< <<>> >>) = 1 /\ << <<>> >>[1] = <<>> /\ Len(<<>>) = 0
  OBVIOUS
<1>5. ASSUME NEW j \in 0..k
      PROVE  /\ \A x \in 1..Len(NoMembers(k)[j]) : Combination(NoMembers(k)[j][x], m, 0, j)
             /\ j <= 0 => Len(NoMembers(k)[j]) > 0
  <2>1. CASE j = 0
    <3>1. NoMembers(k)[j] = << <<>> >>
      BY <2>1 DEF NoMembers
    <3> QED
      BY <1>3, <1>4, <2>1, <3>1
  <2>2. CASE j # 0
    <3>1. NoMembers(k)[j] = <<>> /\ ~(j <= 0)
      BY <2>2 DEF NoMembers
    <3> QED
      BY <1>4, <3>1
  <2> QED
    BY <2>1, <2>2
<1> QED
  BY <1>1, <1>5 DEF CombosOf

(* cache.rs:62-78: what combinations lists.                                 *)
LEMMA CombinationsList ==
  ASSUME NEW m \in Nat, NEW k \in 0..m
  PROVE  LET all == Combinations([i \in 1..m |-> i], k)
         IN  /\ all \in Seq(Seq(Nat)) /\ Len(all) > 0
             /\ \A x \in 1..Len(all) : Combination(all[x], m, m, k)
<1> DEFINE items == [i \in 1..m |-> i]
           V == [0..k -> Seq(Seq(Nat))]
<1>1. /\ Len(items) = m /\ k \in Nat /\ 0 \in 0..m /\ m \in 0..m
      /\ \A n \in 1..m : items[m - n + 1] = m - n + 1
  <2>1. items \in Seq(Nat) /\ DOMAIN items = 1..m
    OBVIOUS
  <2>2. Len(items) = m
    BY <2>1
  <2>3. \A n \in 1..m : m - n + 1 \in 1..m
    OBVIOUS
  <2> QED
    BY <2>2, <2>3
<1>2. CombosOf(NoMembers(k), m, 0, k) /\ NoMembers(k) \in V
  BY <1>1, CombosOfNone DEF CombosOf
<1>3. PICK g \in [(1..m) \X V -> V] : \A n \in 1..m, w \in V : g[<<n, w>>] = Grown(m, n, k, w)
  <2> DEFINE round == [nw \in (1..m) \X V |-> Grown(m, nw[1], k, nw[2])]
  <2>1. \A n \in 1..m, w \in V : Grown(m, n, k, w) \in V
    BY <1>1, GrownType
  <2> HIDE DEF V
  <2>2. round \in [(1..m) \X V -> V]
    BY <2>1
  <2>3. \A n \in 1..m, w \in V : round[<<n, w>>] = Grown(m, n, k, w)
    OBVIOUS
  <2> QED
    BY <2>2, <2>3
<1>4. PICK h \in [0..m -> V] : Loops(m, NoMembers(k), g, h)
  <2> HIDE DEF V
  <2>1. HasLoop(m, V, NoMembers(k), g)
    BY <1>2, LoopExists
  <2> QED
    BY <2>1 DEF HasLoop
<1>5. h[0] = NoMembers(k) /\ \A n \in 1..m : h[n] = Grown(m, n, k, h[n - 1])
  <2> HIDE DEF V
  <2>1. h[0] = NoMembers(k)
    BY <1>1, <1>4 DEF Loops
  <2>2. ASSUME NEW n \in 1..m PROVE h[n] = Grown(m, n, k, h[n - 1])
    <3>1. n \in 0..m /\ n # 0 /\ n - 1 \in 0..m
      OBVIOUS
    <3>2. h[n] = g[<<n, h[n - 1]>>] /\ h[n - 1] \in V
      BY <1>4, <3>1 DEF Loops
    <3> QED
      BY <1>3, <3>2
  <2> QED
    BY <2>1, <2>2
<1>6. CombosOf(h[m], m, m, k)
  <2> DEFINE A == {n \in Nat : n <= m => CombosOf(h[n], m, n, k)}
  <2>1. 0 \in A
    BY <1>2, <1>5
  <2>2. ASSUME NEW n \in Nat, n \in A PROVE n + 1 \in A
    <3>1. n + 1 \in Nat /\ (n + 1) - 1 = n
      OBVIOUS
    <3>2. CASE n + 1 <= m
      <4>1. n + 1 \in 1..m /\ n <= m
        BY <3>2
      <4>2. CombosOf(h[n], m, (n + 1) - 1, k)
        BY <2>2, <3>1, <4>1
      <4>3. CombosOf(Grown(m, n + 1, k, h[n]), m, n + 1, k)
        BY <1>1, <4>1, <4>2, CombosGrow
      <4>4. h[n + 1] = Grown(m, n + 1, k, h[n])
        BY <1>5, <3>1, <4>1
      <4> QED
        BY <3>1, <4>3, <4>4
    <3> QED
      BY <3>1, <3>2
  <2>3. \A n \in Nat : n \in A
    <3> HIDE DEF A
    <3> QED
      BY <2>1, <2>2, NatSet
  <2> QED
    BY <2>3
<1> DEFINE Step(n, w) ==
             [j \in 0..k |->
                IF j = 0 THEN << <<>> >>
                ELSE IF n < j THEN <<>>
                ELSE LET combos == w[j - 1]
                     IN  [x \in DOMAIN combos |-> <<items[Len(items) - n + 1]>> \o combos[x]] \o w[j]]
           Round(f) == [n \in 0..Len(items) |-> Step(n, f[n - 1])]
           last == CHOOSE f : f = Round(f)
<1>7. Combinations(items, k) = last[Len(items)][k]
  BY DEF Combinations
<1>8. \A n \in 0..m : h[n] = Step(n, h[n - 1])
  <2>1. h[0] = Step(0, h[0 - 1])
    <3>1. \A j \in 0..k : j = 0 \/ 0 < j
      BY <1>1
    <3> QED
      BY <1>5, <3>1 DEF NoMembers
  <2>2. ASSUME NEW n \in 1..m PROVE h[n] = Step(n, h[n - 1])
    <3>1. items[Len(items) - n + 1] = m - n + 1
      BY <1>1
    <3> HIDE DEF items
    <3>2. Grown(m, n, k, h[n - 1]) = Step(n, h[n - 1])
      BY <3>1 DEF Grown, WithMember
    <3> QED
      BY <1>5, <3>2
  <2>3. \A n \in 0..m : n = 0 \/ n \in 1..m
    OBVIOUS
  <2> HIDE DEF Step
  <2> QED
    BY <2>1, <2>2, <2>3
<1>9. h = Round(h)
  <2> HIDE DEF Step, items
  <2> QED
    BY <1>1, <1>4, <1>8
<1>10. last = Round(last)
  <2> HIDE DEF Round
  <2> QED
    BY <1>9
<1> HIDE DEF last
<1>11. \A n \in 0..m : last[n] = Step(n, last[n - 1])
  <2> HIDE DEF Step, items
  <2> QED
    BY <1>1, <1>10
<1>12. h[m] = last[m]
  <2>1. h[0] = last[0]
    <3>1. Step(0, h[0 - 1]) = Step(0, last[0 - 1])
      <4>1. \A j \in 0..k : j = 0 \/ 0 < j
        BY <1>1
      <4> HIDE DEF items
      <4> QED
        BY <4>1
    <3> HIDE DEF Step
    <3> QED
      BY <1>1, <1>8, <1>11, <3>1
  <2> HIDE DEF Step
  <2>2. \A n \in 1..m : h[n - 1] = last[n - 1] => h[n] = last[n]
    <3>1. \A n \in 1..m : n \in 0..m
      OBVIOUS
    <3> QED
      BY <1>8, <1>11, <3>1
  <2>3. SameRounds(m, h, last)
    BY <2>1, <2>2 DEF SameRounds
  <2> QED
    BY <1>1, <2>3, SameLoop
<1>13. Combinations(items, k) = h[m][k]
  BY <1>1, <1>7, <1>12
<1>14. PICK all : all = h[m][k]
  OBVIOUS
<1>15. k \in 0..k /\ k <= m
  BY <1>1
<1>16. all \in Seq(Seq(Nat))
  BY <1>1, <1>4, <1>14, <1>15
<1>17. Len(all) > 0 /\ \A x \in 1..Len(all) : Combination(all[x], m, m, k)
  BY <1>6, <1>14, <1>15 DEF CombosOf
<1>18. Combinations(items, k) = all
  BY <1>13, <1>14
<1> QED
  BY <1>16, <1>17, <1>18

(* cache.rs:32-41: the indices increase, within the list, and with two or more the
   first and the last are there.                                            *)
LEMMA CacheIndicesList ==
  ASSUME NEW total \in Nat \ {0}, NEW num_check \in Nat
  PROVE  LET indices == CacheIndices(total, num_check)
         IN  /\ indices \in Seq(0..total - 1) /\ Len(indices) > 0
             /\ ToSet(indices) \subseteq 0..total - 1
             /\ \A m \in 1..Len(indices) - 1 : indices[m] < indices[m + 1]
             /\ num_check > 1 => {0, total - 1} \subseteq ToSet(indices)
<1> DEFINE indices == CacheIndices(total, num_check)
<1>1. CASE total <= num_check \/ num_check <= 1
  <2>1. PICK n : n = Min({total, Max({num_check, 1})})
    OBVIOUS
  <2>2. n \in 1..total /\ (num_check > 1 => n = total)
    <3>1. PICK most : most = Max({num_check, 1})
      OBVIOUS
    <3>2. most = IF num_check >= 1 THEN num_check ELSE 1
      <4>1. most = CHOOSE x \in {num_check, 1} : \A y \in {num_check, 1} : x >= y
        BY <3>1 DEF Max
      <4>2. \E x \in {num_check, 1} : \A y \in {num_check, 1} : x >= y
        OBVIOUS
      <4>3. most \in {num_check, 1} /\ \A y \in {num_check, 1} : most >= y
        BY <4>1, <4>2
      <4> QED
        BY <4>3
    <3>3. most \in Nat /\ n = CHOOSE x \in {total, most} : \A y \in {total, most} : x <= y
      BY <2>1, <3>1, <3>2 DEF Min
    <3>4. \E x \in {total, most} : \A y \in {total, most} : x <= y
      BY <3>3
    <3>5. n \in {total, most} /\ \A y \in {total, most} : n <= y
      BY <3>3, <3>4
    <3> QED
      BY <1>1, <3>2, <3>5
  <2>3. indices = [i \in 1..n |-> i - 1]
    BY <1>1, <2>1 DEF CacheIndices
  <2> HIDE DEF indices
  <2>4. \A i \in 1..n : i - 1 \in 0..total - 1 /\ i \in Nat
    BY <2>2
  <2>5. indices \in Seq(0..total - 1) /\ Len(indices) = n /\ DOMAIN indices = 1..n
    BY <2>2, <2>3, <2>4
  <2>6. ToSet(indices) \subseteq 0..total - 1
    BY <2>3, <2>4, <2>5 DEF ToSet
  <2>7. \A m \in 1..n - 1 : indices[m] < indices[m + 1]
    <3>1. \A m \in 1..n - 1 : m \in 1..n /\ m + 1 \in 1..n
      BY <2>2
    <3> QED
      BY <2>3, <3>1
  <2>8. ASSUME num_check > 1 PROVE {0, total - 1} \subseteq ToSet(indices)
    <3>1. 1 \in 1..n /\ n \in 1..n /\ n = total
      BY <2>2, <2>8
    <3>2. indices[1] = 0 /\ indices[n] = total - 1
      BY <2>3, <3>1
    <3> QED
      BY <2>5, <3>1, <3>2 DEF ToSet
  <2> QED
    BY <2>2, <2>5, <2>6, <2>7, <2>8 DEF indices
<1>2. CASE ~(total <= num_check \/ num_check <= 1)
  <2>1. PICK c, d : c = total - 1 /\ d = num_check - 1
    OBVIOUS
  <2>2. c \in Nat /\ d \in Nat \ {0} /\ d < c /\ total = c + 1 /\ num_check = d + 1
    BY <1>2, <2>1
  <2>3. indices = [i \in 1..d + 1 |-> ((i - 1) * c) \div d]
    BY <1>2, <2>1, <2>2 DEF CacheIndices
  <2> HIDE DEF indices
  <2> DEFINE Index(j) == (j * c) \div d
  <2>4. \A a \in Int : a = d * (a \div d) + (a % d) /\ a \div d \in Int /\ a % d \in 0..d - 1
    BY <2>2
  <2>5. ASSUME NEW j \in 0..d
        PROVE  Index(j) \in Int /\ d * Index(j) <= j * c /\ j * c < d * (Index(j) + 1) /\ j * c \in Int
    <3>1. PICK a, q : a = j * c /\ q = Index(j)
      OBVIOUS
    <3>2. a \in Int
      BY <2>2, <3>1
    <3>3. a = d * q + (a % d) /\ q \in Int /\ a % d \in 0..d - 1
      BY <2>4, <3>1, <3>2
    <3>4. d * (q + 1) = d * q + d
      BY <2>2, <3>3
    <3> HIDE DEF Index
    <3>5. d * q \in Int
      BY <2>2, <3>3
    <3>6. d * q <= a /\ a < d * q + d
      <4>1. PICK r : r = a % d
        OBVIOUS
      <4>2. a = d * q + r /\ r \in 0..d - 1
        BY <3>3, <4>1
      <4> QED
        BY <2>2, <3>2, <3>5, <4>2
    <3> QED
      BY <3>1, <3>2, <3>3, <3>4, <3>6
  <2>6. Index(0) = 0 /\ Index(d) = c
    <3>1. ASSUME NEW e \in Nat, NEW q \in Int, d * q <= d * e, d * e < d * (q + 1) PROVE q = e
      <4>1. ASSUME q < e PROVE FALSE
        <5>1. PICK r \in Nat : e = (q + 1) + r
          <6>1. e - (q + 1) \in Nat /\ e = (q + 1) + (e - (q + 1))
            BY <4>1
          <6> QED
            BY <6>1
        <5>2. d * e = d * (q + 1) + d * r /\ d * r >= 0 /\ d * (q + 1) \in Int /\ d * r \in Int
          BY <2>2, <5>1
        <5> QED
          BY <3>1, <5>2
      <4>2. ASSUME e < q PROVE FALSE
        <5>1. PICK r \in Nat : q = (e + 1) + r
          <6>1. q - (e + 1) \in Nat /\ q = (e + 1) + (q - (e + 1))
            BY <4>2
          <6> QED
            BY <6>1
        <5>2. d * q = d * e + d + d * r /\ d * r >= 0 /\ d * e \in Int /\ d * r \in Int
          BY <2>2, <5>1
        <5> QED
          BY <2>2, <3>1, <5>2
      <4> QED
        BY <4>1, <4>2
    <3>2. 0 \in 0..d /\ d \in 0..d /\ 0 * c = d * 0
      BY <2>2
    <3> HIDE DEF Index
    <3> QED
      BY <2>2, <2>5, <3>1, <3>2
  <2>7. ASSUME NEW j \in 0..d - 1 PROVE Index(j) < Index(j + 1)
    <3>1. j \in 0..d /\ j + 1 \in 0..d /\ (j + 1) * c = j * c + c
      BY <2>2
    <3>2. PICK a, q, r : a = j * c /\ q = Index(j) /\ r = Index(j + 1)
      OBVIOUS
    <3> HIDE DEF Index
    <3>3. a \in Int /\ q \in Int /\ r \in Int /\ d * q <= a /\ a + c < d * (r + 1)
      BY <2>5, <3>1, <3>2
    <3>4. d * (q + 1) = d * q + d /\ d * q \in Int
      BY <2>2, <3>3
    <3>5. d * (q + 1) < d * (r + 1)
      BY <2>2, <3>3, <3>4
    <3>6. ASSUME r <= q PROVE FALSE
      <4>1. PICK s \in Nat : q = r + s
        <5>1. q - r \in Nat /\ q = r + (q - r)
          BY <3>3, <3>6
        <5> QED
          BY <5>1
      <4>2. d * (q + 1) = d * (r + 1) + d * s /\ d * s >= 0 /\ d * (r + 1) \in Int /\ d * s \in Int
        BY <2>2, <3>3, <4>1
      <4> QED
        BY <3>5, <4>2
    <3> QED
      BY <3>2, <3>3, <3>6
  <2>8. \A i \in 1..d + 1 : i - 1 \in 0..d /\ indices[i] = Index(i - 1)
    BY <2>2, <2>3
  <2>9. \A j \in 0..d : Index(j) \in 0..c
    <3> DEFINE A == {n \in Nat : n <= d => Index(n) >= 0}
               B == {n \in Nat : n <= d => Index(d - n) <= c}
    <3>1. 0 \in A /\ 0 \in B
      BY <2>2, <2>6
    <3>2. ASSUME NEW n \in Nat PROVE (n \in A => n + 1 \in A) /\ (n \in B => n + 1 \in B)
      <4>1. CASE n + 1 <= d
        <5>1. n \in 0..d - 1 /\ d - (n + 1) \in 0..d - 1 /\ (d - (n + 1)) + 1 = d - n
          BY <2>2, <4>1
        <5>2. n \in 0..d /\ n + 1 \in 0..d /\ d - n \in 0..d /\ d - (n + 1) \in 0..d
          BY <2>2, <4>1
        <5>3. Index(n) < Index(n + 1) /\ Index(d - (n + 1)) < Index(d - n)
          <6>1. Index(d - (n + 1)) < Index((d - (n + 1)) + 1)
            BY <2>7, <5>1
          <6> QED
            BY <2>7, <5>1, <6>1
        <5>4. Index(n) \in Int /\ Index(n + 1) \in Int /\ Index(d - n) \in Int /\ Index(d - (n + 1)) \in Int
          BY <2>5, <5>2
        <5> HIDE DEF Index
        <5> QED
          BY <2>2, <4>1, <5>3, <5>4
      <4> HIDE DEF Index
      <4> QED
        BY <2>2, <4>1
    <3>3. \A n \in Nat : n \in A
      <4> HIDE DEF A, B
      <4> QED
        BY <3>1, <3>2, NatSet
    <3>4. \A n \in Nat : n \in B
      <4> HIDE DEF A, B
      <4> QED
        BY <3>1, <3>2, NatSet
    <3>5. ASSUME NEW j \in 0..d PROVE Index(j) \in 0..c
      <4>1. j \in Nat /\ d - j \in Nat /\ j <= d /\ d - j <= d /\ d - (d - j) = j
        BY <2>2
      <4>2. Index(j) >= 0
        BY <3>3, <4>1
      <4>3. Index(d - (d - j)) <= c
        BY <3>4, <4>1
      <4>4. Index(j) <= c
        BY <4>1, <4>3
      <4>5. Index(j) \in Int
        BY <2>5
      <4> HIDE DEF Index
      <4> QED
        BY <2>2, <4>2, <4>4, <4>5
    <3> QED
      BY <3>5
  <2> HIDE DEF Index
  <2>10. \A i \in 1..d + 1 : indices[i] \in 0..c
    BY <2>8, <2>9
  <2>11. indices \in Seq(0..c) /\ Len(indices) = d + 1 /\ DOMAIN indices = 1..d + 1
    <3>1. indices = [i \in 1..d + 1 |-> indices[i]]
      BY <2>3
    <3> QED
      BY <2>2, <2>10, <3>1
  <2>12. ToSet(indices) \subseteq 0..c
    BY <2>10, <2>11 DEF ToSet
  <2>13. \A m \in 1..d : indices[m] < indices[m + 1]
    <3>1. \A m \in 1..d : /\ m \in 1..d + 1 /\ m + 1 \in 1..d + 1 /\ m - 1 \in 0..d - 1
                          /\ (m + 1) - 1 = (m - 1) + 1
      BY <2>2
    <3>2. ASSUME NEW m \in 1..d PROVE indices[m] < indices[m + 1]
      <4>1. indices[m] = Index(m - 1) /\ indices[m + 1] = Index((m - 1) + 1)
        BY <2>8, <3>1
      <4> QED
        BY <2>7, <3>1, <4>1
    <3> QED
      BY <3>2
  <2>14. {0, c} \subseteq ToSet(indices)
    <3>1. 1 \in 1..d + 1 /\ d + 1 \in 1..d + 1 /\ 1 - 1 = 0 /\ (d + 1) - 1 = d
      BY <2>2
    <3>2. indices[1] = 0 /\ indices[d + 1] = c
      BY <2>6, <2>8, <3>1
    <3> QED
      BY <2>11, <3>1, <3>2 DEF ToSet
  <2>15. total - 1 = c /\ (d + 1) - 1 = d /\ d + 1 > 0
    BY <2>2
  <2> QED
    BY <2>11, <2>12, <2>13, <2>14, <2>15 DEF indices
<1> QED
  BY <1>1, <1>2 DEF indices
=============================================================================

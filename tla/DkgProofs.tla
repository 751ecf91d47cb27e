------------------------------ MODULE DkgProofs ------------------------------
(***************************************************************************)
(* The safety properties of DkgDemo, for every field, N, T, keys, hash,    *)
(* draws and fault: Agreement from Inv, the others from KeyInv.            *)
(*                                                                         *)
(* Agreement needs no arithmetic. Each sender has one dealing in the       *)
(* channel, and that of an honest sender carries the commitments it keeps  *)
(* for itself (SessionInv); an output is what round 1 gives for the        *)
(* dealings collected (CompletedInv). So two honest nodes sum the same     *)
(* function.                                                               *)
(*                                                                         *)
(* That shares open and reconstruct the key needs the polynomials behind   *)
(* the dealings (DealtInv): a dealing whose ciphertext and proof pass      *)
(* gives its recipient the value of the polynomial its commitment commits  *)
(* to, and ShamirProofs does the rest. A refresh starts from the shares of *)
(* one polynomial (ExistingKey) because main.rs has checked the outputs.   *)
(***************************************************************************)
EXTENDS DkgDemo, ShamirProofs

(* The state of a task is kept for every node.                             *)
Shape ==
  /\ DOMAIN status = Node /\ DOMAIN dealing = Node /\ DOMAIN next = Node
  /\ DOMAIN received = Node /\ DOMAIN output = Node /\ DOMAIN existing = Node
  /\ \E S : channel \in Seq(S)

(* One dealing of a sender is in the channel, after the sender has dealt; that
   of an honest sender has the commitments the sender keeps.               *)
SessionInv ==
  /\ \A k \in DOMAIN channel :
       /\ channel[k].from \in Node
       /\ status[channel[k].from] \in {"dealt", "ok", "failed"}
       /\ channel[k].from \in Honest =>
            channel[k].vss_commitment = dealing[channel[k].from].vss_commitment
  /\ \A k, l \in DOMAIN channel : channel[k].from = channel[l].from => k = l

(* The dealings a node has collected are in the channel, under their senders. *)
ReceivedInv ==
  \A i \in Node :
    /\ DOMAIN received[i] \subseteq Node \ {i}
    /\ \A j \in DOMAIN received[i] :
         \E k \in DOMAIN channel : received[i][j] = channel[k] /\ channel[k].from = j

(* An output is computed from a dealing of every other node.               *)
CompletedInv ==
  \A i \in Node : status[i] = "ok" =>
    /\ DOMAIN received[i] = Node \ {i}
    /\ output[i] = Complete(i, session, dealing[i], received[i], existing[i])

(* Honest nodes come out of the session before with one key.               *)
ExistingInv ==
  \A i, k \in Honest :
    /\ existing[i].public_key = existing[k].public_key
    /\ existing[i].public_key_shares = existing[k].public_key_shares

Inv == Shape /\ SessionInv /\ ReceivedInv /\ CompletedInv /\ ExistingInv

-----------------------------------------------------------------------------
LEMMA NodeFinite == IsFiniteSet(Node) /\ Cardinality(Node) = N
  BY DkgAssumption, FieldAssumption, FS_Interval DEF Node

LEMMA AllOthers ==
  ASSUME NEW i \in Node, NEW D, D \subseteq Node \ {i}, ~(Cardinality(D) < N - 1)
  PROVE  D = Node \ {i}
<1>1. IsFiniteSet(Node \ {i}) /\ Cardinality(Node \ {i}) = N - 1
  BY NodeFinite, FS_RemoveElement
<1>2. IsFiniteSet(D) /\ Cardinality(D) <= N - 1 /\ Cardinality(D) \in Nat
  BY <1>1, FS_Subset, FS_CardinalityType
<1>3. Cardinality(D) = Cardinality(Node \ {i})
  BY <1>1, <1>2, DkgAssumption, FieldAssumption
<1> QED
  BY <1>1, <1>3, FS_Subset

(* Two honest nodes that complete hold the same commitments for every node. *)
LEMMA SameCommitments ==
  ASSUME Inv, NEW i \in Honest, NEW k \in Honest, status[i] = "ok", status[k] = "ok"
  PROVE  Commitments(i, dealing[i].vss_commitment, received[i])
           = Commitments(k, dealing[k].vss_commitment, received[k])
<1>1. i \in Node /\ k \in Node /\ DOMAIN received[i] = Node \ {i} /\ DOMAIN received[k] = Node \ {k}
  BY DEF Inv, CompletedInv, Honest
<1>2. (DOMAIN received[i]) \cup {i} = Node /\ (DOMAIN received[k]) \cup {k} = Node
  BY <1>1
<1> DEFINE Own(a, j) == IF j = a THEN dealing[a].vss_commitment ELSE received[a][j].vss_commitment
<1>3. ASSUME NEW j \in Node PROVE Own(i, j) = Own(k, j)
  <2>1. CASE i = k
    BY <2>1
  <2>2. CASE i # k /\ j # i /\ j # k
    <3>1. \E a \in DOMAIN channel : received[i][j] = channel[a] /\ channel[a].from = j
      BY <1>1, <2>2 DEF Inv, ReceivedInv
    <3>2. \E a \in DOMAIN channel : received[k][j] = channel[a] /\ channel[a].from = j
      BY <1>1, <2>2 DEF Inv, ReceivedInv
    <3>3. received[i][j] = received[k][j]
      BY <3>1, <3>2 DEF Inv, SessionInv
    <3> QED
      BY <2>2, <3>3
  <2>3. ASSUME NEW a \in Honest, NEW b \in Honest, a # b, b \in Node,
               DOMAIN received[b] = Node \ {b}, a \in Node
        PROVE  Own(a, a) = Own(b, a)
    <3>1. PICK l \in DOMAIN channel : received[b][a] = channel[l] /\ channel[l].from = a
      BY <2>3 DEF Inv, ReceivedInv
    <3> QED
      BY <2>3, <3>1 DEF Inv, SessionInv
  <2> QED
    BY <1>1, <2>1, <2>2, <2>3
<1> QED
  BY <1>2, <1>3 DEF Commitments

LEMMA AgreementFromInvariant == Inv => Agreement
<1>1. SUFFICES ASSUME Inv, NEW i \in Honest, NEW k \in Honest, status[i] = "ok", status[k] = "ok"
               PROVE  /\ output[i].public_key = output[k].public_key
                      /\ output[i].public_key_shares = output[k].public_key_shares
  BY DEF Agreement
<1> DEFINE C(a) == Commitments(a, dealing[a].vss_commitment, received[a])
<1>2. C(i) = C(k)
  BY <1>1, SameCommitments
<1>3. \A a \in {i, k} : output[a] = Complete(a, session, dealing[a], received[a], existing[a])
  BY <1>1 DEF Inv, CompletedInv, Honest
<1>4. CASE session = "dkg"
  <2>1. \A a \in {i, k} :
          output[a] = [public_key |-> KeyOf(C(a)), public_key_shares |-> SharesOfKey(C(a)),
                       secret_share |->
                         Total(DealtShares(a, "dkg", dealing[a].share, received[a]))]
    BY <1>3, <1>4, Zenon DEF Complete, RoundOne
  <2>2. \A a \in {i, k} : /\ output[a].public_key = KeyOf(C(a))
                          /\ output[a].public_key_shares = SharesOfKey(C(a))
    BY <2>1
  <2> QED
    BY <1>2, <2>2
<1>5. CASE session # "dkg"
  <2> DEFINE Shares(a) ==
               [l \in Node |-> Plus(existing[a].public_key_shares[l], SharesOfKey(C(a))[l])]
  <2>1. \A a \in {i, k} :
          output[a] = [public_key |-> existing[a].public_key, public_key_shares |-> Shares(a),
                       secret_share |->
                         Plus(existing[a].secret_share,
                              Total(DealtShares(a, "refresh", dealing[a].share, received[a])))]
    BY <1>3, <1>5, Zenon DEF Complete, RoundOneRefresh
  <2>3. \A a \in {i, k} : /\ output[a].public_key = existing[a].public_key
                          /\ output[a].public_key_shares = Shares(a)
    BY <2>1
  <2>2. /\ existing[i].public_key = existing[k].public_key
        /\ existing[i].public_key_shares = existing[k].public_key_shares
    BY <1>1 DEF Inv, ExistingInv
  <2> QED
    BY <1>2, <2>2, <2>3
<1> QED
  BY <1>4, <1>5

-----------------------------------------------------------------------------
LEMMA InitInv == Init => Inv
<1> SUFFICES ASSUME Init PROVE Inv
  OBVIOUS
<1>1. channel \in Seq({}) /\ DOMAIN channel = {} /\ \A i \in Node : DOMAIN received[i] = {}
  BY DEF Init, NoMessage
<1>2. \A i \in Node : status[i] # "ok" /\ existing[i] = NoOutput
  BY DEF Init
<1>3. Shape
  BY <1>1 DEF Init, Shape
<1> QED
  BY <1>1, <1>2, <1>3 DEF Inv, SessionInv, ReceivedInv, CompletedInv, ExistingInv, Honest

LEMMA RegisterInv ==
  ASSUME Inv, NEW i \in Node, Register(i)
  PROVE  Inv'
<1>1. Shape'
  BY DEF Inv, Shape, Register
<1>2. \A k \in Node \ {i} : status'[k] = status[k]
  BY DEF Inv, Shape, Register
<1>3. status[i] = "start" /\ status'[i] \in {"registered", "refused"}
  BY DEF Inv, Shape, Register
<1>4. Honest' = Honest
  BY DEF Register, Honest, Faulty
<1>5. SessionInv' /\ ReceivedInv'
  BY <1>2, <1>3, <1>4 DEF Inv, SessionInv, ReceivedInv, Register
<1>6. CompletedInv' /\ ExistingInv'
  BY <1>2, <1>3, <1>4 DEF Inv, CompletedInv, ExistingInv, Register
<1> QED
  BY <1>1, <1>5, <1>6 DEF Inv

(* Whatever a faulty node changes, the sender of its dealing stays; an honest
   one changes nothing.                                                    *)
LEMMA BroadcastFrom ==
  ASSUME NEW i \in Node, NEW c, NEW verdict,
         NEW m \in Broadcasts(i, RoundZero(i, session, c, verdict))
  PROVE  /\ m.from = i
         /\ i \in Honest => m.vss_commitment = Commit(c)
<1> DEFINE z == RoundZero(i, session, c, verdict)
<1>1. z.from = i /\ z.vss_commitment = Commit(c)
     /\ DOMAIN z = {"session", "from", "random_msg", "vss_commitment", "ciphertexts", "evrf"}
  BY DEF RoundZero
<1>2. CASE FaultNow(i) \in {"Share", "PadCommitment", "Pad", "Vss", "Session", "Missing"}
  <2>1. i \notin Honest
    BY <1>2 DEF FaultNow, Honest, Faulty
  <2>2. \A f : [z EXCEPT !.ciphertexts = f].from = i
    BY <1>1
  <2>3. \A f, v : [z EXCEPT !.evrf = v, !.ciphertexts = f].from = i
    BY <1>1
  <2>4. (\A f : [z EXCEPT !.vss_commitment = f].from = i) /\ [z EXCEPT !.session = "other"].from = i
    BY <1>1
  <2>5. m.from = i
    BY <1>2, <2>2, <2>3, <2>4 DEF Broadcasts
  <2> QED
    BY <2>1, <2>5
<1>3. CASE FaultNow(i) \notin {"Share", "PadCommitment", "Pad", "Vss", "Session", "Missing"}
  <2>1. m = z
    BY <1>3 DEF Broadcasts
  <2> QED
    BY <1>1, <2>1
<1> QED
  BY <1>2, <1>3

(* A dealing enters the channel: the first of its sender.                  *)
LEMMA DealInv ==
  ASSUME Inv, NEW i \in Node, Deal(i)
  PROVE  Inv'
<1> DEFINE D == DealingPolynomials(i, IF FaultNow(i) = "Secret" THEN "dkg" ELSE session)
          Dealt(c) == [vss_commitment |-> Commit(c), share |-> Evaluate(c, i)]
<1>0. PICK c \in D, verdict \in ProofVerdicts :
         \E m \in Broadcasts(i, RoundZero(i, session, c, verdict)) :
           /\ dealing' = [dealing EXCEPT ![i] = Dealt(c)]
           /\ channel' = Append(channel, m)
  BY Zenon DEF Deal
<1>1. PICK m \in Broadcasts(i, RoundZero(i, session, c, verdict)) :
         /\ dealing' = [dealing EXCEPT ![i] = Dealt(c)]
         /\ channel' = Append(channel, m)
  BY <1>0
<1>2. /\ status[i] = "registered" /\ status' = [status EXCEPT ![i] = "dealt"]
      /\ UNCHANGED <<session, fault, next, received, result, output, existing>>
  BY DEF Deal
<1>3. m.from = i /\ (i \in Honest => m.vss_commitment = Commit(c))
  BY <1>1, BroadcastFrom
<1>4. PICK S : channel \in Seq(S)
  BY DEF Inv, Shape
<1>5. /\ Len(channel) \in Nat /\ DOMAIN channel = 1..Len(channel)
      /\ DOMAIN channel' = 1..(Len(channel) + 1)
      /\ \A k \in DOMAIN channel : channel'[k] = channel[k]
      /\ channel'[Len(channel) + 1] = m
      /\ channel' \in Seq(S \cup {m})
  <2>1. channel \in Seq(S \cup {m}) /\ m \in S \cup {m}
    BY <1>4
  <2> QED
    BY <1>1, <2>1
<1>6. Shape'
  BY <1>1, <1>2, <1>5 DEF Inv, Shape
<1>7. Honest' = Honest
  BY <1>2 DEF Honest, Faulty
<1>8. /\ status'[i] = "dealt" /\ dealing'[i].vss_commitment = Commit(c)
      /\ \A k \in Node \ {i} : status'[k] = status[k] /\ dealing'[k] = dealing[k]
  BY <1>1, <1>2 DEF Inv, Shape
<1>9. \A k \in DOMAIN channel : channel[k].from \in Node \ {i}
  BY <1>2 DEF Inv, SessionInv
<1>10. SessionInv'
  <2>1. \A k \in DOMAIN channel' : k \in DOMAIN channel \/ k = Len(channel) + 1
    BY <1>5
  <2>2. ASSUME NEW k \in DOMAIN channel'
        PROVE  /\ channel'[k].from \in Node
               /\ status'[channel'[k].from] \in {"dealt", "ok", "failed"}
               /\ channel'[k].from \in Honest' =>
                    channel'[k].vss_commitment = dealing'[channel'[k].from].vss_commitment
    <3>1. CASE k \in DOMAIN channel
      BY <1>5, <1>7, <1>8, <1>9, <3>1 DEF Inv, SessionInv
    <3>2. CASE k = Len(channel) + 1
      BY <1>3, <1>5, <1>7, <1>8, <3>2
    <3> QED
      BY <2>1, <3>1, <3>2
  <2>3. ASSUME NEW k \in DOMAIN channel', NEW l \in DOMAIN channel',
               channel'[k].from = channel'[l].from
        PROVE  k = l
    BY <1>3, <1>5, <1>9, <2>1, <2>3 DEF Inv, SessionInv
  <2> QED
    BY <2>2, <2>3 DEF SessionInv
<1>11. ReceivedInv'
  BY <1>2, <1>5 DEF Inv, ReceivedInv
<1>12. CompletedInv'
  BY <1>2, <1>8 DEF Inv, CompletedInv
<1>13. ExistingInv'
  BY <1>2, <1>7 DEF Inv, ExistingInv
<1> QED
  BY <1>6, <1>10, <1>11, <1>12, <1>13 DEF Inv

LEMMA ReceiveInv ==
  ASSUME Inv, NEW i \in Node, Receive(i)
  PROVE  Inv'
<1> DEFINE m == channel[next[i]]
<1>1. /\ status[i] = "dealt" /\ next[i] \in DOMAIN channel
      /\ received' = IF m.from = i THEN received
                     ELSE [received EXCEPT ![i] = Insert(@, m.from, m)]
      /\ next' = [next EXCEPT ![i] = @ + 1]
      /\ UNCHANGED <<session, fault, status, dealing, channel, result, output, existing>>
  BY DEF Receive, Collecting
<1>2. m.from \in Node
  BY <1>1 DEF Inv, SessionInv
<1>3. Shape'
  BY <1>1 DEF Inv, Shape
<1>4. Honest' = Honest
  BY <1>1 DEF Honest, Faulty
<1>5. \A k \in Node \ {i} : received'[k] = received[k]
  BY <1>1 DEF Inv, Shape
<1>6. /\ DOMAIN received'[i] \subseteq Node \ {i}
      /\ \A j \in DOMAIN received'[i] :
           \E k \in DOMAIN channel : received'[i][j] = channel[k] /\ channel[k].from = j
  <2>1. CASE m.from = i
    BY <1>1, <2>1 DEF Inv, ReceivedInv
  <2>2. CASE m.from # i
    <3>1. received'[i] = Insert(received[i], m.from, m)
      BY <1>1, <2>2 DEF Inv, Shape
    <3>2. DOMAIN received'[i] = {m.from} \cup DOMAIN received[i]
      BY <3>1 DEF Insert
    <3>3. \A j \in DOMAIN received'[i] :
            received'[i][j] = IF j = m.from THEN m ELSE received[i][j]
      BY <3>1, <3>2 DEF Insert
    <3>4. DOMAIN received[i] \subseteq Node \ {i}
      BY DEF Inv, ReceivedInv
    <3>5. \A j \in DOMAIN received[i] :
            \E k \in DOMAIN channel : received[i][j] = channel[k] /\ channel[k].from = j
      BY DEF Inv, ReceivedInv
    <3>6. DOMAIN received'[i] \subseteq Node \ {i}
      BY <1>2, <2>2, <3>2, <3>4
    <3> QED
      BY <1>1, <3>2, <3>3, <3>5, <3>6
  <2> QED
    BY <2>1, <2>2
<1>7. ReceivedInv'
  BY <1>1, <1>5, <1>6 DEF Inv, ReceivedInv
<1>8. SessionInv' /\ ExistingInv'
  BY <1>1, <1>4 DEF Inv, SessionInv, ExistingInv
<1>9. CompletedInv'
  BY <1>1, <1>5 DEF Inv, CompletedInv
<1> QED
  BY <1>3, <1>7, <1>8, <1>9 DEF Inv

(* A node that completes has collected N - 1 dealings, one of every other.  *)
LEMMA FinishInv ==
  ASSUME Inv, NEW i \in Node, Finish(i)
  PROVE  Inv'
<1>1. /\ status[i] = "dealt" /\ ~(Cardinality(DOMAIN received[i]) < N - 1)
      /\ UNCHANGED <<session, fault, dealing, channel, next, received, existing>>
  BY DEF Finish, Collecting
<1>2. \/ status' = [status EXCEPT ![i] = "failed"] /\ UNCHANGED output
      \/ /\ status' = [status EXCEPT ![i] = "ok"]
         /\ output' = [output EXCEPT ![i] =
                         Complete(i, session, dealing[i], received[i], existing[i])]
  BY Zenon DEF Finish
<1>3. Shape'
  BY <1>1, <1>2 DEF Inv, Shape
<1>4. Honest' = Honest
  BY <1>1 DEF Honest, Faulty
<1>5. DOMAIN received[i] = Node \ {i}
  BY <1>1, AllOthers DEF Inv, ReceivedInv
<1>6. \A k \in Node \ {i} : status'[k] = status[k] /\ output'[k] = output[k]
  BY <1>2 DEF Inv, Shape
<1>7. /\ status'[i] \in {"ok", "failed"}
      /\ status'[i] = "ok" =>
           output'[i] = Complete(i, session, dealing[i], received[i], existing[i])
  BY <1>2 DEF Inv, Shape
<1>8. SessionInv'
  BY <1>1, <1>4, <1>6, <1>7 DEF Inv, SessionInv
<1>9. ReceivedInv' /\ ExistingInv'
  BY <1>1, <1>4 DEF Inv, ReceivedInv, ExistingInv
<1>10. CompletedInv'
  BY <1>1, <1>5, <1>6, <1>7 DEF Inv, CompletedInv
<1> QED
  BY <1>3, <1>8, <1>9, <1>10 DEF Inv

LEMMA StartRefreshInv ==
  ASSUME Inv, StartRefresh
  PROVE  Inv'
<1>1. channel' \in Seq({}) /\ DOMAIN channel' = {} /\ \A i \in Node : DOMAIN received'[i] = {}
  BY DEF StartRefresh, NoMessage
<1>2. /\ \A i \in Node : status'[i] # "ok" /\ status[i] = "ok"
      /\ existing' = output /\ fault' = fault
  BY DEF StartRefresh
<1>3. Shape'
  BY <1>1 DEF Inv, Shape, StartRefresh
<1>4. Honest' = Honest
  BY <1>2 DEF Honest, Faulty
<1>5. ExistingInv'
  BY <1>2, <1>4, AgreementFromInvariant DEF Agreement, ExistingInv, Honest
<1>6. SessionInv' /\ ReceivedInv' /\ CompletedInv'
  BY <1>1, <1>2 DEF SessionInv, ReceivedInv, CompletedInv
<1> QED
  BY <1>3, <1>5, <1>6 DEF Inv

LEMMA NextInv == Inv /\ [Next]_vars => Inv'
<1> SUFFICES ASSUME Inv, [Next]_vars PROVE Inv'
  OBVIOUS
<1>1. CASE StartRefresh
  BY <1>1, StartRefreshInv
<1>2. ASSUME NEW i \in Node, Step(i) PROVE Inv'
  <2>1. CASE Register(i)
    BY <2>1, RegisterInv
  <2>2. CASE Deal(i)
    BY <2>2, DealInv
  <2>3. CASE Receive(i)
    BY <2>3, ReceiveInv
  <2>4. CASE Finish(i)
    BY <2>4, FinishInv
  <2> QED
    BY <1>2, <2>1, <2>2, <2>3, <2>4 DEF Step
<1>3. CASE UNCHANGED vars
  <2>1. Honest' = Honest
    BY <1>3 DEF vars, Honest, Faulty
  <2> QED
    BY <1>3, <2>1 DEF vars, Inv, Shape, SessionInv, ReceivedInv, CompletedInv, ExistingInv
<1> QED
  BY <1>1, <1>2, <1>3 DEF Next

(* Honest nodes that complete a session have the same public key and the same
   public key shares (main.rs:83-99 and 218-226), however many nodes deal,
   whatever the faulty one sends, in the DKG and in the refresh after it.  *)
THEOREM SameKey == Spec => []Agreement
<1> QED
  BY InitInv, NextInv, AgreementFromInvariant, PTL DEF Spec

-----------------------------------------------------------------------------
(* What a dealing carries. DealtInv says that each in the channel is what its
   sender broadcasts for some polynomial, of which the sender keeps the
   commitment and its own share; OutcomeInv, how a node came to its end;
   ExistingKey, what the refresh starts from: after the checks of main.rs, the
   shares of one joint polynomial.                                          *)

(* The polynomials a node may deal now.                                     *)
Dealable(i) == DealingPolynomials(i, IF FaultNow(i) = "Secret" THEN "dkg" ELSE session)

Kept(i, c) == [vss_commitment |-> Commit(c), share |-> Evaluate(c, i)]

(* Message k of the channel is what i makes of polynomial c.                *)
Sent(i, k, c) ==
  /\ \E verdict \in ProofVerdicts : channel[k] \in Broadcasts(i, RoundZero(i, session, c, verdict))
  /\ dealing[i] = Kept(i, c)

DealtInv ==
  /\ session \in Sessions
  /\ \A i \in Node : status[i] \in {"dealt", "ok", "failed"} => \E k \in DOMAIN channel : channel[k].from = i
  /\ \A i \in Node : \A k \in DOMAIN channel :
       channel[k].from = i => \E c \in Dealable(i) : Sent(i, k, c)

OutcomeInv ==
  \A i \in Node :
    /\ status[i] = "ok" => RoundOneErrors(i, session, dealing[i], received[i]) = {}
    /\ status[i] = "failed" =>
         /\ DOMAIN received[i] = Node \ {i}
         /\ RoundOneErrors(i, session, dealing[i], received[i]) # {}

KeyFrom(C, i) ==
  [public_key |-> Exp(JointSecret(Node, C)),
   public_key_shares |-> [k \in Node |-> Exp(JointShare(Node, C, k))],
   secret_share |-> JointShare(Node, C, i)]

ExistingKey ==
  session = "refresh" =>
    \E C \in [Node -> Polynomials(T)] : \A i \in Node : existing[i] = KeyFrom(C, i)

KeyInv == Inv /\ DealtInv /\ OutcomeInv /\ ExistingKey

-----------------------------------------------------------------------------
LEMMA NodeScalar == Node \in SUBSET Scalar /\ IsFiniteSet(Node) /\ T \in Nat \ {0} /\ N \in Nat
  BY NodeFinite, DkgAssumption, FieldAssumption DEF Node, Scalar

LEMMA DealableTypes ==
  ASSUME NEW i \in Node, session \in Sessions, NEW c \in Dealable(i)
  PROVE  /\ c \in Polynomials(T) /\ c \in Seq(Scalar) /\ Len(c) = T /\ c[1] \in Scalar
         /\ session = "refresh" /\ FaultNow(i) # "Secret" => c[1] = 0
<1>1. Draws(i) \subseteq Scalar /\ T \in Nat \ {0} /\ 0 \in Scalar /\ T - 1 \in Nat
  BY DrawsAssumption, NodeScalar, PTypes DEF Node
<1>2. ASSUME NEW secret \in Scalar, c \in NewRandom(secret, T - 1, Draws(i))
      PROVE  c \in Seq(Scalar) /\ Len(c) = T /\ c[1] = secret
  <2>1. c \in Seq(Scalar) /\ Len(c) = (T - 1) + 1 /\ c[1] = secret
    BY <1>1, <1>2, NewRandomType
  <2> QED
    BY <1>1, <2>1
<1>3. \E secret \in Scalar : /\ c \in NewRandom(secret, T - 1, Draws(i))
                             /\ session = "refresh" /\ FaultNow(i) # "Secret" => secret = 0
  <2>1. CASE session = "refresh" /\ FaultNow(i) # "Secret"
    BY <1>1, <2>1 DEF Dealable, DealingPolynomials
  <2>2. CASE ~(session = "refresh" /\ FaultNow(i) # "Secret")
    <3>1. (IF FaultNow(i) = "Secret" THEN "dkg" ELSE session) = "dkg"
      BY <2>2 DEF Sessions
    <3>2. c \in UNION {NewRandom(omega, T - 1, Draws(i)) : omega \in Draws(i)}
      BY <3>1 DEF Dealable, DealingPolynomials
    <3> QED
      BY <1>1, <2>2, <3>2
  <2> QED
    BY <2>1, <2>2
<1> QED
  BY <1>2, <1>3 DEF Polynomials

(* Both ends of a pair derive the same pad (evrf::derive_pad).              *)
LEMMA PadAgrees ==
  ASSUME NEW i \in Node, NEW k \in Node, NEW s \in Sessions, NEW msg \in Node
  PROVE  Pad(i, k, s, msg) \in Scalar /\ Pad(i, k, s, msg) = Pad(k, i, s, msg)
<1> DEFINE a == IdentityKey(i, s)
           b == IdentityKey(k, s)
<1>1. a \in Scalar /\ b \in Scalar /\ Gen \in Scalar
  BY KeyAssumption, PTypes
<1> HIDE DEF a, b
<1>2. Times(a, Times(Gen, b)) = Times(b, Times(Gen, a))
  <2>1. Times(Times(a, Gen), b) = Times(a, Times(Gen, b)) /\ Times(a, Gen) \in Scalar
    BY <1>1, TimesLaws, RingTypes
  <2>2. Times(a, Gen) = Times(Gen, a) /\ Times(Times(a, Gen), b) = Times(b, Times(a, Gen))
    BY <1>1, <2>1, TimesLaws
  <2> QED
    BY <2>1, <2>2
<1>3. Times(a, Times(Gen, b)) \in Scalar
  BY <1>1, RingTypes
<1>4. PadHash(Times(a, Times(Gen, b)), msg) \in Scalar
  BY <1>3, KeyAssumption
<1> QED
  BY <1>2, <1>4 DEF Pad, DerivePad, PublicIdentity, Exp, a, b

(* A dealing as RoundZero makes it.                                         *)
Dealing(z, j, c, verdict) ==
  /\ z.session = session /\ z.from = j /\ z.random_msg = j /\ z.evrf = verdict
  /\ z.vss_commitment = Commit(c)
  /\ DOMAIN z = {"session", "from", "random_msg", "vss_commitment", "ciphertexts", "evrf"}
  /\ DOMAIN z.ciphertexts = Node \ {j}
  /\ \A k \in Node \ {j} :
       z.ciphertexts[k] = [r_commitment |-> Exp(Pad(j, k, session, j)),
                           encrypted_share |-> Plus(Pad(j, k, session, j), Evaluate(c, k))]

LEMMA RoundZeroIs ==
  ASSUME NEW j, NEW c, NEW verdict
  PROVE  Dealing(RoundZero(j, session, c, verdict), j, c, verdict)
BY DEF Dealing, RoundZero

(* The pad hides the share from nobody who knows it, and the check of the
   ciphertext accepts.                                                      *)
LEMMA Encryption ==
  ASSUME NEW j \in Node, session \in Sessions, NEW c \in Polynomials(T), NEW k \in Node
  PROVE  LET p == Pad(j, k, session, j)
             e == Evaluate(c, k)
         IN  /\ p \in Scalar /\ e \in Scalar /\ Minus(Plus(p, e), p) = e
             /\ Exp(Plus(p, e)) = Plus(Exp(p), ExpectedShareCommitment(Commit(c), k))
<1> DEFINE p == Pad(j, k, session, j)
           e == Evaluate(c, k)
<1>1. p \in Scalar /\ k \in Scalar /\ c \in Seq(Scalar)
  BY PadAgrees, NodeScalar DEF Polynomials
<1>2. e \in Scalar /\ ExpectedShareCommitment(Commit(c), k) = Exp(e)
  BY <1>1, EvaluateType, ShareCommitted
<1> HIDE DEF p, e
<1>3. Plus(p, e) = Plus(e, p)
  BY <1>1, <1>2, PlusLaws
<1> QED
  BY <1>1, <1>2, <1>3, MinusLaws, ExpLaws DEF p, e

(* Adding what is not the identity changes a value.                         *)
LEMMA PlusChanges ==
  ASSUME NEW a \in Scalar, NEW b \in Scalar, b # 0
  PROVE  Plus(a, b) # a /\ Plus(b, a) # a
<1>1. 0 \in Scalar /\ Plus(0, a) = a /\ Plus(a, b) = Plus(b, a)
  BY PTypes, PlusLaws
<1>2. Plus(b, a) = Plus(0, a) => b = 0
  BY <1>1, PlusCancels
<1> QED
  BY <1>1, <1>2

(* What a faulty node changes in its dealing.                               *)
LEMMA BroadcastCases ==
  ASSUME NEW j \in Node, NEW z, NEW C, NEW v, Dealing(z, j, C, v), NEW m \in Broadcasts(j, z)
  PROVE  /\ m.from = z.from /\ m.random_msg = z.random_msg
         /\ FaultNow(j) # "Vss" => m.vss_commitment = z.vss_commitment
         /\ FaultNow(j) = "Vss" =>
              m.vss_commitment = [z.vss_commitment EXCEPT ![1] = Plus(@, Gen)] /\ m.ciphertexts = z.ciphertexts
         /\ FaultNow(j) # "Missing" => DOMAIN m.ciphertexts = Node \ {j}
         /\ DOMAIN m.ciphertexts \subseteq Node \ {j}
         /\ \A k \in DOMAIN m.ciphertexts :
              LET c == m.ciphertexts[k]
                  d == z.ciphertexts[k]
              IN  \/ c = d
                  \/ c.r_commitment = d.r_commitment /\ c.encrypted_share = Plus(d.encrypted_share, 1)
                       /\ m.vss_commitment = z.vss_commitment
                  \/ c.r_commitment = Plus(d.r_commitment, Gen) /\ c.encrypted_share = d.encrypted_share
                       /\ m.vss_commitment = z.vss_commitment
                  \/ /\ m.evrf = "invalid"
                     /\ \/ c.encrypted_share = d.encrypted_share
                        \/ c.encrypted_share = Plus(d.encrypted_share, 1)
         /\ FaultNow(j) \in {"none", "Key", "Secret"} => m = z
<1> DEFINE F(k) == z.ciphertexts[k]
<1>0. /\ DOMAIN z = {"session", "from", "random_msg", "vss_commitment", "ciphertexts", "evrf"}
      /\ DOMAIN z.ciphertexts = Node \ {j}
      /\ \A k \in Node \ {j} : F(k) =
           [r_commitment |-> F(k).r_commitment, encrypted_share |-> F(k).encrypted_share]
  <2>2. \A k \in Node \ {j} : F(k) =
           [r_commitment |-> F(k).r_commitment, encrypted_share |-> F(k).encrypted_share]
    <3> SUFFICES ASSUME NEW k \in Node \ {j}
                 PROVE  F(k) = [r_commitment |-> F(k).r_commitment,
                                encrypted_share |-> F(k).encrypted_share]
      OBVIOUS
    <3>1. \E a, b : F(k) = [r_commitment |-> a, encrypted_share |-> b]
      BY DEF Dealing
    <3> HIDE DEF F
    <3> QED
      BY <3>1
  <2> QED
    BY <2>2 DEF Dealing
<1>1. CASE FaultNow(j) = "Share"
  <2>1. PICK k \in Node \ {j} : m = [z EXCEPT !.ciphertexts[k].encrypted_share = Plus(@, 1)]
    BY <1>1 DEF Broadcasts
  <2>2. m.ciphertexts = [z.ciphertexts EXCEPT ![k].encrypted_share = Plus(@, 1)]
        /\ m.vss_commitment = z.vss_commitment /\ m.from = z.from /\ m.random_msg = z.random_msg
    BY <1>0, <2>1
  <2>3. DOMAIN m.ciphertexts = Node \ {j} /\ \A l \in Node \ {j} : l # k => m.ciphertexts[l] = F(l)
    BY <1>0, <2>2
  <2>4. m.ciphertexts[k].r_commitment = F(k).r_commitment
        /\ m.ciphertexts[k].encrypted_share = Plus(F(k).encrypted_share, 1)
    BY <1>0, <2>2
  <2> QED
    BY <1>0, <1>1, <2>2, <2>3, <2>4
<1>2. CASE FaultNow(j) = "PadCommitment"
  <2>1. PICK k \in Node \ {j} : m = [z EXCEPT !.ciphertexts[k].r_commitment = Plus(@, Gen)]
    BY <1>2 DEF Broadcasts
  <2>2. m.ciphertexts = [z.ciphertexts EXCEPT ![k].r_commitment = Plus(@, Gen)]
        /\ m.vss_commitment = z.vss_commitment /\ m.from = z.from /\ m.random_msg = z.random_msg
    BY <1>0, <2>1
  <2>3. DOMAIN m.ciphertexts = Node \ {j} /\ \A l \in Node \ {j} : l # k => m.ciphertexts[l] = F(l)
    BY <1>0, <2>2
  <2>4. m.ciphertexts[k].r_commitment = Plus(F(k).r_commitment, Gen)
        /\ m.ciphertexts[k].encrypted_share = F(k).encrypted_share
    BY <1>0, <2>2
  <2> QED
    BY <1>0, <1>2, <2>2, <2>3, <2>4
<1>3. CASE FaultNow(j) = "Pad"
  <2>1. PICK k \in Node \ {j} :
          m = [z EXCEPT !.evrf = "invalid",
                        !.ciphertexts[k] = [r_commitment |-> Plus(@.r_commitment, Gen),
                                            encrypted_share |-> Plus(@.encrypted_share, 1)]]
    BY <1>3 DEF Broadcasts
  <2>2. m.evrf = "invalid" /\ DOMAIN m.ciphertexts = Node \ {j}
        /\ m.vss_commitment = z.vss_commitment /\ m.from = z.from /\ m.random_msg = z.random_msg
    BY <1>0, <2>1
  <2>3. m.ciphertexts = [z.ciphertexts EXCEPT ![k] =
                           [r_commitment |-> Plus(@.r_commitment, Gen),
                            encrypted_share |-> Plus(@.encrypted_share, 1)]]
    BY <1>0, <2>1
  <2>4. \A l \in Node \ {j} :
          m.ciphertexts[l].encrypted_share \in {F(l).encrypted_share, Plus(F(l).encrypted_share, 1)}
    <3>1. m.ciphertexts[k].encrypted_share = Plus(F(k).encrypted_share, 1)
      BY <1>0, <2>3
    <3>2. \A l \in Node \ {j} : l # k => m.ciphertexts[l] = F(l)
      BY <1>0, <2>3
    <3> QED
      BY <3>1, <3>2
  <2> QED
    BY <1>0, <1>3, <2>2, <2>4
<1>4. CASE FaultNow(j) = "Vss"
  <2>1. m = [z EXCEPT !.vss_commitment[1] = Plus(@, Gen)]
    BY <1>4 DEF Broadcasts
  <2>2. m.vss_commitment = [z.vss_commitment EXCEPT ![1] = Plus(@, Gen)] /\ m.ciphertexts = z.ciphertexts
        /\ m.from = z.from /\ m.random_msg = z.random_msg
    BY <1>0, <2>1
  <2> QED
    BY <1>0, <1>4, <2>2
<1>5. CASE FaultNow(j) = "Session"
  <2>1. m = [z EXCEPT !.session = "other"]
    BY <1>5 DEF Broadcasts
  <2>2. m.vss_commitment = z.vss_commitment /\ m.ciphertexts = z.ciphertexts
        /\ m.from = z.from /\ m.random_msg = z.random_msg
    BY <1>0, <2>1
  <2> QED
    BY <1>0, <1>5, <2>2
<1>6. CASE FaultNow(j) = "Missing"
  <2>1. PICK k \in Node \ {j} : m = [z EXCEPT !.ciphertexts = Restrict(@, (Node \ {j}) \ {k})]
    BY <1>6 DEF Broadcasts
  <2>2. m.vss_commitment = z.vss_commitment /\ m.ciphertexts = Restrict(z.ciphertexts, (Node \ {j}) \ {k})
        /\ m.from = z.from /\ m.random_msg = z.random_msg
    BY <1>0, <2>1
  <2>3. DOMAIN m.ciphertexts \subseteq Node \ {j} /\ \A l \in DOMAIN m.ciphertexts : m.ciphertexts[l] = F(l)
    BY <1>0, <2>2 DEF Restrict
  <2> QED
    BY <1>0, <1>6, <2>2, <2>3
<1>7. CASE FaultNow(j) \notin {"Share", "PadCommitment", "Pad", "Vss", "Session", "Missing"}
  <2>1. m = z
    BY <1>7 DEF Broadcasts
  <2> QED
    BY <1>0, <1>7, <2>1
<1> QED
  BY <1>1, <1>2, <1>3, <1>4, <1>5, <1>6, <1>7

(* Every commitment broadcast is one to some polynomial.                    *)
LEMMA SomeCommitment ==
  ASSUME NEW j \in Node, session \in Sessions, NEW c \in Polynomials(T), NEW verdict,
         NEW m \in Broadcasts(j, RoundZero(j, session, c, verdict))
  PROVE  \E d \in Polynomials(T) : m.vss_commitment = Commit(d)
<1>1. PICK z : z = RoundZero(j, session, c, verdict)
  OBVIOUS
<1>2. \/ m.vss_commitment = Commit(c)
      \/ m.vss_commitment = [Commit(c) EXCEPT ![1] = Plus(@, Gen)]
  <2>1. Dealing(z, j, c, verdict) /\ m \in Broadcasts(j, z)
    BY <1>1, RoundZeroIs
  <2>2. \/ m.vss_commitment = z.vss_commitment
        \/ m.vss_commitment = [z.vss_commitment EXCEPT ![1] = Plus(@, Gen)]
    BY <2>1, BroadcastCases
  <2> QED
    BY <2>1, <2>2 DEF Dealing
<1>3. c \in Seq(Scalar) /\ Len(c) = T /\ Len(c) > 0
  BY NodeScalar DEF Polynomials
<1> DEFINE d == [c EXCEPT ![1] = Plus(@, 1)]
<1>4. d \in Polynomials(T) /\ Commit(d) = [Commit(c) EXCEPT ![1] = Plus(@, Gen)]
  BY <1>3, CommitPlusOne DEF Polynomials
<1> QED
  BY <1>2, <1>4

(* A dealing that is consistent for a recipient and whose proof passes carries
   the commitment to its polynomial, and the recipient decrypts its share of
   it, whatever the dealer has changed.                                     *)
LEMMA Accepted ==
  ASSUME NEW j \in Node, session \in Sessions, NEW c \in Polynomials(T), NEW verdict,
         NEW m \in Broadcasts(j, RoundZero(j, session, c, verdict)),
         NEW k \in DOMAIN m.ciphertexts, Consistent(m, k), m.evrf # "invalid"
  PROVE  m.vss_commitment = Commit(c) /\ Decrypt(k, session, m) = Evaluate(c, k)
<1> DEFINE p == Pad(j, k, session, j)
           e == Evaluate(c, k)
           E == ExpectedShareCommitment(Commit(c), k)
<1>0. PICK z : z = RoundZero(j, session, c, verdict)
  OBVIOUS
<1>1. Dealing(z, j, c, verdict) /\ m \in Broadcasts(j, z)
  BY <1>0, RoundZeroIs
<1>2. /\ m.from = z.from /\ m.random_msg = z.random_msg
      /\ FaultNow(j) # "Vss" => m.vss_commitment = z.vss_commitment
      /\ FaultNow(j) = "Vss" =>
           m.vss_commitment = [z.vss_commitment EXCEPT ![1] = Plus(@, Gen)] /\ m.ciphertexts = z.ciphertexts
      /\ k \in Node \ {j}
      /\ LET a == m.ciphertexts[k]
             b == z.ciphertexts[k]
         IN  \/ a = b
             \/ a.r_commitment = b.r_commitment /\ a.encrypted_share = Plus(b.encrypted_share, 1)
                  /\ m.vss_commitment = z.vss_commitment
             \/ a.r_commitment = Plus(b.r_commitment, Gen) /\ a.encrypted_share = b.encrypted_share
                  /\ m.vss_commitment = z.vss_commitment
  BY <1>1, BroadcastCases
<1>3. /\ z.ciphertexts[k].r_commitment = Exp(p) /\ z.ciphertexts[k].encrypted_share = Plus(p, e)
      /\ p \in Scalar /\ e \in Scalar /\ Minus(Plus(p, e), p) = e
      /\ Exp(Plus(p, e)) = Plus(Exp(p), E)
      /\ z.vss_commitment = Commit(c) /\ z.from = j /\ z.random_msg = j
  <2>1. k \in Node /\ k \in Node \ {j}
    BY <1>2
  <2>2. /\ p \in Scalar /\ e \in Scalar /\ Minus(Plus(p, e), p) = e
        /\ Exp(Plus(p, e)) = Plus(Exp(p), E)
    BY <2>1, Encryption
  <2>3. z.ciphertexts[k] = [r_commitment |-> Exp(p), encrypted_share |-> Plus(p, e)]
    BY <1>1, <2>1 DEF Dealing
  <2>4. z.vss_commitment = Commit(c) /\ z.from = j /\ z.random_msg = j
    BY <1>1 DEF Dealing
  <2> HIDE DEF p, e
  <2> QED
    BY <2>2, <2>3, <2>4
<1>4. c \in Seq(Scalar) /\ Len(c) > 0 /\ k \in Scalar /\ k \in Node /\ session \in Sessions /\ E = Exp(e)
  BY <1>2, NodeScalar, ShareCommitted DEF Polynomials
<1>5. p = Pad(k, m.from, session, m.random_msg)
  BY <1>2, <1>3, <1>4, PadAgrees
<1>6. Exp(m.ciphertexts[k].encrypted_share) =
        Plus(m.ciphertexts[k].r_commitment, ExpectedShareCommitment(m.vss_commitment, k))
  BY DEF Consistent
<1>7. Exp(p) \in Scalar /\ Exp(e) \in Scalar /\ Plus(p, e) \in Scalar /\ Plus(Exp(p), Exp(e)) \in Scalar
        /\ Exp(Plus(p, e)) = Plus(Exp(p), Exp(e)) /\ Gen \in Scalar /\ Gen # 0 /\ 1 \in Scalar /\ Exp(1) = Gen
  <2>1. Exp(p) \in Scalar /\ Exp(e) \in Scalar /\ Plus(p, e) \in Scalar
    BY <1>3, RingTypes
  <2>2. Exp(1) = Gen
    BY TimesLaws, PTypes DEF Exp
  <2> QED
    BY <1>3, <2>1, <2>2, ExpLaws, RingTypes, PTypes
<1> HIDE DEF p, e, E
<1>8. m.vss_commitment = Commit(c)
  <2> SUFFICES ASSUME FaultNow(j) = "Vss"
               PROVE  FALSE
    BY <1>2, <1>3
  <2> DEFINE d == [c EXCEPT ![1] = Plus(@, 1)]
  <2>1. /\ d \in Seq(Scalar) /\ Commit(d) = [Commit(c) EXCEPT ![1] = Plus(@, Gen)]
        /\ Evaluate(d, k) = Plus(1, e)
    BY <1>4, CommitPlusOne DEF e
  <2> HIDE DEF d
  <2>2. ExpectedShareCommitment(m.vss_commitment, k) = Exp(Plus(1, e))
    <3>1. m.vss_commitment = Commit(d)
      BY <1>2, <1>3, <2>1
    <3>2. ExpectedShareCommitment(Commit(d), k) = Exp(Evaluate(d, k))
      BY <1>4, <2>1, ShareCommitted
    <3> QED
      BY <2>1, <3>1, <3>2
  <2>3. Exp(Plus(1, e)) = Plus(Gen, Exp(e))
    BY <1>3, <1>7, ExpLaws
  <2>4. Plus(Exp(p), Exp(e)) = Plus(Exp(p), Plus(Gen, Exp(e)))
    BY <1>2, <1>3, <1>6, <1>7, <2>2, <2>3
  <2>5. Plus(Exp(p), Plus(Gen, Exp(e))) = Plus(Gen, Plus(Exp(p), Exp(e)))
    <3>1. Plus(Plus(Exp(p), Gen), Exp(e)) = Plus(Exp(p), Plus(Gen, Exp(e)))
            /\ Plus(Plus(Gen, Exp(p)), Exp(e)) = Plus(Gen, Plus(Exp(p), Exp(e)))
            /\ Plus(Exp(p), Gen) = Plus(Gen, Exp(p))
      BY <1>7, PlusLaws
    <3> QED
      BY <3>1
  <2> QED
    BY <1>7, <2>4, <2>5, PlusChanges
<1>9. m.ciphertexts[k].encrypted_share = Plus(p, e)
  <2>1. Exp(m.ciphertexts[k].encrypted_share) = Plus(m.ciphertexts[k].r_commitment, Exp(e))
    BY <1>4, <1>6, <1>8 DEF E
  <2>2. ~(m.ciphertexts[k].r_commitment = Exp(p) /\ m.ciphertexts[k].encrypted_share = Plus(Plus(p, e), 1))
    <3>1. Exp(Plus(Plus(p, e), 1)) = Plus(Plus(Exp(p), Exp(e)), Gen)
      BY <1>7, ExpLaws
    <3> QED
      BY <1>7, <2>1, <3>1, PlusChanges
  <2> QED
    BY <1>2, <1>3, <2>2
<1> QED
  BY <1>3, <1>5, <1>8, <1>9 DEF Decrypt, e

(* An honest dealing is consistent for every recipient, and has a zero secret in
   a refresh.                                                              *)
LEMMA HonestDealing ==
  ASSUME NEW j \in Honest, session \in Sessions, NEW c \in Dealable(j), NEW verdict,
         NEW m \in Broadcasts(j, RoundZero(j, session, c, verdict))
  PROVE  /\ m.session = session /\ m.vss_commitment = Commit(c)
         /\ DOMAIN m.ciphertexts = Node \ {j}
         /\ \A k \in DOMAIN m.ciphertexts : Consistent(m, k)
         /\ session = "refresh" => m.vss_commitment[1] = Identity
<1>1. j \in Node /\ FaultNow(j) = "none"
  BY DEF Honest, FaultNow
<1>2. c \in Polynomials(T) /\ c \in Seq(Scalar) /\ Len(c) = T /\ (session = "refresh" => c[1] = 0)
  BY <1>1, DealableTypes
<1>3. m = RoundZero(j, session, c, verdict)
  BY <1>1 DEF Broadcasts
<1>4. Dealing(m, j, c, verdict)
  BY <1>3, RoundZeroIs
<1>5. ASSUME NEW k \in DOMAIN m.ciphertexts
      PROVE  Consistent(m, k)
  <2> DEFINE p == Pad(j, k, session, j)
             e == Evaluate(c, k)
  <2>1. k \in Node /\ k \in Node \ {j}
    BY <1>4 DEF Dealing
  <2>2. Exp(Plus(p, e)) = Plus(Exp(p), ExpectedShareCommitment(Commit(c), k))
    BY <1>1, <1>2, <2>1, Encryption
  <2>3. m.ciphertexts[k] = [r_commitment |-> Exp(p), encrypted_share |-> Plus(p, e)]
          /\ m.vss_commitment = Commit(c)
    BY <1>4, <2>1 DEF Dealing
  <2> HIDE DEF p, e
  <2> QED
    BY <2>2, <2>3 DEF Consistent
<1>6. session = "refresh" => Commit(c)[1] = Identity
  <2>1. 1 \in 1..Len(c)
    BY <1>2, NodeScalar
  <2>2. Commit(c)[1] = Exp(c[1])
    BY <1>2, <2>1, CommitType
  <2> QED
    BY <1>2, <2>2, ExpLaws
<1> QED
  BY <1>4, <1>5, <1>6 DEF Dealing

-----------------------------------------------------------------------------
(* The polynomials behind a session.                                        *)

DealtBy(C) ==
  \A i \in Node : \A k \in DOMAIN channel :
    channel[k].from = i => C[i] \in Dealable(i) /\ Sent(i, k, C[i])

LEMMA DealerPolynomials ==
  ASSUME KeyInv
  PROVE  \E C \in [Node -> Polynomials(T)] : DealtBy(C)
<1> DEFINE zero == [k \in 1..T |-> 0]
           From(j) == {k \in DOMAIN channel : channel[k].from = j}
           Good(j, c) == \A k \in From(j) : c \in Dealable(j) /\ Sent(j, k, c)
<1>1. zero \in Polynomials(T)
  <2>1. zero \in Seq(Scalar) /\ Len(zero) = T
    BY NodeScalar, PTypes
  <2> QED
    BY <2>1 DEF Polynomials
<1>2. ASSUME NEW j \in Node
      PROVE  \E c \in Polynomials(T) : Good(j, c)
  <2>1. CASE From(j) = {}
    <3> HIDE DEF zero
    <3> QED
      BY <1>1, <2>1
  <2>2. CASE From(j) # {}
    <3>1. PICK k \in DOMAIN channel : channel[k].from = j
      BY <2>2
    <3>2. PICK c \in Dealable(j) : Sent(j, k, c)
      BY <3>1 DEF KeyInv, DealtInv
    <3>3. \A l \in From(j) : l = k
      BY <3>1 DEF KeyInv, Inv, SessionInv
    <3>4. c \in Polynomials(T)
      BY DealableTypes DEF KeyInv, DealtInv
    <3> QED
      BY <3>1, <3>2, <3>3, <3>4
  <2> QED
    BY <2>1, <2>2
<1> DEFINE C == [j \in Node |-> CHOOSE c \in Polynomials(T) : Good(j, c)]
<1>3. C \in [Node -> Polynomials(T)] /\ \A j \in Node : Good(j, C[j])
  <2> HIDE DEF Good
  <2> QED
    BY <1>2
<1>4. \A k \in DOMAIN channel : channel[k].from \in Node
  BY DEF KeyInv, Inv, SessionInv
<1> HIDE DEF C
<1> QED
  BY <1>3, <1>4 DEF DealtBy

(* What a node completes from: its own dealing and one of every other, all of
   them accepted.                                                           *)
LEMMA ReceivedDealing ==
  ASSUME KeyInv, NEW C \in [Node -> Polynomials(T)], DealtBy(C), NEW i \in Node,
         DOMAIN received[i] = Node \ {i}, status[i] \in {"dealt", "ok", "failed"}
  PROVE  /\ dealing[i] = Kept(i, C[i]) /\ C[i] \in Dealable(i)
         /\ \A j \in Node \ {i} :
              /\ C[j] \in Dealable(j) /\ dealing[j] = Kept(j, C[j])
              /\ \E verdict : received[i][j] \in Broadcasts(j, RoundZero(j, session, C[j], verdict))
<1>1. PICK k \in DOMAIN channel : channel[k].from = i
  BY DEF KeyInv, DealtInv
<1>2. dealing[i] = Kept(i, C[i]) /\ C[i] \in Dealable(i)
  BY <1>1 DEF DealtBy, Sent
<1>3. ASSUME NEW j \in Node \ {i}
      PROVE  /\ C[j] \in Dealable(j) /\ dealing[j] = Kept(j, C[j])
             /\ \E verdict : received[i][j] \in Broadcasts(j, RoundZero(j, session, C[j], verdict))
  <2>1. PICK l \in DOMAIN channel : received[i][j] = channel[l] /\ channel[l].from = j
    BY DEF KeyInv, Inv, ReceivedInv
  <2> QED
    BY <2>1 DEF DealtBy, Sent
<1> QED
  BY <1>2, <1>3

LEMMA NoErrors ==
  ASSUME NEW i \in Node, DOMAIN received[i] = Node \ {i},
         RoundOneErrors(i, session, dealing[i], received[i]) = {}
  PROVE  \A j \in Node \ {i} :
           /\ received[i][j].session = session
           /\ session = "refresh" =>
                dealing[i].vss_commitment[1] = Identity /\ received[i][j].vss_commitment[1] = Identity
           /\ \A k \in Node : k \in DOMAIN received[i][j].ciphertexts => Consistent(received[i][j], k)
           /\ i \in DOMAIN received[i][j].ciphertexts
<1> DEFINE R == received[i]
           own == dealing[i]
<1>1. /\ SessionErrors(R, session) = {} /\ CiphertextErrors(i, R) = {} /\ MissingErrors(i, R) = {}
      /\ session = "refresh" => ZeroSecretErrors(i, own, R) = {}
  <2> HIDE DEF R, own
  <2>1. RoundOneErrors(i, session, own, R) = {}
    BY DEF R, own
  <2> QED
    BY <2>1 DEF RoundOneErrors
<1>2. \A j \in Node \ {i} : R[j].session = session
  BY <1>1 DEF SessionErrors
<1>3. ASSUME session = "refresh", NEW j \in Node \ {i}
      PROVE  own.vss_commitment[1] = Identity /\ R[j].vss_commitment[1] = Identity
  <2> DEFINE bad == IF own.vss_commitment[1] # Identity THEN {i}
                    ELSE {l \in DOMAIN R : R[l].vss_commitment[1] # Identity}
  <2>1. bad = {}
    <3>1. {[error |-> "ZeroSecretViolation", sender |-> l, recipient |-> 0] : l \in bad} = {}
      BY <1>1, <1>3 DEF ZeroSecretErrors
    <3> HIDE DEF bad
    <3> QED
      BY <3>1
  <2>2. own.vss_commitment[1] = Identity
    BY <2>1
  <2>3. j \in DOMAIN R
    OBVIOUS
  <2> HIDE DEF own, R
  <2> QED
    BY <2>1, <2>2, <2>3
<1>4. ASSUME NEW j \in Node \ {i}, NEW k \in Node, k \in DOMAIN R[j].ciphertexts
      PROVE  Consistent(R[j], k)
  <2> DEFINE bad == {jk \in (DOMAIN R) \X Node :
                       jk[2] \in DOMAIN R[jk[1]].ciphertexts /\ ~Consistent(R[jk[1]], jk[2])}
  <2>1. bad = {}
    <3>1. {[error |-> "CiphertextVerificationFailed", sender |-> jk[1], recipient |-> jk[2]] : jk \in bad} = {}
      BY <1>1 DEF CiphertextErrors
    <3> HIDE DEF bad
    <3> QED
      BY <3>1
  <2>2. <<j, k>> \notin bad
    BY <2>1
  <2>3. <<j, k>> \in (DOMAIN R) \X Node /\ <<j, k>>[1] = j /\ <<j, k>>[2] = k
    OBVIOUS
  <2> HIDE DEF R
  <2> QED
    BY <1>4, <2>2, <2>3
<1>5. \A j \in Node \ {i} : i \in DOMAIN R[j].ciphertexts
  BY <1>1 DEF MissingErrors
<1> QED
  BY <1>2, <1>3, <1>4, <1>5

LEMMA CompletedShares ==
  ASSUME KeyInv, NEW C \in [Node -> Polynomials(T)], DealtBy(C),
         NEW i \in Node, status[i] = "ok", ProofsPass(i)
  PROVE  /\ Commitments(i, dealing[i].vss_commitment, received[i]) = [j \in Node |-> Commit(C[j])]
         /\ DealtShares(i, session, dealing[i].share, received[i]) = [j \in Node |-> Evaluate(C[j], i)]
         /\ session = "refresh" => \A j \in Node \ {i} : C[j][1] = 0 /\ C[i][1] = 0
<1>1. DOMAIN received[i] = Node \ {i} /\ session \in Sessions
        /\ RoundOneErrors(i, session, dealing[i], received[i]) = {}
  BY DEF KeyInv, Inv, CompletedInv, DealtInv, OutcomeInv
<1>2. /\ dealing[i] = Kept(i, C[i])
      /\ \A j \in Node \ {i} :
           \E verdict : received[i][j] \in Broadcasts(j, RoundZero(j, session, C[j], verdict))
  BY <1>1, ReceivedDealing
<1>3. \A j \in Node \ {i} :
           /\ session = "refresh" =>
                dealing[i].vss_commitment[1] = Identity /\ received[i][j].vss_commitment[1] = Identity
           /\ Consistent(received[i][j], i)
           /\ i \in DOMAIN received[i][j].ciphertexts
  BY <1>1, NoErrors
<1>4. ASSUME NEW j \in Node \ {i}
      PROVE  received[i][j].vss_commitment = Commit(C[j]) /\ Decrypt(i, session, received[i][j]) = Evaluate(C[j], i)
  <2>1. received[i][j].evrf # "invalid"
    BY <1>1 DEF ProofsPass
  <2>2. PICK verdict : received[i][j] \in Broadcasts(j, RoundZero(j, session, C[j], verdict))
    BY <1>2
  <2>3. C[j] \in Polynomials(T) /\ j \in Node /\ i \in DOMAIN received[i][j].ciphertexts
          /\ Consistent(received[i][j], i)
    BY <1>3
  <2> QED
    BY <1>1, <2>1, <2>2, <2>3, Accepted
<1>5. dealing[i].vss_commitment = Commit(C[i]) /\ dealing[i].share = Evaluate(C[i], i)
  BY <1>2 DEF Kept
<1>6. (DOMAIN received[i]) \cup {i} = Node
  BY <1>1
<1>7. Commitments(i, dealing[i].vss_commitment, received[i]) = [j \in Node |-> Commit(C[j])]
  BY <1>4, <1>5, <1>6 DEF Commitments
<1>8. DealtShares(i, session, dealing[i].share, received[i]) = [j \in Node |-> Evaluate(C[j], i)]
  BY <1>4, <1>5, <1>6 DEF DealtShares
<1>9. ASSUME NEW j \in Node, Commit(C[j])[1] = Identity
      PROVE  C[j][1] = 0
  <2>1. C[j] \in Seq(Scalar) /\ 1 \in 1..Len(C[j]) /\ C[j][1] \in Scalar
    <3>1. C[j] \in Seq(Scalar) /\ Len(C[j]) = T
      BY DEF Polynomials
    <3>2. 1 \in 1..Len(C[j])
      BY <3>1, NodeScalar
    <3> QED
      BY <3>1, <3>2
  <2>2. Exp(C[j][1]) = Exp(0) /\ 0 \in Scalar
    BY <1>9, <2>1, CommitType, ExpLaws, PTypes
  <2> QED
    BY <2>1, <2>2, ExpInjective
<1>10. session = "refresh" => \A j \in Node \ {i} : C[j][1] = 0 /\ C[i][1] = 0
  BY <1>3, <1>4, <1>5, <1>9
<1> QED
  BY <1>7, <1>8, <1>10

-----------------------------------------------------------------------------
(* The output of a node that completes, in terms of the polynomials.        *)

LEMMA JointCommitments ==
  ASSUME NEW C \in [Node -> Polynomials(T)]
  PROVE  /\ KeyOf([j \in Node |-> Commit(C[j])]) = Exp(JointSecret(Node, C))
         /\ SharesOfKey([j \in Node |-> Commit(C[j])]) = [k \in Node |-> Exp(JointShare(Node, C, k))]
         /\ JointSecret(Node, C) \in Scalar /\ \A k \in Node : JointShare(Node, C, k) \in Scalar
<1> DEFINE M == [j \in Node |-> Commit(C[j])]
<1>1. /\ \A x \in Scalar :
           Total([j \in Node |-> ExpectedShareCommitment(Commit(C[j]), x)]) = Exp(JointShare(Node, C, x))
      /\ Total([j \in Node |-> Commit(C[j])[1]]) = Exp(JointSecret(Node, C))
      /\ JointSecret(Node, C) \in Scalar /\ \A x \in Scalar : JointShare(Node, C, x) \in Scalar
  BY NodeScalar, JointCommitted, JointTypes
<1>2. DOMAIN M = Node /\ \A j \in Node : M[j] = Commit(C[j])
  OBVIOUS
<1>3. KeyOf(M) = Exp(JointSecret(Node, C))
  <2>1. [j \in DOMAIN M |-> M[j][1]] = [j \in Node |-> Commit(C[j])[1]]
    BY <1>2
  <2> HIDE DEF M
  <2> QED
    BY <1>1, <2>1 DEF KeyOf
<1>4. SharesOfKey(M) = [k \in Node |-> Exp(JointShare(Node, C, k))]
  <2>1. ASSUME NEW k \in Node
        PROVE  Total([j \in DOMAIN M |-> ExpectedShareCommitment(M[j], k)]) = Exp(JointShare(Node, C, k))
    <3>1. [j \in DOMAIN M |-> ExpectedShareCommitment(M[j], k)]
            = [j \in Node |-> ExpectedShareCommitment(Commit(C[j]), k)]
      BY <1>2
    <3> HIDE DEF M
    <3> QED
      BY <1>1, <3>1, NodeScalar
  <2> HIDE DEF M
  <2> QED
    BY <2>1 DEF SharesOfKey
<1> QED
  BY <1>1, <1>3, <1>4, NodeScalar

(* In the DKG it is the key of the polynomials dealt; a refresh adds their joint
   polynomial, zero at zero, to the one from before.                        *)
Refreshed(existing_output, C, i) ==
  [public_key |-> existing_output.public_key,
   public_key_shares |->
     [k \in Node |-> Plus(existing_output.public_key_shares[k], Exp(JointShare(Node, C, k)))],
   secret_share |-> Plus(existing_output.secret_share, JointShare(Node, C, i))]

LEMMA Outputs ==
  ASSUME KeyInv, NEW C \in [Node -> Polynomials(T)], DealtBy(C),
         NEW i \in Honest, status[i] = "ok", ProofsPass(i)
  PROVE  /\ session = "dkg" => output[i] = KeyFrom(C, i)
         /\ session = "refresh" =>
              output[i] = Refreshed(existing[i], C, i) /\ JointSecret(Node, C) = 0
<1> DEFINE M == [j \in Node |-> Commit(C[j])]
           V == [j \in Node |-> Evaluate(C[j], i)]
<1>1. i \in Node /\ session \in Sessions /\ DOMAIN received[i] = Node \ {i}
        /\ output[i] = Complete(i, session, dealing[i], received[i], existing[i])
  BY DEF KeyInv, Inv, CompletedInv, DealtInv, Honest
<1>2. /\ Commitments(i, dealing[i].vss_commitment, received[i]) = M
      /\ DealtShares(i, session, dealing[i].share, received[i]) = V
      /\ session = "refresh" => \A j \in Node \ {i} : C[j][1] = 0
  BY <1>1, CompletedShares
<1>3. /\ KeyOf(M) = Exp(JointSecret(Node, C))
      /\ SharesOfKey(M) = [k \in Node |-> Exp(JointShare(Node, C, k))]
  BY JointCommitments
<1>4. Total(V) = JointShare(Node, C, i)
  BY DEF JointShare
<1> HIDE DEF M, V
<1>5. CASE session = "dkg"
  <2>1. output[i] = RoundOne(i, dealing[i], received[i])
    BY <1>1, <1>5 DEF Complete
  <2> QED
    BY <1>2, <1>3, <1>4, <1>5, <2>1, Zenon DEF RoundOne, KeyFrom
<1>6. CASE session = "refresh"
  <2>1. output[i] = RoundOneRefresh(i, dealing[i], received[i], existing[i])
    BY <1>1, <1>6 DEF Complete
  <2>2. [k \in Node |-> Plus(existing[i].public_key_shares[k], SharesOfKey(M)[k])]
          = [k \in Node |-> Plus(existing[i].public_key_shares[k], Exp(JointShare(Node, C, k)))]
    BY <1>3
  <2>3. output[i] = Refreshed(existing[i], C, i)
    BY <1>2, <1>4, <1>6, <2>1, <2>2, Zenon DEF RoundOneRefresh, Refreshed
  <2>4. C[i][1] = 0
    <3>1. C[i] \in Dealable(i)
      BY <1>1, ReceivedDealing
    <3>2. FaultNow(i) # "Secret"
      BY DEF Honest, FaultNow
    <3> QED
      BY <1>1, <1>6, <3>1, <3>2, DealableTypes
  <2>5. [j \in Node |-> C[j][1]] = [j \in Node |-> 0]
    BY <1>2, <1>6, <2>4
  <2>6. JointSecret(Node, C) = 0
    <3>1. Total([j \in Node |-> 0]) = 0
      BY NodeScalar, TotalZero
    <3> QED
      BY <2>5, <3>1 DEF JointSecret
  <2> QED
    BY <1>6, <2>3, <2>6
<1> QED
  BY <1>1, <1>5, <1>6 DEF Sessions

LEMMA KeyFields ==
  /\ \A C, i : /\ KeyFrom(C, i).public_key = Exp(JointSecret(Node, C))
               /\ KeyFrom(C, i).public_key_shares = [k \in Node |-> Exp(JointShare(Node, C, k))]
               /\ KeyFrom(C, i).secret_share = JointShare(Node, C, i)
  /\ \A C, i, o : /\ Refreshed(o, C, i).public_key = o.public_key
                  /\ Refreshed(o, C, i).secret_share = Plus(o.secret_share, JointShare(Node, C, i))
BY DEF KeyFrom, Refreshed

(* In either session, then, the shares of one joint polynomial.             *)
KeyIs(i, share) ==
  /\ output[i].public_key_shares[i] = Exp(share)
  /\ output[i].secret_share = share

LEMMA OpensFromInvariant == KeyInv => SharesOpenKeyShares
<1> SUFFICES ASSUME KeyInv, NEW i \in Honest, NEW k \in Honest, status[i] = "ok", status[k] = "ok",
                    ProofsPass(i)
             PROVE  output[k].public_key_shares[i] = Exp(output[i].secret_share)
  BY DEF SharesOpenKeyShares
<1>1. i \in Node /\ session \in Sessions
  BY DEF Honest, KeyInv, DealtInv
<1>2. PICK C \in [Node -> Polynomials(T)] : DealtBy(C)
  BY DealerPolynomials
<1> DEFINE b == JointShare(Node, C, i)
<1>3. b \in Scalar
  BY <1>1, JointCommitments
<1>4. /\ session = "dkg" => output[i] = KeyFrom(C, i)
      /\ session = "refresh" => output[i] = Refreshed(existing[i], C, i)
  BY <1>2, Outputs
<1>5. \E share : KeyIs(i, share)
  <2>1. CASE session = "dkg"
    <3>1. KeyFrom(C, i).public_key_shares[i] = Exp(b) /\ KeyFrom(C, i).secret_share = b
      BY <1>1 DEF KeyFrom
    <3> QED
      BY <1>4, <2>1, <3>1 DEF KeyIs
  <2>2. CASE session = "refresh"
    <3>1. PICK D \in [Node -> Polynomials(T)] : existing[i] = KeyFrom(D, i)
      BY <1>1, <2>2 DEF KeyInv, ExistingKey
    <3> DEFINE a == JointShare(Node, D, i)
    <3>2. a \in Scalar
      BY <1>1, JointCommitments
    <3>3. existing[i].public_key_shares[i] = Exp(a) /\ existing[i].secret_share = a
      BY <1>1, <3>1 DEF KeyFrom
    <3>4. /\ output[i].public_key_shares[i] = Plus(existing[i].public_key_shares[i], Exp(b))
          /\ output[i].secret_share = Plus(existing[i].secret_share, b)
      BY <1>1, <1>4, <2>2 DEF Refreshed
    <3> HIDE DEF a, b
    <3>5. Plus(Exp(a), Exp(b)) = Exp(Plus(a, b))
      BY <1>3, <3>2, ExpLaws
    <3> QED
      BY <3>3, <3>4, <3>5 DEF KeyIs
  <2> QED
    BY <1>1, <2>1, <2>2 DEF Sessions
<1>6. output[k].public_key_shares = output[i].public_key_shares
  BY AgreementFromInvariant DEF KeyInv, Agreement
<1> QED
  BY <1>5, <1>6 DEF KeyIs

LEMMA ReconstructsFromInvariant == KeyInv => QuorumReconstructs
<1> SUFFICES ASSUME KeyInv, NEW S \in SUBSET {i \in Honest : status[i] = "ok" /\ ProofsPass(i)},
                    Cardinality(S) >= T, NEW k \in S
             PROVE  LET secret == LagrangeInterpolateAtZero([i \in S |-> output[i].secret_share])
                    IN  /\ output[k].public_key = Exp(secret)
                        /\ session = "refresh" => Exp(secret) = existing[k].public_key
  BY DEF QuorumReconstructs
<1> DEFINE f == [i \in S |-> output[i].secret_share]
<1>1. /\ S \in SUBSET Node /\ S \in SUBSET Scalar /\ IsFiniteSet(S) /\ Cardinality(S) \in Nat
      /\ session \in Sessions
  <2>1. S \in SUBSET Node
    BY DEF Honest
  <2>2. IsFiniteSet(S)
    BY <2>1, NodeScalar, FS_Subset
  <2> QED
    BY <2>1, <2>2, NodeScalar, FS_CardinalityType DEF KeyInv, DealtInv
<1>2. PICK C \in [Node -> Polynomials(T)] : DealtBy(C)
  BY DealerPolynomials
<1> DEFINE b == [i \in S |-> JointShare(Node, C, i)]
<1>3. \A i \in S : /\ session = "dkg" => output[i] = KeyFrom(C, i)
                   /\ session = "refresh" => output[i] = Refreshed(existing[i], C, i) /\ JointSecret(Node, C) = 0
  BY <1>2, Outputs
<1>4. b \in [S -> Scalar] /\ JointSecret(Node, C) \in Scalar
  BY <1>1, JointCommitments
<1>5. At0(S, b) = JointSecret(Node, C)
  BY <1>1, NodeScalar, JointReconstructs
<1>6. LagrangeInterpolateAtZero(f) = At0(S, f)
  <2>1. DOMAIN f = S
    OBVIOUS
  <2> HIDE DEF f
  <2> QED
    BY <2>1 DEF LagrangeInterpolateAtZero, At0
<1>7. CASE session = "dkg"
  <2>1. f = b
    BY <1>3, <1>7, KeyFields
  <2>2. output[k].public_key = Exp(JointSecret(Node, C))
    BY <1>3, <1>7, KeyFields
  <2> HIDE DEF f, b
  <2>3. output[k].public_key = Exp(LagrangeInterpolateAtZero(f))
    BY <1>5, <1>6, <2>1, <2>2
  <2> QED
    BY <1>7, <2>3 DEF f
<1>8. CASE session = "refresh"
  <2>1. PICK D \in [Node -> Polynomials(T)] : \A i \in Node : existing[i] = KeyFrom(D, i)
    BY <1>8 DEF KeyInv, ExistingKey
  <2> DEFINE a == [i \in S |-> JointShare(Node, D, i)]
  <2>2. a \in [S -> Scalar] /\ JointSecret(Node, D) \in Scalar
    BY <1>1, JointCommitments
  <2>3. At0(S, a) = JointSecret(Node, D)
    BY <1>1, NodeScalar, JointReconstructs
  <2>4. \A i \in S : existing[i].secret_share = a[i]
    BY <1>1, <2>1, KeyFields
  <2>5. \A i \in S : output[i].secret_share = Plus(existing[i].secret_share, b[i])
    BY <1>3, <1>8, KeyFields
  <2>6. existing[k].public_key = Exp(JointSecret(Node, D))
    BY <1>1, <2>1, KeyFields
  <2>7. output[k].public_key = existing[k].public_key /\ JointSecret(Node, C) = 0
    BY <1>3, <1>8, KeyFields
  <2> HIDE DEF a, b
  <2>8. f = [i \in S |-> Plus(a[i], b[i])]
    BY <2>4, <2>5
  <2> HIDE DEF f
  <2>9. At0(S, f) = Plus(At0(S, a), At0(S, b))
    BY <1>1, <1>4, <2>2, <2>8, At0Plus
  <2>10. At0(S, f) = JointSecret(Node, D)
    BY <1>5, <2>2, <2>3, <2>7, <2>9, PlusLaws
  <2>11. output[k].public_key = Exp(LagrangeInterpolateAtZero(f)) /\ Exp(LagrangeInterpolateAtZero(f)) = existing[k].public_key
    BY <1>6, <2>6, <2>7, <2>10
  <2> QED
    BY <2>11 DEF f
<1> QED
  BY <1>1, <1>7, <1>8 DEF Sessions

(* A node that fails has received a dealing that no other accepts either.   *)
LEMMA UnanimousFromInvariant == KeyInv => CompletionUnanimous
<1> SUFFICES ASSUME KeyInv, \A m \in ToSet(channel) : Node \ {m.from} \subseteq DOMAIN m.ciphertexts,
                    NEW i \in Honest, NEW k \in Honest, status[i] = "ok", status[k] = "failed"
             PROVE  FALSE
  BY DEF CompletionUnanimous
<1>1. /\ i \in Node /\ k \in Node /\ i # k /\ session \in Sessions
      /\ DOMAIN received[i] = Node \ {i} /\ DOMAIN received[k] = Node \ {k}
      /\ RoundOneErrors(i, session, dealing[i], received[i]) = {}
      /\ RoundOneErrors(k, session, dealing[k], received[k]) # {}
  BY DEF Honest, KeyInv, Inv, CompletedInv, DealtInv, OutcomeInv
<1>2. PICK C \in [Node -> Polynomials(T)] : DealtBy(C)
  BY DealerPolynomials
<1>3. /\ dealing[i] = Kept(i, C[i]) /\ C[i] \in Dealable(i)
      /\ dealing[k] = Kept(k, C[k]) /\ C[k] \in Dealable(k)
      /\ \E verdict : received[k][i] \in Broadcasts(i, RoundZero(i, session, C[i], verdict))
      /\ \E verdict : received[i][k] \in Broadcasts(k, RoundZero(k, session, C[k], verdict))
  BY <1>1, <1>2, ReceivedDealing
<1> DEFINE Fine(m) == /\ m.session = session
                      /\ session = "refresh" => m.vss_commitment[1] = Identity
                      /\ \A l \in Node : l \in DOMAIN m.ciphertexts => Consistent(m, l)
<1>4. Fine(received[k][i]) /\ received[k][i].vss_commitment = Commit(C[i])
  <2>1. PICK verdict : received[k][i] \in Broadcasts(i, RoundZero(i, session, C[i], verdict))
    BY <1>3
  <2> QED
    BY <1>1, <1>3, <2>1, HonestDealing
<1>5. Fine(received[i][k]) /\ received[i][k].vss_commitment = Commit(C[k])
  <2>1. PICK verdict : received[i][k] \in Broadcasts(k, RoundZero(k, session, C[k], verdict))
    BY <1>3
  <2> QED
    BY <1>1, <1>3, <2>1, HonestDealing
<1>6. \A j \in Node \ {i} : Fine(received[i][j])
  BY <1>1, NoErrors
<1>7. \A j \in Node \ {i, k} : received[k][j] = received[i][j]
  <2> SUFFICES ASSUME NEW j \in Node \ {i, k} PROVE received[k][j] = received[i][j]
    OBVIOUS
  <2>1. PICK a \in DOMAIN channel : received[i][j] = channel[a] /\ channel[a].from = j
    BY <1>1 DEF KeyInv, Inv, ReceivedInv
  <2>2. PICK b \in DOMAIN channel : received[k][j] = channel[b] /\ channel[b].from = j
    BY <1>1 DEF KeyInv, Inv, ReceivedInv
  <2> QED
    BY <2>1, <2>2 DEF KeyInv, Inv, SessionInv
<1>8. \A j \in Node \ {k} : Fine(received[k][j])
  BY <1>4, <1>6, <1>7
<1>9. \A j \in Node \ {k} : k \in DOMAIN received[k][j].ciphertexts
  <2> SUFFICES ASSUME NEW j \in Node \ {k} PROVE k \in DOMAIN received[k][j].ciphertexts
    OBVIOUS
  <2>1. PICK b \in DOMAIN channel : received[k][j] = channel[b] /\ channel[b].from = j
    BY <1>1 DEF KeyInv, Inv, ReceivedInv
  <2>2. channel[b] \in ToSet(channel)
    BY <2>1 DEF ToSet
  <2> QED
    BY <1>1, <2>1, <2>2
<1>10. session = "refresh" => dealing[k].vss_commitment[1] = Identity
  BY <1>3, <1>5 DEF Kept
<1> HIDE DEF Fine
<1>11. SessionErrors(received[k], session) = {}
  BY <1>1, <1>8 DEF SessionErrors, Fine
<1>12. session = "refresh" => ZeroSecretErrors(k, dealing[k], received[k]) = {}
  BY <1>1, <1>8, <1>10 DEF ZeroSecretErrors, Fine
<1>13. CiphertextErrors(k, received[k]) = {}
  <2>1. \A jk \in (DOMAIN received[k]) \X Node :
          ~(jk[2] \in DOMAIN received[k][jk[1]].ciphertexts /\ ~Consistent(received[k][jk[1]], jk[2]))
    BY <1>1, <1>8 DEF Fine
  <2> QED
    BY <2>1 DEF CiphertextErrors
<1>14. MissingErrors(k, received[k]) = {}
  BY <1>1, <1>9 DEF MissingErrors
<1>15. RoundOneErrors(k, session, dealing[k], received[k]) = {}
  BY <1>11, <1>12, <1>13, <1>14 DEF RoundOneErrors
<1> QED
  BY <1>1, <1>15

-----------------------------------------------------------------------------
(* What main.rs checks before the refresh makes the outputs the shares of one
   joint polynomial: that behind the commitments its first node has added.  *)

LEMMA DecryptType ==
  ASSUME NEW j \in Node, session \in Sessions, NEW c \in Polynomials(T), NEW verdict,
         NEW m \in Broadcasts(j, RoundZero(j, session, c, verdict)), NEW k \in DOMAIN m.ciphertexts
  PROVE  Decrypt(k, session, m) \in Scalar
<1>1. PICK z : z = RoundZero(j, session, c, verdict)
  OBVIOUS
<1>2. Dealing(z, j, c, verdict) /\ m \in Broadcasts(j, z)
  BY <1>1, RoundZeroIs
<1> DEFINE p == Pad(j, k, session, j)
           e == Evaluate(c, k)
           a == Plus(p, e)
<1>3. /\ m.from = z.from /\ m.random_msg = z.random_msg /\ k \in Node \ {j}
      /\ \/ m.ciphertexts[k] = z.ciphertexts[k]
         \/ m.ciphertexts[k].encrypted_share \in
              {z.ciphertexts[k].encrypted_share, Plus(z.ciphertexts[k].encrypted_share, 1)}
  <2>1. /\ FaultNow(j) = "Vss" =>
             m.vss_commitment = [z.vss_commitment EXCEPT ![1] = Plus(@, Gen)] /\ m.ciphertexts = z.ciphertexts
        /\ m.from = z.from /\ m.random_msg = z.random_msg /\ DOMAIN m.ciphertexts \subseteq Node \ {j}
        /\ LET x == m.ciphertexts[k]
               y == z.ciphertexts[k]
           IN  \/ x = y
               \/ x.encrypted_share = y.encrypted_share
               \/ x.encrypted_share = Plus(y.encrypted_share, 1)
    BY <1>2, BroadcastCases
  <2> QED
    BY <2>1
<1>4. p \in Scalar /\ e \in Scalar /\ 1 \in Scalar /\ Pad(k, j, session, j) \in Scalar
  BY <1>3, Encryption, PadAgrees, PTypes
<1>5. z.ciphertexts[k].encrypted_share = a /\ z.from = j /\ z.random_msg = j
  <2>1. z.ciphertexts[k] = [r_commitment |-> Exp(p), encrypted_share |-> Plus(p, e)]
    BY <1>2, <1>3 DEF Dealing
  <2>2. z.from = j /\ z.random_msg = j
    BY <1>2 DEF Dealing
  <2> HIDE DEF p, e
  <2> QED
    BY <2>1, <2>2
<1>6. a \in Scalar /\ Plus(a, 1) \in Scalar
  <2> HIDE DEF p, e
  <2> QED
    BY <1>4, RingTypes
<1> HIDE DEF a
<1>7. m.ciphertexts[k].encrypted_share \in Scalar
  BY <1>3, <1>5, <1>6
<1> QED
  BY <1>3, <1>4, <1>5, <1>7, RingTypes DEF Decrypt

LEMMA MainAcceptsOneKey ==
  ASSUME KeyInv, session = "dkg", \A i \in Node : status[i] = "ok", MainAccepts
  PROVE  \E C \in [Node -> Polynomials(T)] : \A i \in Node : output[i] = KeyFrom(C, i)
<1>1. 1 \in Node /\ session \in Sessions
  BY NodeScalar, DkgAssumption DEF Node, KeyInv, DealtInv
<1>2. PICK D \in [Node -> Polynomials(T)] : DealtBy(D)
  BY DealerPolynomials
<1>3. ASSUME NEW i \in Node
      PROVE  /\ DOMAIN received[i] = Node \ {i} /\ dealing[i] = Kept(i, D[i])
             /\ output[i] = RoundOne(i, dealing[i], received[i])
             /\ \A j \in Node \ {i} :
                  /\ i \in DOMAIN received[i][j].ciphertexts
                  /\ \E verdict : received[i][j] \in Broadcasts(j, RoundZero(j, session, D[j], verdict))
  <2>1. /\ DOMAIN received[i] = Node \ {i} /\ RoundOneErrors(i, session, dealing[i], received[i]) = {}
        /\ output[i] = Complete(i, session, dealing[i], received[i], existing[i])
    BY DEF KeyInv, Inv, CompletedInv, OutcomeInv
  <2>2. output[i] = RoundOne(i, dealing[i], received[i])
    BY <2>1 DEF Complete
  <2>3. \A j \in Node \ {i} : i \in DOMAIN received[i][j].ciphertexts
    BY <2>1, NoErrors
  <2>4. /\ dealing[i] = Kept(i, D[i])
        /\ \A j \in Node \ {i} :
             \E verdict : received[i][j] \in Broadcasts(j, RoundZero(j, session, D[j], verdict))
    BY <1>2, <2>1, ReceivedDealing
  <2> QED
    BY <2>1, <2>2, <2>3, <2>4
<1> DEFINE M(i) == Commitments(i, dealing[i].vss_commitment, received[i])
           V(i) == DealtShares(i, "dkg", dealing[i].share, received[i])
<1>4. \A i \in Node : output[i] = [public_key |-> KeyOf(M(i)), public_key_shares |-> SharesOfKey(M(i)),
                                   secret_share |-> Total(V(i))]
  BY <1>3, Zenon DEF RoundOne
<1>5. ASSUME NEW j \in Node
      PROVE  \E d \in Polynomials(T) : M(1)[j] = Commit(d)
  <2>1. DOMAIN received[1] = Node \ {1} /\ j \in (DOMAIN received[1]) \cup {1}
    BY <1>1, <1>3
  <2>2. CASE j = 1
    <3>1. M(1)[j] = dealing[1].vss_commitment
      BY <2>1, <2>2 DEF Commitments
    <3>2. dealing[1].vss_commitment = Commit(D[1]) /\ D[1] \in Polynomials(T)
      <4>1. dealing[1] = Kept(1, D[1]) /\ D[1] \in Polynomials(T)
        BY <1>1, <1>3
      <4> QED
        BY <4>1 DEF Kept
    <3> QED
      BY <3>1, <3>2
  <2>3. CASE j # 1
    <3>1. M(1)[j] = received[1][j].vss_commitment
      BY <2>1, <2>3 DEF Commitments
    <3>2. PICK verdict : received[1][j] \in Broadcasts(j, RoundZero(j, session, D[j], verdict))
      BY <1>1, <1>3, <2>3
    <3>3. D[j] \in Polynomials(T)
      OBVIOUS
    <3> QED
      BY <1>1, <3>1, <3>2, <3>3, SomeCommitment
  <2> QED
    BY <2>2, <2>3
<1>6. PICK C \in [Node -> Polynomials(T)] : \A j \in Node : M(1)[j] = Commit(C[j])
  <2> DEFINE Is(j, d) == M(1)[j] = Commit(d)
             C == [j \in Node |-> CHOOSE d \in Polynomials(T) : Is(j, d)]
  <2>1. \A j \in Node : \E d \in Polynomials(T) : Is(j, d)
    BY <1>5
  <2>2. C \in [Node -> Polynomials(T)] /\ \A j \in Node : Is(j, C[j])
    <3> HIDE DEF Is
    <3> QED
      BY <2>1
  <2> HIDE DEF C
  <2> QED
    BY <2>2
<1>7. M(1) = [j \in Node |-> Commit(C[j])]
  <2>1. \E f : M(1) = [j \in Node |-> f[j]]
    <3>1. (DOMAIN received[1]) \cup {1} = Node
      BY <1>1, <1>3
    <3>2. M(1) = [j \in Node |-> IF j = 1 THEN dealing[1].vss_commitment ELSE received[1][j].vss_commitment]
      BY <3>1 DEF Commitments
    <3> QED
      BY <3>2
  <2> HIDE DEF M
  <2> QED
    BY <1>6, <2>1
<1>8. /\ KeyOf(M(1)) = Exp(JointSecret(Node, C))
      /\ SharesOfKey(M(1)) = [k \in Node |-> Exp(JointShare(Node, C, k))]
      /\ \A k \in Node : JointShare(Node, C, k) \in Scalar
  BY <1>7, JointCommitments
<1>9. ASSUME NEW i \in Node
      PROVE  Total(V(i)) \in Scalar
  <2>1. ASSUME NEW j \in Node \ {i}
        PROVE  Decrypt(i, "dkg", received[i][j]) \in Scalar
    <3>1. PICK verdict : received[i][j] \in Broadcasts(j, RoundZero(j, session, D[j], verdict))
      BY <1>3
    <3>2. D[j] \in Polynomials(T) /\ i \in DOMAIN received[i][j].ciphertexts
      BY <1>3
    <3> QED
      BY <1>1, <3>1, <3>2, DecryptType
  <2>2. dealing[i].share \in Scalar
    <3>1. dealing[i].share = Evaluate(D[i], i) /\ D[i] \in Seq(Scalar) /\ i \in Scalar
      <4>1. dealing[i] = Kept(i, D[i]) /\ D[i] \in Polynomials(T)
        BY <1>3
      <4> QED
        BY <4>1, NodeScalar DEF Kept, Polynomials
    <3> QED
      BY <3>1, EvaluateType
  <2>3. (DOMAIN received[i]) \cup {i} = Node
    BY <1>3
  <2>4. V(i) \in [Node -> Scalar]
    BY <2>1, <2>2, <2>3 DEF DealtShares
  <2> HIDE DEF V
  <2> QED
    BY <2>4, NodeScalar, TotalType
<1> HIDE DEF M, V
<1>10. ASSUME NEW i \in Node
       PROVE  output[i] = KeyFrom(C, i)
  <2>1. output[1].public_key = Exp(JointSecret(Node, C))
          /\ output[1].public_key_shares = [k \in Node |-> Exp(JointShare(Node, C, k))]
    <3>1. output[1] = [public_key |-> KeyOf(M(1)), public_key_shares |-> SharesOfKey(M(1)),
                       secret_share |-> Total(V(1))]
      BY <1>1, <1>4
    <3> QED
      BY <1>8, <3>1
  <2>2. /\ output[i].public_key = output[1].public_key
        /\ output[i].public_key_shares = output[1].public_key_shares
        /\ output[i].public_key_shares[i] = Exp(output[i].secret_share)
    BY <1>1 DEF MainAccepts
  <2>3. output[i].secret_share \in Scalar
    <3>1. output[i] = [public_key |-> KeyOf(M(i)), public_key_shares |-> SharesOfKey(M(i)),
                       secret_share |-> Total(V(i))]
      BY <1>4
    <3> QED
      BY <1>9, <3>1
  <2>4. Exp(JointShare(Node, C, i)) = Exp(output[i].secret_share)
    BY <2>1, <2>2
  <2>5. output[i].secret_share = JointShare(Node, C, i)
    BY <1>8, <2>3, <2>4, ExpInjective
  <2>6. output[i] = [public_key |-> output[i].public_key, public_key_shares |-> output[i].public_key_shares,
                     secret_share |-> output[i].secret_share]
    <3>1. \E a, b, c : output[i] = [public_key |-> a, public_key_shares |-> b, secret_share |-> c]
      BY <1>4
    <3> QED
      BY <3>1
  <2> QED
    BY <2>1, <2>2, <2>5, <2>6 DEF KeyFrom
<1> QED
  BY <1>10

-----------------------------------------------------------------------------
(* The invariant is kept.                                                   *)

LEMMA SameSession ==
  ASSUME UNCHANGED <<session, fault>>
  PROVE  /\ \A i : FaultNow(i)' = FaultNow(i) /\ Dealable(i)' = Dealable(i)
         /\ \A i, m : Broadcasts(i, m)' = Broadcasts(i, m)
         /\ \A i, c, verdict : RoundZero(i, session, c, verdict)' = RoundZero(i, session, c, verdict)
<1>1. \A i : FaultNow(i)' = FaultNow(i)
  BY DEF FaultNow, Faulty
<1>2. \A i : Dealable(i)' = Dealable(i)
  BY <1>1 DEF Dealable
<1>3. \A i, m : Broadcasts(i, m)' = Broadcasts(i, m)
  BY <1>1, Zenon DEF Broadcasts
<1> QED
  BY <1>1, <1>2, <1>3 DEF RoundZero

LEMMA SameBroadcasts ==
  ASSUME UNCHANGED <<session, fault>>, NEW i, NEW c, NEW verdict
  PROVE  Broadcasts(i, RoundZero(i, session, c, verdict))' = Broadcasts(i, RoundZero(i, session, c, verdict))
<1>1. PICK z : z = RoundZero(i, session, c, verdict)
  OBVIOUS
<1>2. RoundZero(i, session, c, verdict)' = z
  BY <1>1, SameSession
<1>3. Broadcasts(i, z)' = Broadcasts(i, z)
  BY SameSession
<1> QED
  BY <1>1, <1>2, <1>3

(* Nothing is dealt, and no node's task comes back to before its dealing.   *)
LEMMA NothingDealt ==
  ASSUME KeyInv, UNCHANGED <<session, fault, dealing, channel, existing>>,
         \A i \in Node : status'[i] \in {"dealt", "ok", "failed"} => status[i] \in {"dealt", "ok", "failed"}
  PROVE  DealtInv' /\ ExistingKey'
<1>1. ASSUME NEW i \in Node, NEW k \in DOMAIN channel, channel[k].from = i
      PROVE  \E c \in Dealable(i)' : Sent(i, k, c)'
  <2>1. PICK c \in Dealable(i) : Sent(i, k, c)
    BY <1>1 DEF KeyInv, DealtInv
  <2>2. Sent(i, k, c)' /\ Dealable(i)' = Dealable(i)
    <3>1. \A verdict : Broadcasts(i, RoundZero(i, session, c, verdict))' = Broadcasts(i, RoundZero(i, session, c, verdict))
      BY SameBroadcasts
    <3> QED
      BY <2>1, <3>1, SameSession DEF Sent
  <2> QED
    BY <2>1, <2>2
<1>2. session' \in Sessions
  BY DEF KeyInv, DealtInv
<1>3. \A i \in Node : status'[i] \in {"dealt", "ok", "failed"} => \E k \in DOMAIN channel' : channel'[k].from = i
  BY DEF KeyInv, DealtInv
<1>4. DealtInv'
  BY <1>1, <1>2, <1>3 DEF DealtInv
<1> QED
  BY <1>4 DEF KeyInv, ExistingKey

LEMMA InitKey == Init => KeyInv
<1> SUFFICES ASSUME Init PROVE KeyInv
  OBVIOUS
<1>1. DOMAIN channel = {} /\ session = "dkg" /\ \A i \in Node : status[i] = "start"
  BY DEF Init
<1> QED
  BY <1>1, InitInv DEF KeyInv, DealtInv, OutcomeInv, ExistingKey, Sessions

LEMMA RegisterKey ==
  ASSUME KeyInv, NEW i \in Node, Register(i)
  PROVE  KeyInv'
<1>1. /\ status[i] = "start" /\ status'[i] \notin {"dealt", "ok", "failed"}
      /\ \A k \in Node \ {i} : status'[k] = status[k]
      /\ UNCHANGED <<session, fault, dealing, channel, received, existing>>
  BY DEF Register, KeyInv, Inv, Shape
<1>2. DealtInv' /\ ExistingKey'
  BY <1>1, NothingDealt
<1>3. OutcomeInv'
  BY <1>1 DEF KeyInv, OutcomeInv
<1> QED
  BY <1>2, <1>3, RegisterInv DEF KeyInv

LEMMA DealKey ==
  ASSUME KeyInv, NEW i \in Node, Deal(i)
  PROVE  KeyInv'
<1>1. /\ status[i] = "registered" /\ status' = [status EXCEPT ![i] = "dealt"]
      /\ UNCHANGED <<session, fault, received, existing>>
  BY DEF Deal
<1>2. PICK c \in Dealable(i), verdict \in ProofVerdicts :
        \E m \in Broadcasts(i, RoundZero(i, session, c, verdict)) :
          /\ dealing' = [dealing EXCEPT ![i] = Kept(i, c)]
          /\ channel' = Append(channel, m)
  BY Zenon DEF Deal, Dealable, Kept
<1>3. PICK m \in Broadcasts(i, RoundZero(i, session, c, verdict)) :
         /\ dealing' = [dealing EXCEPT ![i] = Kept(i, c)]
         /\ channel' = Append(channel, m)
  BY <1>2
<1>4. m.from = i
  BY <1>3, BroadcastFrom
<1>5. PICK S : channel \in Seq(S)
  BY DEF KeyInv, Inv, Shape
<1>6. /\ Len(channel) \in Nat /\ DOMAIN channel = 1..Len(channel)
      /\ DOMAIN channel' = 1..(Len(channel) + 1)
      /\ \A k \in DOMAIN channel : channel'[k] = channel[k]
      /\ channel'[Len(channel) + 1] = m
  <2>1. channel \in Seq(S \cup {m}) /\ m \in S \cup {m}
    BY <1>5
  <2> QED
    BY <1>3, <2>1
<1>7. /\ status'[i] = "dealt" /\ dealing'[i] = Kept(i, c)
      /\ \A k \in Node \ {i} : status'[k] = status[k] /\ dealing'[k] = dealing[k]
  BY <1>1, <1>3 DEF KeyInv, Inv, Shape
<1> DEFINE last == Len(channel) + 1
<1>7a. PICK n : n = last
  OBVIOUS
<1>8. Sent(i, n, c)' /\ Dealable(i)' = Dealable(i)
  <2>1. Broadcasts(i, RoundZero(i, session, c, verdict))' = Broadcasts(i, RoundZero(i, session, c, verdict))
    BY <1>1, SameBroadcasts
  <2>2. channel'[n] \in Broadcasts(i, RoundZero(i, session, c, verdict))'
    BY <1>3, <1>6, <1>7a, <2>1
  <2>3. Sent(i, n, c)'
    BY <1>2, <1>7, <2>2 DEF Sent
  <2> QED
    BY <1>1, <2>3, SameSession
<1>9. ASSUME NEW j \in Node, NEW k \in DOMAIN channel', channel'[k].from = j
      PROVE  \E d \in Dealable(j)' : Sent(j, k, d)'
  <2>1. CASE k \in DOMAIN channel
    <3>1. channel'[k] = channel[k] /\ channel[k].from = j
      BY <1>6, <1>9, <2>1
    <3>2. PICK d \in Dealable(j) : Sent(j, k, d)
      BY <2>1, <3>1 DEF KeyInv, DealtInv
    <3>3. j \in Node \ {i}
      BY <1>1, <2>1, <3>1 DEF KeyInv, Inv, SessionInv
    <3>4. \A v : Broadcasts(j, RoundZero(j, session, d, v))' = Broadcasts(j, RoundZero(j, session, d, v))
      BY <1>1, SameBroadcasts
    <3>5. Sent(j, k, d)' /\ Dealable(j)' = Dealable(j)
      BY <1>1, <1>7, <3>1, <3>2, <3>3, <3>4, SameSession DEF Sent
    <3> QED
      BY <3>2, <3>5
  <2>2. CASE k = n
    <3>1. channel'[k] = m /\ j = i
      BY <1>4, <1>6, <1>7a, <1>9, <2>2
    <3> QED
      BY <1>8, <2>2, <3>1
  <2> QED
    BY <1>6, <1>7a, <2>1, <2>2
<1>10. ASSUME NEW j \in Node, status'[j] \in {"dealt", "ok", "failed"}
       PROVE  \E k \in DOMAIN channel' : channel'[k].from = j
  <2>1. CASE j = i
    <3>1. Len(channel) + 1 \in DOMAIN channel'
      BY <1>6
    <3> QED
      BY <1>4, <1>6, <2>1, <3>1
  <2>2. CASE j # i
    <3>1. status[j] \in {"dealt", "ok", "failed"}
      BY <1>7, <1>10, <2>2
    <3>2. PICK k \in DOMAIN channel : channel[k].from = j
      BY <3>1 DEF KeyInv, DealtInv
    <3>3. k \in DOMAIN channel' /\ channel'[k] = channel[k]
      BY <1>6
    <3> QED
      BY <3>2, <3>3
  <2> QED
    BY <2>1, <2>2
<1>11. DealtInv'
  BY <1>1, <1>9, <1>10 DEF DealtInv, KeyInv
<1>12. OutcomeInv'
  BY <1>1, <1>7 DEF OutcomeInv, KeyInv
<1>13. ExistingKey'
  BY <1>1 DEF ExistingKey, KeyInv
<1> QED
  BY <1>11, <1>12, <1>13, DealInv DEF KeyInv

LEMMA ReceiveKey ==
  ASSUME KeyInv, NEW i \in Node, Receive(i)
  PROVE  KeyInv'
<1>1. /\ status[i] = "dealt" /\ UNCHANGED <<session, fault, status, dealing, channel, existing>>
      /\ \A k \in Node \ {i} : received'[k] = received[k]
  BY DEF Receive, Collecting, KeyInv, Inv, Shape
<1>2. DealtInv' /\ ExistingKey'
  BY <1>1, NothingDealt
<1>3. OutcomeInv'
  BY <1>1 DEF KeyInv, OutcomeInv
<1> QED
  BY <1>2, <1>3, ReceiveInv DEF KeyInv

LEMMA FinishKey ==
  ASSUME KeyInv, NEW i \in Node, Finish(i)
  PROVE  KeyInv'
<1> DEFINE errors == RoundOneErrors(i, session, dealing[i], received[i])
<1>1. /\ status[i] = "dealt" /\ ~(Cardinality(DOMAIN received[i]) < N - 1)
      /\ UNCHANGED <<session, fault, dealing, channel, received, existing>>
  BY DEF Finish, Collecting
<1>2. \/ errors # {} /\ status' = [status EXCEPT ![i] = "failed"]
      \/ errors = {} /\ status' = [status EXCEPT ![i] = "ok"]
  <2>1. \/ \E e \in errors : status' = [status EXCEPT ![i] = "failed"]
        \/ errors = {} /\ status' = [status EXCEPT ![i] = "ok"]
    BY Zenon DEF Finish
  <2> HIDE DEF errors
  <2> QED
    BY <2>1
<1>3. DOMAIN received[i] = Node \ {i}
  BY <1>1, AllOthers DEF KeyInv, Inv, ReceivedInv
<1> HIDE DEF errors
<1>4. /\ \A k \in Node \ {i} : status'[k] = status[k]
      /\ \/ status'[i] = "ok" /\ errors = {}
         \/ status'[i] = "failed" /\ errors # {}
  BY <1>2 DEF KeyInv, Inv, Shape
<1>5. DealtInv' /\ ExistingKey'
  BY <1>1, <1>4, NothingDealt
<1>6. OutcomeInv'
  <2> SUFFICES ASSUME NEW k \in Node
               PROVE  /\ status'[k] = "ok" => RoundOneErrors(k, session, dealing[k], received[k]) = {}
                      /\ status'[k] = "failed" =>
                           /\ DOMAIN received[k] = Node \ {k}
                           /\ RoundOneErrors(k, session, dealing[k], received[k]) # {}
    BY <1>1 DEF OutcomeInv
  <2>1. CASE k = i
    BY <1>3, <1>4, <2>1 DEF errors
  <2>2. CASE k # i
    BY <1>4, <2>2 DEF KeyInv, OutcomeInv
  <2> QED
    BY <2>1, <2>2
<1> QED
  BY <1>5, <1>6, FinishInv DEF KeyInv

LEMMA StartRefreshKey ==
  ASSUME KeyInv, StartRefresh
  PROVE  KeyInv'
<1>1. /\ session = "dkg" /\ MainAccepts /\ session' = "refresh" /\ existing' = output
      /\ \A i \in Node : status[i] = "ok" /\ status'[i] = "start"
      /\ DOMAIN channel' = {}
  BY DEF StartRefresh
<1>2. ExistingKey'
  <2>1. PICK C \in [Node -> Polynomials(T)] : \A i \in Node : output[i] = KeyFrom(C, i)
    BY <1>1, MainAcceptsOneKey
  <2> QED
    BY <1>1, <2>1 DEF ExistingKey
<1>3. DealtInv' /\ OutcomeInv'
  BY <1>1 DEF DealtInv, OutcomeInv, Sessions
<1> QED
  BY <1>2, <1>3, StartRefreshInv DEF KeyInv

LEMMA NextKey == KeyInv /\ [Next]_vars => KeyInv'
<1> SUFFICES ASSUME KeyInv, [Next]_vars PROVE KeyInv'
  OBVIOUS
<1>1. CASE StartRefresh
  BY <1>1, StartRefreshKey
<1>2. ASSUME NEW i \in Node, Step(i) PROVE KeyInv'
  <2>1. CASE Register(i)
    BY <2>1, RegisterKey
  <2>2. CASE Deal(i)
    BY <2>2, DealKey
  <2>3. CASE Receive(i)
    BY <2>3, ReceiveKey
  <2>4. CASE Finish(i)
    BY <2>4, FinishKey
  <2> QED
    BY <1>2, <2>1, <2>2, <2>3, <2>4 DEF Step
<1>3. CASE UNCHANGED vars
  <2>1. Inv'
    BY <1>3, NextInv DEF KeyInv
  <2>2. DealtInv' /\ ExistingKey'
    BY <1>3, NothingDealt DEF vars
  <2>3. OutcomeInv'
    BY <1>3 DEF vars, KeyInv, OutcomeInv
  <2> QED
    BY <2>1, <2>2, <2>3 DEF KeyInv
<1> QED
  BY <1>1, <1>2, <1>3 DEF Next

(* An honest node that completes from dealings whose proofs pass holds the secret
   of its public key share, in the view of every honest node that completes
   (main.rs:149-157 and 298-305).                                           *)
THEOREM SharesOpen == Spec => []SharesOpenKeyShares
<1> QED
  BY InitKey, NextKey, OpensFromInvariant, PTL DEF Spec

(* Any T shares of honest nodes that complete from dealings whose proofs pass
   interpolate to the secret of the public key, and after a refresh to that of
   the key from before it (main.rs:101-147 and 243-289), whatever the
   dealers draw and the faulty one tampers with.                            *)
THEOREM QuorumHoldsKey == Spec => []QuorumReconstructs
<1> QED
  BY InitKey, NextKey, ReconstructsFromInvariant, PTL DEF Spec

(* If no dealing leaves a node out, honest nodes all complete or all fail
   (protocol.rs:731-733): what round 1 checks, everyone can.                *)
THEOREM OneOutcome == Spec => []CompletionUnanimous
<1> QED
  BY InitKey, NextKey, UnanimousFromInvariant, PTL DEF Spec

-----------------------------------------------------------------------------
(* Types. Only what round 1 sums needs the invariant: a commitment is one to a
   polynomial, and a ciphertext is there to decrypt.                        *)

Cipher == [r_commitment : Group, encrypted_share : Scalar]
Verdict == {"valid", "invalid", "none"}

LEMMA MessageOf ==
  ASSUME NEW s \in Sessions \cup {"other"}, NEW j \in Node, NEW V \in Seq(Group),
         NEW D \in SUBSET Node, NEW X \in [D -> Cipher], NEW v \in Verdict
  PROVE  [session |-> s, from |-> j, random_msg |-> j, vss_commitment |-> V,
          ciphertexts |-> X, evrf |-> v] \in Message
<1>1. X \in UNION {[E -> Cipher] : E \in SUBSET Node}
  OBVIOUS
<1> QED
  BY <1>1 DEF Message, Cipher, Verdict

LEMMA BroadcastType ==
  ASSUME NEW j \in Node, session \in Sessions, NEW c \in Polynomials(T), NEW v \in Verdict,
         NEW m \in Broadcasts(j, RoundZero(j, session, c, v))
  PROVE  m \in Message
<1> DEFINE Made(s, V, X, w) == [session |-> s, from |-> j, random_msg |-> j, vss_commitment |-> V,
                                ciphertexts |-> X, evrf |-> w]
<1>1. PICK V, X : /\ V = Commit(c)
                  /\ X = [k \in Node \ {j} |->
                            [r_commitment |-> Exp(Pad(j, k, session, j)),
                             encrypted_share |-> Plus(Pad(j, k, session, j), Evaluate(c, k))]]
  OBVIOUS
<1>2. c \in Seq(Scalar) /\ Len(c) = T /\ T \in Nat \ {0} /\ Group = Scalar
  BY NodeScalar DEF Polynomials, Group, Scalar
<1>3. V \in Seq(Group) /\ Len(V) = T
  BY <1>1, <1>2, CommitType
<1>4. X \in [Node \ {j} -> Cipher]
  <2>1. ASSUME NEW k \in Node \ {j}
        PROVE  [r_commitment |-> Exp(Pad(j, k, session, j)),
                encrypted_share |-> Plus(Pad(j, k, session, j), Evaluate(c, k))] \in Cipher
    <3>1. PICK p, e : p = Pad(j, k, session, j) /\ e = Evaluate(c, k)
      OBVIOUS
    <3>2. p \in Scalar /\ e \in Scalar
      BY <3>1, Encryption
    <3>3. Exp(p) \in Scalar /\ Plus(p, e) \in Scalar
      BY <3>2, RingTypes
    <3> QED
      BY <1>2, <3>1, <3>3 DEF Cipher
  <2> QED
    BY <1>1, <2>1
<1>5. RoundZero(j, session, c, v) = Made(session, V, X, v)
  BY <1>1 DEF RoundZero
<1>6. PICK z : z = Made(session, V, X, v)
  OBVIOUS
<1>7. m \in Broadcasts(j, z)
  BY <1>5, <1>6
<1>8. \A D \in SUBSET Node : \A Y \in [D -> Cipher], W \in Seq(Group), w \in Verdict,
                                s \in Sessions \cup {"other"} : Made(s, W, Y, w) \in Message
  BY MessageOf
<1>9. z \in Message /\ Node \ {j} \in SUBSET Node
  BY <1>3, <1>4, <1>6, <1>8
<1>10. ASSUME NEW k \in Node \ {j}, NEW x \in Cipher
       PROVE  [X EXCEPT ![k] = x] \in [Node \ {j} -> Cipher]
  BY <1>4
<1>11. ASSUME NEW k \in Node \ {j}
       PROVE  /\ X[k].r_commitment \in Scalar /\ X[k].encrypted_share \in Scalar
              /\ X[k] = [r_commitment |-> X[k].r_commitment, encrypted_share |-> X[k].encrypted_share]
              /\ Plus(X[k].r_commitment, Gen) \in Scalar /\ Plus(X[k].encrypted_share, 1) \in Scalar
  <2>1. X[k] \in Cipher
    BY <1>4
  <2>2. X[k].r_commitment \in Scalar /\ X[k].encrypted_share \in Scalar
    BY <1>2, <2>1 DEF Cipher
  <2>3. X[k] = [r_commitment |-> X[k].r_commitment, encrypted_share |-> X[k].encrypted_share]
    BY <2>1 DEF Cipher
  <2> QED
    BY <2>2, <2>3, RingTypes, PTypes
<1>12. CASE FaultNow(j) = "Share"
  <2>1. PICK k \in Node \ {j} : m = [z EXCEPT !.ciphertexts[k].encrypted_share = Plus(@, 1)]
    BY <1>7, <1>12 DEF Broadcasts
  <2>2. PICK x : x = [X[k] EXCEPT !.encrypted_share = Plus(@, 1)]
    OBVIOUS
  <2>3. x \in Cipher
    <3>1. PICK a, b : a = X[k].r_commitment /\ b = X[k].encrypted_share
      OBVIOUS
    <3>2. X[k] = [r_commitment |-> a, encrypted_share |-> b]
      BY <1>11, <3>1
    <3>3. x = [r_commitment |-> a, encrypted_share |-> Plus(b, 1)]
      BY <2>2, <3>2
    <3>4. /\ a \in Group /\ b \in Group /\ b \in Scalar
          /\ Plus(a, Gen) \in Group /\ Plus(b, 1) \in Scalar
      BY <1>2, <1>11, <3>1
    <3> QED
      BY <3>3, <3>4 DEF Cipher
  <2>4. m = Made(session, V, [X EXCEPT ![k] = x], v)
    BY <1>6, <2>1, <2>2
  <2> QED
    BY <1>3, <1>8, <1>9, <1>10, <2>3, <2>4
<1>13. CASE FaultNow(j) = "PadCommitment"
  <2>1. PICK k \in Node \ {j} : m = [z EXCEPT !.ciphertexts[k].r_commitment = Plus(@, Gen)]
    BY <1>7, <1>13 DEF Broadcasts
  <2>2. PICK x : x = [X[k] EXCEPT !.r_commitment = Plus(@, Gen)]
    OBVIOUS
  <2>3. x \in Cipher
    <3>1. PICK a, b : a = X[k].r_commitment /\ b = X[k].encrypted_share
      OBVIOUS
    <3>2. X[k] = [r_commitment |-> a, encrypted_share |-> b]
      BY <1>11, <3>1
    <3>3. x = [r_commitment |-> Plus(a, Gen), encrypted_share |-> b]
      BY <2>2, <3>2
    <3>4. /\ a \in Group /\ b \in Group /\ b \in Scalar
          /\ Plus(a, Gen) \in Group /\ Plus(b, 1) \in Scalar
      BY <1>2, <1>11, <3>1
    <3> QED
      BY <3>3, <3>4 DEF Cipher
  <2>4. m = Made(session, V, [X EXCEPT ![k] = x], v)
    BY <1>6, <2>1, <2>2
  <2> QED
    BY <1>3, <1>8, <1>9, <1>10, <2>3, <2>4
<1>14. CASE FaultNow(j) = "Pad"
  <2>1. PICK k \in Node \ {j} :
          m = [z EXCEPT !.evrf = "invalid",
                        !.ciphertexts[k] = [r_commitment |-> Plus(@.r_commitment, Gen),
                                            encrypted_share |-> Plus(@.encrypted_share, 1)]]
    BY <1>7, <1>14 DEF Broadcasts
  <2>2. PICK x : x = [r_commitment |-> Plus(X[k].r_commitment, Gen),
                      encrypted_share |-> Plus(X[k].encrypted_share, 1)]
    OBVIOUS
  <2>3. x \in Cipher
    BY <1>2, <1>11, <2>2 DEF Cipher
  <2>4. m = Made(session, V, [X EXCEPT ![k] = x], "invalid")
    BY <1>6, <2>1, <2>2
  <2> QED
    BY <1>3, <1>8, <1>9, <1>10, <2>3, <2>4 DEF Verdict
<1>15. CASE FaultNow(j) = "Vss"
  <2>1. m = [z EXCEPT !.vss_commitment[1] = Plus(@, Gen)]
    BY <1>7, <1>15 DEF Broadcasts
  <2>2. PICK W : W = [V EXCEPT ![1] = Plus(@, Gen)]
    OBVIOUS
  <2>3. 1 \in 1..Len(V) /\ V[1] \in Scalar
    BY <1>2, <1>3
  <2>4. Plus(V[1], Gen) \in Group
    BY <1>2, <2>3, RingTypes, PTypes
  <2>5. W \in Seq(Group)
    BY <1>3, <2>2, <2>3, <2>4
  <2>6. m = Made(session, W, X, v)
    BY <1>6, <2>1, <2>2
  <2> QED
    BY <1>4, <1>8, <1>9, <2>5, <2>6
<1>16. CASE FaultNow(j) = "Session"
  <2>1. m = [z EXCEPT !.session = "other"]
    BY <1>7, <1>16 DEF Broadcasts
  <2>2. m = Made("other", V, X, v)
    BY <1>6, <2>1
  <2> QED
    BY <1>3, <1>4, <1>8, <1>9, <2>2
<1>17. CASE FaultNow(j) = "Missing"
  <2>1. PICK k \in Node \ {j} : m = [z EXCEPT !.ciphertexts = Restrict(@, (Node \ {j}) \ {k})]
    BY <1>7, <1>17 DEF Broadcasts
  <2>2. PICK E, Y : E = (Node \ {j}) \ {k} /\ Y = Restrict(X, E)
    OBVIOUS
  <2>3. E \in SUBSET Node /\ Y \in [E -> Cipher]
    BY <1>4, <2>2 DEF Restrict
  <2>4. m = Made(session, V, Y, v)
    BY <1>6, <2>1, <2>2
  <2> QED
    BY <1>3, <1>8, <2>3, <2>4
<1>18. CASE FaultNow(j) \notin {"Share", "PadCommitment", "Pad", "Vss", "Session", "Missing"}
  <2>1. m = z
    BY <1>7, <1>18 DEF Broadcasts
  <2> QED
    BY <1>9, <2>1
<1> QED
  BY <1>12, <1>13, <1>14, <1>15, <1>16, <1>17, <1>18

(* The sums of round 1, when it returns no error.                           *)
LEMMA CompleteType ==
  ASSUME KeyInv, NEW i \in Node, status[i] = "dealt", DOMAIN received[i] = Node \ {i},
         RoundOneErrors(i, session, dealing[i], received[i]) = {}, existing[i] \in Output
  PROVE  Complete(i, session, dealing[i], received[i], existing[i]) \in Output
<1>0. session \in Sessions /\ Group = Scalar
  BY DEF KeyInv, DealtInv, Group, Scalar
<1>1. PICK C \in [Node -> Polynomials(T)] : DealtBy(C)
  BY DealerPolynomials
<1>2. /\ dealing[i] = Kept(i, C[i])
      /\ \A j \in Node \ {i} :
           \E verdict : received[i][j] \in Broadcasts(j, RoundZero(j, session, C[j], verdict))
  BY <1>1, ReceivedDealing
<1>3. \A j \in Node \ {i} : i \in DOMAIN received[i][j].ciphertexts
  BY NoErrors
<1> DEFINE M == Commitments(i, dealing[i].vss_commitment, received[i])
           V == DealtShares(i, session, dealing[i].share, received[i])
<1>4. ASSUME NEW j \in Node
      PROVE  \E d \in Polynomials(T) : M[j] = Commit(d)
  <2>1. CASE j = i
    <3>1. M[j] = Commit(C[i])
      BY <1>2, <2>1 DEF Commitments, Kept
    <3> QED
      BY <3>1
  <2>2. CASE j # i
    <3>1. M[j] = received[i][j].vss_commitment
      BY <2>2 DEF Commitments
    <3>2. PICK verdict : received[i][j] \in Broadcasts(j, RoundZero(j, session, C[j], verdict))
      BY <1>2, <2>2
    <3>3. \E d \in Polynomials(T) : received[i][j].vss_commitment = Commit(d)
      BY <1>0, <3>2, SomeCommitment
    <3> QED
      BY <3>1, <3>3
  <2> QED
    BY <2>1, <2>2
<1>5. DOMAIN M = Node /\ M = [j \in Node |-> M[j]]
  BY DEF Commitments
<1> HIDE DEF M
<1> DEFINE D == [j \in Node |-> CHOOSE d \in Polynomials(T) : M[j] = Commit(d)]
<1>6. D \in [Node -> Polynomials(T)] /\ \A j \in Node : M[j] = Commit(D[j])
  BY <1>4
<1> HIDE DEF D
<1>7. M = [j \in Node |-> Commit(D[j])]
  BY <1>5, <1>6
<1>8. /\ KeyOf(M) = Exp(JointSecret(Node, D))
      /\ SharesOfKey(M) = [k \in Node |-> Exp(JointShare(Node, D, k))]
      /\ JointSecret(Node, D) \in Scalar /\ \A k \in Node : JointShare(Node, D, k) \in Scalar
  BY <1>6, <1>7, JointCommitments
<1>9. KeyOf(M) \in Group /\ SharesOfKey(M) \in [Node -> Group]
  BY <1>0, <1>8, RingTypes
<1>10. ASSUME NEW j \in Node
       PROVE  V[j] \in Scalar
  <2>1. CASE j = i
    <3>1. V[j] = Evaluate(C[i], i) /\ C[i] \in Seq(Scalar) /\ i \in Scalar
      BY <1>2, <2>1, NodeScalar DEF DealtShares, Kept, Polynomials
    <3> QED
      BY <3>1, EvaluateType
  <2>2. CASE j # i
    <3>1. V[j] = Decrypt(i, session, received[i][j])
      BY <2>2 DEF DealtShares
    <3>2. PICK verdict : received[i][j] \in Broadcasts(j, RoundZero(j, session, C[j], verdict))
      BY <1>2, <2>2
    <3>3. Decrypt(i, session, received[i][j]) \in Scalar
      BY <1>0, <1>3, <2>2, <3>2, DecryptType
    <3> QED
      BY <3>1, <3>3
  <2> QED
    BY <2>1, <2>2
<1>11. V \in [Node -> Scalar]
  <2>1. DOMAIN V = Node /\ V = [j \in Node |-> V[j]]
    BY DEF DealtShares
  <2> HIDE DEF V
  <2> QED
    BY <1>10, <2>1
<1> HIDE DEF V
<1>12. Total(V) \in Scalar
  BY <1>11, NodeScalar, TotalType
<1>13. CASE session = "dkg"
  <2>1. Complete(i, session, dealing[i], received[i], existing[i])
          = [public_key |-> KeyOf(M), public_key_shares |-> SharesOfKey(M), secret_share |-> Total(V)]
    BY <1>13, Zenon DEF Complete, RoundOne, M, V
  <2> QED
    BY <1>9, <1>12, <2>1 DEF Output
<1>14. CASE session = "refresh"
  <2> DEFINE pks == [k \in Node |-> Plus(existing[i].public_key_shares[k], SharesOfKey(M)[k])]
             sum == Plus(existing[i].secret_share, Total(V))
  <2>1. /\ existing[i].public_key \in Group /\ existing[i].public_key_shares \in [Node -> Group]
        /\ existing[i].secret_share \in Scalar
    BY DEF Output
  <2>2. pks \in [Node -> Group]
    BY <1>0, <1>9, <2>1, RingTypes
  <2>3. sum \in Scalar
    BY <1>12, <2>1, RingTypes
  <2>4. Complete(i, session, dealing[i], received[i], existing[i])
          = [public_key |-> existing[i].public_key, public_key_shares |-> pks, secret_share |-> sum]
    <3>1. session # "dkg"
      BY <1>14
    <3> QED
      BY <1>14, <3>1, Zenon DEF Complete, RoundOneRefresh, M, V
  <2> HIDE DEF pks, sum
  <2> QED
    BY <2>1, <2>2, <2>3, <2>4 DEF Output
<1> QED
  BY <1>0, <1>13, <1>14 DEF Sessions

(* An error names a node, or nobody.                                        *)
LEMMA ErrorType ==
  ASSUME NEW i \in Node, NEW s, NEW own, NEW R, DOMAIN R \subseteq Node, NEW e \in RoundOneErrors(i, s, own, R)
  PROVE  e.sender \in 0..N /\ e.recipient \in 0..N
<1>1. \A k \in Node : k \in 0..N
  BY NodeScalar DEF Node
<1>2. 0 \in 0..N
  BY NodeScalar
<1>3. e \in SessionErrors(R, s) => e.sender \in 0..N /\ e.recipient \in 0..N
  BY <1>1, <1>2 DEF SessionErrors
<1>4. e \in ZeroSecretErrors(i, own, R) => e.sender \in 0..N /\ e.recipient \in 0..N
  BY <1>1, <1>2 DEF ZeroSecretErrors
<1>5. e \in CiphertextErrors(i, R) => e.sender \in 0..N /\ e.recipient \in 0..N
  BY <1>1, <1>2 DEF CiphertextErrors
<1>6. e \in MissingErrors(i, R) => e.sender \in 0..N /\ e.recipient \in 0..N
  BY <1>1, <1>2 DEF MissingErrors
<1> QED
  BY <1>3, <1>4, <1>5, <1>6 DEF RoundOneErrors

LEMMA DealType ==
  ASSUME KeyInv, TypeOK, NEW i \in Node, Deal(i)
  PROVE  TypeOK'
<1>1. /\ status[i] = "registered" /\ status' = [status EXCEPT ![i] = "dealt"]
      /\ UNCHANGED <<session, fault, next, received, result, output, existing>>
  BY DEF Deal
<1>2. PICK c \in Dealable(i), verdict \in ProofVerdicts :
        \E m \in Broadcasts(i, RoundZero(i, session, c, verdict)) :
          /\ dealing' = [dealing EXCEPT ![i] = Kept(i, c)]
          /\ channel' = Append(channel, m)
  BY Zenon DEF Deal, Dealable, Kept
<1>3. PICK m \in Broadcasts(i, RoundZero(i, session, c, verdict)) :
         /\ dealing' = [dealing EXCEPT ![i] = Kept(i, c)]
         /\ channel' = Append(channel, m)
  BY <1>2
<1>4. session \in Sessions /\ verdict \in Verdict /\ Group = Scalar
  BY VerdictAssumption DEF TypeOK, ProofVerdicts, Verdict, Group, Scalar
<1>5. c \in Polynomials(T) /\ c \in Seq(Scalar)
  BY <1>4, DealableTypes
<1>6. m \in Message
  BY <1>4, <1>5, BroadcastType
<1>7. channel' \in Seq(Message) /\ Len(channel') = Len(channel) + 1 /\ Len(channel) \in Nat
  BY <1>3, <1>6 DEF TypeOK
<1>8. Kept(i, c).vss_commitment \in Seq(Group) /\ Kept(i, c).share \in Scalar
  <2>1. Commit(c) \in Seq(Group) /\ Evaluate(c, i) \in Scalar
    BY <1>4, <1>5, CommitType, EvaluateType, NodeScalar
  <2> QED
    BY <2>1 DEF Kept
<1>9. \A k \in Node : dealing'[k].vss_commitment \in Seq(Group) /\ dealing'[k].share \in Scalar
  <2>1. \A k \in Node : dealing'[k] = IF k = i THEN Kept(i, c) ELSE dealing[k]
    BY <1>3 DEF KeyInv, Inv, Shape
  <2> QED
    BY <1>8, <2>1 DEF TypeOK
<1>10. \A k \in Node : next'[k] \in 1..Len(channel') + 1
  BY <1>1, <1>7 DEF TypeOK
<1>11. status' \in [Node -> {"start", "refused", "registered", "dealt", "ok", "failed"}]
  BY <1>1 DEF TypeOK
<1> QED
  BY <1>1, <1>7, <1>9, <1>10, <1>11 DEF TypeOK

LEMMA ReceiveType ==
  ASSUME KeyInv, TypeOK, NEW i \in Node, Receive(i)
  PROVE  TypeOK'
<1> DEFINE m == channel[next[i]]
<1>1. /\ next[i] \in DOMAIN channel
      /\ received' = IF m.from = i THEN received
                     ELSE [received EXCEPT ![i] = Insert(@, m.from, m)]
      /\ next' = [next EXCEPT ![i] = @ + 1]
      /\ UNCHANGED <<session, fault, status, dealing, channel, result, output, existing>>
  BY DEF Receive
<1>2. channel \in Seq(Message) /\ DOMAIN channel = 1..Len(channel) /\ Len(channel) \in Nat
  BY DEF TypeOK
<1>3. m \in Message
  BY <1>1, <1>2
<1>4. m.from \in Node
  BY <1>3 DEF Message
<1>5. \A k \in Node : next'[k] \in 1..Len(channel') + 1
  <2>1. \A k \in Node : next'[k] = IF k = i THEN next[i] + 1 ELSE next[k]
    BY <1>1 DEF KeyInv, Inv, Shape
  <2> QED
    BY <1>1, <1>2, <2>1 DEF TypeOK
<1> HIDE DEF m
<1>6. \A k \in Node : /\ DOMAIN received'[k] \subseteq Node \ {k}
                      /\ \A j \in DOMAIN received'[k] : received'[k][j] \in Message
  <2>1. CASE m.from = i
    BY <1>1, <2>1 DEF TypeOK
  <2>2. CASE m.from # i
    <3>1. \A k \in Node : received'[k] = IF k = i THEN Insert(received[i], m.from, m) ELSE received[k]
      BY <1>1, <2>2 DEF KeyInv, Inv, Shape
    <3>2. /\ DOMAIN Insert(received[i], m.from, m) \subseteq Node \ {i}
          /\ \A j \in DOMAIN Insert(received[i], m.from, m) : Insert(received[i], m.from, m)[j] \in Message
      BY <1>3, <1>4, <2>2 DEF Insert, TypeOK
    <3> QED
      BY <3>1, <3>2 DEF TypeOK
  <2> QED
    BY <2>1, <2>2
<1> QED
  BY <1>1, <1>5, <1>6 DEF TypeOK

LEMMA FinishType ==
  ASSUME KeyInv, TypeOK, NEW i \in Node, Finish(i)
  PROVE  TypeOK'
<1> DEFINE errors == RoundOneErrors(i, session, dealing[i], received[i])
           done == Complete(i, session, dealing[i], received[i], existing[i])
<1>1. /\ status[i] = "dealt" /\ ~(Cardinality(DOMAIN received[i]) < N - 1)
      /\ UNCHANGED <<session, fault, dealing, channel, next, received, existing>>
  BY DEF Finish, Collecting
<1>2. \/ \E e \in errors : /\ result' = [result EXCEPT ![i] = e]
                           /\ status' = [status EXCEPT ![i] = "failed"] /\ UNCHANGED output
      \/ /\ errors = {} /\ output' = [output EXCEPT ![i] = done]
         /\ status' = [status EXCEPT ![i] = "ok"] /\ UNCHANGED result
  BY Zenon DEF Finish
<1>3. DOMAIN received[i] = Node \ {i}
  BY <1>1, AllOthers DEF KeyInv, Inv, ReceivedInv
<1>4. errors = {} => done \in Output
  <2>1. existing[i] \in Output
    BY DEF TypeOK
  <2> QED
    BY <1>1, <1>3, <2>1, CompleteType
<1>5. \A e \in errors : e.sender \in 0..N /\ e.recipient \in 0..N
  BY <1>3, ErrorType
<1> HIDE DEF errors, done
<1>6. status' \in [Node -> {"start", "refused", "registered", "dealt", "ok", "failed"}]
  BY <1>2 DEF TypeOK
<1>7. output' \in [Node -> Output]
  BY <1>2, <1>4 DEF TypeOK
<1>8. \A k \in Node : result'[k].sender \in 0..N /\ result'[k].recipient \in 0..N
  <2>1. CASE UNCHANGED result
    BY <2>1 DEF TypeOK
  <2>2. ASSUME NEW e \in errors, result' = [result EXCEPT ![i] = e]
        PROVE  \A k \in Node : result'[k].sender \in 0..N /\ result'[k].recipient \in 0..N
    BY <1>5, <2>2 DEF TypeOK
  <2> QED
    BY <1>2, <2>1, <2>2
<1> QED
  BY <1>1, <1>6, <1>7, <1>8 DEF TypeOK

LEMMA InitTypes ==
  /\ NoOutput \in Output /\ NoDealing.vss_commitment \in Seq(Group) /\ NoDealing.share \in Scalar
  /\ DOMAIN NoMessage = {} /\ NoError.sender \in 0..N /\ NoError.recipient \in 0..N
<1>1. 0 \in Scalar /\ 0 \in Group /\ 0 \in 0..N
  BY PTypes, NodeScalar DEF Group, Scalar
<1> QED
  BY <1>1 DEF NoOutput, Output, NoDealing, NoMessage, NoError

(* node.rs, network.rs, protocol.rs: every value a node holds, sends or returns is of
   its type, in both sessions and with a faulty node; a receiver is never past
   the end of the channel, and an error names a node.                      *)
THEOREM TypesHold == Spec => []TypeOK
<1>1. Init => TypeOK
  <2> SUFFICES ASSUME Init PROVE TypeOK
    OBVIOUS
  <2>1. channel \in Seq(Message) /\ \A i \in Node : next[i] \in 1..Len(channel) + 1
    BY DEF Init
  <2>2. /\ \A i \in Node : dealing[i].vss_commitment \in Seq(Group) /\ dealing[i].share \in Scalar
        /\ \A i \in Node : DOMAIN received[i] = {}
        /\ \A i \in Node : result[i].sender \in 0..N /\ result[i].recipient \in 0..N
        /\ output \in [Node -> Output] /\ existing \in [Node -> Output]
    BY InitTypes DEF Init
  <2> QED
    BY <2>1, <2>2 DEF Init, TypeOK, Sessions
<1>2. KeyInv /\ TypeOK /\ [Next]_vars => TypeOK'
  <2> SUFFICES ASSUME KeyInv, TypeOK, [Next]_vars PROVE TypeOK'
    OBVIOUS
  <2>1. CASE StartRefresh
    <3>1. /\ session' = "refresh" /\ existing' = output /\ UNCHANGED <<fault, result>>
          /\ status' = [i \in Node |-> "start"] /\ dealing' = [i \in Node |-> NoDealing]
          /\ channel' = <<>> /\ next' = [i \in Node |-> 1]
          /\ received' = [i \in Node |-> NoMessage] /\ output' = [i \in Node |-> NoOutput]
      BY <2>1 DEF StartRefresh
    <3>2. channel' \in Seq(Message) /\ \A i \in Node : next'[i] \in 1..Len(channel') + 1
      BY <3>1
    <3>3. /\ \A i \in Node : dealing'[i].vss_commitment \in Seq(Group) /\ dealing'[i].share \in Scalar
          /\ \A i \in Node : DOMAIN received'[i] = {}
          /\ output' \in [Node -> Output] /\ existing' \in [Node -> Output]
      BY <3>1, InitTypes DEF TypeOK
    <3> QED
      BY <3>1, <3>2, <3>3 DEF TypeOK, Sessions
  <2>2. ASSUME NEW i \in Node, Step(i) PROVE TypeOK'
    <3>1. CASE Register(i)
      <4>1. /\ status' \in [Node -> {"start", "refused", "registered", "dealt", "ok", "failed"}]
            /\ UNCHANGED <<session, fault, dealing, channel, next, received, result, output, existing>>
        BY <3>1 DEF Register, TypeOK
      <4> QED
        BY <4>1 DEF TypeOK
    <3>2. CASE Deal(i)
      BY <3>2, DealType
    <3>3. CASE Receive(i)
      BY <3>3, ReceiveType
    <3>4. CASE Finish(i)
      BY <3>4, FinishType
    <3> QED
      BY <2>2, <3>1, <3>2, <3>3, <3>4 DEF Step
  <2>3. CASE UNCHANGED vars
    BY <2>3 DEF vars, TypeOK
  <2> QED
    BY <2>1, <2>2, <2>3 DEF Next
<1> QED
  BY <1>1, <1>2, InitKey, NextKey, PTL DEF Spec
=============================================================================

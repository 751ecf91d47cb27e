------------------------------- MODULE DkgDemo -------------------------------
(***************************************************************************)
(* The nodes of golden-demo (node.rs) over its network (network.rs), and   *)
(* main.rs, which runs the DKG and, once every node has returned, the key  *)
(* refresh on a fresh network. Each node is a task: it registers, waits at *)
(* the barrier, deals, collects the dealings of the others and completes.  *)
(*                                                                         *)
(* At most one node is faulty, in one of the ways the tests of protocol.rs *)
(* and network.rs tamper with a node's registration or dealing.            *)
(*                                                                         *)
(* A session carries N dealings over a channel that holds 2N, so that no   *)
(* receiver lags; it ends for nobody, since every node keeps a sender.     *)
(***************************************************************************)
EXTENDS GoldenDkg, FiniteSets

CONSTANTS
  FaultKinds  \* the faults of a run, with "none" for all nodes honest

Kinds == {"none", "Key", "Share", "PadCommitment", "Pad", "Vss", "Session", "Missing", "Secret"}

ASSUME FaultAssumption == FaultKinds \subseteq Kinds

VARIABLES
  session,   \* which session main.rs is in
  fault,     \* which node is faulty, how, in which session
  status,    \* where each node's task is
  dealing,   \* the own DkgDealing of a node
  channel,   \* the messages broadcast in this session
  next,      \* the position of each receiver in the channel
  received,  \* the map of dealings of each node, by sender
  result,    \* the error that ended a node's run
  output,    \* DkgOutput of a node
  existing   \* DkgOutput of a node from the session before

vars == <<session, fault, status, dealing, channel, next, received, result, output, existing>>

NoDealing == [vss_commitment |-> <<>>, share |-> 0]
NoOutput  == [public_key |-> 0, public_key_shares |-> [k \in Node |-> 0], secret_share |-> 0]
NoError   == [error |-> "none", sender |-> 0, recipient |-> 0]
NoMessage == <<>>

Faulty(i) == fault.kind # "none" /\ fault.node = i
Honest == {i \in Node : ~Faulty(i)}
FaultNow(i) == IF Faulty(i) /\ fault.session = session THEN fault.kind ELSE "none"

-----------------------------------------------------------------------------
Init ==
  /\ session = "dkg"
  /\ fault \in [node : Node, kind : FaultKinds, session : Sessions]
  /\ fault.kind = "Secret" => fault.session = "refresh"
  /\ fault.kind = "none" => fault.node = 1 /\ fault.session = "dkg"
  /\ status = [i \in Node |-> "start"]
  /\ dealing = [i \in Node |-> NoDealing]
  /\ channel = <<>>
  /\ next = [i \in Node |-> 1]
  /\ received = [i \in Node |-> NoMessage]
  /\ result = [i \in Node |-> NoError]
  /\ output = [i \in Node |-> NoOutput]
  /\ existing = [i \in Node |-> NoOutput]

(* Node::new: the proof of knowledge is checked, then the key is shared and
   the receiver subscribed. A node that is refused never gets further.     *)
Register(i) ==
  /\ status[i] = "start"
  /\ status' = [status EXCEPT ![i] = IF FaultNow(i) = "Key" THEN "refused" ELSE "registered"]
  /\ UNCHANGED <<session, fault, dealing, channel, next, received, result, output, existing>>

(* The barrier of wait_ready: all N nodes have come to it.                 *)
BarrierOpen == \A k \in Node : status[k] \notin {"start", "refused"}

(* The message a node broadcasts for its dealing m.                        *)
Broadcasts(i, m) ==
  LET others == Node \ {i}
  IN  CASE FaultNow(i) = "Share" ->
             {[m EXCEPT !.ciphertexts[k].encrypted_share = Plus(@, 1)] : k \in others}
        [] FaultNow(i) = "PadCommitment" ->
             {[m EXCEPT !.ciphertexts[k].r_commitment = Plus(@, Gen)] : k \in others}
        [] FaultNow(i) = "Pad" ->
             {[m EXCEPT !.evrf = "invalid",
                        !.ciphertexts[k] =
                          [r_commitment |-> Plus(@.r_commitment, Gen),
                           encrypted_share |-> Plus(@.encrypted_share, 1)]] : k \in others}
        [] FaultNow(i) = "Vss" -> {[m EXCEPT !.vss_commitment[1] = Plus(@, Gen)]}
        [] FaultNow(i) = "Session" -> {[m EXCEPT !.session = "other"]}
        [] FaultNow(i) = "Missing" ->
             {[m EXCEPT !.ciphertexts = Restrict(@, others \ {k})] : k \in others}
        [] OTHER -> {m}

Deal(i) ==
  /\ status[i] = "registered"
  /\ BarrierOpen
  /\ \E c \in DealingPolynomials(i, IF FaultNow(i) = "Secret" THEN "dkg" ELSE session),
        verdict \in ProofVerdicts :
       \E m \in Broadcasts(i, RoundZero(i, session, c, verdict)) :
         /\ dealing' = [dealing EXCEPT ![i] =
                          [vss_commitment |-> Commit(c), share |-> Evaluate(c, i)]]
         /\ channel' = Append(channel, m)
  /\ status' = [status EXCEPT ![i] = "dealt"]
  /\ UNCHANGED <<session, fault, next, received, result, output, existing>>

Collecting(i) == status[i] = "dealt" /\ Cardinality(DOMAIN received[i]) < N - 1

(* HashMap::insert.                                                        *)
Insert(map, key, value) ==
  [k \in (DOMAIN map) \cup {key} |-> IF k = key THEN value ELSE map[k]]

ReceiveOwnToo(i) ==   \* mutant: the own dealing is not skipped
  /\ Collecting(i)
  /\ next[i] \in DOMAIN channel
  /\ LET m == channel[next[i]]
     IN  received' = [received EXCEPT ![i] = Insert(@, m.from, m)]
  /\ next' = [next EXCEPT ![i] = @ + 1]
  /\ UNCHANGED <<session, fault, status, dealing, channel, result, output, existing>>
(* The collecting loop. The own dealing is skipped; another of the same sender
   would replace the first.                                                *)
Receive(i) ==
  /\ Collecting(i)
  /\ next[i] \in DOMAIN channel
  /\ LET m == channel[next[i]]
     IN  received' = IF m.from = i THEN received
                     ELSE [received EXCEPT ![i] = Insert(@, m.from, m)]
  /\ next' = [next EXCEPT ![i] = @ + 1]
  /\ UNCHANGED <<session, fault, status, dealing, channel, result, output, existing>>

FinishWaitingForOwn(i) ==   \* mutant: waits for N dealings of others
  /\ status[i] = "dealt"
  /\ Cardinality(DOMAIN received[i]) = N
  /\ output' = [output EXCEPT ![i] =
                  Complete(i, session, dealing[i], received[i], existing[i])]
  /\ status' = [status EXCEPT ![i] = "ok"]
  /\ UNCHANGED <<session, fault, dealing, channel, next, received, result, existing>>

(* complete.                                                               *)
Finish(i) ==
  /\ status[i] = "dealt"
  /\ ~Collecting(i)
  /\ LET errors == RoundOneErrors(i, session, dealing[i], received[i])
     IN  \/ \E e \in errors :
              /\ result' = [result EXCEPT ![i] = e]
              /\ status' = [status EXCEPT ![i] = "failed"]
              /\ UNCHANGED output
         \/ /\ errors = {}
            /\ output' = [output EXCEPT ![i] =
                            Complete(i, session, dealing[i], received[i], existing[i])]
            /\ status' = [status EXCEPT ![i] = "ok"]
            /\ UNCHANGED result
  /\ UNCHANGED <<session, fault, dealing, channel, next, received, existing>>

(* The checks of main.rs:83-163, which sees every node's output: one key, every
   T shares give its secret, and every share opens its public key share.    *)
MainAccepts ==
  /\ \A i, k \in Node :
       /\ output[i].public_key = output[k].public_key
       /\ output[i].public_key_shares = output[k].public_key_shares
  /\ \A S \in kSubset(T, Node) :
       LET reconstructed == LagrangeInterpolateAtZero([i \in S |-> output[i].secret_share])
       IN  Exp(reconstructed) = output[1].public_key
  /\ \A i \in Node : output[i].public_key_shares[i] = Exp(output[i].secret_share)

(* main.rs: all tasks have returned an output. The refresh has a network, keys
   and nodes of its own; each node takes its output along.                 *)
StartRefresh ==
  /\ session = "dkg"
  /\ \A i \in Node : status[i] = "ok"
  /\ MainAccepts
  /\ session' = "refresh"
  /\ existing' = output
  /\ status' = [i \in Node |-> "start"]
  /\ dealing' = [i \in Node |-> NoDealing]
  /\ channel' = <<>>
  /\ next' = [i \in Node |-> 1]
  /\ received' = [i \in Node |-> NoMessage]
  /\ output' = [i \in Node |-> NoOutput]
  /\ UNCHANGED <<fault, result>>

Step(i) == Register(i) \/ Deal(i) \/ Receive(i) \/ Finish(i)

Next == StartRefresh \/ \E i \in Node : Step(i)

Spec == Init /\ [][Next]_vars

(* The scheduler runs every task that can go on, and main goes on when its
   tasks have returned.                                                    *)
FairSpec == Spec /\ WF_vars(StartRefresh) /\ \A i \in Node : WF_vars(Step(i))

-----------------------------------------------------------------------------
Message ==
  [session : Sessions \cup {"other"}, from : Node, random_msg : Node,
   vss_commitment : Seq(Group),
   ciphertexts : UNION {[D -> [r_commitment : Group, encrypted_share : Scalar]] : D \in SUBSET Node},
   evrf : {"valid", "invalid", "none"}]

Output == [public_key : Group, public_key_shares : [Node -> Group], secret_share : Scalar]

(* Every node's state is of its type, and a receiver is at a message of the
   channel or at the next one.                                             *)
TypeOK ==
  /\ session \in Sessions
  /\ fault \in [node : Node, kind : FaultKinds, session : Sessions]
  /\ status \in [Node -> {"start", "refused", "registered", "dealt", "ok", "failed"}]
  /\ \A i \in Node : dealing[i].vss_commitment \in Seq(Group) /\ dealing[i].share \in Scalar
  /\ channel \in Seq(Message)
  /\ \A i \in Node : next[i] \in 1..Len(channel) + 1
  /\ \A i \in Node : /\ DOMAIN received[i] \subseteq Node \ {i}
                     /\ \A j \in DOMAIN received[i] : received[i][j] \in Message
  /\ \A i \in Node : result[i].sender \in 0..N /\ result[i].recipient \in 0..N
  /\ output \in [Node -> Output]
  /\ existing \in [Node -> Output]

(* main.rs:83-99 and 218-226: honest nodes that complete a session have the same
   public key and the same public key shares. Each sums its own commitments
   with those it received, in the order of its own map.                    *)
Agreement ==
  \A i, k \in Honest :
    status[i] = "ok" /\ status[k] = "ok" =>
      /\ output[i].public_key = output[k].public_key
      /\ output[i].public_key_shares = output[k].public_key_shares

(* Public verifiability (protocol.rs:731-733): everyone checks every ciphertext,
   so a dealing that one honest node rejects, no honest node completes with;
   only a dealing that leaves a node out can part them.                    *)
CompletionUnanimous ==
  (\A m \in ToSet(channel) : Node \ {m.from} \subseteq DOMAIN m.ciphertexts) =>
    \A i, k \in Honest : ~(status[i] = "ok" /\ status[k] = "failed")

(* No dealing that i has is one whose proof fails: neither completing nor the
   errors of round 1 depend on it.                                         *)
ProofsPass(i) == \A j \in DOMAIN received[i] : received[i][j].evrf # "invalid"

(* main.rs:149-157 and 298-305: an honest node that completes from dealings
   whose proofs pass holds the secret of its public key share, in the view of
   every node that completes.                                              *)
SharesOpenKeyShares ==
  \A i, k \in Honest :
    status[i] = "ok" /\ status[k] = "ok" /\ ProofsPass(i) =>
      output[k].public_key_shares[i] = Exp(output[i].secret_share)

(* main.rs:101-147 and 243-289: any T shares of honest nodes, completed from
   dealings whose proofs pass, reconstruct the secret of the public key; after
   a refresh, of the key from before it.                                   *)
QuorumReconstructs ==
  \A S \in SUBSET {i \in Honest : status[i] = "ok" /\ ProofsPass(i)} :
    Cardinality(S) >= T =>
      LET secret == LagrangeInterpolateAtZero([i \in S |-> output[i].secret_share])
      IN  \A i \in S :
            /\ output[i].public_key = Exp(secret)
            /\ session = "refresh" => Exp(secret) = existing[i].public_key

(* Every node's run returns, whatever a faulty dealer sends: nobody is left at
   the barrier or in the collecting loop, unless a node could not register. *)
EveryNodeReturns ==
  fault.kind # "Key" => <>[](\A i \in Node : status[i] \in {"ok", "failed"})

(* verify_dealing refuses a proof only of a sender that "did not correctly derive
   the encryption pads" (error.rs:96-98): an honest dealing passes.         *)
HonestDealingVerifies ==
  \A m \in ToSet(channel) : m.from \in Honest => VerifyDealing(m, session)

(* protocol.rs:122 "ABORT if eVRF.Verify fails", and dkg.rs:182-184: dealings are
   verified before a node completes with them.                             *)
CompletedFromVerified ==
  \A i \in Honest : status[i] = "ok" =>
    \A j \in DOMAIN received[i] : VerifyDealing(received[i][j], session)
=============================================================================

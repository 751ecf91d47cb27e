------------------------------ MODULE Reshare ------------------------------
(***************************************************************************)
(* Resharing to a committee of other size and threshold: golden-dkg's      *)
(* reshare_protocol.rs behind reshare.rs, run by the nodes of golden-demo  *)
(* (reshare_node.rs) over reshare_network.rs, one resharing after another  *)
(* as main.rs does after the refresh.                                      *)
(*                                                                         *)
(* At most one member of an old committee is faulty, in one of the ways    *)
(* the tests of reshare_protocol.rs tamper with a dealing, or by saying    *)
(* nothing, dealing twice, or dealing a polynomial of another degree.      *)
(*                                                                         *)
(* The channel holds twice as many messages as there are participants: no  *)
(* receiver lags, and no task is without a sender.                         *)
(***************************************************************************)
EXTENDS Shamir, FiniteSets

CONSTANTS
  IdentityKey(_, _, _),  \* secret key of a participant, by role and phase
  PadHash(_, _),         \* derive_pad's hash of a shared key and a random_msg
  Setups                 \* bound: what a behaviour may start from

Kinds == {"none", "Silent", "Share", "WrongShare", "Session", "Missing", "Twice", "Degree", "Pad"}

(* A setup gives [n, t] of the refreshed committee and of its successors, the
   scalars the random generator may give, and the faults that may occur, with
   "none" for all honest.                                                  *)
ASSUME ReshareAssumption ==
  \A s \in Setups :
    /\ s.committees \in Seq([n : 1..P - 1, t : 1..P - 1]) /\ Len(s.committees) > 1
    /\ \A k \in DOMAIN s.committees : s.committees[k].t <= s.committees[k].n
    /\ s.draws \subseteq Scalar
    /\ s.faults \subseteq Kinds

ASSUME KeyAssumption ==
  /\ \A s \in Setups : \A role \in {"old", "new"}, p \in DOMAIN s.committees, i \in 1..P - 1 :
       IdentityKey(role, p, i) \in Scalar
  /\ \A k \in Scalar, msg \in 1..2 * P : PadHash(k, msg) \in Scalar

VARIABLES
  setup,     \* the setup of this behaviour
  phase,     \* the position of the old committee in Committees
  original,  \* the public key and secret before the first resharing
  holders,   \* the share of each old member and its public key share
  fault,     \* which old member is faulty, how, in which phase
  oldTask,   \* where the task of each old member is
  newTask,   \* where the task of each new member is
  channel,   \* the messages broadcast in this phase
  next,      \* the position of each receiver in the channel
  received,  \* the map of dealings of each new member, by sender
  output,    \* DkgOutput of a new member
  main       \* the handles main has awaited, and whether it goes on

tasks == <<oldTask, newTask, channel, next, received, output>>
vars == <<setup, phase, original, holders, fault, oldTask, newTask, channel, next, received, output, main>>

Committees == setup.committees
Draws == setup.draws

OldOf(p) == 1..Committees[p].n
NewOf(p) == 1..Committees[p + 1].n
Old  == OldOf(phase)
New  == NewOf(phase)
TOld == Committees[phase].t
TNew == Committees[phase + 1].t

Faulty(i) == fault.kind # "none" /\ fault.phase = phase /\ fault.node = i
FaultNow(i) == IF Faulty(i) THEN fault.kind ELSE "none"

(* get_new_members.                                                        *)
Registered == {j \in New : newTask[j] # "start"}

-----------------------------------------------------------------------------
(* The protocol.                                                           *)

(* evrf::derive_pad: both ends of a pair compute the same pad.             *)
DerivePad(sk, peer_pk, msg) == PadHash(Times(sk, peer_pk), msg)

(* reshare_deal for the polynomial c, to the new members registered. The message
   for the pads is fresh, in a second dealing too.                         *)
ReshareDeal(i, c, random_msg) ==
  LET Pad(k) == DerivePad(IdentityKey("old", phase, i), Exp(IdentityKey("new", phase, k)), random_msg)
  IN  [session |-> phase, from |-> i, random_msg |-> random_msg,
       vss_commitment |-> Commit(c),
       ciphertexts |-> [k \in Registered |-> [r_commitment |-> Exp(Pad(k)),
                                              encrypted_share |-> Plus(Pad(k), Evaluate(c, k))]]]

(* g^z = R * X for recipient k.                                            *)
Consistent(m, k) ==
  Exp(m.ciphertexts[k].encrypted_share) =
    Plus(m.ciphertexts[k].r_commitment, ExpectedShareCommitment(m.vss_commitment, k))

(* verify_dealing of reshare.rs, which the nodes do not call.              *)
VerifyDealing(m) ==
  /\ m.session = phase
  /\ m.from \in DOMAIN holders => m.vss_commitment[1] = holders[m.from].pk_share

(* What is wrong with a dealing in the eyes of reshare_receive.            *)
VerifiedOwn(j, m) ==   \* mutant: a member looks at its own ciphertext only
  /\ m.from \in DOMAIN holders => m.vss_commitment[1] = holders[m.from].pk_share
  /\ j \in DOMAIN m.ciphertexts => Consistent(m, j)
Verified(j, m) ==
  /\ m.from \in DOMAIN holders => m.vss_commitment[1] = holders[m.from].pk_share
  /\ \A k \in DOMAIN m.ciphertexts : Consistent(m, k)

(* reshare_receive returns one of these errors to member j, or none.       *)
Refused(j, dealings) ==
  \/ \E i \in DOMAIN dealings : dealings[i].session # phase
  \/ Cardinality(DOMAIN dealings) < TOld
  \/ \E i \in DOMAIN dealings : ~Verified(j, dealings[i])
  \/ \E i \in DOMAIN dealings : j \notin DOMAIN dealings[i].ciphertexts

Decrypt(j, m) ==
  Minus(m.ciphertexts[j].encrypted_share,
        DerivePad(IdentityKey("new", phase, j), Exp(IdentityKey("old", phase, m.from)), m.random_msg))

SecretShareSum(j, dealings) == Total([i \in DOMAIN dealings |-> Decrypt(j, dealings[i])])   \* mutant: no coefficients
(* The new share interpolates the sub-shares over the old identifiers.     *)
SecretShare(j, dealings) ==
  LagrangeInterpolateAtZero([i \in DOMAIN dealings |-> Decrypt(j, dealings[i])])

(* The new public key shares, of the recipients in the dealing the map happens
   to give first.                                                          *)
PublicKeySharesFirst(first, dealings) ==   \* mutant: the first dealing's commitments
  [k \in DOMAIN dealings[first].ciphertexts |->
     ExpectedShareCommitment(dealings[first].vss_commitment, k)]
PublicKeyShares(first, dealings) ==
  [k \in DOMAIN dealings[first].ciphertexts |->
     LagrangeInterpolateAtZero(
       [i \in DOMAIN dealings |-> ExpectedShareCommitment(dealings[i].vss_commitment, k)])]

-----------------------------------------------------------------------------
NoOutput == [public_key |-> 0, public_key_shares |-> <<>>, secret_share |-> 0]

(* The refreshed committee holds shares of some secret.                    *)
Init ==
  /\ setup \in Setups
  /\ phase = 1
  /\ \E omega \in Draws : \E c \in NewRandom(omega, TOld - 1, Draws) :
       /\ original = [pk |-> Exp(omega), sk |-> omega]
       /\ holders = [i \in Old |-> [share |-> Evaluate(c, i), pk_share |-> Exp(Evaluate(c, i))]]
  /\ \E p \in 1..Len(Committees) - 1 :
       fault \in [node : OldOf(p), kind : setup.faults, phase : {p}]
  /\ fault.kind = "none" => fault.node = 1 /\ fault.phase = 1
  /\ oldTask = [i \in Old |-> "start"]
  /\ newTask = [j \in New |-> "start"]
  /\ channel = <<>>
  /\ next = [j \in New |-> 1]
  /\ received = [j \in New |-> <<>>]
  /\ output = [j \in New |-> NoOutput]
  /\ main = [awaited |-> 0, state |-> "waiting"]

Running == main.state = "waiting"

RegisterOld(i) ==
  /\ Running
  /\ oldTask[i] = "start"
  /\ oldTask' = [oldTask EXCEPT ![i] = "registered"]
  /\ UNCHANGED <<setup, phase, original, holders, fault, newTask, channel, next, received, output, main>>

(* The receiver is subscribed on registration: it sees what is sent from then. *)
RegisterNew(j) ==
  /\ Running
  /\ newTask[j] = "start"
  /\ newTask' = [newTask EXCEPT ![j] = "registered"]
  /\ next' = [next EXCEPT ![j] = Len(channel) + 1]
  /\ UNCHANGED <<setup, phase, original, holders, fault, oldTask, channel, received, output, main>>

BarrierOpenForOld == \A i \in Old : oldTask[i] # "start"   \* mutant: the new members are not waited for
(* The barrier of wait_ready: all participants of both committees.         *)
BarrierOpen ==
  /\ \A i \in Old : oldTask[i] # "start"
  /\ \A j \in New : newTask[j] # "start"

DealtPolynomials(i) ==
  NewRandom(IF FaultNow(i) = "WrongShare" THEN Plus(holders[i].share, 1) ELSE holders[i].share,
            IF FaultNow(i) = "Degree" THEN TNew ELSE TNew - 1, Draws)

(* What a member broadcasts for its dealing m.                             *)
Broadcasts(i, m) ==
  CASE FaultNow(i) = "Share" ->
         {[m EXCEPT !.ciphertexts[k].encrypted_share = Plus(@, 1)] : k \in New}
    [] FaultNow(i) = "Pad" ->
         {[m EXCEPT !.ciphertexts[k] = [r_commitment |-> Plus(@.r_commitment, Gen),
                                        encrypted_share |-> Plus(@.encrypted_share, 1)]] : k \in New}
    [] FaultNow(i) = "Session" -> {[m EXCEPT !.session = 0]}
    [] FaultNow(i) = "Missing" -> {[m EXCEPT !.ciphertexts = Restrict(@, (DOMAIN @) \ {k})] : k \in New}
    [] OTHER -> {m}

Sent(i) == \E n \in DOMAIN channel : channel[n].from = i

RandomMsg(i) == IF Sent(i) THEN Committees[phase].n + i ELSE i

(* OldReshareNode::run. One that deals twice stays for the second dealing. *)
Deal(i) ==
  /\ Running
  /\ oldTask[i] = "registered"
  /\ BarrierOpen
  /\ FaultNow(i) # "Silent"
  /\ \E c \in DealtPolynomials(i) :
       \E m \in Broadcasts(i, ReshareDeal(i, c, RandomMsg(i))) :
         channel' = Append(channel, m)
  /\ oldTask' = [oldTask EXCEPT ![i] =
                   IF FaultNow(i) = "Twice" /\ ~Sent(i) THEN "registered" ELSE "done"]
  /\ UNCHANGED <<setup, phase, original, holders, fault, newTask, next, received, output, main>>

(* A member that is gone before it deals.                                  *)
Vanish(i) ==
  /\ Running
  /\ oldTask[i] = "registered"
  /\ FaultNow(i) = "Silent"
  /\ oldTask' = [oldTask EXCEPT ![i] = "done"]
  /\ UNCHANGED <<setup, phase, original, holders, fault, newTask, channel, next, received, output, main>>

Collecting(j) ==
  newTask[j] = "registered" /\ Cardinality(DOMAIN received[j]) < Committees[phase].n

(* The collecting loop: a second dealing of a sender replaces the first.   *)
Receive(j) ==
  /\ Running
  /\ BarrierOpen
  /\ Collecting(j)
  /\ next[j] \in DOMAIN channel
  /\ LET m == channel[next[j]]
     IN  received' = [received EXCEPT ![j] =
                        [i \in (DOMAIN @) \cup {m.from} |-> IF i = m.from THEN m ELSE @[i]]]
  /\ next' = [next EXCEPT ![j] = @ + 1]
  /\ UNCHANGED <<setup, phase, original, holders, fault, oldTask, newTask, channel, output, main>>

(* complete.                                                               *)
Finish(j) ==
  /\ Running
  /\ newTask[j] = "registered"
  /\ ~Collecting(j)
  /\ \/ /\ Refused(j, received[j])
        /\ newTask' = [newTask EXCEPT ![j] = "failed"]
        /\ UNCHANGED output
     \/ /\ ~Refused(j, received[j])
        /\ newTask' = [newTask EXCEPT ![j] = "ok"]
        /\ \E first \in DOMAIN received[j] :
             output' = [output EXCEPT ![j] =
                          [public_key |-> original.pk,
                           public_key_shares |-> PublicKeyShares(first, received[j]),
                           secret_share |-> SecretShare(j, received[j])]]
  /\ UNCHANGED <<setup, phase, original, holders, fault, oldTask, channel, next, received, main>>

-----------------------------------------------------------------------------
(* main.rs.                                                                *)

Handles == Committees[phase].n + Committees[phase + 1].n

(* main awaits the old members in order, then the new ones. An error of a new
   member unwraps to a panic, and so does main: it ends every task.        *)
MainAwaits ==
  /\ Running
  /\ main.awaited < Handles
  /\ LET h == main.awaited + 1
         j == h - Committees[phase].n
     IN  \/ /\ h \in Old /\ oldTask[h] = "done"
            /\ main' = [main EXCEPT !.awaited = h]
         \/ /\ h \notin Old /\ newTask[j] = "ok"
            /\ main' = [main EXCEPT !.awaited = h]
         \/ /\ h \notin Old /\ newTask[j] = "failed"
            /\ main' = [main EXCEPT !.state = "panicked"]
  /\ UNCHANGED <<setup, phase, original, holders, fault, tasks>>

(* The assertions after a resharing.                                       *)
MainAccepts ==
  /\ \A j \in New : output[j].public_key = original.pk
  /\ \A S \in kSubset(TNew, New) :
       LagrangeInterpolateAtZero([j \in S |-> output[j].secret_share]) = original.sk
  /\ \A j \in New : /\ j \in DOMAIN output[j].public_key_shares
                    /\ output[j].public_key_shares[j] = Exp(output[j].secret_share)

MainPanics ==
  /\ Running
  /\ main.awaited = Handles
  /\ ~MainAccepts
  /\ main' = [main EXCEPT !.state = "panicked"]
  /\ UNCHANGED <<setup, phase, original, holders, fault, tasks>>

(* The new members are the old ones of the next resharing.                 *)
NextHolders ==
  [j \in New |-> [share |-> output[j].secret_share,
                  pk_share |-> output[j].public_key_shares[j]]]

(* The next resharing, on a network of its own.                            *)
StartNext ==
  /\ Running
  /\ main.awaited = Handles
  /\ MainAccepts
  /\ phase + 1 < Len(Committees)
  /\ phase' = phase + 1
  /\ holders' = NextHolders
  /\ oldTask' = [i \in OldOf(phase + 1) |-> "start"]
  /\ newTask' = [j \in NewOf(phase + 1) |-> "start"]
  /\ channel' = <<>>
  /\ next' = [j \in NewOf(phase + 1) |-> 1]
  /\ received' = [j \in NewOf(phase + 1) |-> <<>>]
  /\ output' = [j \in NewOf(phase + 1) |-> NoOutput]
  /\ main' = [awaited |-> 0, state |-> "waiting"]
  /\ UNCHANGED <<setup, original, fault>>

MainDone ==
  /\ Running
  /\ main.awaited = Handles
  /\ MainAccepts
  /\ phase + 1 = Len(Committees)
  /\ main' = [main EXCEPT !.state = "done"]
  /\ UNCHANGED <<setup, phase, original, holders, fault, tasks>>

Main == MainAwaits \/ MainPanics \/ StartNext \/ MainDone
OldStep(i) == RegisterOld(i) \/ Deal(i) \/ Vanish(i)
NewStep(j) == RegisterNew(j) \/ Receive(j) \/ Finish(j)

Next == Main \/ (\E i \in Old : OldStep(i)) \/ (\E j \in New : NewStep(j))

Spec == Init /\ [][Next]_vars

(* The runtime does not stop while a task can go on, main's among them.    *)
FairSpec == Spec /\ WF_vars(Next)

-----------------------------------------------------------------------------
(* Every task's state is of its type, and a receiver is at a message of the
   channel or at the next one.                                             *)
TypeOK ==
  /\ setup \in Setups
  /\ phase \in 1..Len(Committees) - 1
  /\ original \in [pk : Group, sk : Scalar]
  /\ holders \in [Old -> [share : Scalar, pk_share : Group]]
  /\ oldTask \in [Old -> {"start", "registered", "done"}]
  /\ newTask \in [New -> {"start", "registered", "ok", "failed"}]
  /\ \A n \in DOMAIN channel : channel[n].from \in Old /\ DOMAIN channel[n].ciphertexts \subseteq New
  /\ \A j \in New : /\ next[j] \in 1..Len(channel) + 1
                    /\ DOMAIN received[j] \subseteq Old
                    /\ output[j].secret_share \in Scalar
                    /\ DOMAIN output[j].public_key_shares \subseteq New
  /\ main \in [awaited : 0..Handles, state : {"waiting", "panicked", "done"}]

Completed == {j \in New : newTask[j] = "ok"}

(* What the checks of reshare_receive let through: a polynomial of another degree,
   and a pad that is not the shared one, with an r_commitment that fits.   *)
Unnoticed == fault.kind \in {"Degree", "Pad"}

(* reshare.rs:6-8 and main.rs:397-451: any TNew members that complete hold shares
   of the secret from before the first resharing, whatever the sizes and
   thresholds of the committees it went through, and with a fault that
   reshare_receive can notice.                                             *)
KeySurvives ==
  ~Unnoticed => \A S \in kSubset(TNew, Completed) :
    LagrangeInterpolateAtZero([j \in S |-> output[j].secret_share]) = original.sk

(* main.rs:453-461: the share of a member that completes opens its public key
   share, in the output of every member that completes and lists it: they all
   took the same dealings, also when a dealer sent two. A polynomial of
   another degree does no harm here; a false pad does.                     *)
SharesOpenKeyShares ==
  fault.kind # "Pad" => \A j, k \in Completed :
    j \in DOMAIN output[k].public_key_shares =>
      output[k].public_key_shares[j] = Exp(output[j].secret_share)

(* reshare_protocol.rs:127-140: everyone checks every ciphertext, so no member
   completes while another fails, unless a dealing leaves a member out.    *)
CompletionUnanimous ==
  (\A n \in DOMAIN channel : DOMAIN channel[n].ciphertexts = New) =>
    ~\E j, k \in New : newTask[j] = "ok" /\ newTask[k] = "failed"

(* reshare.rs:139 "session identifier (must match the dealings)" and :132 "verified"
   dealings: nobody completes with one that verify_dealing refuses.        *)
CompletedFromVerified ==
  \A j \in Completed : \A i \in DOMAIN received[j] : VerifyDealing(received[j][i])

(* Who completes the resharing, and from what.                             *)
CompletionSound == TypeOK /\ CompletionUnanimous /\ CompletedFromVerified

(* The program ends, whatever is dealt, if every old member deals.         *)
MainEnds == fault.kind # "Silent" => <>(~Running)
=============================================================================

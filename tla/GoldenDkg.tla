------------------------------ MODULE GoldenDkg ------------------------------
(***************************************************************************)
(* The rounds of the DKG and of the key refresh, as operators:             *)
(* golden-dkg/src/protocol.rs behind dkg.rs and refresh.rs.                *)
(*                                                                         *)
(* The eVRF proof of a dealing is a verdict, "valid", "invalid" or "none". *)
(* It is not about the dealer's honesty alone: prove_evrf_batch lists the  *)
(* public inputs in the order of one HashMap (peers) and verify_evrf_batch *)
(* in the order of another (ciphertexts), so an honest dealer's proof for  *)
(* two recipients or more may be either; and an error of the prover is     *)
(* dropped by .ok(), which leaves none.                                    *)
(***************************************************************************)
EXTENDS Shamir

CONSTANTS
  N, T,            \* DkgConfig.n and t
  IdentityKey(_, _),  \* the identity secret key of a participant in a session
  PadHash(_, _),   \* derive_pad's hash of a shared key and a random_msg
  Draws(_),        \* bound: the scalars the random generator may give a node
  Verdicts         \* bound: the verdicts on proofs that a run distinguishes

ASSUME DkgAssumption == N \in 1..P - 1 /\ T \in 1..N
ASSUME DrawsAssumption == \A i \in 1..N : Draws(i) \subseteq Scalar
ASSUME VerdictAssumption == Verdicts \subseteq {"valid", "invalid", "none"}

Node == 1..N
Sessions == {"dkg", "refresh"}

ASSUME KeyAssumption ==
  /\ \A i \in Node, s \in Sessions : IdentityKey(i, s) \in Scalar
  /\ \A k \in Scalar, msg \in Node : PadHash(k, msg) \in Scalar

(* Participant::new: fresh keys for each session.                          *)
PublicIdentity(i, session) == Exp(IdentityKey(i, session))

DerivePadOwnKey(sk, peer_pk, msg) == PadHash(sk, msg)   \* mutant: no key exchange
(* evrf::derive_pad: both ends of a pair compute the same pad.             *)
DerivePad(sk, peer_pk, msg) == PadHash(Times(sk, peer_pk), msg)

Pad(i, k, session, msg) ==
  DerivePad(IdentityKey(i, session), PublicIdentity(k, session), msg)

-----------------------------------------------------------------------------
(* Round 0. The random_msg of a dealing is named by its dealer.            *)

RoundZero(i, session, c, verdict) ==
  [session |-> session, from |-> i, random_msg |-> i,
   vss_commitment |-> Commit(c),
   ciphertexts |->
     [k \in Node \ {i} |->
        [r_commitment |-> Exp(Pad(i, k, session, i)),
         encrypted_share |-> Plus(Pad(i, k, session, i), Evaluate(c, k))]],
   evrf |-> verdict]

(* create_dealing: the secret is drawn, or zero for a refresh.             *)
DealingPolynomials(i, session) ==
  IF session = "refresh" THEN NewRandom(0, T - 1, Draws(i))
  ELSE UNION {NewRandom(omega, T - 1, Draws(i)) : omega \in Draws(i)}

(* What the order of the two maps, and the prover, can make of the proof.  *)
ProofVerdicts == IF N > 2 THEN Verdicts ELSE Verdicts \ {"invalid"}

-----------------------------------------------------------------------------
(* Verification.                                                           *)

(* g^z = R * X for recipient k.                                            *)
Consistent(m, k) ==
  Exp(m.ciphertexts[k].encrypted_share) =
    Plus(m.ciphertexts[k].r_commitment, ExpectedShareCommitment(m.vss_commitment, k))

(* verify_dealing of dkg.rs, with the zero-secret check of refresh.rs.     *)
VerifyDealing(m, session) ==
  /\ m.session = session
  /\ session = "refresh" => m.vss_commitment[1] = Identity
  /\ \A k \in DOMAIN m.ciphertexts : Consistent(m, k)
  /\ session = "dkg" => m.evrf # "invalid"

(* The errors round1 and round1_refresh may return to node i for the dealings
   received, one set for each stage: the first that is not empty counts, and
   the order of a HashMap picks from it. A failing proof is no error.      *)
SessionErrors(received, session) ==
  {[error |-> "SessionMismatch", sender |-> j, recipient |-> 0] :
     j \in {j \in DOMAIN received : received[j].session # session}}

(* The own commitment is looked at first.                                  *)
ZeroSecretErrors(i, own, received) ==
  {[error |-> "ZeroSecretViolation", sender |-> j, recipient |-> 0] :
     j \in IF own.vss_commitment[1] # Identity THEN {i}
           ELSE {j \in DOMAIN received : received[j].vss_commitment[1] # Identity}}

CiphertextErrorsOwn(i, received) ==   \* mutant: checks its own ciphertext only
  {[error |-> "CiphertextVerificationFailed", sender |-> j, recipient |-> i] :
     j \in {j \in DOMAIN received :
              i \in DOMAIN received[j].ciphertexts /\ ~Consistent(received[j], i)}}
CiphertextErrors(i, received) ==
  {[error |-> "CiphertextVerificationFailed", sender |-> jk[1], recipient |-> jk[2]] :
     jk \in {jk \in (DOMAIN received) \X Node :
               /\ jk[2] \in DOMAIN received[jk[1]].ciphertexts
               /\ ~Consistent(received[jk[1]], jk[2])}}

MissingErrors(i, received) ==
  {[error |-> "MissingCiphertext", sender |-> j, recipient |-> i] :
     j \in {j \in DOMAIN received : i \notin DOMAIN received[j].ciphertexts}}

RoundOneErrorsSkippingZero(i, session, own, received) ==   \* mutant: any secret refreshes
  IF SessionErrors(received, session) # {} THEN SessionErrors(received, session)
  ELSE IF CiphertextErrors(i, received) # {} THEN CiphertextErrors(i, received)
  ELSE MissingErrors(i, received)
RoundOneErrors(i, session, own, received) ==
  IF SessionErrors(received, session) # {} THEN SessionErrors(received, session)
  ELSE IF session = "refresh" /\ ZeroSecretErrors(i, own, received) # {}
       THEN ZeroSecretErrors(i, own, received)
  ELSE IF CiphertextErrors(i, received) # {} THEN CiphertextErrors(i, received)
  ELSE MissingErrors(i, received)

-----------------------------------------------------------------------------
(* Round 1, without errors.                                                *)

(* The decrypted share of dealer j's polynomial.                           *)
Decrypt(i, session, m) ==
  Minus(m.ciphertexts[i].encrypted_share, Pad(i, m.from, session, m.random_msg))

(* The share dealt by each node, the own one included.                     *)
DealtShares(i, session, own_share, received) ==
  [j \in (DOMAIN received) \cup {i} |->
     IF j = i THEN own_share ELSE Decrypt(i, session, received[j])]

(* The commitment of each node, the own one included.                      *)
Commitments(i, own_vss_commitment, received) ==
  [j \in (DOMAIN received) \cup {i} |->
     IF j = i THEN own_vss_commitment ELSE received[j].vss_commitment]

SharesOfKey(commitments) ==
  [k \in Node |->
     Total([j \in DOMAIN commitments |-> ExpectedShareCommitment(commitments[j], k)])]

KeyOf(commitments) == Total([j \in DOMAIN commitments |-> commitments[j][1]])

RoundOneForgetsOwn(i, own, received) ==   \* mutant: the key of the others
  LET commitments == Commitments(i, own.vss_commitment, received)
  IN  [public_key |-> KeyOf([j \in DOMAIN received |-> received[j].vss_commitment]),
       public_key_shares |-> SharesOfKey(commitments),
       secret_share |-> Total(DealtShares(i, "dkg", own.share, received))]
RoundOne(i, own, received) ==
  LET commitments == Commitments(i, own.vss_commitment, received)
  IN  [public_key |-> KeyOf(commitments),
       public_key_shares |-> SharesOfKey(commitments),
       secret_share |-> Total(DealtShares(i, "dkg", own.share, received))]

RoundOneRefresh(i, own, received, existing) ==
  LET commitments == Commitments(i, own.vss_commitment, received)
  IN  [public_key |-> existing.public_key,
       public_key_shares |->
         [k \in Node |-> Plus(existing.public_key_shares[k], SharesOfKey(commitments)[k])],
       secret_share |->
         Plus(existing.secret_share,
              Total(DealtShares(i, "refresh", own.share, received)))]

Complete(i, session, own, received, existing) ==
  IF session = "dkg" THEN RoundOne(i, own, received)
  ELSE RoundOneRefresh(i, own, received, existing)
=============================================================================

------------------------------- MODULE Beacon -------------------------------
(***************************************************************************)
(* The random beacon (threshold_crypto main.rs, threshold/beacon.rs, and   *)
(* the same program as golden-dkg/examples/threshold_vrf.rs): every round  *)
(* all nodes sign the round number, once with the last chained signature   *)
(* before it and once alone, and the partial signatures are combined for   *)
(* every subset of the cache.                                              *)
(*                                                                         *)
(* hash_to_g2 is a random oracle without collisions, drawn when it is      *)
(* first asked. A share may be off by an error: the cross-check of subsets *)
(* is there for it, since a completed key generation does not give one.    *)
(***************************************************************************)
EXTENDS Committee

CONSTANTS
  NumCheck,      \* --check-subsets
  VerifyEvery,   \* --verify-every, or Never
  Never,
  MaxRounds,     \* --rounds
  Draws,         \* what the coefficients are drawn from
  Faulty         \* nodes whose shares may be off

ASSUME BeaconAssumption ==
  /\ NumCheck \in Nat /\ MaxRounds \in Nat
  /\ Never \notin Nat /\ VerifyEvery \in Nat \cup {Never}
  /\ Draws \subseteq Scalar /\ Faulty \subseteq Node

VARIABLES
  error,          \* what the nodes' shares are off by
  oracle,         \* hash_to_g2, on the digests it was asked for
  prev_chained,   \* prev_chained_bytes
  rounds,         \* what each round showed, as a sequence
  exited          \* the process ended with exit(1)

beaconVars == <<error, oracle, prev_chained, rounds, exited>>

Zeros   == -1     \* vec![0u8; 128]
NoneSig == -2     \* no previous signature
Mode == {"chained", "unchained"}

KeyShareZeroBased(i) == Plus(Evaluate(poly, i - 1), error[i])   \* mutant: points count from zero
KeyShare(i) == Plus(Share(i), error[i])
Cache == LagrangeCache([i \in Node |-> i], T, NumCheck)

DigestMessage(round, prev_sig) == [round |-> round, prev |-> prev_sig]

DoVerify(round) == VerifyEvery # Never /\ (VerifyEvery = 0 \/ round % VerifyEvery = 0)

ThresholdCombineLast(hash, do_verify) ==   \* mutant: the last subset's is not compared
  LET partials == [i \in Node |-> PartialSign(hash, KeyShare(i))]
      results == [m \in DOMAIN Cache |-> CombineOne(Cache[m], partials)]
  IN  [sig |-> results[1], match |-> \A m \in 1..Len(results) - 2 : results[m] = results[m + 1],
       valid |-> do_verify => VerifySignature(hash, results[1], PublicKey)]
(* The signature of the first subset, whether all subsets agree, and whether it
   verifies; TRUE when it is not asked.                                     *)
ThresholdCombine(hash, do_verify) ==
  LET partials == [i \in Node |-> PartialSign(hash, KeyShare(i))]
      results == [m \in DOMAIN Cache |-> CombineOne(Cache[m], partials)]
  IN  [sig |-> results[1], match |-> \A m \in 1..Len(results) - 1 : results[m] = results[m + 1],
       valid |-> do_verify => VerifySignature(hash, results[1], PublicKey)]

(* What hash_to_g2 may answer, to a digest it was asked for and to another.  *)
Fresh == (1..P - 1) \ {oracle[m] : m \in DOMAIN oracle}
Answers(digest) == IF digest \in DOMAIN oracle THEN {oracle[digest]} ELSE Fresh

-----------------------------------------------------------------------------
AtRest ==   \* before the first round
  /\ oracle = [m \in {} |-> 0] /\ prev_chained = Zeros
  /\ rounds = <<>> /\ exited = FALSE

BeaconInit ==
  /\ \E secret \in Draws : poly \in NewRandom(secret, T - 1, Draws)
  /\ error \in {e \in [Node -> {0, 1}] : \A i \in Node : e[i] = 1 => i \in Faulty}
  /\ AtRest

(* One turn of main's loop, with run_round. A mismatch of subsets ends it, a
   signature that does not verify is only shown.                           *)
RunRound ==
  LET round == Len(rounds)
      chained_msg == DigestMessage(round, prev_chained)
      unchained_msg == DigestMessage(round, NoneSig)
  IN  /\ ~exited /\ round < MaxRounds
      /\ \E answers \in [{chained_msg, unchained_msg} -> Fresh] :
           LET chained == ThresholdCombine(answers[chained_msg], DoVerify(round))
               unchained == ThresholdCombine(answers[unchained_msg], DoVerify(round))
           IN  /\ chained_msg # unchained_msg => answers[chained_msg] # answers[unchained_msg]
               /\ oracle' = [m \in DOMAIN oracle \cup DOMAIN answers |->
                               IF m \in DOMAIN answers THEN answers[m] ELSE oracle[m]]
               /\ rounds' = Append(rounds, [prev |-> prev_chained, chained |-> chained,
                                            unchained |-> unchained])
               /\ prev_chained' = chained.sig
               /\ exited' = ~(chained.match /\ unchained.match)
      /\ UNCHANGED <<poly, error>>

BeaconNext == RunRound

BeaconSpec == BeaconInit /\ [][BeaconNext]_<<poly, beaconVars>>

-----------------------------------------------------------------------------
(* Beacon::new and Beacon::verify, for whoever reads a beacon: the verdicts it may
   give, one for each answer of the oracle. The randomness is left out, since
   verify does not look at it.                                              *)
BeaconNew(round, prev_sig, sig) ==
  [round |-> round, previous_signature |-> prev_sig, signature |-> sig]
DigestAnyMode(beacon, mode) ==   \* mutant: the mode is not looked at
  DigestMessage(beacon.round, beacon.previous_signature)
Digest(beacon, mode) ==
  DigestMessage(beacon.round, IF mode = "chained" THEN beacon.previous_signature ELSE NoneSig)
Verify(beacon, mode) ==
  {VerifySignature(answer, beacon.signature, PublicKey) : answer \in Answers(Digest(beacon, mode))}

Beacons(mode) ==
  {BeaconNew(k - 1, IF mode = "chained" THEN rounds[k].prev ELSE NoneSig,
             rounds[k][mode].sig) : k \in DOMAIN rounds}

Right(k, mode) ==   \* the group's signature of the round
  rounds[k][mode].sig = GroupSign(oracle[DigestMessage(k - 1,
      IF mode = "chained" THEN rounds[k].prev ELSE NoneSig)])
Off == {i \in Node : error[i] # 0}

(* Anything a reader may put together from what was signed: its parts from
   different rounds and modes, a previous signature that was never one, and the
   number of a round that is still to come.                                 *)
Signatures == {rounds[k][mode].sig : k \in DOMAIN rounds, mode \in Mode}
Mixed == {BeaconNew(n, prev, sig) :
            n \in 0..Len(rounds), prev \in Group \cup {Zeros, NoneSig}, sig \in Signatures}

(* The group signed this, for this number and this mode. Unchained is what was
   signed alone, whatever previous signature comes with it, and in chained mode
   what was signed alone and comes without one (beacon.rs:86).              *)
Signed(b, mode) ==
  \E k \in DOMAIN rounds :
    /\ b.round = k - 1
    /\ \/ /\ mode = "chained" /\ b.previous_signature = rounds[k].prev
          /\ b.signature = rounds[k].chained.sig
       \/ /\ mode = "unchained" \/ b.previous_signature = NoneSig
          /\ b.signature = rounds[k].unchained.sig

(* Without an error every round is shown valid and matching, and whoever holds
   the group key can check all of it from the beacons alone: each verifies in
   its mode, and the chain leads back from the last to the zeros.           *)
BeaconsVerify ==
  Off = {} => /\ \A mode \in Mode : \A b \in Beacons(mode) : Verify(b, mode) = {TRUE}
              /\ \A k \in DOMAIN rounds, mode \in Mode : rounds[k][mode].valid /\ rounds[k][mode].match
              /\ \A k \in DOMAIN rounds :
                   rounds[k].prev = IF k = 1 THEN Zeros ELSE rounds[k - 1].chained.sig

(* Of all mixtures, read in either mode, those verify that the group signed and no
   others: not with only the number, only the previous signature or only the
   signature of another round, and no chained one read as unchained. (The key of
   the secret 0 signs everything alike.)                                    *)
OnlySignedVerify ==
  Off = {} /\ PublicKey # Identity =>
    \A b \in Mixed, mode \in Mode : Verify(b, mode) \subseteq {Signed(b, mode)}

(* A wrong share is noticed or does no harm: if one of the checked subsets goes
   without it, the process ends before a wrong signature is chained on.     *)
FaultStopsOrHarmless ==
  (\E m \in DOMAIN Cache : DOMAIN Cache[m] \cap Off = {}) =>
    \A k \in DOMAIN rounds : (\A mode \in Mode : Right(k, mode)) \/ (exited /\ k = Len(rounds))

(* In every VerifyEvery-th round, the first one included, a wrong signature is
   shown as one, whatever the subsets say.                                 *)
VerifiedRoundsTell ==
  VerifyEvery \in Nat =>
    \A k \in DOMAIN rounds, mode \in Mode :
      (VerifyEvery = 0 \/ (k - 1) % VerifyEvery = 0) => (rounds[k][mode].valid <=> Right(k, mode))

(* beacon.rs and main.rs: without a wrong share every beacon can be checked, and
   no mixture verifies but what the group signed for the number, and for the
   previous signature where the mode and the beacon have one.               *)
BeaconsSound == BeaconsVerify /\ OnlySignedVerify
(* main.rs and its --verify-every: a wrong share ends the process or does no harm,
   and a verified round shows a wrong signature as one.                    *)
FaultsShow == FaultStopsOrHarmless /\ VerifiedRoundsTell
=============================================================================

-------------------------- MODULE VetkeyDerivation --------------------------
(***************************************************************************)
(* One vetKey for one identity (simplex-consensus engine_vetkeys.rs, and   *)
(* the same steps in safetee-demo server.rs and main.rs): a message is     *)
(* encrypted to the identity, every replica answers with an encrypted key  *)
(* share, the first T answers are combined and the recipient decrypts.     *)
(* The checks on shares are there for a replica that answers with          *)
(* something else: Faulty may change one component of its share.           *)
(***************************************************************************)
EXTENDS Ibe

CONSTANTS
  N, T,         \* the replicas, and how many shares are combined
  Identities,   \* a subset of 0..2
  Draws,        \* what random scalars are drawn from
  Faulty        \* replicas that may answer with a tampered share

(* An identifier is its own point, and H3 has nine nonzero values.          *)
ASSUME VetkeyAssumption ==
  /\ N \in Nat /\ T \in 1..N /\ N < P /\ P > 9 /\ Gen2 \in 1..P - 1
  /\ Identities \subseteq 0..2 /\ Draws \subseteq Scalar

VARIABLES
  dealt,      \* the polynomial of each dealer of the key generation
  identity, message,
  ciphertext, \* the message encrypted to the identity
  transport,  \* the recipient's transport key pair
  shares,     \* encrypted key shares, in the order of the replicas
  verified,   \* how many of them passed the pairing checks
  evk,        \* the combined encrypted vetKey, or NoEvk
  evkValid,   \* what its check says
  vetkey,     \* the decrypted vetKey, or NoKey
  recovered   \* what the recipient decrypts, or Garbled

deriveVars == <<dealt, identity, message, ciphertext, transport, shares, verified,
                evk, evkValid, vetkey, recovered>>

NoEvk == [c1 |-> Garbled, c2 |-> Garbled, c3 |-> Garbled]

(* run_dkg and bootstrap: the share of i is the sum of what it was dealt, the
   public key the sum of the dealers' constant terms.                       *)
KeyShare(i) == [id |-> i, secret |-> Total([j \in DOMAIN dealt |-> Evaluate(dealt[j], i)])]
GroupSecret == Total([j \in DOMAIN dealt |-> dealt[j][1]])
PublicKey == Exp(GroupSecret)

(* A vetKey nobody else needs: the signature of the whole group.            *)
Sigma(id) == PartialSign(HashIdentityToG2(id), GroupSecret)

(* What a replica answers: its share, or that with one component changed.   *)
Tampered(share) ==
  {[share EXCEPT !.c1 = Plus(@, Gen)], [share EXCEPT !.c2 = Plus(@, Gen2)],
   [share EXCEPT !.c3 = Plus(@, Gen2)],
   [share EXCEPT !.c1 = Plus(@, Gen), !.c2 = Plus(@, Gen2)]}
Answers(i) ==
  LET honest == {EncryptKeyShare(KeyShare(i), identity, transport.tpk, r) : r \in Draws}
  IN  honest \cup (IF i \in Faulty THEN UNION {Tampered(share) : share \in honest} ELSE {})
ShareVerifies(share) ==
  VerifyEncryptedKeyShare(share, identity, transport.tpk, Exp(KeyShare(share.signer).secret))

DeriveInit ==
  /\ \E a, b \in Draws, c \in Draws :
       dealt = [j \in 1..2 |-> IF j = 1 THEN [k \in 1..T |-> IF k = 1 THEN a ELSE c]
                                        ELSE [k \in 1..T |-> b]]
  /\ GroupSecret # 0
  /\ identity \in Identities
  /\ message \in Message
  /\ \E seed \in Seed : ciphertext = IbeEncrypt(PublicKey, identity, message, seed)
  /\ \E tsk \in Draws : transport = TransportKeygen(tsk)
  /\ shares = <<>> /\ verified = 0
  /\ evk = NoEvk /\ evkValid = FALSE
  /\ vetkey = NoKey /\ recovered = Garbled

(* Steps 2 and 3: the next replica's share is collected and checked; one that
   fails the check is counted out but stays in the list.                    *)
RequestShare ==
  /\ Len(shares) < N
  /\ \E share \in Answers(Len(shares) + 1) :
       /\ shares' = Append(shares, share)
       /\ verified' = verified + (IF ShareVerifies(share) THEN 1 ELSE 0)
  /\ UNCHANGED <<dealt, identity, message, ciphertext, transport, evk, evkValid,
                 vetkey, recovered>>

(* Step 4, whatever verified is.                                            *)
Combine ==
  /\ Len(shares) = N /\ evk = NoEvk
  /\ evk' = CombineEncryptedShares(shares, T)
  /\ evkValid' = VerifyEncryptedVetkey(evk', identity, transport.tpk, PublicKey)
  /\ UNCHANGED <<dealt, identity, message, ciphertext, transport, shares, verified,
                 vetkey, recovered>>

(* Steps 5 and 6: the ciphertext is opened only if the vetKey is good.      *)
Decrypt ==
  /\ evk # NoEvk /\ vetkey = NoKey
  /\ vetkey' = DecryptVetkey(evk, transport.tsk, identity, PublicKey)
  /\ vetkey' # NoKey
  /\ recovered' = IbeDecrypt(vetkey', ciphertext)
  /\ UNCHANGED <<dealt, identity, message, ciphertext, transport, shares, verified,
                 evk, evkValid>>

DeriveNext == RequestShare \/ Combine \/ Decrypt

DeriveSpec == DeriveInit /\ [][DeriveNext]_deriveVars

-----------------------------------------------------------------------------
(* The checks of single shares are enough: if the T shares that are combined
   passed theirs, the combined key passes its own, the recipient recovers the
   group's signature of the identity and with it the message, whatever
   randomness each replica drew.                                            *)
VerifiedSharesDecrypt ==
  (evk # NoEvk /\ \A k \in 1..T : ShareVerifies(shares[k])) =>
    /\ evkValid
    /\ DecryptVetkey(evk, transport.tsk, identity, PublicKey) = Sigma(identity)
    /\ IbeDecrypt(Sigma(identity), ciphertext) = message

(* A share that was changed in any one component, or in both copies of its
   randomness, is told apart from what an honest replica answers.           *)
TamperingDetected ==
  \A k \in DOMAIN shares :
    ShareVerifies(shares[k]) <=>
      \E r \in Scalar :
        shares[k] = EncryptKeyShare(KeyShare(k), identity, transport.tpk, r)

(* Whatever was combined, the recipient either gets nothing or the vetKey of
   the identity and the message: never another key, never another text.     *)
NeverAnotherMessage ==
  /\ vetkey \in {NoKey, Sigma(identity)}
  /\ recovered \in {Garbled, message}
  /\ vetkey # NoKey => recovered = message

(* The vetKey of one identity opens no message for another.                 *)
WrongIdentityFails ==
  vetkey # NoKey =>
    \A id \in 0..2 \ {identity}, seed \in Seed, m \in Message :
      IbeDecrypt(vetkey, IbeEncrypt(PublicKey, id, m, seed)) = Garbled

(* A ciphertext changed in any one of its parts is refused: the scalar recomputed
   from what comes off the masks no longer gives u (ibe.rs:593-599).        *)
TamperedCiphertextRejected ==
  vetkey # NoKey =>
    /\ \A u \in Group \ {ciphertext.u} :
         IbeDecrypt(vetkey, [ciphertext EXCEPT !.u = u]) = Garbled
    /\ \A seed \in Seed \ {ciphertext.v.body} :
         IbeDecrypt(vetkey, [ciphertext EXCEPT !.v.body = seed]) = Garbled
    /\ \A m \in Message \ {message} :
         IbeDecrypt(vetkey, [ciphertext EXCEPT !.w.body = m]) = Garbled

(* ibe.rs: a share passes its check exactly if an honest replica could have sent
   it, and T shares that pass give the vetKey and the message.             *)
SharesChecked == TamperingDetected /\ VerifiedSharesDecrypt

(* engine_vetkeys.rs and ibe.rs:593-599: the recipient gets the message or nothing;
   its vetKey opens nothing that was changed or is for another identity.   *)
NothingElseOpens == NeverAnotherMessage /\ WrongIdentityFails /\ TamperedCiphertextRejected
=============================================================================

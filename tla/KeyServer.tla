----------------------------- MODULE KeyServer -----------------------------
(***************************************************************************)
(* What the key server of the demo answers (safetee-demo server.rs), as    *)
(* far as its callers can tell. It runs the key generation when it starts  *)
(* and keeps the result in memory, so a key is named by the start, the     *)
(* epoch, it belongs to. By the runs of VetkeyDerivation a vetKey made in  *)
(* an epoch for a nonce and a transport key opens what was encrypted in    *)
(* that epoch to that nonce, with that transport key, and nothing else.    *)
(***************************************************************************)
EXTENDS Integers

(* The evidence of the sidecar: a TDX quote or not, a GPU or none, its
   confidential-computing mode and its model.                              *)
TeeAttestation == [tdx_quote : BOOLEAN, gpu : {"none", "other", "h100"}, cc_on : BOOLEAN]
CollectedEvidence == {att \in TeeAttestation : att.gpu = "none" => ~att.cc_on}

ChecksPassed(att) ==
  (IF att.tdx_quote THEN 1 ELSE 0)
    + (IF att.cc_on THEN 1 ELSE 0) + (IF att.gpu = "h100" THEN 1 ELSE 0)

VerifyAttestation(att) == ChecksPassed(att) >= 2

(* POST /vetkey: an error, or a vetKey encrypted to a transport key. The flag is
   off under --skip-attestation.                                           *)
VetkeyRefused(require_attestation, att) == require_attestation /\ ~VerifyAttestation(att)
PostVetkey(epoch, tpk, att) ==
  [evk |-> [epoch |-> epoch, tpk |-> tpk], attestation_verified |-> VerifyAttestation(att)]

(* GET /mpk                                                                 *)
GetMpk(epoch) == epoch

(* POST /encrypt: a frame encrypted to the nonce under the key of the epoch. *)
PostEncrypt(epoch, nonce) == [epoch |-> epoch, nonce |-> nonce]

(* decrypt_frame, and POST /decrypt with the server's own key for mpk: the
   vetKey must verify under mpk and fit the ciphertext.                     *)
Decrypts(evk, tsk, mpk, ciphertext, nonce) ==
  /\ evk.tpk = tsk
  /\ evk.epoch = mpk
  /\ ciphertext = [epoch |-> evk.epoch, nonce |-> nonce]
=============================================================================

----------------------------- MODULE SafeTeeCli -----------------------------
(***************************************************************************)
(* The key delivery by files (safetee-demo main.rs): keygen and decrypt    *)
(* run in the TEE, network runs on a local machine, and a script           *)
(* (scripts/06-e2e-demo.sh) calls them and copies their files. The TEE's   *)
(* directory outlives the scripts, and all of them use the same one.       *)
(*                                                                         *)
(* fs::write and scp truncate a file before they fill it, so a file may be *)
(* found Torn, by another script or after a crash. What a run draws at     *)
(* random is its own: numbers are named by the script that draws them.     *)
(***************************************************************************)
EXTENDS Ibe, FiniteSets

CONSTANTS
  NumScripts,   \* bound: scripts that are started; P > NumScripts + 9
  N, T,         \* --nodes, --threshold
  Concurrent    \* whether scripts may run side by side

Script == 1..NumScripts

VARIABLES
  tee,      \* the files of the TEE's artifacts directory
  local,    \* the files of each script's own directory
  script,   \* of each script: where it is, and what the command it runs has in memory
  crashed   \* history: the scripts that were killed

vars == <<tee, local, script, crashed>>

Missing == [file |-> "missing"]
Torn    == [file |-> "torn"]
Readable(f) == f.file = "whole"

TeeIdentity(s) == 0                     \* every script names the same instance
Secret(s)   == s - 1
Tsk(s)      == s + 1
KeyShare(s, i) == [id |-> i, secret |-> Evaluate([k \in 1..T |-> s + k], i)]
GroupPk(s)  == Exp(s + 1)

-----------------------------------------------------------------------------
(* The commands, apart from their files.                                    *)

(* cmd_network: key generation, encryption and the vetKey for tpk.          *)
Network(s, tpk) ==
  LET shares == [i \in 1..N |-> EncryptKeyShare(KeyShare(s, i), TeeIdentity(s), tpk, s + i)]
      evk == CombineEncryptedShares(shares, T)
  IN  [file |-> "whole", group_pk |-> GroupPk(s), identity |-> TeeIdentity(s), evk |-> evk,
       ciphertext |-> IbeEncrypt(GroupPk(s), TeeIdentity(s), Secret(s), s % 3),
       num_shares_verified |-> Cardinality({i \in 1..N :
          VerifyEncryptedKeyShare(shares[i], TeeIdentity(s), tpk, Exp(KeyShare(s, i).secret))}),
       encrypted_vetkey_valid |-> VerifyEncryptedVetkey(evk, TeeIdentity(s), tpk, GroupPk(s)),
       by |-> s, for |-> tpk]        \* history

(* cmd_decrypt                                                              *)
DecryptionResult(tsk, artifacts) ==
  LET vetkey == DecryptVetkey(artifacts.evk, tsk, artifacts.identity, artifacts.group_pk)
      secret == IF vetkey = NoKey THEN Garbled ELSE IbeDecrypt(vetkey, artifacts.ciphertext)
  IN  [file |-> "whole", identity |-> artifacts.identity, vetkey_valid |-> vetkey # NoKey,
       decrypted_secret |-> secret, success |-> secret # Garbled]

-----------------------------------------------------------------------------
Init ==
  /\ tee = [tpk |-> Missing, tsk |-> Missing, artifacts |-> Missing, result |-> Missing]
  /\ local = [s \in Script |-> [tpk |-> Missing, artifacts |-> Missing, result |-> Missing]]
  /\ script = [s \in Script |-> [pc |-> "new", open |-> FALSE, tsk |-> 0, result |-> Missing]]
  /\ crashed = {}

Running == {s \in Script : script[s].pc \notin {"new", "done", "failed"}}
At(s, pc) == script[s].pc = pc
Goto(s, pc) == script' = [script EXCEPT ![s].pc = pc]

(* keygen draws a pair, and then writes two files one after the other.      *)
Start(s) ==
  /\ At(s, "new") /\ (Concurrent \/ Running = {})
  /\ Goto(s, "write_tpk")
  /\ UNCHANGED <<tee, local, crashed>>

(* A step that writes a file of the TEE: which, what, and what comes next.  *)
Writing == [write_tpk |-> "tpk", write_tsk |-> "tsk", send_artifacts |-> "artifacts",
            write_result |-> "result"]
Contents(s) ==
  CASE At(s, "write_tpk")      -> [file |-> "whole", tpk |-> TransportKeygen(Tsk(s)).tpk]
    [] At(s, "write_tsk")      -> [file |-> "whole", tsk |-> Tsk(s)]
    [] At(s, "send_artifacts") -> local[s].artifacts
    [] At(s, "write_result")   -> script[s].result
(* decrypt writes its result and then exits with 1 if it failed, which ends
   the script.                                                             *)
AfterWrite(s) ==
  CASE At(s, "write_tpk")      -> "write_tsk"
    [] At(s, "write_tsk")      -> "copy_tpk"
    [] At(s, "send_artifacts") -> "read_tsk"
    [] At(s, "write_result")   -> IF script[s].result.success THEN "fetch_result" ELSE "failed"

OpenFileKeeping(s) ==   \* mutant: a file that is there is kept
  /\ script[s].pc \in DOMAIN Writing /\ ~script[s].open
  /\ IF Readable(tee[Writing[script[s].pc]])
     THEN script' = [script EXCEPT ![s].pc = AfterWrite(s)] /\ tee' = tee
     ELSE /\ tee' = [tee EXCEPT ![Writing[script[s].pc]] = Torn]
          /\ script' = [script EXCEPT ![s].open = TRUE]
  /\ UNCHANGED <<local, crashed>>
OpenFile(s) ==
  /\ script[s].pc \in DOMAIN Writing /\ ~script[s].open
  /\ tee' = [tee EXCEPT ![Writing[script[s].pc]] = Torn]
  /\ script' = [script EXCEPT ![s].open = TRUE]
  /\ UNCHANGED <<local, crashed>>

FillFile(s) ==
  /\ script[s].pc \in DOMAIN Writing /\ script[s].open
  /\ tee' = [tee EXCEPT ![Writing[script[s].pc]] = Contents(s)]
  /\ script' = [script EXCEPT ![s].open = FALSE, ![s].pc = AfterWrite(s)]
  /\ UNCHANGED <<local, crashed>>

CopyTpk(s) ==
  /\ At(s, "copy_tpk")
  /\ local' = [local EXCEPT ![s].tpk = tee.tpk]
  /\ Goto(s, "network")
  /\ UNCHANGED <<tee, crashed>>

RunNetwork(s) ==
  /\ At(s, "network")
  /\ IF Readable(local[s].tpk)
     THEN /\ local' = [local EXCEPT ![s].artifacts = Network(s, local[s].tpk.tpk)]
          /\ Goto(s, "send_artifacts")
     ELSE Goto(s, "failed") /\ local' = local
  /\ UNCHANGED <<tee, crashed>>

ReadTsk(s) ==
  /\ At(s, "read_tsk")
  /\ IF Readable(tee.tsk)
     THEN script' = [script EXCEPT ![s].tsk = tee.tsk.tsk, ![s].pc = "read_artifacts"]
     ELSE Goto(s, "failed")
  /\ UNCHANGED <<tee, local, crashed>>

ReadArtifacts(s) ==
  /\ At(s, "read_artifacts")
  /\ IF Readable(tee.artifacts)
     THEN script' = [script EXCEPT ![s].result = DecryptionResult(script[s].tsk, tee.artifacts),
                                   ![s].pc = "write_result"]
     ELSE Goto(s, "failed")
  /\ UNCHANGED <<tee, local, crashed>>

(* The script goes on when this copy fails.                                 *)
FetchResult(s) ==
  /\ At(s, "fetch_result")
  /\ local' = [local EXCEPT ![s].result = tee.result] \/ local' = local
  /\ Goto(s, "done")
  /\ UNCHANGED <<tee, crashed>>

(* The script or the command it runs is killed; files stay as they are.     *)
Crash(s) ==
  /\ s \in Running
  /\ script' = [script EXCEPT ![s].pc = "failed"]
  /\ crashed' = crashed \cup {s}
  /\ UNCHANGED <<tee, local>>

Next == \E s \in Script :
  Start(s) \/ OpenFile(s) \/ FillFile(s) \/ CopyTpk(s) \/ RunNetwork(s) \/ ReadTsk(s)
    \/ ReadArtifacts(s) \/ FetchResult(s) \/ Crash(s)

Spec == Init /\ [][Next]_vars

-----------------------------------------------------------------------------
(* The artifacts that lie in the TEE and the secret key a script has read may
   come from different scripts. Decryption succeeds exactly when the key is the
   one the artifacts were made for, and then with their secret: never with
   another one (main.rs:322-354).                                          *)
DecryptionSound ==
  \A s \in Script : ReadArtifacts(s) /\ Readable(tee.artifacts) =>
    LET result == script'[s].result
        fits == Exp2(script[s].tsk) = tee.artifacts.for
    IN  /\ (result.vetkey_valid <=> fits) /\ (result.success <=> fits)
        /\ fits => result.decrypted_secret = Secret(tee.artifacts.by)

(* One script after the other: whatever killed scripts left in the TEE, torn
   files, half a key pair or old artifacts, a script fails only if it is killed. *)
LeftoversHarmless ==
  ~Concurrent => \A s \in Script : At(s, "failed") => s \in crashed

(* One script after the other: the result a script brings home is of its own
   secret, never what an earlier one left.                                 *)
DeliveredOwn ==
  ~Concurrent => \A s \in Script : At(s, "done") /\ Readable(local[s].result) =>
    local[s].result.decrypted_secret = Secret(s)
=============================================================================

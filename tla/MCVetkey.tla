------------------------------ MODULE MCVetkey ------------------------------
(***************************************************************************)
(* The programs that derive a vetKey: from replicas of which one tampers,  *)
(* and by the files of the TEE demo, its scripts one after the other with  *)
(* crashes or side by side. A behaviour is one of the program chosen at    *)
(* the start; the derivation is on the instance of the configuration, the  *)
(* scripts on those given here.                                            *)
(***************************************************************************)
EXTENDS VetkeyDerivation

VARIABLES
  program,
  tee, local, script, crashed   \* SafeTeeCli

CONSTANT Idle

cliVars == <<tee, local, script, crashed>>
mcVars == <<program, deriveVars, cliVars>>

(* TLC evaluates what an extended module makes of the constants once and for all,
   unless the module is instantiated by name. Shamir is meant for both fields. *)
Field == INSTANCE Shamir WITH P <- 13
Serial == INSTANCE SafeTeeCli WITH P <- 13, NumScripts <- 3, Concurrent <- FALSE
SideBySide == INSTANCE SafeTeeCli WITH P <- 13, NumScripts <- 2, Concurrent <- TRUE

NoVetkey ==
  /\ dealt = [j \in 1..2 |-> [k \in 1..T |-> 1]]
  /\ identity = 0 /\ message = 0 /\ ciphertext = IbeEncrypt(PublicKey, 0, 0, 0)
  /\ transport = TransportKeygen(1) /\ shares = <<>> /\ verified = 0
  /\ evk = NoEvk /\ evkValid = FALSE /\ vetkey = NoKey /\ recovered = Garbled
NoCli == tee = Idle /\ local = Idle /\ script = Idle /\ crashed = Idle

MCInit ==
  \/ program = "derivation" /\ DeriveInit /\ NoCli
  \/ program = "serial" /\ Serial!Init /\ NoVetkey
  \/ program = "side by side" /\ SideBySide!Init /\ NoVetkey

MCNext ==
  /\ UNCHANGED program
  /\ \/ program = "derivation" /\ DeriveNext /\ UNCHANGED cliVars
     \/ program = "serial" /\ Serial!Next /\ UNCHANGED deriveVars
     \/ program = "side by side" /\ SideBySide!Next /\ UNCHANGED deriveVars

MCSpec == MCInit /\ [][MCNext]_mcVars

-----------------------------------------------------------------------------
(* safetee-demo main.rs and 06-e2e-demo.sh. One after the other, scripts are not
   harmed by what dead ones left and bring home the result of their own secret.
   Side by side, decryption succeeds exactly with the key the artifacts were made
   for, whichever scripts the two come from (main.rs:322-354).             *)
FilesSound ==
  /\ [](program = "serial" => Serial!LeftoversHarmless /\ Serial!DeliveredOwn)
  /\ [][program = "side by side" => SideBySide!DecryptionSound]_mcVars
=============================================================================

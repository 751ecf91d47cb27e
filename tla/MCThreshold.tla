----------------------------- MODULE MCThreshold -----------------------------
(***************************************************************************)
(* The programs that combine signatures: a key shared among a committee and *)
(* the loop of the beacon. A behaviour is one of the program chosen at the *)
(* start, while the other is at rest: signing takes every polynomial and   *)
(* every order of signatures, and the beacon every hash of its digests.    *)
(***************************************************************************)
EXTENDS ThresholdSigning, Beacon

VARIABLE program

mcVars == <<program, vars, beaconVars>>

NoFault   == error = [i \in Node |-> 0]
NoSigning == hash = 1 /\ partials = <<>>

MCInit ==
  \/ program = "signing" /\ Init /\ NoFault /\ AtRest
  \/ program = "beacon" /\ BeaconInit /\ NoSigning

MCNext ==
  /\ UNCHANGED program
  /\ \/ program = "signing" /\ Next /\ UNCHANGED beaconVars
     \/ program = "beacon" /\ BeaconNext /\ UNCHANGED vars

MCSpec == MCInit /\ [][MCNext]_mcVars
=============================================================================

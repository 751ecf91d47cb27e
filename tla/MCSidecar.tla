------------------------------ MODULE MCSidecar ------------------------------
(***************************************************************************)
(* Constants for the run of Sidecar.                                       *)
(***************************************************************************)
EXTENDS Sidecar

(* Evidence that passes two checks of three, and evidence that passes one. *)
MCAccepted == [tdx_quote |-> TRUE, gpu |-> "h100", cc_on |-> FALSE]
MCTooLittle == [tdx_quote |-> FALSE, gpu |-> "h100", cc_on |-> FALSE]

MCFirst == CHOOSE pk \in Pk : TRUE
MCFrames(n, others) == [pk \in Pk |-> IF pk = MCFirst THEN n ELSE others]

(* Two clients and two slots, in which calls fail.                         *)
MCParallel ==
  [frames |-> MCFrames(2, 1), runs |-> 1, epochs |-> 1, infers |-> 0, ages |-> FALSE,
   batch_size |-> 2, can_fail |-> TRUE, require_attestation |-> FALSE, evidence |-> {MCTooLittle}]

(* Two clients and one slot, in which calls fail or do not.                *)
MCSerial == [MCParallel EXCEPT !.batch_size = 1, !.frames = MCFrames(2, 2)]
MCSmooth == [MCSerial EXCEPT !.can_fail = FALSE]

(* One client that comes back, sessions that age, and a key server that wants the
   attestation and starts anew; and one client that calls /infer as well.   *)
MCReturning ==
  [MCSmooth EXCEPT !.frames = MCFrames(1, 0), !.runs = 2, !.epochs = 2, !.ages = TRUE,
                   !.require_attestation = TRUE, !.evidence = {MCAccepted, MCTooLittle}]
MCInfer == [MCReturning EXCEPT !.runs = 1, !.infers = 1, !.ages = FALSE]

MCSetups == {MCParallel, MCSerial, MCSmooth, MCReturning, MCInfer}
=============================================================================

-------------------------------- MODULE MCDkg --------------------------------
(***************************************************************************)
(* Constants for the runs of DkgDemo.                                      *)
(***************************************************************************)
EXTENDS DkgDemo

(* Different keys for the nodes, and new ones for the refresh.             *)
MCIdentityKey(i, s) == IF s = "dkg" THEN i ELSE (2 * i) % P

(* A hash of the shared key and the message that depends on both.          *)
MCPadHash(k, msg) == (k * k + 3 * k + msg) % P

(* The first node draws one of two scalars for each coefficient, and the others
   one that differs from node to node: no two dealings need be alike.      *)
MCDraws(i) == IF i = 1 THEN {0, 3} ELSE {i}
=============================================================================

----------------------------- MODULE Committee ------------------------------
(***************************************************************************)
(* A committee that shares a key by a polynomial (golden-dkg/src/vss.rs,   *)
(* shamir.rs): what the programs that combine signatures start from.       *)
(***************************************************************************)
EXTENDS Shamir, FiniteSets

CONSTANTS N, T

(* A quorum is of members, and an identifier is its own point, none of them 0. *)
ASSUME CommitteeAssumption == N \in Nat /\ T \in 1..N /\ N < P

VARIABLE poly   \* the coefficients of the sharing polynomial

Node == 1..N
Share(i) == GenerateShares(poly, N)[i]
PublicKey == Exp(poly[1])
GroupSign(hash) == PartialSign(hash, poly[1])
=============================================================================

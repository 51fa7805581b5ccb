----------------------------- MODULE MC_Payments -----------------------------
(* Payments for TLC.  Hashes play symmetric parts.                          *)
EXTENDS Payments, TLC

Symmetry == Permutations(OutHashes)
=============================================================================

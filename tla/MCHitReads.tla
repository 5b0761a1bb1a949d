----------------------------- MODULE MCHitReads -----------------------------
(* Instances of HitReads for TLC.  With a cap of one, two connections let a *)
(* bin hold two hits, which is as many pages; three Ingests are one more    *)
(* than cap and overshoot allow.                                            *)
EXTENDS HitReads, TLC

CONSTANTS h1, h2, h3, clear, drop

Symmetry == Permutations(Ingests)
=============================================================================

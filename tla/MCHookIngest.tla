---------------------------- MODULE MCHookIngest ----------------------------
(* Instances of HookIngest for TLC: two workers, each with a request to the *)
(* hook or of the owner, and a window that lets one request through.        *)
EXTENDS HookIngest, TLC

CONSTANTS w1, w2, u1, u2, b1

Symmetry == Permutations(Workers)
=============================================================================

----------------------------- MODULE MCAccounts -----------------------------
(* An instance of Accounts for TLC.  Two browsers and two sign-ins cover     *)
(* two tabs of one browser and one tab of each; two calls, every overlap.    *)
EXTENDS Accounts, TLC

CONSTANTS u1, u2, b1, b2, f1, f2, c1, c2

Symmetry == Permutations(Users) \union Permutations(Browsers)
              \union Permutations(Flows) \union Permutations(Calls)
=============================================================================

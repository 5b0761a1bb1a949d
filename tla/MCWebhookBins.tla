--------------------------- MODULE MCWebhookBins ---------------------------
(* Instances of WebhookBins for TLC.  Two workers overlap every two calls;  *)
(* with a limit of one bin, a life of one tick and a timeout of one tick,   *)
(* bins fill the limit, expire and are replaced while calls are under way.  *)
EXTENDS WebhookBins, TLC

CONSTANTS w1, w2, u1, u2, b1, b2, b3

Symmetry == Permutations(Workers) \union Permutations(Users) \union Permutations(Ids)
=============================================================================

-------------------------- MODULE MCServerLifecycle --------------------------
(* Instances of ServerLifecycle for TLC: two visits, whose goroutines meet  *)
(* the closing pool, a request that ends, and one that need not.            *)
EXTENDS ServerLifecycle

CONSTANTS visit1, visit2, request, smtp
=============================================================================

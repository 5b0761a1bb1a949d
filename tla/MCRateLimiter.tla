--------------------------- MODULE MCRateLimiter ---------------------------
(* Instances of RateLimiter for TLC.  Two callers meet in every overlap of  *)
(* the three commands; the third is refused, or opens the next window,      *)
(* meanwhile.  Keys do not influence each other, so one is enough.          *)
EXTENDS RateLimiter

CONSTANTS c1, c2, c3, k1
=============================================================================

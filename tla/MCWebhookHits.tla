--------------------------- MODULE MCWebhookHits ---------------------------
(* Instances of WebhookHits for TLC.  With a cap of one hit the third       *)
(* Ingest trims two rows, which ClearHits and Delete come to in any order; *)
(* three connections let any three of the five requests overlap.           *)
EXTENDS WebhookHits

CONSTANTS h1, h2, h3, clear, drop
=============================================================================

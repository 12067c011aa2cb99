----------------------------- MODULE MCPipeline -----------------------------
(***************************************************************************)
(* Small instance: three creations, two workers, channels of one place     *)
(* (two for the intents), a retry, backoffs of one and two seconds, and a  *)
(* second each for a stall and for the age of an intent.                   *)
(***************************************************************************)
EXTENDS Pipeline

=============================================================================

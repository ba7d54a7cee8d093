--------------------------- MODULE MCRetryBackoff ---------------------------
(* Small instances of RetryBackoff for TLC. *)
EXTENDS RetryBackoff
=============================================================================

--------------------------- MODULE MCSearchBatch ---------------------------
(* Small instances of SearchBatch for TLC. *)
EXTENDS SearchBatch
=============================================================================

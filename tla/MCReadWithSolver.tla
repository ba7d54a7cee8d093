-------------------------- MODULE MCReadWithSolver --------------------------
(* Small instance of ReadWithSolver for TLC: two pages of a listing before   *)
(* the cap is reached, and more comments than the limits keep.               *)
EXTENDS ReadWithSolver
=============================================================================

---------------------------- MODULE MCAnubisPoW ----------------------------
(* Small instances of AnubisPoW for TLC. *)
EXTENDS AnubisPoW
=============================================================================

------------------------- MODULE MCBrowserTransport -------------------------
(* Small instance of BrowserTransport for TLC. *)
EXTENDS BrowserTransport
=============================================================================

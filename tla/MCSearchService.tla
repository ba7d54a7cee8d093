-------------------------- MODULE MCSearchService --------------------------
(* Small instances of SearchService for TLC. *)
EXTENDS SearchService

ThreeNames == <<"bing", "duckduckgo", "yahoo">>
=============================================================================

-------------------------- MODULE MCProviderSearch --------------------------
(* Small instance of ProviderSearch for TLC. *)
EXTENDS ProviderSearch

\* One call to any backend, or two to Stack Exchange.
Alone(p) == [c \in Calls |-> IF c = "c1" THEN p ELSE "none"]
OneOrTwo == {Alone(p) : p \in Providers} \cup {[c \in Calls |-> "stackexchange"]}

\* u and u2 differ in what NormalizeResultURL removes.
Normalized == [x \in Urls |-> IF x = "u2" THEN "u" ELSE x]
=============================================================================

----------------------------- MODULE MachineInt -----------------------------
(* Go's int and time.Duration: two's complement integers of Width bits. *)
EXTENDS Integers

CONSTANT Width   \* 64 in Go

ASSUME WidthAssumption == Width \in Nat \ {0, 1}

MaxInt == 2^(Width - 1) - 1

Ints == -MaxInt - 1 .. MaxInt

\* The result of an operation whose exact value is n.
Wrap(n) == ((n + MaxInt + 1) % 2^Width) - MaxInt - 1
=============================================================================

----------------------------- MODULE RetryDelay -----------------------------
(***************************************************************************)
(* The delay between two attempts of RetryProvider (retry.go): backoff's   *)
(* doubling, fullJitter, and the Retry-After override of Search, on        *)
(* durations that overflow.                                                *)
(***************************************************************************)
EXTENDS MachineInt, FiniteSetsExt

CONSTANTS
    Second,        \* time.Second
    RetryAfterCap  \* maxRetryAfterWait

\* The cap is a Duration.
ASSUME DelayAssumption == RetryAfterCap \in 1 .. MaxInt /\ Second \in Nat \ {0}

\* A Retry-After header: absent or unparseable, a number of seconds (an int,
\* larger ones are unparseable), or a date n from now.
Headers == [kind : {"none", "seconds", "date"}, n : Int]

\* ParseRetryAfter, 0 if there is no hint: the product is not checked and may
\* wrap, the difference of two times saturates (time.Time.Sub).
ParseRetryAfter(header) ==
    CASE header.kind = "seconds" /\ header.n > 0 -> Wrap(header.n * Second)
      [] header.kind = "date" /\ header.n > 0 -> Min({header.n, MaxInt})
      [] OTHER -> 0

\* Mutant: the doubling is not guarded against overflow.
exponential_Unguarded(base, attempt) ==
    LET f[i \in 0 .. attempt] == IF i = 0 THEN base ELSE Wrap(2 * f[i - 1])
    IN  f[attempt]

\* backoff's loop: double until the attempt index or an overflow.
exponential(base, attempt) ==
    LET f[i \in 0 .. attempt] ==
        IF i = 0 THEN base
        ELSE LET next == Wrap(2 * f[i - 1])
             IN  IF next < f[i - 1] THEN f[i - 1] ELSE next
    IN  f[attempt]

\* The delays fullJitter may return for d.
fullJitter(d) ==
    IF d <= 0 THEN {0}
    ELSE LET half == d \div 2 IN {half + n : n \in 0 .. (d - half)}

\* What Search may sleep after an error that advised `advised`.
delays(base, attempt, advised) ==
    IF advised > 0 THEN {Min({advised, RetryAfterCap})}
    ELSE fullJitter(exponential(base, attempt))

-----------------------------------------------------------------------------
(* The documented delay, in exact arithmetic.                              *)

\* The wait the server asks for, however long; 0 if it asks for none.
asked(header) ==
    CASE header.kind = "seconds" /\ header.n > 0 -> header.n * Second
      [] header.kind = "date" /\ header.n > 0 -> header.n
      [] OTHER -> 0

\* Its wait can be told as a Duration; a date beyond all Durations is the
\* longest one.
tellable(header) == header.kind = "date" \/ asked(header) <= MaxInt

\* Between half of and all of base * 2^attempt, the doubling stopping at the
\* last value a Duration can hold.
guess(base, attempt) ==
    LET d == Max({base * 2^i : i \in 0 .. attempt} \cap (1 .. MaxInt))
    IN  (d \div 2) .. d

\* What the server asks for, up to the cap, otherwise the guess.
documented(base, attempt, header) ==
    IF asked(header) > 0 THEN {Min({asked(header), RetryAfterCap})} ELSE guess(base, attempt)
=============================================================================

--------------------------- MODULE PureCallsProofs ---------------------------
(***************************************************************************)
(* Two of the pure functions, for texts, lengths and words of any size:    *)
(* the delay of a retry is the documented one whatever overflows, and a    *)
(* text read in chunks is the whole text. Every loop is a recursive        *)
(* function; the least step that goes wrong stands in for induction.       *)
(***************************************************************************)
EXTENDS PureCalls, FiniteSetTheorems, FunctionTheorems, SequenceTheorems, TLAPS

LEMMA LeastNumber ==
    ASSUME NEW S \in SUBSET Nat, S # {}
    PROVE  \E m \in S : \A k \in S : m <= k
<1>1. IsWellFoundedOn(OpToRel(<, Nat), Nat)
    BY NatLessThanWellFounded
<1>2. PICK m \in S : \A k \in S : ~ (<<k, m>> \in OpToRel(<, Nat))
    BY <1>1, WFMin, Zenon
<1>3. \A k \in S : ~(k < m)
    BY <1>2 DEF OpToRel
<1> QED BY <1>3

LEMMA UpTo ==
    ASSUME NEW n \in Nat, NEW S \in SUBSET Nat, 0 \in S,
           \A i \in 1 .. n : i - 1 \in S => i \in S
    PROVE  \A i \in 0 .. n : i \in S
<1> SUFFICES ASSUME NEW i \in 0 .. n, i \notin S PROVE FALSE
    OBVIOUS
<1> DEFINE Out == {j \in 0 .. n : j \notin S}
<1>1. Out \in SUBSET Nat /\ Out # {}
    OBVIOUS
<1>2. PICK j \in Out : \A k \in Out : j <= k
    <2> HIDE DEF Out
    <2> QED BY <1>1, LeastNumber
<1>3. j \in 1 .. n /\ j - 1 \in 0 .. n /\ j - 1 \notin Out
    BY <1>2
<1> QED BY <1>2, <1>3

Repeats(f, n, T, first, G) ==
    f \in [0 .. n -> T] /\ f[0] = first /\ \A i \in 1 .. n : f[i] = G[i][f[i - 1]]

\* A step that is known for every value of T has a function that repeats it.
LEMMA Recursion ==
    ASSUME NEW n \in Nat, NEW T, NEW first \in T, NEW G \in [1 .. n -> [T -> T]]
    PROVE  \E f : Repeats(f, n, T, first, G)
<1> DEFINE Has(m) == \E f \in [0 .. m -> T] :
                        f[0] = first /\ \A i \in 1 .. m : f[i] = G[i][f[i - 1]]
           S == {m \in 0 .. n : Has(m)}
<1>1. 0 \in S
    <2> DEFINE f == [i \in 0 .. 0 |-> first]
    <2>1. f \in [0 .. 0 -> T] /\ f[0] = first
        OBVIOUS
    <2> HIDE DEF f
    <2>2. Has(0)
        BY <2>1
    <2> HIDE DEF Has
    <2> QED BY <2>2
<1>2. ASSUME NEW m \in 1 .. n, m - 1 \in S PROVE m \in S
    <2>1. PICK f \in [0 .. m - 1 -> T] :
                 f[0] = first /\ \A i \in 1 .. m - 1 : f[i] = G[i][f[i - 1]]
        BY <1>2
    <2> DEFINE g == [i \in 0 .. m |-> IF i = m THEN G[m][f[m - 1]] ELSE f[i]]
    <2>2. m - 1 \in 0 .. m - 1 /\ f[m - 1] \in T /\ G[m][f[m - 1]] \in T
        OBVIOUS
    <2>3. g \in [0 .. m -> T]
        BY <2>2
    <2>4. g[0] = first
        BY <2>1
    <2>5. \A i \in 1 .. m : g[i] = G[i][g[i - 1]]
        <3> SUFFICES ASSUME NEW i \in 1 .. m PROVE g[i] = G[i][g[i - 1]]
            OBVIOUS
        <3>1. g[i - 1] = f[i - 1]
            OBVIOUS
        <3>2. i = m => g[i] = G[m][f[m - 1]]
            OBVIOUS
        <3>3. i # m => i \in 1 .. m - 1 /\ g[i] = f[i]
            OBVIOUS
        <3> HIDE DEF g
        <3> QED BY <2>1, <3>1, <3>2, <3>3
    <2> HIDE DEF g
    <2>6. Has(m)
        BY <2>3, <2>4, <2>5
    <2> HIDE DEF Has
    <2> QED BY <2>6
<1>3. S \in SUBSET Nat
    OBVIOUS
<1> HIDE DEF S
<1>4. \A i \in 0 .. n : i \in S
    BY <1>1, <1>2, <1>3, UpTo
<1>5. n \in S
    BY <1>4
<1> QED BY <1>5 DEF S, Repeats

-----------------------------------------------------------------------------
(* Machine words.                                                          *)

LEMMA PowersOfTwo ==
    ASSUME NEW n \in Nat
    PROVE  2^0 = 1 /\ 2^n \in Nat \ {0} /\ 2^(n + 1) = 2 * 2^n
<1> DEFINE Subsets == SUBSET (1 .. n)
           Others == {X \cup {n + 1} : X \in Subsets}
<1>1. \A m \in Nat : IsFiniteSet(1 .. m) /\ Cardinality(1 .. m) = m
    BY FS_Interval
<1>2. \A m \in Nat : /\ IsFiniteSet(SUBSET (1 .. m)) /\ 2^m \in Nat
                     /\ Cardinality(SUBSET (1 .. m)) = 2^m
    <2> SUFFICES ASSUME NEW m \in Nat
                 PROVE  /\ IsFiniteSet(SUBSET (1 .. m)) /\ 2^m \in Nat
                        /\ Cardinality(SUBSET (1 .. m)) = 2^m
        OBVIOUS
    <2> DEFINE I == 1 .. m
    <2>1. IsFiniteSet(I) /\ Cardinality(I) = m
        BY <1>1
    <2> HIDE DEF I, Subsets, Others
    <2>2. IsFiniteSet(SUBSET I) /\ Cardinality(SUBSET I) = 2^m
        BY <2>1, FS_SUBSET
    <2>3. Cardinality(SUBSET I) \in Nat
        BY <2>2, FS_CardinalityType
    <2> QED BY <2>2, <2>3 DEF I
<1>3. 2^0 = 1
    <2>1. SUBSET (1 .. 0) = {{}}
        OBVIOUS
    <2>2. Cardinality({{}}) = 1
        BY FS_Singleton
    <2> QED BY <1>2, <2>1, <2>2
<1>4. IsFiniteSet(Others) /\ Cardinality(Others) = 2^n
    <2> DEFINE f == [X \in Subsets |-> X \cup {n + 1}]
    <2>1. f \in [Subsets -> Others]
        OBVIOUS
    <2>2. \A X \in Subsets : n + 1 \notin X
        OBVIOUS
    <2>3. \A X, Y \in Subsets : f[X] = f[Y] => X = Y
        BY <2>2
    <2>4. \A Z \in Others : \E X \in Subsets : f[X] = Z
        OBVIOUS
    <2>5. ExistsBijection(Subsets, Others)
        <3> HIDE DEF f, Subsets, Others
        <3> QED BY <2>1, <2>3, <2>4 DEF ExistsBijection, Bijection, Injection, Surjection, IsInjective
    <2> QED BY <1>2, <2>5, FS_Bijection
<1>5. SUBSET (1 .. n + 1) = Subsets \cup Others /\ Subsets \cap Others = {}
    <2>1. ASSUME NEW Z \in SUBSET (1 .. n + 1), n + 1 \in Z PROVE Z \in Others
        <3>1. Z \ {n + 1} \in Subsets /\ Z = (Z \ {n + 1}) \cup {n + 1}
            BY <2>1
        <3> QED BY <3>1
    <2>2. ASSUME NEW Z \in SUBSET (1 .. n + 1), n + 1 \notin Z PROVE Z \in Subsets
        BY <2>2
    <2>3. \A Z \in Subsets : Z \in SUBSET (1 .. n + 1) /\ n + 1 \notin Z
        OBVIOUS
    <2>4. ASSUME NEW Z \in Others PROVE Z \in SUBSET (1 .. n + 1) /\ n + 1 \in Z
        <3>1. PICK X \in Subsets : Z = X \cup {n + 1}
            OBVIOUS
        <3>2. X \in SUBSET (1 .. n + 1)
            BY <2>3
        <3> HIDE DEF Subsets, Others
        <3> QED BY <3>1, <3>2
    <2> HIDE DEF Subsets, Others
    <2> QED BY <2>1, <2>2, <2>3, <2>4
<1>6. 2^(n + 1) = 2^n + 2^n
    <2>1. /\ IsFiniteSet(Subsets) /\ Cardinality(Subsets) = 2^n /\ 2^n \in Nat
          /\ Cardinality(Subsets \cup Others) = 2^(n + 1)
        <3>1. n + 1 \in Nat
            OBVIOUS
        <3>2. Cardinality(SUBSET (1 .. n + 1)) = 2^(n + 1)
            BY <1>2, <3>1
        <3> QED BY <1>2, <1>5, <3>2
    <2> HIDE DEF Subsets, Others
    <2>2. Cardinality(Subsets \cap Others) = 0
        BY <1>5, FS_EmptySet
    <2>3. Cardinality(Subsets \cup Others) =
              Cardinality(Subsets) + Cardinality(Others) - Cardinality(Subsets \cap Others)
        BY <1>4, <2>1, FS_Union
    <2> QED BY <1>4, <2>1, <2>2, <2>3
<1>7. 2^n # 0
    <2>1. {} \in Subsets /\ IsFiniteSet(Subsets) /\ Cardinality(Subsets) = 2^n
        BY <1>2
    <2> HIDE DEF Subsets
    <2> QED BY <2>1, FS_EmptySet
<1>8. 2^n \in Nat
    BY <1>2
<1> QED BY <1>3, <1>6, <1>7, <1>8

LEMMA MachineWord ==
    MaxInt \in Nat \ {0} /\ 2^Width = 2 * (MaxInt + 1)
<1>1. Width - 1 \in Nat \ {0} /\ Width - 2 \in Nat /\ (Width - 1) + 1 = Width /\ (Width - 2) + 1 = Width - 1
    BY WidthAssumption
<1>2. 2^(Width - 1) = 2 * 2^(Width - 2) /\ 2^(Width - 2) \in Nat \ {0}
    BY <1>1, PowersOfTwo
<1>3. 2^Width = 2 * 2^(Width - 1)
    BY <1>1, PowersOfTwo
<1> QED BY <1>2, <1>3 DEF MaxInt

LEMMA WrapIs ==
    ASSUME NEW n \in Int
    PROVE  /\ Wrap(n) \in -MaxInt - 1 .. MaxInt
           /\ n \in -MaxInt - 1 .. MaxInt => Wrap(n) = n
           /\ n \in MaxInt + 1 .. 2 * MaxInt => Wrap(n) < 0
<1> DEFINE M == MaxInt
           w == 2^Width
           a == n + M + 1
<1>1. M \in Nat /\ w \in Nat /\ w = 2 * (M + 1) /\ a \in Int /\ Wrap(n) = (a % w) - M - 1
    BY MachineWord DEF Wrap
<1> HIDE DEF M, w
<1>2. a % w \in 0 .. w - 1
    BY <1>1
<1>3. 0 <= a /\ a < w => a % w = a
    BY <1>1
<1>4. w <= a /\ a < 2 * w => a % w = a - w
    BY <1>1
<1>5. Wrap(n) \in -M - 1 .. M
    BY <1>1, <1>2
<1>6. n \in -M - 1 .. M => Wrap(n) = n
    BY <1>1, <1>3
<1>7. n \in M + 1 .. 2 * M => Wrap(n) < 0
    BY <1>1, <1>4
<1> QED BY <1>5, <1>6, <1>7 DEF M

-----------------------------------------------------------------------------
\* The last value of base, 2 * base, 4 * base ... up to the i-th that fits.
IsCapped(base, i, e) ==
    /\ e \in 1 .. MaxInt
    /\ \E k \in 0 .. i : e = base * 2^k
    /\ \A k \in 0 .. i : base * 2^k <= MaxInt => base * 2^k <= e
    /\ base * 2^i = e \/ (2 * e > MaxInt /\ base * 2^i >= e)

Doubled(e) == LET twice == Wrap(2 * e) IN IF twice < e THEN e ELSE twice

LEMMA DoubledIs ==
    ASSUME NEW e \in 1 .. MaxInt
    PROVE  Doubled(e) = IF 2 * e <= MaxInt THEN 2 * e ELSE e
<1>1. MaxInt \in Nat /\ 2 * e \in Int
    BY MachineWord
<1>2. CASE 2 * e <= MaxInt
    <2>1. Wrap(2 * e) = 2 * e
        BY <1>1, <1>2, WrapIs
    <2> QED BY <1>1, <1>2, <2>1 DEF Doubled
<1>3. CASE 2 * e > MaxInt
    <2>1. Wrap(2 * e) < 0 /\ Wrap(2 * e) \in Int
        BY <1>1, <1>3, WrapIs
    <2> QED BY <1>1, <1>3, <2>1 DEF Doubled
<1> QED BY <1>1, <1>2, <1>3

LEMMA CappedOnce ==
    ASSUME NEW base, NEW i \in Nat, NEW d, NEW e, IsCapped(base, i, d), IsCapped(base, i, e)
    PROVE  d = e
BY MachineWord DEF IsCapped

LEMMA CappedDoubles ==
    ASSUME NEW base \in 1 .. MaxInt, NEW i \in Nat, NEW e, IsCapped(base, i, e)
    PROVE  IsCapped(base, i + 1, Doubled(e))
<1> DEFINE p == base * 2^i
           q == base * 2^(i + 1)
<1>1. base \in Nat /\ 2^i \in Nat /\ 2^(i + 1) = 2 * 2^i
    BY MachineWord, PowersOfTwo
<1>2. p \in Nat /\ q = 2 * p
    BY <1>1
<1>3. e \in 1 .. MaxInt /\ MaxInt \in Nat
    BY MachineWord DEF IsCapped
<1>4. Doubled(e) = IF 2 * e <= MaxInt THEN 2 * e ELSE e
    BY <1>3, DoubledIs
<1>5. p = e \/ (2 * e > MaxInt /\ p >= e)
    BY DEF IsCapped
<1> HIDE DEF p, q
<1>6. q = Doubled(e) \/ (2 * Doubled(e) > MaxInt /\ q >= Doubled(e))
    BY <1>2, <1>3, <1>4, <1>5
<1>7. \E k \in 0 .. i + 1 : Doubled(e) = base * 2^k
    <2>1. CASE 2 * e <= MaxInt
        <3>1. Doubled(e) = q /\ i + 1 \in 0 .. i + 1
            BY <1>2, <1>3, <1>4, <1>5, <2>1
        <3> QED BY <3>1 DEF q
    <2>2. CASE ~(2 * e <= MaxInt)
        <3>1. PICK k \in 0 .. i : e = base * 2^k
            BY DEF IsCapped
        <3>2. k \in 0 .. i + 1
            OBVIOUS
        <3> QED BY <1>4, <2>2, <3>1, <3>2
    <2> QED BY <2>1, <2>2
<1>8. ASSUME NEW k \in 0 .. i + 1, base * 2^k <= MaxInt PROVE base * 2^k <= Doubled(e)
    <2>1. CASE k = i + 1
        <3>1. q <= MaxInt
            BY <1>8, <2>1 DEF q
        <3>2. q <= Doubled(e)
            BY <1>2, <1>3, <1>4, <1>5, <3>1
        <3> QED BY <2>1, <3>2 DEF q
    <2>2. CASE k # i + 1
        <3>1. k \in 0 .. i /\ k \in Nat
            BY <2>2
        <3>2. base * 2^k <= e
            BY <1>8, <3>1 DEF IsCapped
        <3>3. base * 2^k \in Nat
            BY <1>1, <3>1, PowersOfTwo
        <3> DEFINE v == base * 2^k
        <3> HIDE DEF v
        <3>4. v <= Doubled(e)
            BY <1>3, <1>4, <3>2, <3>3 DEF v
        <3> QED BY <3>4 DEF v
    <2> QED BY <2>1, <2>2
<1>9. Doubled(e) \in 1 .. MaxInt
    BY <1>3, <1>4
<1> QED BY <1>6, <1>7, <1>8, <1>9 DEF IsCapped, q

LEMMA ExponentialIs ==
    ASSUME NEW base \in 1 .. MaxInt, NEW attempt \in Nat
    PROVE  IsCapped(base, attempt, exponential(base, attempt))
<1> DEFINE T == 1 .. MaxInt
           Body(f, i) == IF i = 0 THEN base
                         ELSE LET twice == Wrap(2 * f[i - 1])
                              IN  IF twice < f[i - 1] THEN f[i - 1] ELSE twice
           kept == CHOOSE f : f = [i \in 0 .. attempt |-> Body(f, i)]
           G == [i \in 1 .. attempt |-> [e \in T |-> Doubled(e)]]
<1>1. MaxInt \in Nat /\ \A e \in T : Doubled(e) \in T
    BY MachineWord, DoubledIs
<1>2. PICK f0 : Repeats(f0, attempt, T, base, G)
    <2>1. G \in [1 .. attempt -> [T -> T]] /\ base \in T
        BY <1>1
    <2> HIDE DEF G, T
    <2> QED BY <2>1, Recursion
<1>3. \A i \in 1 .. attempt : f0[i - 1] \in T /\ f0[i] = Doubled(f0[i - 1])
    <2>1. \A i \in 1 .. attempt, e \in T : G[i][e] = Doubled(e)
        OBVIOUS
    <2> HIDE DEF G, T
    <2> QED BY <1>2, <2>1 DEF Repeats
<1>4. f0 = [i \in 0 .. attempt |-> Body(f0, i)]
    BY <1>2, <1>3 DEF Doubled, Repeats
<1>5. kept = [i \in 0 .. attempt |-> Body(kept, i)]
    <2> HIDE DEF Body
    <2> QED BY <1>4
<1>6. exponential(base, attempt) = kept[attempt]
    BY DEF exponential
<1> HIDE DEF kept
<1> DEFINE S == {i \in 0 .. attempt : IsCapped(base, i, kept[i])}
<1>7. 0 \in S
    <2>1. kept[0] = base
        BY <1>5
    <2>2. IsCapped(base, 0, base)
        <3>1. base * 2^0 = base /\ 0 \in 0 .. 0 /\ \A k \in 0 .. 0 : k = 0
            BY <1>1, PowersOfTwo
        <3> QED BY <3>1 DEF IsCapped
    <2> QED BY <2>1, <2>2
<1>8. ASSUME NEW i \in 1 .. attempt, i - 1 \in S PROVE i \in S
    <2>1. kept[i] = Doubled(kept[i - 1])
        BY <1>5 DEF Doubled
    <2>2. i - 1 \in Nat /\ (i - 1) + 1 = i
        OBVIOUS
    <2>3. IsCapped(base, i - 1, kept[i - 1])
        BY <1>8
    <2>4. IsCapped(base, (i - 1) + 1, Doubled(kept[i - 1]))
        BY <2>2, <2>3, CappedDoubles
    <2> QED BY <2>1, <2>2, <2>4
<1>9. S \in SUBSET Nat
    OBVIOUS
<1>10. \A i \in 0 .. attempt : i \in S
    <2> HIDE DEF S
    <2> QED BY <1>7, <1>8, <1>9, UpTo
<1>11. IsCapped(base, attempt, kept[attempt])
    BY <1>10
<1> QED BY <1>6, <1>11

LEMMA CappedIsGreatest ==
    ASSUME NEW base \in 1 .. MaxInt, NEW attempt \in Nat, NEW e, IsCapped(base, attempt, e)
    PROVE  Max({base * 2^i : i \in 0 .. attempt} \cap (1 .. MaxInt)) = e
<1> DEFINE S == {base * 2^i : i \in 0 .. attempt} \cap (1 .. MaxInt)
<1>1. e \in S
    BY DEF IsCapped
<1>2. \A x \in S : x <= e
    BY DEF IsCapped
<1>3. MaxInt \in Nat /\ \A x \in S : x \in Nat
    BY MachineWord
<1> HIDE DEF S
<1>4. Max(S) \in S /\ \A y \in S : Max(S) >= y
    BY <1>1, <1>2, <1>3 DEF Max
<1>5. Max(S) = e
    BY <1>1, <1>2, <1>3, <1>4
<1> QED BY <1>5 DEF S

\* What is parsed is what was asked for, unless the product does not fit.
LEMMA AdviceIsParsed ==
    ASSUME NEW header \in Headers
    PROVE  /\ ParseRetryAfter(header) \in Int
           /\ asked(header) \in Nat
           /\ tellable(header) =>
                /\ (ParseRetryAfter(header) > 0) <=> (asked(header) > 0)
                /\ Min({ParseRetryAfter(header), RetryAfterCap}) = Min({asked(header), RetryAfterCap})
<1>1. /\ header.n \in Int /\ header.kind \in {"none", "seconds", "date"}
      /\ MaxInt \in Nat /\ RetryAfterCap \in 1 .. MaxInt
    BY DelayAssumption, MachineWord DEF Headers
<1>2. \A x, y \in Int : Min({x, y}) = IF x <= y THEN x ELSE y
    BY DEF Min
<1>3. CASE header.kind = "seconds" /\ header.n > 0
    <2> DEFINE w == header.n * Second
    <2>1. w \in Int /\ w > 0
        BY <1>1, <1>3, DelayAssumption
    <2>2. ParseRetryAfter(header) = Wrap(w) /\ asked(header) = w
        BY <1>3 DEF ParseRetryAfter, asked
    <2> HIDE DEF w
    <2>3. Wrap(w) \in Int
        BY <2>1, MachineWord, WrapIs
    <2>4. w <= MaxInt => Wrap(w) = w
        BY <1>1, <2>1, MachineWord, WrapIs DEF Ints
    <2>5. tellable(header) => w <= MaxInt
        BY <1>3, <2>2 DEF tellable
    <2> QED BY <2>1, <2>2, <2>3, <2>4, <2>5
<1>4. CASE header.kind = "date" /\ header.n > 0
    <2>1. /\ ParseRetryAfter(header) = Min({header.n, MaxInt}) /\ asked(header) = header.n
        BY <1>4 DEF ParseRetryAfter, asked
    <2>2. CASE header.n <= MaxInt
        <3>1. ParseRetryAfter(header) = header.n
            BY <1>1, <1>2, <2>1, <2>2
        <3> QED BY <1>1, <1>4, <2>1, <3>1
    <2>3. CASE header.n > MaxInt
        <3>1. ParseRetryAfter(header) = MaxInt
            BY <1>1, <1>2, <2>1, <2>3
        <3>2. Min({MaxInt, RetryAfterCap}) = RetryAfterCap /\ Min({header.n, RetryAfterCap}) = RetryAfterCap
            BY <1>1, <1>2, <2>3
        <3>3. ParseRetryAfter(header) > 0 /\ asked(header) \in Nat /\ asked(header) > 0
            BY <1>1, <1>4, <2>1, <3>1
        <3>4. Min({ParseRetryAfter(header), RetryAfterCap}) = Min({asked(header), RetryAfterCap})
            BY <2>1, <3>1, <3>2
        <3> QED BY <1>1, <3>1, <3>3, <3>4
    <2> QED BY <1>1, <2>2, <2>3
<1>5. CASE ~(header.kind \in {"seconds", "date"} /\ header.n > 0)
    <2>1. ParseRetryAfter(header) = 0 /\ asked(header) = 0
        BY <1>5 DEF ParseRetryAfter, asked
    <2> QED BY <2>1
<1> QED BY <1>1, <1>3, <1>4, <1>5

LEMMA GuessIsDrawn ==
    ASSUME NEW base \in 1 .. MaxInt, NEW attempt \in Nat,
           NEW d \in fullJitter(exponential(base, attempt))
    PROVE  d \in guess(base, attempt)
<1> DEFINE e == exponential(base, attempt)
<1>1. IsCapped(base, attempt, e)
    BY ExponentialIs
<1> HIDE DEF e
<1>2. e \in 1 .. MaxInt /\ MaxInt \in Nat
    BY <1>1, MachineWord DEF IsCapped
<1>3. guess(base, attempt) = (e \div 2) .. e
    BY <1>1, CappedIsGreatest DEF guess
<1>4. d \in fullJitter(e)
    BY DEF e
<1>5. d \in (e \div 2) .. e
    BY <1>2, <1>4 DEF fullJitter
<1> QED BY <1>3, <1>5

LEMMA DelaysAreDocumented ==
    ASSUME NEW base \in 1 .. MaxInt, NEW attempt \in Nat, NEW header \in Headers,
           NEW d \in delays(base, attempt, ParseRetryAfter(header))
    PROVE  /\ tellable(header) => d \in documented(base, attempt, header)
           /\ d \in 0 .. RetryAfterCap \cup guess(base, attempt)
<1> DEFINE advised == ParseRetryAfter(header)
<1>1. /\ advised \in Int
      /\ tellable(header) =>
            /\ (advised > 0) <=> (asked(header) > 0)
            /\ Min({advised, RetryAfterCap}) = Min({asked(header), RetryAfterCap})
    BY AdviceIsParsed
<1>2. d \in delays(base, attempt, advised)
    OBVIOUS
<1> HIDE DEF advised
<1>3. CASE advised > 0
    <2>1. d = Min({advised, RetryAfterCap})
        BY <1>2, <1>3 DEF delays
    <2>2. d \in 0 .. RetryAfterCap
        BY <1>1, <1>3, <2>1, DelayAssumption, MachineWord DEF Min
    <2>3. tellable(header) => d \in documented(base, attempt, header)
        BY <1>1, <1>3, <2>1 DEF documented
    <2> QED BY <2>2, <2>3
<1>4. CASE ~(advised > 0)
    <2>1. d \in guess(base, attempt)
        BY <1>2, <1>4, GuessIsDrawn DEF delays
    <2>2. tellable(header) => d \in documented(base, attempt, header)
        BY <1>1, <1>4, <2>1 DEF documented
    <2> QED BY <2>1, <2>2
<1> QED BY <1>3, <1>4
-----------------------------------------------------------------------------
(* What is cut into chunks is a sequence of items.                         *)

Kinds == {"line", "--", "matches", "no matches", "truncated", "no content"}

Items == [kind : Kinds, page : Int, n : Int]

LEMMA ItemIs ==
    ASSUME NEW n \in Int
    PROVE  /\ item("line", 0, n) \in Items /\ item("--", 0, n) \in Items
           /\ item("matches", 0, n) \in Items /\ item("no matches", 0, n) \in Items
           /\ item("truncated", 0, n) \in Items /\ item("no content", 0, n) \in Items
BY DEF item, Items, Kinds

LEMMA OneItem ==
    ASSUME NEW e \in Items
    PROVE  <<e>> \in Seq(Items)
OBVIOUS

LEMMA NumberedIs ==
    ASSUME NEW first \in Int, NEW last \in Int
    PROVE  numbered(0, first, last) \in Seq(Items)
<1> DEFINE n == IF last - first + 1 >= 0 THEN last - first + 1 ELSE 0
<1>1. n \in Nat /\ 1 .. last - first + 1 = 1 .. n
    OBVIOUS
<1>2. \A i \in 1 .. n : item("line", 0, first + i - 1) \in Items
    <2> SUFFICES ASSUME NEW i \in 1 .. n PROVE item("line", 0, first + i - 1) \in Items
        OBVIOUS
    <2>1. first + i - 1 \in Int
        BY <1>1
    <2> QED BY <2>1, ItemIs
<1>3. numbered(0, first, last) = [i \in 1 .. n |-> item("line", 0, first + i - 1)]
    BY <1>1 DEF numbered
<1>4. numbered(0, first, last) \in [1 .. n -> Items]
    <2> HIDE DEF n
    <2> QED BY <1>2, <1>3
<1> QED BY <1>1, <1>4

LEMMA MatchesAre ==
    ASSUME NEW L, NEW lines \in Seq(L)
    PROVE  matchesIn(lines) \in Seq(Int)
<1> DEFINE n == Len(lines)
           T == Seq(Int)
           Body(f, i) == IF i = 0 THEN <<>>
                         ELSE IF lines[i] = "match" THEN Append(f[i - 1], i) ELSE f[i - 1]
           found == CHOOSE f : f = [i \in 0 .. n |-> Body(f, i)]
           Step(i, s) == IF lines[i] = "match" THEN Append(s, i) ELSE s
           G == [i \in 1 .. n |-> [s \in T |-> Step(i, s)]]
<1>1. n \in Nat /\ <<>> \in T /\ \A i \in 1 .. n, s \in T : Step(i, s) \in T
    OBVIOUS
<1>2. PICK f0 : Repeats(f0, n, T, <<>>, G)
    <2>1. G \in [1 .. n -> [T -> T]]
        BY <1>1
    <2> HIDE DEF G, T, n
    <2> QED BY <1>1, <2>1, Recursion
<1>3. f0 = [i \in 0 .. n |-> Body(f0, i)]
    <2>1. \A i \in 1 .. n, s \in T : G[i][s] = Step(i, s)
        OBVIOUS
    <2> HIDE DEF G, T, n, Step
    <2>2. f0[0] = <<>> /\ \A i \in 1 .. n : f0[i] = Step(i, f0[i - 1])
        BY <1>1, <1>2, <2>1 DEF Repeats
    <2>3. \A i \in 0 .. n : f0[i] = Body(f0, i)
        BY <1>1, <2>2 DEF Step
    <2>4. f0 = [i \in 0 .. n |-> f0[i]]
        BY <1>2 DEF Repeats
    <2> HIDE DEF Body
    <2> QED BY <2>3, <2>4
<1>4. found = [i \in 0 .. n |-> Body(found, i)]
    <2> HIDE DEF Body
    <2> QED BY <1>3
<1>5. matchesIn(lines) = found[n]
    BY DEF matchesIn
<1> HIDE DEF found
<1> DEFINE S == {i \in 0 .. n : found[i] \in T}
<1>6. 0 \in S
    BY <1>1, <1>4
<1>7. ASSUME NEW i \in 1 .. n, i - 1 \in S PROVE i \in S
    <2>1. found[i] = Body(found, i) /\ i # 0
        <3> HIDE DEF Body
        <3> QED BY <1>1, <1>4
    <2>2. found[i] = Step(i, found[i - 1])
        BY <2>1
    <2>3. found[i - 1] \in T
        BY <1>7
    <2> HIDE DEF Step, T
    <2> QED BY <1>1, <2>2, <2>3
<1>8. \A i \in 0 .. n : i \in S
    <2>1. S \in SUBSET Nat
        OBVIOUS
    <2> HIDE DEF S
    <2> QED BY <1>1, <1>6, <1>7, <2>1, UpTo
<1> QED BY <1>1, <1>5, <1>8

Blocks == [out : Seq(Items), printed : Int, context : Int, total : Int]

LEMMA BlockIs ==
    ASSUME NEW st \in Blocks, NEW m \in Int
    PROVE  block(st, m) \in Blocks
<1> DEFINE start == Max({m - st.context, st.printed + 1, 1})
           end == Min({m + st.context, st.total})
           gap == IF st.printed > 0 /\ start > st.printed + 1 THEN <<item("--", 0, 0)>> ELSE <<>>
<1>1. st.out \in Seq(Items) /\ st.printed \in Int /\ st.context \in Int /\ st.total \in Int
    BY DEF Blocks
<1>2. start \in Int
    <2>1. m - st.context \in Int /\ st.printed + 1 \in Int
        BY <1>1
    <2> DEFINE a == m - st.context
               b == st.printed + 1
    <2> HIDE DEF a, b
    <2>2. Max({a, b, 1}) \in {a, b, 1}
        BY <2>1 DEF Max, a, b
    <2> QED BY <2>1, <2>2 DEF a, b
<1>3. end \in Int
    <2> DEFINE a == m + st.context
               b == st.total
    <2>1. a \in Int /\ b \in Int
        BY <1>1
    <2> HIDE DEF a, b
    <2>2. Min({a, b}) \in {a, b}
        BY <2>1 DEF Min
    <2> QED BY <2>1, <2>2 DEF a, b
<1>4. gap \in Seq(Items)
    <2>1. <<item("--", 0, 0)>> \in Seq(Items)
        <3>1. item("--", 0, 0) \in Items
            <4>1. 0 \in Int
                OBVIOUS
            <4> QED BY <4>1, ItemIs
        <3> QED BY <3>1, OneItem
    <2>2. <<>> \in Seq(Items)
        OBVIOUS
    <2> QED BY <2>1, <2>2
<1>5. numbered(0, start, end) \in Seq(Items)
    BY <1>2, <1>3, NumberedIs
<1> HIDE DEF start, end, gap
<1>6. st.out \o gap \o numbered(0, start, end) \in Seq(Items)
    BY <1>1, <1>4, <1>5, ConcatProperties
<1>7. block(st, m) = [st EXCEPT !.out = st.out \o gap \o numbered(0, start, end), !.printed = end]
    BY DEF block, start, end, gap
<1> QED BY <1>3, <1>6, <1>7 DEF Blocks

LEMMA GrepIs ==
    ASSUME NEW L, NEW lines \in Seq(L), NEW context \in Int, NEW maxMatches \in Nat
    PROVE  grepContent(lines, context, maxMatches) \in Seq(Items)
<1> DEFINE cap == IF maxMatches = 0 THEN defaultMaxQueryMatches ELSE maxMatches
           found == matchesIn(lines)
           matched == SubSeq(found, 1, Min({cap, Len(found)}))
           n == Len(matched)
           first == [out |-> <<>>, printed |-> 0, context |-> context, total |-> Len(lines)]
           Body(f, i) == IF i = 0 THEN first ELSE block(f[i - 1], matched[i])
           blocks == CHOOSE f : f = [i \in 0 .. n |-> Body(f, i)]
           G == [i \in 1 .. n |-> [st \in Blocks |-> block(st, matched[i])]]
           note == IF Len(found) > cap THEN <<item("truncated", 0, cap)>> ELSE <<>>
<1>1. cap \in Nat
    BY WindowAssumption
<1>2. found \in Seq(Int) /\ Len(found) \in Nat
    BY MatchesAre
<1>3. matched \in Seq(Int) /\ n \in Nat /\ \A i \in 1 .. n : matched[i] \in Int
    <2> DEFINE m == Min({cap, Len(found)})
    <2>1. m \in Nat /\ m <= Len(found)
        <3> HIDE DEF cap, found
        <3> QED BY <1>1, <1>2 DEF Min
    <2> HIDE DEF m, found
    <2>2. \A i \in 1 .. m : found[i] \in Int
        BY <1>2, <2>1
    <2>3. SubSeq(found, 1, m) \in Seq(Int)
        BY <1>2, <2>1, <2>2, SubSeqProperties
    <2>4. matched \in Seq(Int)
        BY <2>3 DEF m
    <2> HIDE DEF matched
    <2> QED BY <2>4, LenProperties
<1>4. first \in Blocks
    BY EmptySeq, LenProperties DEF Blocks
<1>5. grepContent(lines, context, maxMatches) =
          IF matched = <<>> THEN <<item("no matches", 0, Len(lines))>>
          ELSE <<item("matches", 0, n)>> \o blocks[n].out \o note
    BY DEF grepContent
<1> HIDE DEF cap, found, matched, n, first
<1>6. PICK f0 : Repeats(f0, n, Blocks, first, G)
    <2>1. G \in [1 .. n -> [Blocks -> Blocks]]
        BY <1>3, BlockIs
    <2> HIDE DEF G
    <2> QED BY <1>3, <1>4, <2>1, Recursion
<1>7. f0 = [i \in 0 .. n |-> Body(f0, i)]
    <2>1. \A i \in 1 .. n, st \in Blocks : G[i][st] = block(st, matched[i])
        OBVIOUS
    <2> HIDE DEF G
    <2>2. f0[0] = first /\ \A i \in 1 .. n : f0[i] = block(f0[i - 1], matched[i])
        BY <1>3, <1>6, <2>1 DEF Repeats
    <2>3. \A i \in 0 .. n : f0[i] = Body(f0, i)
        BY <1>3, <2>2
    <2>4. f0 = [i \in 0 .. n |-> f0[i]]
        BY <1>6 DEF Repeats
    <2> HIDE DEF Body
    <2> QED BY <2>3, <2>4
<1>8. blocks = [i \in 0 .. n |-> Body(blocks, i)]
    <2> HIDE DEF Body
    <2> QED BY <1>7
<1> HIDE DEF blocks
<1> DEFINE S == {i \in 0 .. n : blocks[i] \in Blocks}
<1>9. 0 \in S
    BY <1>3, <1>4, <1>8
<1>10. ASSUME NEW i \in 1 .. n, i - 1 \in S PROVE i \in S
    <2>1. blocks[i] = block(blocks[i - 1], matched[i]) /\ blocks[i - 1] \in Blocks
        BY <1>3, <1>8, <1>10
    <2> QED BY <1>3, <2>1, BlockIs
<1>11. \A i \in 0 .. n : i \in S
    <2>1. S \in SUBSET Nat
        BY <1>3
    <2> HIDE DEF S
    <2> QED BY <1>3, <1>9, <1>10, <2>1, UpTo
<1>12. blocks[n].out \in Seq(Items)
    BY <1>3, <1>11 DEF Blocks
<1>13. note \in Seq(Items) /\ <<item("matches", 0, n)>> \in Seq(Items)
    <2>1. item("truncated", 0, cap) \in Items /\ item("matches", 0, n) \in Items
        <3>1. cap \in Int /\ n \in Int
            BY <1>1, <1>3
        <3> QED BY <3>1, ItemIs
    <2> HIDE DEF note
    <2>2. <<item("truncated", 0, cap)>> \in Seq(Items) /\ <<>> \in Seq(Items)
        BY <2>1
    <2>3. note \in Seq(Items)
        BY <2>2 DEF note
    <2> QED BY <2>1, <2>3
<1>14. <<item("no matches", 0, Len(lines))>> \in Seq(Items)
    <2>1. Len(lines) \in Int
        BY LenProperties
    <2>2. item("no matches", 0, Len(lines)) \in Items
        BY <2>1, ItemIs
    <2> QED BY <2>2, OneItem
<1> HIDE DEF note
<1>15. <<item("matches", 0, n)>> \o blocks[n].out \o note \in Seq(Items)
    BY <1>12, <1>13, ConcatProperties
<1> QED BY <1>5, <1>14, <1>15

LEMMA ContentIs ==
    ASSUME NEW c \in Reads, Validate(c.opts)
    PROVE  /\ content(c.lines, c.opts) \in Seq(Items)
           /\ Len(content(c.lines, c.opts)) \in 0 .. MaxInt
<1>1. /\ c.lines \in Seq({"match", "text", "blank"}) /\ Len(c.lines) \in Nat
      /\ c.opts.query \in BOOLEAN /\ c.opts.contextSet \in BOOLEAN
      /\ c.opts.context \in Int /\ c.opts.maxMatches \in Nat
      /\ Len(content(c.lines, c.opts)) <= MaxInt
    BY PureCallsAssumption, WindowAssumption, MachineWord DEF Validate, Ints
<1> DEFINE context == IF c.opts.context = 0 /\ ~c.opts.contextSet THEN defaultQueryContextLines
                      ELSE c.opts.context
<1>2. context \in Int
    BY <1>1, WindowAssumption
<1> HIDE DEF context
<1>3. grepContent(c.lines, context, c.opts.maxMatches) \in Seq(Items)
    BY <1>1, <1>2, GrepIs
<1>4. numbered(0, 1, Len(c.lines)) \in Seq(Items)
    <2>1. 1 \in Int /\ Len(c.lines) \in Int
        BY <1>1
    <2> QED BY <2>1, NumberedIs
<1>5. content(c.lines, c.opts) \in Seq(Items)
    BY <1>3, <1>4 DEF content, context
<1> QED BY <1>1, <1>5, LenProperties

-----------------------------------------------------------------------------
(* FlattenSeq, one chunk after the other.                                  *)

IsFlat(f, S, seqs) ==
    /\ f \in [0 .. Len(seqs) -> Seq(S)]
    /\ f[0] = <<>>
    /\ \A i \in 1 .. Len(seqs) : f[i] = f[i - 1] \o seqs[i]

LEMMA FlattenIs ==
    ASSUME NEW S, NEW seqs \in Seq(Seq(S))
    PROVE  \E f : IsFlat(f, S, seqs) /\ FlattenSeq(seqs) = f[Len(seqs)]
<1> DEFINE n == Len(seqs)
           T == Seq(S)
           G == [i \in 1 .. n |-> [s \in T |-> s \o seqs[i]]]
           Body(f, i) == IF i = 1 THEN seqs[i] ELSE f[i - 1] \o seqs[i]
           flatten == CHOOSE f : f = [i \in 1 .. n |-> Body(f, i)]
<1>1. n \in Nat /\ <<>> \in T /\ \A i \in 1 .. n : seqs[i] \in T
    OBVIOUS
<1>2. PICK f : Repeats(f, n, T, <<>>, G)
    <2>1. \A i \in 1 .. n, s \in T : s \o seqs[i] \in T
        BY <1>1, ConcatProperties
    <2>2. G \in [1 .. n -> [T -> T]]
        <3> HIDE DEF T, n
        <3> QED BY <2>1
    <2> HIDE DEF G, T, n
    <2> QED BY <1>1, <2>2, Recursion
<1>3. /\ f \in [0 .. n -> T] /\ f[0] = <<>>
      /\ \A i \in 1 .. n : f[i - 1] \in T /\ f[i] = f[i - 1] \o seqs[i]
    <2>1. \A i \in 1 .. n, s \in T : G[i][s] = s \o seqs[i]
        OBVIOUS
    <2>2. \A i \in 1 .. n : i - 1 \in 0 .. n
        BY <1>1
    <2> HIDE DEF G, T, n
    <2>3. /\ f \in [0 .. n -> T] /\ f[0] = <<>>
          /\ \A i \in 1 .. n : f[i] = G[i][f[i - 1]]
        BY <1>2 DEF Repeats
    <2> QED BY <2>1, <2>2, <2>3
<1>4. IsFlat(f, S, seqs)
    BY <1>3 DEF IsFlat
<1>5. CASE n = 0
    <2>1. FlattenSeq(seqs) = seqs /\ seqs = <<>>
        BY <1>5, EmptySeq DEF FlattenSeq
    <2> QED BY <1>3, <1>4, <1>5, <2>1
<1>6. CASE n # 0
    <2>1. FlattenSeq(seqs) = flatten[n]
        BY <1>6 DEF FlattenSeq
    <2> DEFINE g == [i \in 1 .. n |-> f[i]]
    <2>2. \A i \in 1 .. n : f[i] = Body(f, i)
        <3> SUFFICES ASSUME NEW i \in 1 .. n PROVE f[i] = Body(f, i)
            OBVIOUS
        <3>1. f[i] = f[i - 1] \o seqs[i] /\ (i = 1 => f[i - 1] = <<>>)
            <4>1. i = 1 => i - 1 = 0
                OBVIOUS
            <4> HIDE DEF T, n, g, Body, flatten
            <4> QED BY <1>3, <4>1
        <3>2. seqs[i] \in Seq(S)
            BY <1>1
        <3>3. <<>> \o seqs[i] = seqs[i]
            BY <3>2, ConcatEmptySeq
        <3> QED BY <3>1, <3>3
    <2>3. \A i \in 1 .. n : Body(g, i) = Body(f, i)
        <3> SUFFICES ASSUME NEW i \in 1 .. n PROVE Body(g, i) = Body(f, i)
            OBVIOUS
        <3>1. i # 1 => g[i - 1] = f[i - 1]
            BY <1>1
        <3> QED BY <3>1
    <2>4. g = [i \in 1 .. n |-> Body(g, i)]
        <3> HIDE DEF Body
        <3> QED BY <2>2, <2>3
    <2>5. flatten = [i \in 1 .. n |-> Body(flatten, i)]
        <3> HIDE DEF Body, g
        <3> QED BY <2>4
    <2> HIDE DEF flatten, g
    <2> DEFINE Same == {i \in 0 .. n : i = 0 \/ flatten[i] = f[i]}
    <2>6. 0 \in Same
        BY <1>1
    <2>7. ASSUME NEW i \in 1 .. n, i - 1 \in Same PROVE i \in Same
        <3>1. flatten[i] = Body(flatten, i) /\ f[i] = Body(f, i)
            BY <2>2, <2>5
        <3>2. i # 1 => flatten[i - 1] = f[i - 1]
            BY <1>1, <2>7
        <3>3. flatten[i] = f[i]
            BY <3>1, <3>2
        <3> QED BY <1>1, <3>3
    <2>8. \A i \in 0 .. n : i \in Same
        <3>1. Same \in SUBSET Nat
            BY <1>1
        <3> HIDE DEF Same
        <3> QED BY <1>1, <2>6, <2>7, <3>1, UpTo
    <2>9. flatten[n] = f[n]
        BY <1>1, <1>6, <2>8
    <2> QED BY <1>4, <2>1, <2>9
<1> QED BY <1>5, <1>6

LEMMA FlattenGrows ==
    ASSUME NEW S, NEW seqs \in Seq(Seq(S)), NEW s \in Seq(S)
    PROVE  FlattenSeq(Append(seqs, s)) = FlattenSeq(seqs) \o s
<1> DEFINE n == Len(seqs)
           longer == Append(seqs, s)
<1>1. /\ n \in Nat /\ longer \in Seq(Seq(S)) /\ Len(longer) = n + 1
      /\ longer[n + 1] = s /\ \A i \in 1 .. n : longer[i] = seqs[i]
    BY AppendProperties
<1>2. PICK f : IsFlat(f, S, seqs) /\ FlattenSeq(seqs) = f[n]
    BY FlattenIs
<1> HIDE DEF longer
<1>3. PICK g : IsFlat(g, S, longer) /\ FlattenSeq(longer) = g[Len(longer)]
    BY <1>1, FlattenIs
<1>4. f[0] = <<>> /\ \A i \in 1 .. n : f[i] = f[i - 1] \o seqs[i]
    BY <1>2 DEF IsFlat
<1>5. g[0] = <<>> /\ \A i \in 1 .. n + 1 : g[i] = g[i - 1] \o longer[i]
    BY <1>1, <1>3 DEF IsFlat
<1> HIDE DEF n
<1> DEFINE Same == {i \in 0 .. n : g[i] = f[i]}
<1>6. 0 \in Same
    BY <1>1, <1>4, <1>5
<1>7. ASSUME NEW i \in 1 .. n, i - 1 \in Same PROVE i \in Same
    <2>1. i \in 1 .. n + 1 /\ g[i - 1] = f[i - 1]
        BY <1>1, <1>7
    <2>2. g[i] = f[i]
        BY <1>1, <1>4, <1>5, <2>1
    <2> QED BY <1>1, <2>2
<1>8. \A i \in 0 .. n : i \in Same
    <2>1. Same \in SUBSET Nat
        BY <1>1
    <2> HIDE DEF Same
    <2> QED BY <1>1, <1>6, <1>7, <2>1, UpTo
<1>9. g[n] = f[n]
    BY <1>1, <1>8
<1>10. g[n + 1] = g[n] \o s
    <2>1. n + 1 \in 1 .. n + 1 /\ (n + 1) - 1 = n
        BY <1>1
    <2>2. g[n + 1] = g[(n + 1) - 1] \o longer[n + 1]
        BY <1>5, <2>1
    <2> QED BY <1>1, <2>1, <2>2
<1> QED BY <1>1, <1>2, <1>3, <1>9, <1>10 DEF longer

-----------------------------------------------------------------------------
(* One window.                                                             *)

InWindow(text, start) == ~(start > 0 /\ start >= Len(text))

LEMMA CutIs ==
    ASSUME NEW total \in 0 .. MaxInt, NEW start \in 0 .. total, NEW maxLength \in 0 .. MaxInt
    PROVE  /\ cut(start, maxLength, total) \in start .. total
           /\ maxLength > 0 => cut(start, maxLength, total) - start <= maxLength
           /\ maxLength = 0 => cut(start, maxLength, total) = total
           /\ maxLength > 0 /\ start < total => start < cut(start, maxLength, total)
<1>1. MaxInt \in Nat
    BY MachineWord
<1>2. Wrap(total - start) = total - start
    <2>1. total - start \in Int /\ total - start \in -MaxInt - 1 .. MaxInt
        BY <1>1
    <2> QED BY <2>1, WrapIs
<1>3. CASE maxLength > 0 /\ maxLength < total - start
    <2>1. start + maxLength \in Int /\ start + maxLength \in -MaxInt - 1 .. MaxInt
        BY <1>1, <1>3
    <2>2. Wrap(start + maxLength) = start + maxLength
        BY <2>1, WrapIs
    <2>3. cut(start, maxLength, total) = start + maxLength
        BY <1>2, <1>3, <2>2 DEF cut
    <2> QED BY <1>1, <1>3, <2>3
<1>4. CASE ~(maxLength > 0 /\ maxLength < total - start)
    <2>1. cut(start, maxLength, total) = total
        BY <1>2, <1>4 DEF cut
    <2> QED BY <1>1, <1>4, <2>1
<1> QED BY <1>3, <1>4

LEMMA WindowIs ==
    ASSUME NEW text \in Seq(Items), Len(text) \in 0 .. MaxInt, NEW start \in 0 .. Len(text),
           NEW maxLength \in 0 .. MaxInt, InWindow(text, start)
    PROVE  \E end \in start .. Len(text) :
              /\ paginateContent(text, start, maxLength)
                     = [window |-> SubSeq(text, start + 1, end), next |-> marker(end, Len(text))]
              /\ SubSeq(text, start + 1, end) \in Seq(Items)
              /\ Len(SubSeq(text, start + 1, end)) = end - start
              /\ maxLength > 0 => end - start <= maxLength
              /\ maxLength = 0 => end = Len(text)
<1> DEFINE total == Len(text)
           end == cut(start, maxLength, total)
<1>1. total \in Nat /\ start \in Nat
    BY LenProperties
<1>2. /\ end \in start .. total
      /\ maxLength > 0 => end - start <= maxLength
      /\ maxLength = 0 => end = total
    BY CutIs
<1>3. paginateContent(text, start, maxLength)
          = [window |-> SubSeq(text, start + 1, end), next |-> marker(end, total)]
    BY DEF paginateContent, InWindow
<1> HIDE DEF end
<1>4. \A i \in start + 1 .. end : text[i] \in Items
    BY <1>1, <1>2
<1>5. /\ SubSeq(text, start + 1, end) \in Seq(Items)
      /\ Len(SubSeq(text, start + 1, end)) = IF start + 1 <= end THEN end - (start + 1) + 1 ELSE 0
    BY <1>1, <1>2, <1>4, SubSeqProperties
<1>6. Len(SubSeq(text, start + 1, end)) = end - start
    BY <1>1, <1>2, <1>5
<1> QED BY <1>2, <1>3, <1>5, <1>6

-----------------------------------------------------------------------------
(***************************************************************************)
(* The inductive invariant. What the chunks returned so far make up ends   *)
(* where the next call starts, and that is within the text.                *)
(***************************************************************************)
CallIsKnown == call \in Searches \cup Reads \cup PDFs \cup Delays

DelayIsKept ==
    Finished("delay") =>
        \E d \in delays(call.base, call.attempt, ParseRetryAfter(call.header)) : answer = <<d>>

Position(at, text) == IF at = NoMarker THEN Len(text) ELSE at

Rebuilt(chunks, at, text, start, maxLength) ==
    /\ chunks \in Seq(Seq(Items))
    /\ Position(at, text) \in start .. Len(text)
    /\ at # NoMarker => InWindow(text, at)
    /\ FlattenSeq(chunks) = SubSeq(text, start + 1, Position(at, text))
    /\ maxLength > 0 => \A i \in DOMAIN chunks : Len(chunks[i]) <= maxLength

Beyond(chunks, at, start) ==
    \/ chunks = <<>> /\ at = start
    \/ chunks = <<<<item("no content", 0, start)>>>> /\ at = NoMarker

ChunksAreKept ==
    call.fn = "read" /\ Validate(call.opts) =>
        LET text == content(call.lines, call.opts)
        IN  IF InWindow(text, call.opts.start)
            THEN Rebuilt(answer, next, text, call.opts.start, call.opts.maxLength)
            ELSE Beyond(answer, next, call.opts.start)

PureIInv == CallIsKnown /\ DelayIsKept /\ ChunksAreKept

LEMMA CallsDiffer ==
    ASSUME CallIsKnown
    PROVE  /\ call.fn = "read" => call \in Reads
           /\ call.fn = "delay" => call \in Delays
BY PureCallsAssumption DEF CallIsKnown

LEMMA OptionsAre ==
    ASSUME NEW c \in Reads, Validate(c.opts)
    PROVE  c.opts.start \in Nat /\ c.opts.maxLength \in 0 .. MaxInt
BY PureCallsAssumption, MachineWord DEF Validate, Ints

\* What is paginated does not depend on the window asked for.
LEMMA SameContent ==
    ASSUME NEW c \in Reads, NEW start
    PROVE  LET opts == [c.opts EXCEPT !.start = start]
           IN  /\ content(c.lines, opts) = content(c.lines, c.opts)
               /\ opts.start = start /\ opts.maxLength = c.opts.maxLength
<1> DEFINE o == c.opts
           p == [o EXCEPT !.start = start]
<1>1. o \in [query : BOOLEAN, context : Ints, contextSet : BOOLEAN, maxMatches : Ints,
             start : Ints, maxLength : Ints]
    BY PureCallsAssumption
<1> HIDE DEF o
<1>2. /\ p.query = o.query /\ p.context = o.context /\ p.contextSet = o.contextSet
      /\ p.maxMatches = o.maxMatches /\ p.start = start /\ p.maxLength = o.maxLength
    BY <1>1
<1> HIDE DEF p
<1>3. content(c.lines, p) = content(c.lines, o)
    BY <1>2, Zenon DEF content
<1> QED BY <1>2, <1>3 DEF o, p

LEMMA WholeContent ==
    ASSUME NEW c \in Reads
    PROVE  LET opts == [c.opts EXCEPT !.start = 0, !.maxLength = 0]
           IN  /\ content(c.lines, opts) = content(c.lines, c.opts)
               /\ opts.start = 0 /\ opts.maxLength = 0
<1> DEFINE o == c.opts
           p == [o EXCEPT !.start = 0, !.maxLength = 0]
<1>1. o \in [query : BOOLEAN, context : Ints, contextSet : BOOLEAN, maxMatches : Ints,
             start : Ints, maxLength : Ints]
    BY PureCallsAssumption
<1> HIDE DEF o
<1>2. /\ p.query = o.query /\ p.context = o.context /\ p.contextSet = o.contextSet
      /\ p.maxMatches = o.maxMatches /\ p.start = 0 /\ p.maxLength = 0
    BY <1>1
<1> HIDE DEF p
<1>3. content(c.lines, p) = content(c.lines, o)
    BY <1>2, Zenon DEF content
<1> QED BY <1>2, <1>3 DEF o, p

LEMMA PureInit == Init => PureIInv
<1> SUFFICES ASSUME Init PROVE PureIInv
    OBVIOUS
<1>1. CallIsKnown
    BY DEF Init, CallIsKnown
<1>2. DelayIsKept
    BY DEF Init, DelayIsKept, Finished, NoMarker
<1>3. ASSUME call.fn = "read", Validate(call.opts)
      PROVE  LET text == content(call.lines, call.opts)
             IN  IF InWindow(text, call.opts.start)
                 THEN Rebuilt(answer, next, text, call.opts.start, call.opts.maxLength)
                 ELSE Beyond(answer, next, call.opts.start)
    <2> DEFINE text == content(call.lines, call.opts)
               start == call.opts.start
    <2>1. call \in Reads
        BY <1>1, <1>3, CallsDiffer
    <2>2. start \in Nat /\ text \in Seq(Items) /\ Len(text) \in Nat
        BY <1>3, <2>1, OptionsAre, ContentIs
    <2>3. answer = <<>> /\ next = start /\ next # NoMarker
        BY <1>3, <2>2 DEF Init, NoMarker
    <2> HIDE DEF text, start
    <2>4. ASSUME InWindow(text, start) PROVE Rebuilt(answer, next, text, start, call.opts.maxLength)
        <3>1. Position(next, text) = start /\ start \in start .. Len(text)
            BY <2>2, <2>3, <2>4 DEF Position, InWindow
        <3>2. SubSeq(text, start + 1, start) = <<>>
            BY <2>2, SubSeqEmpty
        <3>3. FlattenSeq(answer) = <<>>
            BY <2>3 DEF FlattenSeq
        <3>4. answer \in Seq(Seq(Items)) /\ DOMAIN answer = {}
            BY <2>3
        <3> QED BY <2>3, <2>4, <3>1, <3>2, <3>3, <3>4 DEF Rebuilt
    <2>5. Beyond(answer, next, start)
        BY <2>3 DEF Beyond
    <2> QED BY <2>4, <2>5 DEF text, start
<1>4. ChunksAreKept
    BY <1>3 DEF ChunksAreKept
<1> QED BY <1>1, <1>2, <1>4 DEF PureIInv

LEMMA ReadStep ==
    ASSUME PureIInv, ReadWithOptions
    PROVE  ChunksAreKept'
<1> DEFINE text == content(call.lines, call.opts)
           start == call.opts.start
           maxLength == call.opts.maxLength
           part == paginateContent(text, next, maxLength)
<1>1. call.fn = "read" /\ Validate(call.opts) /\ next # NoMarker /\ call' = call
    BY DEF ReadWithOptions
<1>2. call \in Reads
    BY <1>1, CallsDiffer DEF PureIInv
<1>3. /\ start \in Nat /\ maxLength \in 0 .. MaxInt
      /\ text \in Seq(Items) /\ Len(text) \in 0 .. MaxInt /\ Len(text) \in Nat
    BY <1>1, <1>2, OptionsAre, ContentIs
<1>4. answer' = Append(answer, part.window) /\ next' = part.next
    <2>1. Apply(call.lines, [call.opts EXCEPT !.start = next]) = part
        BY <1>2, SameContent DEF Apply
    <2> QED BY <2>1 DEF ReadWithOptions
<1>5. IF InWindow(text, start) THEN Rebuilt(answer, next, text, start, maxLength) ELSE Beyond(answer, next, start)
    BY <1>1 DEF PureIInv, ChunksAreKept
<1> SUFFICES IF InWindow(text, start) THEN Rebuilt(answer', next', text, start, maxLength) ELSE Beyond(answer', next', start)
    BY <1>1 DEF ChunksAreKept
<1> HIDE DEF text, start, maxLength, part
<1>6. CASE InWindow(text, start)
    <2>1. /\ answer \in Seq(Seq(Items)) /\ next \in start .. Len(text) /\ InWindow(text, next)
          /\ FlattenSeq(answer) = SubSeq(text, start + 1, next)
          /\ maxLength > 0 => \A i \in DOMAIN answer : Len(answer[i]) <= maxLength
        BY <1>1, <1>5, <1>6 DEF Rebuilt, Position
    <2>2. next \in 0 .. Len(text)
        BY <1>3, <2>1
    <2>3. PICK end \in next .. Len(text) :
              /\ part = [window |-> SubSeq(text, next + 1, end), next |-> marker(end, Len(text))]
              /\ SubSeq(text, next + 1, end) \in Seq(Items)
              /\ Len(SubSeq(text, next + 1, end)) = end - next
              /\ maxLength > 0 => end - next <= maxLength
        BY <1>3, <2>1, <2>2, WindowIs DEF part
    <2> DEFINE window == SubSeq(text, next + 1, end)
    <2>4. answer' = Append(answer, window) /\ next' = marker(end, Len(text))
        BY <1>4, <2>3
    <2>5. window \in Seq(Items) /\ Len(window) = end - next
        BY <2>3
    <2>6. /\ Position(next', text) = end /\ end \in start .. Len(text)
          /\ next' # NoMarker => next' = end /\ end < Len(text)
        <3>1. end \in start .. Len(text) /\ end # NoMarker
            BY <1>3, <2>1 DEF NoMarker
        <3>2. next' = IF end < Len(text) THEN end ELSE NoMarker
            BY <2>4 DEF marker
        <3> QED BY <1>3, <3>1, <3>2 DEF Position
    <2>7. SubSeq(text, start + 1, next) \o window = SubSeq(text, start + 1, end)
        <3>1. start + 1 \in 1 .. Len(text) + 1 /\ next \in (start + 1) - 1 .. Len(text)
            BY <1>3, <2>1
        <3> QED BY <1>3, <2>3, <3>1, ConcatAdjacentSubSeq
    <2> HIDE DEF window
    <2>8. answer' \in Seq(Seq(Items)) /\ FlattenSeq(answer') = SubSeq(text, start + 1, end)
        BY <2>1, <2>4, <2>5, <2>7, FlattenGrows, AppendProperties
    <2>9. maxLength > 0 => \A i \in DOMAIN answer' : Len(answer'[i]) <= maxLength
        <3> SUFFICES ASSUME maxLength > 0, NEW i \in DOMAIN answer' PROVE Len(answer'[i]) <= maxLength
            OBVIOUS
        <3>1. i \in 1 .. Len(answer) + 1 /\ Len(answer) \in Nat
            BY <2>1, <2>4, <2>5
        <3>2. CASE i = Len(answer) + 1
            <4>1. answer'[i] = window
                BY <2>1, <2>4, <2>5, <3>2, AppendProperties
            <4> QED BY <2>3, <2>5, <4>1
        <3>3. CASE i # Len(answer) + 1
            <4>1. i \in 1 .. Len(answer) /\ i \in DOMAIN answer
                BY <2>1, <3>1, <3>3
            <4>2. answer'[i] = answer[i]
                BY <2>1, <2>4, <2>5, <4>1, AppendProperties
            <4> QED BY <2>1, <4>1, <4>2
        <3> QED BY <3>2, <3>3
    <2>10. next' # NoMarker => InWindow(text, next')
        BY <1>3, <2>6 DEF InWindow
    <2>11. Rebuilt(answer', next', text, start, maxLength)
        BY <2>6, <2>8, <2>9, <2>10 DEF Rebuilt
    <2> QED BY <1>6, <2>11
<1>7. CASE ~InWindow(text, start)
    <2>1. answer = <<>> /\ next = start
        BY <1>1, <1>5, <1>7 DEF Beyond
    <2>2. start > 0 /\ start >= Len(text)
        BY <1>7 DEF InWindow
    <2>3. part.window = <<item("no content", 0, start)>> /\ part.next = NoMarker
        BY <2>1, <2>2 DEF part, paginateContent
    <2>4. answer' = <<<<item("no content", 0, start)>>>> /\ next' = NoMarker
        <3>1. Append(<<>>, part.window) = <<part.window>>
            OBVIOUS
        <3> QED BY <1>4, <2>1, <2>3, <3>1
    <2>5. Beyond(answer', next', start)
        BY <2>4 DEF Beyond
    <2> QED BY <1>7, <2>5
<1> QED BY <1>6, <1>7

LEMMA PureStep == PureIInv /\ [Next]_vars => PureIInv'
<1> SUFFICES ASSUME PureIInv, [Next]_vars PROVE PureIInv'
    OBVIOUS
<1>1. CASE UNCHANGED vars
    BY <1>1 DEF PureIInv, vars, CallIsKnown, DelayIsKept, ChunksAreKept, Finished, Rebuilt,
                Beyond, Position
<1>2. CASE FanOut
    BY <1>2 DEF PureIInv, FanOut, Return, CallIsKnown, DelayIsKept, ChunksAreKept, Finished
<1>3. CASE RefuseOptions
    BY <1>3 DEF PureIInv, RefuseOptions, Return, CallIsKnown, DelayIsKept, ChunksAreKept, Finished
<1>4. CASE ReadWithOptions
    <2>1. ChunksAreKept'
        BY <1>4, ReadStep
    <2> QED BY <1>4, <2>1 DEF PureIInv, ReadWithOptions, CallIsKnown, DelayIsKept, Finished
<1>5. CASE ReadPDF
    BY <1>5 DEF PureIInv, ReadPDF, Return, CallIsKnown, DelayIsKept, ChunksAreKept, Finished
<1>6. CASE RefusePDF
    BY <1>6 DEF PureIInv, RefusePDF, Return, CallIsKnown, DelayIsKept, ChunksAreKept, Finished
<1>7. CASE Backoff
    BY <1>7 DEF PureIInv, Backoff, Return, CallIsKnown, DelayIsKept, ChunksAreKept, Finished
<1> QED BY <1>1, <1>2, <1>3, <1>4, <1>5, <1>6, <1>7 DEF Next

\* In every reachable state what has been returned is as PureIInv describes it.
THEOREM PureInvariant == Spec => []PureIInv
<1> QED BY PureInit, PureStep, PTL DEF Spec

(***************************************************************************)
(* A retry sleeps the documented time (RetryProvider.backoff, fullJitter   *)
(* and the Retry-After override of Search), for every base delay, attempt, *)
(* header and width of a Duration: what the server asks for up to the cap, *)
(* if that fits in a Duration, or between half of and all of the doubled   *)
(* delay, which no overflow leaves. A product that wraps (errors.go:62)    *)
(* falls back to the one or shortens the other, it never stalls the call.  *)
(***************************************************************************)
THEOREM PureDelayIsAsDocumented == Spec => []DelayIsAsDocumented
<1>1. PureIInv => DelayIsAsDocumented
    <2> SUFFICES ASSUME PureIInv, Finished("delay")
                 PROVE  /\ tellable(call.header) =>
                            Head(answer) \in documented(call.base, call.attempt, call.header)
                        /\ Head(answer) \in 0 .. RetryAfterCap \cup guess(call.base, call.attempt)
        BY DEF DelayIsAsDocumented
    <2>1. PICK d \in delays(call.base, call.attempt, ParseRetryAfter(call.header)) : answer = <<d>>
        BY DEF PureIInv, DelayIsKept
    <2>2. call \in Delays
        BY CallsDiffer DEF PureIInv, Finished
    <2>3. call.base \in 1 .. MaxInt /\ call.attempt \in Nat /\ call.header \in Headers
        BY <2>2, PureCallsAssumption
    <2>4. Head(answer) = d
        BY <2>1
    <2> QED BY <2>1, <2>3, <2>4, DelaysAreDocumented
<1> QED BY <1>1, PureInvariant, PTL

(***************************************************************************)
(* Reading a text in chunks, each with the start_index of the marker       *)
(* before it (paginateContent), gives the whole text, or the whole answer  *)
(* to a query, from start_index on: each character once, in calls of at    *)
(* most max_length, for every text, start and length an int can hold.      *)
(***************************************************************************)
THEOREM PureChunksRebuildTheText == Spec => []ChunksRebuildTheText
<1>1. PureIInv => ChunksRebuildTheText
    <2> SUFFICES ASSUME PureIInv, Finished("read"), Validate(call.opts)
                 PROVE  ChunksRebuildTheText
        BY DEF ChunksRebuildTheText
    <2> DEFINE text == content(call.lines, call.opts)
               start == call.opts.start
               maxLength == call.opts.maxLength
               whole == Apply(call.lines, [call.opts EXCEPT !.start = 0, !.maxLength = 0]).window
    <2>1. call.fn = "read" /\ next = NoMarker
        BY DEF Finished
    <2>2. call \in Reads
        BY <2>1, CallsDiffer DEF PureIInv
    <2>3. start \in Nat /\ text \in Seq(Items) /\ Len(text) \in 0 .. MaxInt /\ Len(text) \in Nat
        BY <2>2, OptionsAre, ContentIs
    <2>4. IF InWindow(text, start) THEN Rebuilt(answer, next, text, start, maxLength) ELSE Beyond(answer, next, start)
        BY <2>1 DEF PureIInv, ChunksAreKept
    <2>5. whole = paginateContent(text, 0, 0).window
        <3> DEFINE o == [call.opts EXCEPT !.start = 0, !.maxLength = 0]
        <3>1. content(call.lines, o) = text /\ o.start = 0 /\ o.maxLength = 0
            BY <2>2, WholeContent
        <3> HIDE DEF o, text
        <3>2. Apply(call.lines, o) = paginateContent(text, 0, 0)
            BY <3>1 DEF Apply
        <3> QED BY <3>2 DEF o
    <2> HIDE DEF text, start, maxLength, whole
    <2>6. whole = text
        <3>1. 0 \in 0 .. Len(text) /\ 0 \in 0 .. MaxInt /\ InWindow(text, 0)
            BY <2>3, MachineWord DEF InWindow
        <3>2. PICK end \in 0 .. Len(text) :
                  /\ paginateContent(text, 0, 0)
                         = [window |-> SubSeq(text, 0 + 1, end), next |-> marker(end, Len(text))]
                  /\ end = Len(text)
            BY <2>3, <3>1, WindowIs
        <3>3. whole = SubSeq(text, 1, Len(text))
            BY <2>5, <3>2
        <3> QED BY <2>3, <3>3, SubSeqFull
    <2>7. CASE start > 0 /\ start >= Len(text)
        <3>1. answer = <<<<item("no content", 0, start)>>>>
            <4>1. Beyond(answer, next, start)
                BY <2>4, <2>7 DEF InWindow
            <4>2. next # start
                BY <2>1, <2>3 DEF NoMarker
            <4> QED BY <4>1, <4>2 DEF Beyond
        <3> QED BY <2>6, <2>7, <3>1 DEF ChunksRebuildTheText, start, whole
    <2>8. CASE ~(start > 0 /\ start >= Len(text))
        <3>1. /\ FlattenSeq(answer) = SubSeq(text, start + 1, Len(text))
              /\ maxLength > 0 => \A i \in DOMAIN answer : Len(answer[i]) <= maxLength
            BY <2>1, <2>4, <2>8 DEF InWindow, Rebuilt, Position
        <3> QED BY <2>6, <2>8, <3>1 DEF ChunksRebuildTheText, start, maxLength, whole
    <2> QED BY <2>7, <2>8
<1> QED BY <1>1, PureInvariant, PTL
==============================================================================

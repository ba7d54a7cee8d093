------------------------ MODULE ProviderSearchProofs ------------------------
(***************************************************************************)
(* Every backend's Search, for any page size, page cap and count: pages    *)
(* are merged in order, no error passes for an empty answer, no page is    *)
(* fetched in vain, and Stack Exchange's cooldown is honoured.             *)
(***************************************************************************)
EXTENDS ProviderSearch, FiniteSetTheorems, SequenceTheorems, TLAPS

-----------------------------------------------------------------------------
(* The least element of a set of numbers stands in for induction.          *)

LEMMA LeastNumber ==
    ASSUME NEW S \in SUBSET Nat, S # {}
    PROVE  \E m \in S : \A k \in S : m <= k
<1>1. IsWellFoundedOn(OpToRel(<, Nat), Nat)
    BY NatLessThanWellFounded
<1>2. PICK m \in S : \A k \in S : ~ (<<k, m>> \in OpToRel(<, Nat))
    BY <1>1, WFMin, Zenon
<1>3. \A k \in S : ~(k < m)
    BY <1>2 DEF OpToRel
<1> QED BY <1>3

LEMMA MinOfTwo ==
    ASSUME NEW a \in Nat, NEW b \in Nat
    PROVE  Min({a, b}) = IF a <= b THEN a ELSE b
BY DEF Min

LEMMA FirstRowsAre ==
    ASSUME NEW S, NEW s \in Seq(S), NEW n \in Nat
    PROVE  /\ FirstRows(s, n) \in Seq(S)
           /\ Len(FirstRows(s, n)) = IF n <= Len(s) THEN n ELSE Len(s)
           /\ \A i \in 1 .. Len(FirstRows(s, n)) : FirstRows(s, n)[i] = s[i]
           /\ Len(s) <= n => FirstRows(s, n) = s
<1> DEFINE m == IF n <= Len(s) THEN n ELSE Len(s)
<1>1. FirstRows(s, n) = SubSeq(s, 1, m) /\ m \in 0 .. Len(s)
    BY MinOfTwo DEF FirstRows
<1>2. \A i \in 1 .. m : s[i] \in S
    BY <1>1
<1> HIDE DEF m
<1>3. /\ SubSeq(s, 1, m) \in Seq(S) /\ Len(SubSeq(s, 1, m)) = m
      /\ \A i \in 1 .. m : SubSeq(s, 1, m)[i] = s[i]
    BY <1>1, <1>2, SubSeqProperties
<1>4. Len(s) <= n => SubSeq(s, 1, m) = s
    BY SubSeqFull DEF m
<1> QED BY <1>1, <1>3, <1>4 DEF m

-----------------------------------------------------------------------------
(* FlattenSeq, one page after the other.                                   *)

IsFlat(f, seqs, n) ==
    f = [i \in 1 .. n |-> IF i = 1 THEN seqs[i] ELSE f[i - 1] \o seqs[i]]

LEMMA FlatExists ==
    ASSUME NEW S, NEW seqs \in Seq(Seq(S))
    PROVE  \E f \in [1 .. Len(seqs) -> Seq(S)] : IsFlat(f, seqs, Len(seqs))
<1> DEFINE Has(n) == \E f \in [1 .. n -> Seq(S)] : IsFlat(f, seqs, n)
           Lacks == {n \in 0 .. Len(seqs) : ~Has(n)}
<1>1. Len(seqs) \in Nat /\ \A i \in 1 .. Len(seqs) : seqs[i] \in Seq(S)
    OBVIOUS
<1>2. Has(0)
    <2> DEFINE f == [i \in 1 .. 0 |-> <<>>]
    <2>1. f \in [1 .. 0 -> Seq(S)] /\ IsFlat(f, seqs, 0)
        BY DEF IsFlat
    <2> QED BY <2>1
<1>3. ASSUME NEW n \in 0 .. Len(seqs) - 1, Has(n) PROVE Has(n + 1)
    <2>1. PICK f \in [1 .. n -> Seq(S)] : IsFlat(f, seqs, n)
        BY <1>3
    <2> DEFINE next == IF n = 0 THEN seqs[1] ELSE f[n] \o seqs[n + 1]
               g == [i \in 1 .. n + 1 |-> IF i <= n THEN f[i] ELSE next]
    <2>2. n \in Nat /\ seqs[n + 1] \in Seq(S) /\ next \in Seq(S)
        <3>1. n \in Nat /\ n + 1 \in 1 .. Len(seqs)
            BY <1>1
        <3>2. seqs[n + 1] \in Seq(S)
            BY <1>1, <3>1
        <3>3. CASE n = 0
            BY <3>1, <3>2, <3>3
        <3>4. CASE n # 0
            <4>1. f[n] \in Seq(S)
                BY <3>1, <3>4
            <4> QED BY <3>1, <3>2, <3>4, <4>1, ConcatProperties
        <3> QED BY <3>3, <3>4
    <2>3. \A i \in 1 .. n : f[i] = IF i = 1 THEN seqs[i] ELSE f[i - 1] \o seqs[i]
        BY <2>1 DEF IsFlat
    <2> HIDE DEF next
    <2>4. g \in [1 .. n + 1 -> Seq(S)]
        BY <2>2
    <2>5. \A i \in 1 .. n + 1 : g[i] = IF i = 1 THEN seqs[i] ELSE g[i - 1] \o seqs[i]
        <3> SUFFICES ASSUME NEW i \in 1 .. n + 1
                     PROVE  g[i] = IF i = 1 THEN seqs[i] ELSE g[i - 1] \o seqs[i]
            OBVIOUS
        <3>1. CASE i \in 1 .. n
            <4>1. g[i] = f[i] /\ (i # 1 => g[i - 1] = f[i - 1])
                BY <2>2, <3>1
            <4> HIDE DEF g
            <4> QED BY <2>3, <3>1, <4>1
        <3>2. CASE i = n + 1
            <4>1. g[i] = next
                BY <2>2, <3>2
            <4>2. i # 1 => n # 0 /\ i - 1 = n /\ g[i - 1] = f[n]
                BY <2>2, <3>2
            <4>3. i = 1 => n = 0
                BY <2>2, <3>2
            <4> HIDE DEF g
            <4> QED BY <3>2, <4>1, <4>2, <4>3 DEF next
        <3> QED BY <2>2, <3>1, <3>2
    <2>6. g = [i \in 1 .. n + 1 |-> IF i = 1 THEN seqs[i] ELSE g[i - 1] \o seqs[i]]
        BY <2>5
    <2> HIDE DEF g
    <2>7. IsFlat(g, seqs, n + 1)
        BY <2>6 DEF IsFlat
    <2> QED BY <2>4, <2>7
<1> HIDE DEF Has
<1>4. Lacks = {}
    <2> SUFFICES ASSUME Lacks # {} PROVE FALSE
        OBVIOUS
    <2>1. Lacks \in SUBSET Nat
        OBVIOUS
    <2>2. PICK n \in Lacks : \A k \in Lacks : n <= k
        <3> HIDE DEF Lacks
        <3> QED BY <2>1, LeastNumber
    <2>3. n # 0 /\ n \in 0 .. Len(seqs)
        BY <1>2, <2>2
    <2>4. n - 1 \in 0 .. Len(seqs) - 1 /\ n - 1 \notin Lacks /\ (n - 1) + 1 = n
        BY <1>1, <2>2, <2>3
    <2>5. Has(n - 1)
        BY <1>1, <2>4
    <2>6. Has(n)
        BY <1>3, <2>4, <2>5
    <2> QED BY <2>2, <2>6
<1>5. Has(Len(seqs))
    BY <1>1, <1>4
<1> QED BY <1>5 DEF Has

LEMMA FlatIsUnique ==
    ASSUME NEW seqs, NEW m \in Nat, NEW n \in 0 .. m, NEW f, NEW g,
           IsFlat(f, seqs, m), IsFlat(g, seqs, n)
    PROVE  \A i \in 1 .. n : f[i] = g[i]
<1> SUFFICES ASSUME NEW i \in 1 .. n, f[i] # g[i] PROVE FALSE
    OBVIOUS
<1> DEFINE Wrong == {j \in 1 .. n : f[j] # g[j]}
<1>1. PICK j \in Wrong : \A k \in Wrong : j <= k
    <2>1. Wrong \in SUBSET Nat /\ Wrong # {}
        OBVIOUS
    <2> HIDE DEF Wrong
    <2> QED BY <2>1, LeastNumber
<1>2. j \in 1 .. n /\ j \in 1 .. m /\ (j # 1 => f[j - 1] = g[j - 1])
    BY <1>1
<1>3. f[j] = IF j = 1 THEN seqs[j] ELSE f[j - 1] \o seqs[j]
    BY <1>2 DEF IsFlat
<1>4. g[j] = IF j = 1 THEN seqs[j] ELSE g[j - 1] \o seqs[j]
    BY <1>2 DEF IsFlat
<1>5. f[j] = g[j]
    BY <1>2, <1>3, <1>4
<1> QED BY <1>1, <1>5

LEMMA FlattenIs ==
    ASSUME NEW S, NEW seqs \in Seq(Seq(S)), NEW f, IsFlat(f, seqs, Len(seqs)), Len(seqs) # 0
    PROVE  FlattenSeq(seqs) = f[Len(seqs)]
<1> DEFINE flatten == CHOOSE g : g = [i \in 1 .. Len(seqs) |->
                            IF i = 1 THEN seqs[i] ELSE g[i - 1] \o seqs[i]]
<1>1. FlattenSeq(seqs) = flatten[Len(seqs)]
    BY DEF FlattenSeq
<1>2. IsFlat(flatten, seqs, Len(seqs))
    BY DEF IsFlat
<1>3. Len(seqs) \in Nat /\ Len(seqs) \in 0 .. Len(seqs) /\ Len(seqs) \in 1 .. Len(seqs)
    OBVIOUS
<1> HIDE DEF flatten
<1>4. \A i \in 1 .. Len(seqs) : flatten[i] = f[i]
    BY <1>2, <1>3, FlatIsUnique
<1> QED BY <1>1, <1>3, <1>4

LEMMA FlattenGrows ==
    ASSUME NEW S, NEW seqs \in Seq(Seq(S)), NEW s \in Seq(S)
    PROVE  /\ FlattenSeq(<<>>) = <<>>
           /\ FlattenSeq(seqs) \in Seq(S)
           /\ FlattenSeq(Append(seqs, s)) = FlattenSeq(seqs) \o s
<1> DEFINE n == Len(seqs)
           longer == Append(seqs, s)
<1>1. /\ n \in Nat /\ longer \in Seq(Seq(S)) /\ Len(longer) = n + 1
      /\ longer[n + 1] = s /\ \A i \in 1 .. n : longer[i] = seqs[i]
    BY AppendProperties
<1>2. FlattenSeq(<<>>) = <<>>
    BY DEF FlattenSeq
<1>3. PICK f \in [1 .. n -> Seq(S)] : IsFlat(f, seqs, n)
    BY FlatExists
<1>4. PICK g \in [1 .. n + 1 -> Seq(S)] : IsFlat(g, longer, n + 1)
    BY <1>1, FlatExists
<1>5. FlattenSeq(longer) = g[n + 1]
    <2> HIDE DEF n, longer
    <2>1. IsFlat(g, longer, Len(longer)) /\ Len(longer) # 0
        BY <1>1, <1>4
    <2>2. FlattenSeq(longer) = g[Len(longer)]
        BY <1>1, <2>1, FlattenIs
    <2> QED BY <1>1, <2>2
<1>6. CASE n = 0
    <2>1. seqs = <<>>
        BY <1>6, EmptySeq
    <2>2. FlattenSeq(longer) = s
        BY <1>1, <1>4, <1>5, <1>6 DEF IsFlat
    <2>3. FlattenSeq(seqs) = <<>> /\ <<>> \in Seq(S)
        BY <1>2, <2>1, EmptySeq
    <2> QED BY <1>2, <2>2, <2>3, ConcatEmptySeq
<1>7. CASE n # 0
    <2>1. FlattenSeq(seqs) = f[n] /\ n \in 1 .. n
        BY <1>1, <1>3, <1>7, FlattenIs
    <2> HIDE DEF n, longer
    <2>2. IsFlat(g, longer, n + 1) /\ n + 1 \in Nat /\ n \in 0 .. n + 1
        BY <1>1, <1>4
    <2>3. IsFlat(f, longer, n)
        BY <1>1, <1>3 DEF IsFlat
    <2>4. \A i \in 1 .. n : g[i] = f[i]
        BY <2>2, <2>3, FlatIsUnique
    <2>5. g[n + 1] = g[n] \o s
        <3>1. n + 1 \in 1 .. n + 1 /\ n + 1 # 1 /\ (n + 1) - 1 = n
            BY <1>1, <1>7
        <3>2. g[n + 1] = IF n + 1 = 1 THEN longer[n + 1] ELSE g[(n + 1) - 1] \o longer[n + 1]
            BY <1>4, <3>1, Zenon DEF IsFlat
        <3> QED BY <1>1, <3>1, <3>2
    <2>6. FlattenSeq(seqs) \in Seq(S)
        BY <1>3, <2>1
    <2> QED BY <1>2, <1>5, <2>1, <2>4, <2>5, <2>6 DEF longer
<1> QED BY <1>6, <1>7

-----------------------------------------------------------------------------
(* The k-th element of a set of positions.                                 *)

Rank(S, i) == Cardinality(S \cap 1 .. i)

LEMMA RankIsNat ==
    ASSUME NEW S, NEW i \in Nat
    PROVE  IsFiniteSet(S \cap 1 .. i) /\ Rank(S, i) \in Nat /\ Rank(S, 0) = 0
<1>1. IsFiniteSet(1 .. i) /\ 1 .. 0 = {}
    BY FS_Interval
<1>2. IsFiniteSet(S \cap 1 .. i)
    BY <1>1, FS_Subset
<1> QED BY <1>1, <1>2, FS_CardinalityType, FS_EmptySet DEF Rank

LEMMA RankStep ==
    ASSUME NEW S, NEW i \in Nat
    PROVE  Rank(S, i + 1) = IF i + 1 \in S THEN Rank(S, i) + 1 ELSE Rank(S, i)
<1>1. CASE i + 1 \in S
    <2>1. S \cap 1 .. (i + 1) = (S \cap 1 .. i) \cup {i + 1} /\ i + 1 \notin S \cap 1 .. i
        BY <1>1
    <2> QED BY <1>1, <2>1, RankIsNat, FS_AddElement DEF Rank
<1>2. CASE i + 1 \notin S
    <2>1. S \cap 1 .. (i + 1) = S \cap 1 .. i
        BY <1>2
    <2> QED BY <1>2, <2>1 DEF Rank
<1> QED BY <1>1, <1>2

LEMMA RankGrows ==
    ASSUME NEW S, NEW i \in Nat, NEW j \in Nat
    PROVE  /\ i <= j => Rank(S, i) <= Rank(S, j)
           /\ i < j /\ j \in S => Rank(S, i) < Rank(S, j)
<1>1. ASSUME NEW a \in Nat, NEW b \in Nat, a <= b PROVE Rank(S, a) <= Rank(S, b)
    <2>1. S \cap 1 .. a \in SUBSET (S \cap 1 .. b) /\ IsFiniteSet(S \cap 1 .. b)
        BY <1>1, RankIsNat
    <2>2. Cardinality(S \cap 1 .. a) <= Cardinality(S \cap 1 .. b)
        BY <2>1, FS_Subset
    <2> QED BY <2>2 DEF Rank
<1>2. ASSUME i < j, j \in S PROVE Rank(S, i) < Rank(S, j)
    <2>1. j - 1 \in Nat /\ i <= j - 1 /\ (j - 1) + 1 = j
        BY <1>2
    <2>2. Rank(S, j) = Rank(S, j - 1) + 1
        BY <1>2, <2>1, RankStep
    <2>3. Rank(S, i) <= Rank(S, j - 1)
        BY <1>1, <2>1
    <2>4. Rank(S, i) \in Nat /\ Rank(S, j - 1) \in Nat
        BY <2>1, RankIsNat
    <2> QED BY <2>2, <2>3, <2>4
<1> QED BY <1>1, <1>2

LEMMA RankIsOnto ==
    ASSUME NEW N \in Nat, NEW S \in SUBSET (1 .. N), NEW k \in 1 .. Cardinality(S)
    PROVE  \E i \in S : Rank(S, i) = k
<1> DEFINE Reach == {i \in Nat : Rank(S, i) >= k}
<1>1. N \in Reach
    <2>1. S \cap 1 .. N = S
        OBVIOUS
    <2>2. Rank(S, N) = Cardinality(S)
        BY <2>1 DEF Rank
    <2>3. Rank(S, N) \in Nat
        BY RankIsNat
    <2> QED BY <2>2, <2>3
<1>2. PICK m \in Reach : \A i \in Reach : m <= i
    <2>1. Reach \in SUBSET Nat /\ Reach # {}
        BY <1>1
    <2> HIDE DEF Reach
    <2> QED BY <2>1, LeastNumber
<1>3. m \in Nat /\ Rank(S, m) >= k /\ Rank(S, m) \in Nat
    BY <1>2, RankIsNat
<1>4. Rank(S, 0) = 0
    BY RankIsNat
<1>5. m # 0
    BY <1>3, <1>4
<1>6. m - 1 \in Nat /\ (m - 1) + 1 = m /\ m - 1 \notin Reach
    BY <1>2, <1>3, <1>5
<1>7. Rank(S, m - 1) \in Nat
    BY <1>6, RankIsNat
<1>8. Rank(S, m - 1) < k
    BY <1>6, <1>7
<1>9. Rank(S, m) = IF m \in S THEN Rank(S, m - 1) + 1 ELSE Rank(S, m - 1)
    BY <1>6, RankStep
<1>10. m \in S /\ Rank(S, m) = k
    BY <1>3, <1>7, <1>8, <1>9
<1> QED BY <1>10

LEMMA RankRange ==
    ASSUME NEW N \in Nat, NEW S \in SUBSET (1 .. N), NEW i \in S
    PROVE  Rank(S, i) \in 1 .. Cardinality(S)
<1>1. S \cap 1 .. N = S
    OBVIOUS
<1>2. Rank(S, i) <= Rank(S, N) /\ Rank(S, 0) < Rank(S, i)
    BY RankGrows
<1> QED BY <1>1, <1>2, RankIsNat DEF Rank

-----------------------------------------------------------------------------
(***************************************************************************)
(* PagesAreMergedInOrder without the count: the rows of a sequence whose   *)
(* key no earlier row has, in its order.                                   *)
(***************************************************************************)
Firsts(p, all) ==
    {i \in DOMAIN all : \A j \in 1 .. i - 1 : KeyOf(p, all[j]) # KeyOf(p, all[i])}

Nth(S, k) == CHOOSE i \in S : Rank(S, i) = k

Distinct(p, all) ==
    [k \in 1 .. Cardinality(Firsts(p, all)) |-> all[Nth(Firsts(p, all), k)]]

LEMMA NthIs ==
    ASSUME NEW N \in Nat, NEW S \in SUBSET (1 .. N), NEW i \in S, NEW k, Rank(S, i) = k
    PROVE  Nth(S, k) = i
<1>1. Nth(S, k) \in S /\ Rank(S, Nth(S, k)) = k
    BY DEF Nth
<1>2. ASSUME NEW j \in S, j < i PROVE Rank(S, j) < Rank(S, i)
    BY <1>2, RankGrows
<1>3. ASSUME NEW j \in S, i < j PROVE Rank(S, i) < Rank(S, j)
    BY <1>3, RankGrows
<1>4. Rank(S, i) \in Nat
    <2>1. i \in Nat
        OBVIOUS
    <2> QED BY <2>1, RankIsNat
<1> DEFINE m == Nth(S, k)
<1>5. m \in S /\ Rank(S, m) = Rank(S, i)
    BY <1>1
<1> HIDE DEF m
<1>6. ~(m < i) /\ ~(i < m)
    BY <1>2, <1>3, <1>4, <1>5
<1>7. m = i
    BY <1>5, <1>6
<1> QED BY <1>7 DEF m

LEMMA FirstsAre ==
    ASSUME NEW p, NEW all \in Seq(Urls)
    PROVE  /\ Firsts(p, all) \in SUBSET (1 .. Len(all)) /\ Len(all) \in Nat
           /\ Cardinality(Firsts(p, all)) \in Nat
<1>1. Firsts(p, all) \in SUBSET (1 .. Len(all)) /\ Len(all) \in Nat
    BY DEF Firsts
<1>2. IsFiniteSet(1 .. Len(all))
    BY <1>1, FS_Interval
<1> QED BY <1>1, <1>2, FS_Subset, FS_CardinalityType

\* The rows kept are the first ones of their key, and no others.
LEMMA DistinctRows ==
    ASSUME NEW p, NEW all \in Seq(Urls)
    PROVE  /\ Distinct(p, all) \in Seq(Urls)
           /\ Len(Distinct(p, all)) = Cardinality(Firsts(p, all))
           /\ \A i \in Firsts(p, all) :
                /\ Rank(Firsts(p, all), i) \in 1 .. Len(Distinct(p, all))
                /\ Distinct(p, all)[Rank(Firsts(p, all), i)] = all[i]
           /\ \A k \in 1 .. Len(Distinct(p, all)) :
                \E i \in Firsts(p, all) : Rank(Firsts(p, all), i) = k
<1> DEFINE F == Firsts(p, all)
           D == Distinct(p, all)
<1>1. F \in SUBSET (1 .. Len(all)) /\ Len(all) \in Nat /\ Cardinality(F) \in Nat
    BY FirstsAre
<1>2. D = [k \in 1 .. Cardinality(F) |-> all[Nth(F, k)]]
    BY DEF Distinct
<1> HIDE DEF F, D
<1>3. \A k \in 1 .. Cardinality(F) : \E i \in F : Rank(F, i) = k
    BY <1>1, RankIsOnto
<1>4. \A i \in F : Rank(F, i) \in 1 .. Cardinality(F) /\ Nth(F, Rank(F, i)) = i
    BY <1>1, RankRange, NthIs
<1>5. \A k \in 1 .. Cardinality(F) : Nth(F, k) \in F
    BY <1>3, <1>4
<1>6. \A k \in 1 .. Cardinality(F) : all[Nth(F, k)] \in Urls
    <2>1. \A j \in F : all[j] \in Urls
        BY <1>1
    <2> QED BY <1>5, <2>1
<1>7. D \in Seq(Urls) /\ Len(D) = Cardinality(F)
    BY <1>1, <1>2, <1>6
<1> QED BY <1>2, <1>3, <1>4, <1>7 DEF F, D

HasKey(p, rows, key) == \E i \in 1 .. Len(rows) : KeyOf(p, rows[i]) = key

\* Whatever key a row has, a first row has it.
LEMMA EveryKeyIsKept ==
    ASSUME NEW p, NEW all \in Seq(Urls)
    PROVE  \A key : HasKey(p, Distinct(p, all), key) <=> HasKey(p, all, key)
<1> SUFFICES ASSUME NEW key
             PROVE  (\E k \in 1 .. Len(Distinct(p, all)) : KeyOf(p, Distinct(p, all)[k]) = key)
                        <=> (\E i \in 1 .. Len(all) : KeyOf(p, all[i]) = key)
    BY DEF HasKey
<1> DEFINE F == Firsts(p, all)
<1>1. F \in SUBSET (1 .. Len(all))
    BY FirstsAre
<1>2. ASSUME NEW k \in 1 .. Len(Distinct(p, all)), KeyOf(p, Distinct(p, all)[k]) = key
      PROVE  \E i \in 1 .. Len(all) : KeyOf(p, all[i]) = key
    <2>1. PICK i \in F : Rank(F, i) = k
        BY DistinctRows
    <2>2. Distinct(p, all)[k] = all[i]
        BY <2>1, DistinctRows
    <2> QED BY <1>1, <1>2, <2>2
<1>3. ASSUME NEW i \in 1 .. Len(all), KeyOf(p, all[i]) = key
      PROVE  \E k \in 1 .. Len(Distinct(p, all)) : KeyOf(p, Distinct(p, all)[k]) = key
    <2> DEFINE Same == {j \in 1 .. Len(all) : KeyOf(p, all[j]) = key}
    <2>1. PICK m \in Same : \A j \in Same : m <= j
        <3>1. Same \in SUBSET Nat /\ Same # {}
            BY <1>3
        <3> HIDE DEF Same
        <3> QED BY <3>1, LeastNumber
    <2>2. m \in F
        BY <2>1 DEF Firsts
    <2>3. /\ Rank(F, m) \in 1 .. Len(Distinct(p, all))
          /\ Distinct(p, all)[Rank(F, m)] = all[m]
        BY <2>2, DistinctRows
    <2> QED BY <2>1, <2>3
<1> QED BY <1>2, <1>3

\* One row more is kept unless its key is known.
LEMMA DistinctGrows ==
    ASSUME NEW p, NEW all \in Seq(Urls), NEW u \in Urls
    PROVE  Distinct(p, Append(all, u)) =
               IF HasKey(p, all, KeyOf(p, u)) THEN Distinct(p, all)
               ELSE Append(Distinct(p, all), u)
<1> DEFINE longer == Append(all, u)
           N == Len(all)
           F == Firsts(p, all)
           G == Firsts(p, longer)
           known == HasKey(p, all, KeyOf(p, u))
<1>1. /\ N \in Nat /\ longer \in Seq(Urls) /\ Len(longer) = N + 1
      /\ longer[N + 1] = u /\ \A i \in 1 .. N : longer[i] = all[i]
    BY AppendProperties
<1>2. F \in SUBSET (1 .. N) /\ G \in SUBSET (1 .. N + 1)
    BY <1>1, FirstsAre
<1>3. G = IF known THEN F ELSE F \cup {N + 1}
    <2> HIDE DEF longer
    <2>1. \A i \in 1 .. N : i \in G <=> i \in F
        BY <1>1 DEF Firsts
    <2>2. N + 1 \in G <=> ~known
        BY <1>1 DEF Firsts, HasKey
    <2> HIDE DEF F, G, N, known
    <2>3. \A i \in 1 .. N + 1 : i \in 1 .. N \/ i = N + 1
        BY <1>1
    <2>4. \A i : i \in G <=> i \in F \/ (i = N + 1 /\ ~known)
        BY <1>2, <2>1, <2>2, <2>3
    <2> QED BY <2>4
<1>4. \A i \in F : Rank(G, i) = Rank(F, i)
    <2>1. \A i \in F : G \cap 1 .. i = F \cap 1 .. i
        BY <1>1, <1>2, <1>3
    <2> HIDE DEF F, G
    <2> QED BY <2>1 DEF Rank
<1>5. /\ Cardinality(F) \in Nat /\ IsFiniteSet(F)
      /\ Cardinality(G) = IF known THEN Cardinality(F) ELSE Cardinality(F) + 1
    <2>1. N + 1 \notin F
        BY <1>1, <1>2
    <2> HIDE DEF F, G, N, known
    <2>2. IsFiniteSet(F)
        <3>1. IsFiniteSet(1 .. N)
            BY <1>1, FS_Interval
        <3> QED BY <1>2, <3>1, FS_Subset
    <2>3. /\ Cardinality(F) \in Nat
          /\ Cardinality(F \cup {N + 1}) = Cardinality(F) + 1
        BY <2>1, <2>2, FS_AddElement, FS_CardinalityType
    <2> QED BY <1>3, <2>2, <2>3
<1>6. \A k \in 1 .. Cardinality(F) : Nth(F, k) \in F /\ Nth(G, k) = Nth(F, k)
    <2> SUFFICES ASSUME NEW k \in 1 .. Cardinality(F)
                 PROVE  Nth(F, k) \in F /\ Nth(G, k) = Nth(F, k)
        OBVIOUS
    <2> HIDE DEF F, G, N, known
    <2>1. PICK i \in F : Rank(F, i) = k
        BY <1>1, <1>2, RankIsOnto
    <2>2. i \in G /\ Rank(G, i) = k
        BY <1>3, <1>4, <2>1
    <2>3. N + 1 \in Nat
        BY <1>1
    <2>4. Nth(F, k) = i
        BY <1>1, <1>2, <2>1, NthIs
    <2>5. Nth(G, k) = i
        BY <1>2, <2>2, <2>3, NthIs
    <2> QED BY <2>4, <2>5
<1>7. ~known => Nth(G, Cardinality(F) + 1) = N + 1
    <2> SUFFICES ASSUME ~known PROVE Nth(G, Cardinality(F) + 1) = N + 1
        OBVIOUS
    <2>1. G \cap 1 .. N + 1 = G /\ N + 1 \in G
        BY <1>2, <1>3
    <2> HIDE DEF F, G, N, known
    <2>2. Rank(G, N + 1) = Cardinality(F) + 1
        BY <1>5, <2>1 DEF Rank
    <2> DEFINE M == N + 1
    <2>3. M \in Nat /\ G \in SUBSET (1 .. M) /\ M \in G /\ Rank(G, M) = Cardinality(F) + 1
        BY <1>1, <1>2, <2>1, <2>2
    <2> HIDE DEF M
    <2>4. Nth(G, Cardinality(F) + 1) = M
        BY <2>3, NthIs
    <2> QED BY <2>4 DEF M
<1>8. /\ Distinct(p, longer) = [k \in 1 .. Cardinality(G) |-> longer[Nth(G, k)]]
      /\ Distinct(p, all) = [k \in 1 .. Cardinality(F) |-> all[Nth(F, k)]]
      /\ Distinct(p, all) \in Seq(Urls) /\ Len(Distinct(p, all)) = Cardinality(F)
    BY DistinctRows DEF Distinct
<1> HIDE DEF F, G, N, known, longer
<1>9. \A k \in 1 .. Cardinality(F) : longer[Nth(G, k)] = all[Nth(F, k)]
    BY <1>1, <1>2, <1>6
<1>10. CASE known
    <2>1. Cardinality(G) = Cardinality(F)
        BY <1>5, <1>10
    <2>2. Distinct(p, longer) = Distinct(p, all)
        BY <1>8, <1>9, <2>1
    <2> QED BY <1>10, <2>2 DEF known, longer, N
<1>11. CASE ~known
    <2> DEFINE D == Distinct(p, all)
               E == Distinct(p, longer)
    <2>1. E = [k \in 1 .. Cardinality(F) + 1 |-> longer[Nth(G, k)]]
        BY <1>5, <1>8, <1>11
    <2>2. /\ \A k \in 1 .. Cardinality(F) : E[k] = D[k]
          /\ E[Cardinality(F) + 1] = u
        BY <1>1, <1>5, <1>7, <1>8, <1>9, <1>11, <2>1
    <2>3. E \in Seq(Urls) /\ Len(E) = Cardinality(F) + 1
        <3>1. longer \in Seq(Urls)
            BY <1>1
        <3>2. E \in Seq(Urls)
            BY <3>1, DistinctRows
        <3> QED BY <1>5, <2>1, <3>2
    <2>4. D \in Seq(Urls) /\ Len(D) = Cardinality(F)
        BY <1>8
    <2> HIDE DEF D, E
    <2>5. /\ Append(D, u) \in Seq(Urls) /\ Len(Append(D, u)) = Cardinality(F) + 1
          /\ \A k \in 1 .. Cardinality(F) + 1 : Append(D, u)[k] = E[k]
        BY <1>5, <2>2, <2>4, AppendProperties
    <2>6. E = Append(D, u)
        BY <2>3, <2>5, SeqEqual
    <2> QED BY <1>11, <2>6 DEF known, longer, N, D, E
<1> QED BY <1>10, <1>11

-----------------------------------------------------------------------------
(* The page loop computes the first rows of their keys.                    *)

LEMMA AddRowIsDistinct ==
    ASSUME NEW p, NEW all \in Seq(Urls), NEW u \in Urls, NEW n \in Nat
    PROVE  AddRow(p, FirstRows(Distinct(p, all), n), u, n)
               = FirstRows(Distinct(p, Append(all, u)), n)
<1> DEFINE D == Distinct(p, all)
           E == Distinct(p, Append(all, u))
           kept == FirstRows(D, n)
           known == HasKey(p, all, KeyOf(p, u))
<1>1. D \in Seq(Urls) /\ Len(D) \in Nat
    BY DistinctRows
<1>2. E = IF known THEN D ELSE Append(D, u)
    BY DistinctGrows
<1>3. KeyOf(p, u) \in {KeyOf(p, x) : x \in ToSet(D)} <=> known
    <2>1. DOMAIN D = 1 .. Len(D)
        BY <1>1
    <2>2. HasKey(p, D, KeyOf(p, u)) <=> known
        BY EveryKeyIsKept
    <2> HIDE DEF D, known
    <2> QED BY <2>1, <2>2 DEF ToSet, HasKey
<1>4. /\ kept \in Seq(Urls) /\ Len(kept) = IF n <= Len(D) THEN n ELSE Len(D)
      /\ \A i \in 1 .. Len(kept) : kept[i] = D[i]
      /\ Len(D) <= n => kept = D
    BY <1>1, FirstRowsAre
<1>5. Append(D, u) \in Seq(Urls) /\ Len(Append(D, u)) = Len(D) + 1
      /\ \A i \in 1 .. Len(D) : Append(D, u)[i] = D[i]
    BY <1>1, AppendProperties
<1> HIDE DEF D, E, kept, known
<1>6. CASE n <= Len(D)
    <2>1. AddRow(p, kept, u, n) = kept
        BY <1>1, <1>4, <1>6 DEF AddRow
    <2> DEFINE longer == Append(D, u)
               next == FirstRows(longer, n)
    <2>2. /\ longer \in Seq(Urls) /\ Len(longer) = Len(D) + 1
          /\ \A i \in 1 .. Len(D) : longer[i] = D[i]
        BY <1>5
    <2> HIDE DEF longer
    <2>3. /\ next \in Seq(Urls) /\ Len(next) = n
          /\ \A i \in 1 .. Len(next) : next[i] = longer[i]
        BY <1>1, <1>6, <2>2, FirstRowsAre
    <2> HIDE DEF next
    <2>4. \A i \in 1 .. n : next[i] = kept[i]
        <3>1. Len(next) = n /\ Len(kept) = n /\ \A i \in 1 .. n : i \in 1 .. Len(D)
            BY <1>1, <1>4, <1>6, <2>3
        <3>2. /\ \A i \in 1 .. n : next[i] = longer[i]
              /\ \A i \in 1 .. n : kept[i] = D[i]
            BY <1>4, <2>3, <3>1
        <3> QED BY <2>2, <3>1, <3>2
    <2>5. next = kept
        BY <1>4, <1>6, <2>3, <2>4, SeqEqual
    <2>6. FirstRows(E, n) = kept
        BY <1>2, <2>5 DEF next, longer, kept
    <2> QED BY <2>1, <2>6 DEF kept, D, E
<1>7. CASE Len(D) < n
    <2>1. kept = D
        BY <1>1, <1>4, <1>7
    <2>2. AddRow(p, kept, u, n) = E
        BY <1>1, <1>2, <1>3, <1>7, <2>1 DEF AddRow
    <2>3. E \in Seq(Urls) /\ Len(E) <= n
        BY <1>1, <1>2, <1>5, <1>7
    <2>4. FirstRows(E, n) = E
        BY <2>3, FirstRowsAre
    <2> QED BY <2>2, <2>4 DEF kept, D, E
<1> QED BY <1>1, <1>6, <1>7

\* Both the loop and the first rows of ever longer prefixes solve the recursion,
\* and where two solutions differ first they cannot differ.
LEMMA MergeIsDistinct ==
    ASSUME NEW p, NEW all \in Seq(Urls), NEW rows \in Seq(Urls), NEW n \in Nat
    PROVE  Merge(p, FirstRows(Distinct(p, all), n), rows, n)
               = FirstRows(Distinct(p, all \o rows), n)
<1> DEFINE m == Len(rows)
           got == FirstRows(Distinct(p, all), n)
           upTo(i) == all \o SubSeq(rows, 1, i)
           Body(f, i) == IF i = 0 THEN got ELSE AddRow(p, f[i - 1], rows[i], n)
           f0 == [i \in 0 .. m |-> FirstRows(Distinct(p, upTo(i)), n)]
           kept == CHOOSE f : f = [i \in 0 .. m |-> Body(f, i)]
<1>1. m \in Nat /\ \A i \in 1 .. m : rows[i] \in Urls
    OBVIOUS
<1>2. upTo(0) = all /\ upTo(m) = all \o rows
    <2>1. SubSeq(rows, 1, 0) = <<>> /\ SubSeq(rows, 1, m) = rows
        BY SubSeqEmpty, SubSeqFull
    <2> QED BY <2>1, ConcatEmptySeq
<1>3. \A i \in 1 .. m : upTo(i - 1) \in Seq(Urls) /\ upTo(i) = Append(upTo(i - 1), rows[i])
    <2> SUFFICES ASSUME NEW i \in 1 .. m
                 PROVE upTo(i - 1) \in Seq(Urls) /\ upTo(i) = Append(upTo(i - 1), rows[i])
        OBVIOUS
    <2> DEFINE before == SubSeq(rows, 1, i - 1)
    <2>1. before \in Seq(Urls)
        BY <1>1, SubSeqProperties
    <2>2. SubSeq(rows, 1, i) = before \o <<rows[i]>>
        BY <1>1, SubSeqRecursiveSecond
    <2>3. <<rows[i]>> \in Seq(Urls)
        BY <1>1
    <2> HIDE DEF before
    <2>4. all \o (before \o <<rows[i]>>) = (all \o before) \o <<rows[i]>>
        BY <2>1, <2>3, ConcatAssociative
    <2>5. all \o before \in Seq(Urls)
        BY <2>1, ConcatProperties
    <2>6. Append(all \o before, rows[i]) = (all \o before) \o <<rows[i]>>
        BY <1>1, <2>5, AppendIsConcat
    <2> QED BY <2>2, <2>4, <2>5, <2>6 DEF before
<1>4. f0 = [i \in 0 .. m |-> Body(f0, i)]
    <2> SUFFICES ASSUME NEW i \in 0 .. m PROVE f0[i] = Body(f0, i)
        OBVIOUS
    <2> HIDE DEF upTo
    <2>1. CASE i = 0
        BY <1>2, <2>1
    <2>2. CASE i # 0
        <3>1. i \in 1 .. m /\ i - 1 \in 0 .. m
            BY <1>1, <2>2
        <3>2. f0[i - 1] = FirstRows(Distinct(p, upTo(i - 1)), n)
            BY <3>1
        <3> DEFINE before == upTo(i - 1)
        <3>3. before \in Seq(Urls) /\ rows[i] \in Urls /\ upTo(i) = Append(before, rows[i])
            BY <1>1, <1>3, <3>1
        <3> HIDE DEF before
        <3>4. AddRow(p, FirstRows(Distinct(p, before), n), rows[i], n)
                  = FirstRows(Distinct(p, Append(before, rows[i])), n)
            BY <3>3, AddRowIsDistinct
        <3>5. AddRow(p, f0[i - 1], rows[i], n) = FirstRows(Distinct(p, upTo(i)), n)
            BY <3>2, <3>3, <3>4, Zenon DEF before
        <3> QED BY <2>2, <3>5
    <2> QED BY <2>1, <2>2
<1> HIDE DEF upTo
<1>5. kept = [i \in 0 .. m |-> Body(kept, i)]
    <2> HIDE DEF Body, f0
    <2> QED BY <1>4
<1>6. \A i \in 0 .. m : kept[i] = f0[i]
    <2> SUFFICES ASSUME NEW i \in 0 .. m, kept[i] # f0[i] PROVE FALSE
        OBVIOUS
    <2> HIDE DEF Body, f0, kept
    <2> DEFINE Wrong == {j \in 0 .. m : kept[j] # f0[j]}
    <2>1. PICK j \in Wrong : \A k \in Wrong : j <= k
        <3>1. Wrong \in SUBSET Nat /\ Wrong # {}
            OBVIOUS
        <3> HIDE DEF Wrong
        <3> QED BY <3>1, LeastNumber
    <2>2. j \in 0 .. m /\ (j # 0 => j - 1 \in 0 .. m /\ kept[j - 1] = f0[j - 1])
        BY <1>1, <2>1
    <2>3. kept[j] = Body(kept, j) /\ f0[j] = Body(f0, j)
        BY <1>4, <1>5, <2>2
    <2>4. Body(kept, j) = Body(f0, j)
        BY <2>2 DEF Body
    <2> QED BY <2>1, <2>3, <2>4
<1>7. Merge(p, got, rows, n) = kept[m]
    BY DEF Merge
<1>8. f0[m] = FirstRows(Distinct(p, all \o rows), n)
    <2>1. m \in 0 .. m
        BY <1>1
    <2> HIDE DEF m
    <2>2. f0[m] = FirstRows(Distinct(p, upTo(m)), n)
        BY <2>1
    <2> QED BY <1>2, <2>2, Zenon
<1> HIDE DEF f0, kept, got
<1>9. Merge(p, got, rows, n) = FirstRows(Distinct(p, all \o rows), n)
    BY <1>1, <1>6, <1>7, <1>8
<1> QED BY <1>9 DEF got

-----------------------------------------------------------------------------
(* What an accepted answer was.                                            *)

Errors == {"blocked", "limited", "error"}

LEMMA FirstHit ==
    ASSUME NEW checks, NEW n \in Nat, Len(checks) = n,
           \A i \in 1 .. n : checks[i][2] \in Errors
    PROVE  /\ Verdict(checks) \in Errors \cup {"ok"}
           /\ Verdict(checks) = "ok" => \A i \in 1 .. n : ~checks[i][1]
<1> DEFINE hits == {i \in 1 .. n : checks[i][1]}
           hit == IF hits # {} THEN Min(hits) ELSE 0
<1>1. Verdict(checks) = IF hit = 0 THEN "ok" ELSE checks[hit][2]
    BY DEF Verdict, SelectInSeq
<1>2. CASE hits = {}
    BY <1>1, <1>2
<1>3. CASE hits # {}
    <2>1. \E m \in hits : \A k \in hits : m <= k
        <3>1. hits \in SUBSET Nat
            OBVIOUS
        <3> HIDE DEF hits
        <3> QED BY <1>3, <3>1, LeastNumber
    <2>2. hit \in hits
        BY <1>3, <2>1 DEF Min
    <2> HIDE DEF hit
    <2>3. hit \in 1 .. n /\ hit # 0
        BY <2>2
    <2> QED BY <1>1, <2>3 DEF Errors
<1> QED BY <1>2, <1>3

LEMMA ThreeChecks ==
    ASSUME NEW c1, NEW c2, NEW c3,
           c1[2] \in Errors, c2[2] \in Errors, c3[2] \in Errors
    PROVE  LET v == Verdict(<<c1, c2, c3>>) IN
           /\ v \in Errors \cup {"ok"}
           /\ v = "ok" => ~c1[1] /\ ~c2[1] /\ ~c3[1]
<1> DEFINE checks == <<c1, c2, c3>>
<1>1. /\ Len(checks) = 3 /\ \A i \in 1 .. 3 : checks[i][2] \in Errors
      /\ checks[1] = c1 /\ checks[2] = c2 /\ checks[3] = c3
    OBVIOUS
<1> HIDE DEF checks
<1>2. /\ Verdict(checks) \in Errors \cup {"ok"}
      /\ Verdict(checks) = "ok" => \A i \in 1 .. 3 : ~checks[i][1]
    BY <1>1, FirstHit
<1> QED BY <1>1, <1>2 DEF checks

LEMMA FourChecks ==
    ASSUME NEW c1, NEW c2, NEW c3, NEW c4,
           c1[2] \in Errors, c2[2] \in Errors, c3[2] \in Errors, c4[2] \in Errors
    PROVE  LET v == Verdict(<<c1, c2, c3, c4>>) IN
           /\ v \in Errors \cup {"ok"}
           /\ v = "ok" => ~c1[1] /\ ~c2[1] /\ ~c3[1] /\ ~c4[1]
<1> DEFINE checks == <<c1, c2, c3, c4>>
<1>1. /\ Len(checks) = 4 /\ \A i \in 1 .. 4 : checks[i][2] \in Errors
      /\ checks[1] = c1 /\ checks[2] = c2 /\ checks[3] = c3 /\ checks[4] = c4
    OBVIOUS
<1> HIDE DEF checks
<1>2. /\ Verdict(checks) \in Errors \cup {"ok"}
      /\ Verdict(checks) = "ok" => \A i \in 1 .. 4 : ~checks[i][1]
    BY <1>1, FirstHit
<1> QED BY <1>1, <1>2 DEF checks

LEMMA FiveChecks ==
    ASSUME NEW c1, NEW c2, NEW c3, NEW c4, NEW c5,
           c1[2] \in Errors, c2[2] \in Errors, c3[2] \in Errors, c4[2] \in Errors, c5[2] \in Errors
    PROVE  LET v == Verdict(<<c1, c2, c3, c4, c5>>) IN
           /\ v \in Errors \cup {"ok"}
           /\ v = "ok" => ~c1[1] /\ ~c2[1] /\ ~c3[1] /\ ~c4[1] /\ ~c5[1]
<1> DEFINE checks == <<c1, c2, c3, c4, c5>>
<1>1. /\ Len(checks) = 5 /\ \A i \in 1 .. 5 : checks[i][2] \in Errors
      /\ checks[1] = c1 /\ checks[2] = c2 /\ checks[3] = c3 /\ checks[4] = c4 /\ checks[5] = c5
    OBVIOUS
<1> HIDE DEF checks
<1>2. /\ Verdict(checks) \in Errors \cup {"ok"}
      /\ Verdict(checks) = "ok" => \A i \in 1 .. 5 : ~checks[i][1]
    BY <1>1, FirstHit
<1> QED BY <1>1, <1>2 DEF checks

LEMMA SixChecks ==
    ASSUME NEW c1, NEW c2, NEW c3, NEW c4, NEW c5, NEW c6,
           c1[2] \in Errors, c2[2] \in Errors, c3[2] \in Errors, c4[2] \in Errors, c5[2] \in Errors, c6[2] \in Errors
    PROVE  LET v == Verdict(<<c1, c2, c3, c4, c5, c6>>) IN
           /\ v \in Errors \cup {"ok"}
           /\ v = "ok" => ~c1[1] /\ ~c2[1] /\ ~c3[1] /\ ~c4[1] /\ ~c5[1] /\ ~c6[1]
<1> DEFINE checks == <<c1, c2, c3, c4, c5, c6>>
<1>1. /\ Len(checks) = 6 /\ \A i \in 1 .. 6 : checks[i][2] \in Errors
      /\ checks[1] = c1 /\ checks[2] = c2 /\ checks[3] = c3 /\ checks[4] = c4 /\ checks[5] = c5 /\ checks[6] = c6
    OBVIOUS
<1> HIDE DEF checks
<1>2. /\ Verdict(checks) \in Errors \cup {"ok"}
      /\ Verdict(checks) = "ok" => \A i \in 1 .. 6 : ~checks[i][1]
    BY <1>1, FirstHit
<1> QED BY <1>1, <1>2 DEF checks

LEMMA SevenChecks ==
    ASSUME NEW c1, NEW c2, NEW c3, NEW c4, NEW c5, NEW c6, NEW c7,
           c1[2] \in Errors, c2[2] \in Errors, c3[2] \in Errors, c4[2] \in Errors, c5[2] \in Errors, c6[2] \in Errors, c7[2] \in Errors
    PROVE  LET v == Verdict(<<c1, c2, c3, c4, c5, c6, c7>>) IN
           /\ v \in Errors \cup {"ok"}
           /\ v = "ok" => ~c1[1] /\ ~c2[1] /\ ~c3[1] /\ ~c4[1] /\ ~c5[1] /\ ~c6[1] /\ ~c7[1]
<1> DEFINE checks == <<c1, c2, c3, c4, c5, c6, c7>>
<1>1. /\ Len(checks) = 7 /\ \A i \in 1 .. 7 : checks[i][2] \in Errors
      /\ checks[1] = c1 /\ checks[2] = c2 /\ checks[3] = c3 /\ checks[4] = c4 /\ checks[5] = c5 /\ checks[6] = c6 /\ checks[7] = c7
    OBVIOUS
<1> HIDE DEF checks
<1>2. /\ Verdict(checks) \in Errors \cup {"ok"}
      /\ Verdict(checks) = "ok" => \A i \in 1 .. 7 : ~checks[i][1]
    BY <1>1, FirstHit
<1> QED BY <1>1, <1>2 DEF checks

LEMMA EightChecks ==
    ASSUME NEW c1, NEW c2, NEW c3, NEW c4, NEW c5, NEW c6, NEW c7, NEW c8,
           c1[2] \in Errors, c2[2] \in Errors, c3[2] \in Errors, c4[2] \in Errors, c5[2] \in Errors, c6[2] \in Errors, c7[2] \in Errors, c8[2] \in Errors
    PROVE  LET v == Verdict(<<c1, c2, c3, c4, c5, c6, c7, c8>>) IN
           /\ v \in Errors \cup {"ok"}
           /\ v = "ok" => ~c1[1] /\ ~c2[1] /\ ~c3[1] /\ ~c4[1] /\ ~c5[1] /\ ~c6[1] /\ ~c7[1] /\ ~c8[1]
<1> DEFINE checks == <<c1, c2, c3, c4, c5, c6, c7, c8>>
<1>1. /\ Len(checks) = 8 /\ \A i \in 1 .. 8 : checks[i][2] \in Errors
      /\ checks[1] = c1 /\ checks[2] = c2 /\ checks[3] = c3 /\ checks[4] = c4 /\ checks[5] = c5 /\ checks[6] = c6 /\ checks[7] = c7 /\ checks[8] = c8
    OBVIOUS
<1> HIDE DEF checks
<1>2. /\ Verdict(checks) \in Errors \cup {"ok"}
      /\ Verdict(checks) = "ok" => \A i \in 1 .. 8 : ~checks[i][1]
    BY <1>1, FirstHit
<1> QED BY <1>1, <1>2 DEF checks



LEMMA JoinThree ==
    ASSUME NEW a, NEW b, NEW c
    PROVE  <<a, b>> \o <<c>> = <<a, b, c>>
<1> DEFINE S == {a, b, c}
           u == <<a, b>> \o <<c>>
<1>1. <<a, b>> \in Seq(S) /\ <<c>> \in Seq(S) /\ <<a, b, c>> \in Seq(S)
    OBVIOUS
<1>2. u \in Seq(S) /\ Len(u) = 3 /\ \A i \in 1 .. 3 : u[i] = <<a, b, c>>[i]
    BY <1>1, ConcatProperties
<1> HIDE DEF u
<1>3. u = <<a, b, c>>
    BY <1>1, <1>2, SeqEqual
<1> QED BY <1>3 DEF u

LEMMA JoinFour ==
    ASSUME NEW a, NEW b, NEW c, NEW d
    PROVE  <<a, b>> \o <<c, d>> = <<a, b, c, d>>
<1> DEFINE S == {a, b, c, d}
           u == <<a, b>> \o <<c, d>>
<1>1. <<a, b>> \in Seq(S) /\ <<c, d>> \in Seq(S) /\ <<a, b, c, d>> \in Seq(S)
    OBVIOUS
<1>2. u \in Seq(S) /\ Len(u) = 4 /\ \A i \in 1 .. 4 : u[i] = <<a, b, c, d>>[i]
    BY <1>1, ConcatProperties
<1> HIDE DEF u
<1>3. u = <<a, b, c, d>>
    BY <1>1, <1>2, SeqEqual
<1> QED BY <1>3 DEF u

LEMMA JoinSix ==
    ASSUME NEW a, NEW b, NEW c, NEW d, NEW e, NEW f
    PROVE  <<a, b>> \o <<c, d, e, f>> = <<a, b, c, d, e, f>>
<1> DEFINE S == {a, b, c, d, e, f}
           u == <<a, b>> \o <<c, d, e, f>>
<1>1. <<a, b>> \in Seq(S) /\ <<c, d, e, f>> \in Seq(S) /\ <<a, b, c, d, e, f>> \in Seq(S)
    OBVIOUS
<1>2. u \in Seq(S) /\ Len(u) = 6 /\ \A i \in 1 .. 6 : u[i] = <<a, b, c, d, e, f>>[i]
    BY <1>1, ConcatProperties
<1> HIDE DEF u
<1>3. u = <<a, b, c, d, e, f>>
    BY <1>1, <1>2, SeqEqual
<1> QED BY <1>3 DEF u

LEMMA JoinSeven ==
    ASSUME NEW a, NEW b, NEW c, NEW d, NEW e, NEW f, NEW g
    PROVE  <<a, b, c, d, e, f>> \o <<g>> = <<a, b, c, d, e, f, g>>
<1> DEFINE S == {a, b, c, d, e, f, g}
           u == <<a, b, c, d, e, f>> \o <<g>>
<1>1. <<a, b, c, d, e, f>> \in Seq(S) /\ <<g>> \in Seq(S) /\ <<a, b, c, d, e, f, g>> \in Seq(S)
    OBVIOUS
<1>2. u \in Seq(S) /\ Len(u) = 7 /\ \A i \in 1 .. 7 : u[i] = <<a, b, c, d, e, f, g>>[i]
    BY <1>1, ConcatProperties
<1> HIDE DEF u
<1>3. u = <<a, b, c, d, e, f, g>>
    BY <1>1, <1>2, SeqEqual
<1> QED BY <1>3 DEF u

LEMMA JoinEight ==
    ASSUME NEW a, NEW b, NEW c, NEW d, NEW e, NEW f, NEW g, NEW h
    PROVE  <<a, b, c, d, e, f>> \o <<g, h>> = <<a, b, c, d, e, f, g, h>>
<1> DEFINE S == {a, b, c, d, e, f, g, h}
           u == <<a, b, c, d, e, f>> \o <<g, h>>
<1>1. <<a, b, c, d, e, f>> \in Seq(S) /\ <<g, h>> \in Seq(S) /\ <<a, b, c, d, e, f, g, h>> \in Seq(S)
    OBVIOUS
<1>2. u \in Seq(S) /\ Len(u) = 8 /\ \A i \in 1 .. 8 : u[i] = <<a, b, c, d, e, f, g, h>>[i]
    BY <1>1, ConcatProperties
<1> HIDE DEF u
<1>3. u = <<a, b, c, d, e, f, g, h>>
    BY <1>1, <1>2, SeqEqual
<1> QED BY <1>3 DEF u


Success(status) == status \in 200 .. 299

\* What may hide behind an answer that a backend accepts.
Settles(v, a, bodies) ==
    v \in Errors \cup {"ok"} /\ (v = "ok" => Success(a.status) /\ a.body \in bodies)

Bodies == {"results", "unrelated", "challenge", "foreign", "nofield", "nolist", "apierror",
           "throttle"}
Lists == {"results", "unrelated"}
Decodable == Bodies \ {"challenge", "foreign"}

LEMMA ClassesSettle ==
    ASSUME NEW a, a.body \in Bodies
    PROVE  /\ \A v \in {google(a), duckduckgo(a), yahoo(a), mojeek(a), serper(a), tavily(a),
                        hackernews(a), crossref(a), stackexchange(a)} :
                Settles(v, a, Lists)
           /\ Settles(wikipedia(a), a, Decodable \ {"nofield", "apierror"})
           /\ Settles(bing(a), a, {"results"})
           /\ \A v \in {brave(a), searxng(a), marginalia(a), arxiv(a), kagi(a), exa(a)} :
                Settles(v, a, Decodable)
<1>1. /\ Status(a, {429}, "limited")[2] \in Errors
      /\ Status(a, {429, 503}, "limited")[2] \in Errors
      /\ Status(a, {403}, "blocked")[2] \in Errors
      /\ Status(a, {401, 403}, "blocked")[2] \in Errors
      /\ Status(a, {401, 402, 403}, "blocked")[2] \in Errors
    BY DEF Errors, Status
<1>2. /\ NotOK(a)[2] \in Errors /\ (~NotOK(a)[1] => Success(a.status))
      /\ Challenge(a)[2] \in Errors
      /\ NoContainer(a)[2] \in Errors /\ (~NoContainer(a)[1] => a.body \in Lists)
      /\ Undecodable(a)[2] \in Errors /\ (~Undecodable(a)[1] => a.body \in Decodable)
      /\ NoResultField(a)[2] \in Errors /\ (~NoResultField(a)[1] => a.body \in Lists)
    BY DEF Errors, NotOK, Challenge, NoContainer, Undecodable, NoResultField, Lists,
           Decodable, Bodies, Success
<1>3. /\ Settles(google(a), a, Lists) /\ Settles(duckduckgo(a), a, Lists)
      /\ Settles(yahoo(a), a, Lists) /\ Settles(mojeek(a), a, Lists)
    BY <1>1, <1>2, FiveChecks DEF google, duckduckgo, yahoo, mojeek, Settles
<1>4. Settles(bing(a), a, {"results"})
    <2> DEFINE unrelated == <<a.body = "unrelated", "blocked">>
    <2>1. unrelated[2] \in Errors /\ (~unrelated[1] => a.body # "unrelated")
        BY DEF Errors
    <2>2. bing(a) = Verdict(<<Challenge(a), Status(a, {403}, "blocked"),
              Status(a, {429}, "limited"), NotOK(a), NoContainer(a), unrelated>>)
        BY DEF bing
    <2> HIDE DEF unrelated
    <2> QED BY <1>1, <1>2, <2>1, <2>2, SixChecks DEF Settles, Lists
<1>5. Settles(serper(a), a, Lists)
    BY <1>1, <1>2, FiveChecks DEF serper, Settles
<1>16. Settles(wikipedia(a), a, Decodable \ {"nofield", "apierror"})
    <2> DEFINE absent == <<a.body \in {"apierror", "nofield"}, "error">>
    <2>1. absent[2] \in Errors /\ (~absent[1] => a.body \notin {"nofield", "apierror"})
        BY DEF Errors
    <2>2. wikipedia(a) = Verdict(<<Status(a, {429}, "limited"), Status(a, {403}, "blocked"),
              NotOK(a), Undecodable(a), absent>>)
        BY DEF wikipedia
    <2> HIDE DEF absent
    <2> QED BY <1>1, <1>2, <2>1, <2>2, FiveChecks DEF Settles
<1>6. Settles(brave(a), a, Decodable)
    BY <1>1, <1>2, ThreeChecks DEF brave, Settles
<1>7. Settles(searxng(a), a, Decodable) /\ Settles(marginalia(a), a, Decodable)
    BY <1>1, <1>2, FourChecks DEF searxng, marginalia, Settles
<1>8. Settles(arxiv(a), a, Decodable)
    BY <1>1, <1>2, FiveChecks DEF arxiv, Settles
<1>9. Settles(kagi(a), a, Decodable) /\ Settles(exa(a), a, Decodable)
    <2> DEFINE c1 == Status(a, {429}, "limited")
               c2 == NotOK(a)
               c3 == Undecodable(a)
    <2>1. checkAPIStatus(a) = <<c1, c2>> /\ <<Undecodable(a)>> = <<c3>>
        BY DEF checkAPIStatus
    <2>2. <<c1, c2>> \o <<c3>> = <<c1, c2, c3>>
        <3> HIDE DEF c1, c2, c3
        <3> QED BY JoinThree
    <2>3. kagi(a) = Verdict(<<c1, c2, c3>>) /\ exa(a) = Verdict(<<c1, c2, c3>>)
        <3> HIDE DEF c1, c2, c3
        <3> QED BY <2>1, <2>2, Zenon DEF kagi, exa
    <2> QED BY <1>1, <1>2, <2>3, ThreeChecks DEF Settles
<1>10. Settles(tavily(a), a, Lists)
    <2> DEFINE c1 == Status(a, {429}, "limited")
               c2 == NotOK(a)
               c3 == Undecodable(a)
               c4 == NoResultField(a)
    <2>1. checkAPIStatus(a) = <<c1, c2>> /\ <<Undecodable(a), NoResultField(a)>> = <<c3, c4>>
        BY DEF checkAPIStatus
    <2>2. <<c1, c2>> \o <<c3, c4>> = <<c1, c2, c3, c4>>
        <3> HIDE DEF c1, c2, c3, c4
        <3> QED BY JoinFour
    <2>3. tavily(a) = Verdict(<<c1, c2, c3, c4>>)
        <3> HIDE DEF c1, c2, c3, c4
        <3> QED BY <2>1, <2>2, Zenon DEF tavily
    <2> QED BY <1>1, <1>2, <2>3, FourChecks DEF Settles
<1> DEFINE c1 == Status(a, {429}, "limited")
           c2 == Status(a, {401, 403}, "blocked")
           c3(checks) == <<a.status = 400 /\ Verdict(checks) = "limited", "limited">>
           c4 == NotOK(a)
           c5 == Challenge(a)
           c6 == Undecodable(a)
           c7 == NoResultField(a)
           c8 == <<a.body = "throttle", "limited">>
<1>11. c8[2] \in Errors /\ \A checks : c3(checks)[2] \in Errors
    BY DEF Errors
<1>12. \A checks : jsonapi(a, checks) =
           Verdict(<<c1, c2>> \o <<c3(checks), c4, c5, c6>> \o checks)
    BY DEF jsonapi, classifyStatus
<1>13. decodeStories(a) = <<c7>> /\ decodeCrossref(a) = <<c7>> /\ decodeQuestions(a) = <<c8, c7>>
    BY DEF decodeStories, decodeCrossref, decodeQuestions
<1>14. Settles(hackernews(a), a, Lists) /\ Settles(crossref(a), a, Lists)
    <2> DEFINE odd == c3(<<c7>>)
    <2>1. jsonapi(a, <<c7>>) = Verdict(<<c1, c2, odd, c4, c5, c6, c7>>)
        <3>1. jsonapi(a, <<c7>>) = Verdict(<<c1, c2>> \o <<odd, c4, c5, c6>> \o <<c7>>)
            BY <1>12
        <3> HIDE DEF odd, c1, c2, c3, c4, c5, c6, c7
        <3>2. <<c1, c2>> \o <<odd, c4, c5, c6>> = <<c1, c2, odd, c4, c5, c6>>
            BY JoinSix
        <3>3. <<c1, c2, odd, c4, c5, c6>> \o <<c7>> = <<c1, c2, odd, c4, c5, c6, c7>>
            BY JoinSeven
        <3> QED BY <3>1, <3>2, <3>3, Zenon
    <2>2. odd[2] \in Errors
        BY <1>11
    <2> HIDE DEF odd
    <2>3. Settles(jsonapi(a, <<c7>>), a, Lists)
        BY <1>1, <1>2, <2>1, <2>2, SevenChecks DEF Settles
    <2> HIDE DEF c7
    <2> QED BY <1>13, <2>3 DEF hackernews, crossref
<1>15. Settles(stackexchange(a), a, Lists)
    <2> DEFINE odd == c3(<<c8, c7>>)
    <2>1. jsonapi(a, <<c8, c7>>) = Verdict(<<c1, c2, odd, c4, c5, c6, c8, c7>>)
        <3>1. jsonapi(a, <<c8, c7>>) = Verdict(<<c1, c2>> \o <<odd, c4, c5, c6>> \o <<c8, c7>>)
            BY <1>12
        <3> HIDE DEF odd, c1, c2, c3, c4, c5, c6, c7, c8
        <3>2. <<c1, c2>> \o <<odd, c4, c5, c6>> = <<c1, c2, odd, c4, c5, c6>>
            BY JoinSix
        <3>3. <<c1, c2, odd, c4, c5, c6>> \o <<c8, c7>> = <<c1, c2, odd, c4, c5, c6, c8, c7>>
            BY JoinEight
        <3> QED BY <3>1, <3>2, <3>3, Zenon
    <2>2. odd[2] \in Errors
        BY <1>11
    <2> HIDE DEF odd, c8
    <2>3. Settles(jsonapi(a, <<c8, c7>>), a, Lists)
        BY <1>1, <1>2, <1>11, <2>1, <2>2, EightChecks DEF Settles
    <2> HIDE DEF c7
    <2> QED BY <1>13, <2>3 DEF stackexchange
<1> QED BY <1>3, <1>4, <1>5, <1>6, <1>7, <1>8, <1>9, <1>10, <1>14, <1>15, <1>16

AnswerTo(p, a) ==
    /\ a.rows \in Seq(Urls) /\ a.body \in Bodies /\ a.backoff \in Nat /\ a.midnight \in Nat
    /\ Success(a.status) => a.status = 200
    /\ a.body = "unrelated" => p = "bing"
    /\ a.body = "throttle" => p = "stackexchange"

LEMMA AnswerIs ==
    ASSUME ProviderAssumption, NEW p \in Providers, NEW a \in Answers(p)
    PROVE  AnswerTo(p, a)
<1> DEFINE Rows == IF p \in Paging THEN BoundedSeq(Urls, PageSize)
                   ELSE BoundedSeq({CHOOSE u \in Urls : TRUE}, 1)
           Odd == {"challenge", "foreign", "nofield", "nolist", "apierror"}
                  \cup IF p = "stackexchange" THEN {"throttle"} ELSE {}
           Delays == IF p = "stackexchange" THEN Backoffs ELSE {0}
           Renewals == IF p = "stackexchange" THEN Midnights ELSE {0}
<1>1. \A r \in Rows : r \in Seq(Urls)
    <2>1. (CHOOSE u \in Urls : TRUE) \in Urls
        BY DEF ProviderAssumption
    <2>2. \A S \in SUBSET Urls, n \in Nat : BoundedSeq(S, n) \subseteq Seq(Urls)
        BY DEF BoundedSeq, SeqOf
    <2>3. PageSize \in Nat
        BY DEF ProviderAssumption
    <2> QED BY <2>1, <2>2, <2>3
<1>2. (\A d \in Delays : d \in Nat) /\ (\A d \in Renewals : d \in Nat)
    BY DEF ProviderAssumption
<1>3. \/ a = Unreachable
      \/ a \in [status : {200}, body : {"results"}, rows : Rows,
                backoff : Delays, midnight : Renewals]
      \/ a \in [status : {200}, body : IF p = "bing" THEN {"unrelated"} ELSE {},
                rows : Rows \ {<<>>}, backoff : Delays, midnight : Renewals]
      \/ a \in [status : {200, 400, 401, 402, 403, 429, 500, 503}, body : Odd,
                rows : {<<>>}, backoff : Delays, midnight : Renewals]
    BY DEF Answers
<1>4. <<>> \in Seq(Urls)
    BY EmptySeq
<1>5. (\A b \in Odd : b \in Bodies) /\ ("throttle" \in Odd => p = "stackexchange") /\ "unrelated" \notin Odd
    BY DEF Bodies
<1> HIDE DEF Rows, Delays, Renewals, Odd
<1>6. CASE a = Unreachable
    <2>1. a.status = 0 /\ a.body = "foreign" /\ a.rows = <<>> /\ a.backoff = 0 /\ a.midnight = 0
        BY <1>6 DEF Unreachable
    <2>2. ~Success(0)
        BY DEF Success
    <2> QED BY <1>4, <2>1, <2>2 DEF Bodies, AnswerTo
<1>7. CASE a \in [status : {200}, body : {"results"}, rows : Rows,
                  backoff : Delays, midnight : Renewals]
    <2>1. a.status = 200 /\ a.body = "results" /\ a.rows \in Rows /\ a.backoff \in Delays /\ a.midnight \in Renewals
        BY <1>7
    <2>2. a.rows \in Seq(Urls) /\ a.backoff \in Nat /\ a.midnight \in Nat
        BY <1>1, <1>2, <2>1
    <2> QED BY <2>1, <2>2 DEF Bodies, AnswerTo
<1>8. CASE a \in [status : {200}, body : IF p = "bing" THEN {"unrelated"} ELSE {},
                  rows : Rows \ {<<>>}, backoff : Delays, midnight : Renewals]
    <2>1. /\ a.status = 200 /\ p = "bing" /\ a.body = "unrelated"
          /\ a.rows \in Rows /\ a.backoff \in Delays /\ a.midnight \in Renewals
        BY <1>8
    <2>2. a.rows \in Seq(Urls) /\ a.backoff \in Nat /\ a.midnight \in Nat
        BY <1>1, <1>2, <2>1
    <2> QED BY <2>1, <2>2 DEF Bodies, AnswerTo
<1>9. CASE a \in [status : {200, 400, 401, 402, 403, 429, 500, 503}, body : Odd,
                  rows : {<<>>}, backoff : Delays, midnight : Renewals]
    <2>1. /\ a.status \in {200, 400, 401, 402, 403, 429, 500, 503}
          /\ a.body \in Odd /\ a.rows = <<>> /\ a.backoff \in Delays /\ a.midnight \in Renewals
        BY <1>9
    <2>2. \A s \in {200, 400, 401, 402, 403, 429, 500, 503} : Success(s) => s = 200
        BY DEF Success
    <2>3. a.rows \in Seq(Urls) /\ a.backoff \in Nat /\ a.midnight \in Nat /\ a.body \in Bodies
        BY <1>2, <1>4, <1>5, <2>1
    <2>4. Success(a.status) => a.status = 200
        BY <2>1, <2>2
    <2>5. a.body # "unrelated" /\ (a.body = "throttle" => p = "stackexchange")
        BY <1>5, <2>1
    <2> QED BY <2>3, <2>4, <2>5 DEF AnswerTo
<1> QED BY <1>3, <1>6, <1>7, <1>8, <1>9

LEMMA ClassIs ==
    ASSUME ProviderAssumption, NEW p \in Providers, NEW a \in Answers(p)
    PROVE  /\ Class(p, a) \in Errors \cup {"ok"}
           /\ Class(p, a) = "ok" =>
                /\ a.status = 200
                /\ a.body = "results" \/ a.body \in Tolerated(p)
<1>1. AnswerTo(p, a) /\ a.body \in Bodies
    BY AnswerIs DEF AnswerTo
<1>2. /\ p \in {"google", "duckduckgo", "yahoo", "mojeek", "serper", "tavily",
                "hackernews", "crossref", "stackexchange"} => Settles(Class(p, a), a, Lists)
      /\ p = "bing" => Settles(Class(p, a), a, {"results"})
      /\ p = "wikipedia" => Settles(Class(p, a), a, Decodable \ {"nofield", "apierror"})
      /\ p \in Lenient => Settles(Class(p, a), a, Decodable)
    BY <1>1, ClassesSettle DEF Class, Lenient
<1>3. CASE p = "bing"
    BY <1>1, <1>2, <1>3 DEF Settles, AnswerTo
<1>4. CASE p \in Lenient
    <2>1. p # "bing" /\ p # "stackexchange" /\ Tolerated(p) = {"nofield", "nolist", "apierror"}
        BY <1>4 DEF Lenient, Tolerated
    <2> QED BY <1>1, <1>2, <1>4, <2>1 DEF Settles, AnswerTo, Decodable, Bodies
<1>5. CASE p = "wikipedia"
    <2>1. Tolerated(p) = {"nolist"}
        BY <1>5 DEF Lenient, Tolerated
    <2> QED BY <1>1, <1>2, <1>5, <2>1 DEF Settles, AnswerTo, Decodable, Bodies
<1>6. CASE p \notin Lenient \cup {"bing", "wikipedia"}
    BY <1>1, <1>2, <1>6
       DEF Settles, AnswerTo, Lists, Lenient, Providers, Paging, JSONAPIs
<1> QED BY <1>3, <1>4, <1>5, <1>6

LEMMA NoHit ==
    ASSUME NEW checks, NEW n \in Nat, Len(checks) = n, \A i \in 1 .. n : ~checks[i][1]
    PROVE  Verdict(checks) = "ok"
BY DEF Verdict, SelectInSeq

\* What a backend that pages does not accept is no page of results.
LEMMA GoodPage ==
    ASSUME NEW p \in Paging, NEW a, a.status = 200, a.body = "results"
    PROVE  Class(p, a) = "ok"
<1>1. /\ ~Status(a, {403}, "blocked")[1] /\ ~Status(a, {429}, "limited")[1]
      /\ ~NotOK(a)[1] /\ ~Challenge(a)[1] /\ ~NoContainer(a)[1] /\ ~Undecodable(a)[1]
    <2>1. a.status \in 200 .. 299 /\ a.status \notin {403} /\ a.status \notin {429}
        OBVIOUS
    <2>2. ~Status(a, {403}, "blocked")[1]
        BY <2>1 DEF Status
    <2>3. ~Status(a, {429}, "limited")[1]
        BY <2>1 DEF Status
    <2>4. ~NotOK(a)[1]
        BY <2>1 DEF NotOK
    <2>5. ~Challenge(a)[1]
        BY DEF Challenge
    <2>6. ~NoContainer(a)[1]
        BY DEF NoContainer
    <2>7. ~Undecodable(a)[1]
        BY DEF Undecodable
    <2> QED BY <2>2, <2>3, <2>4, <2>5, <2>6, <2>7
<1>2. ASSUME NEW c1, NEW c2, NEW c3, ~c1[1], ~c2[1], ~c3[1]
      PROVE  Verdict(<<c1, c2, c3>>) = "ok"
    <2> DEFINE checks == <<c1, c2, c3>>
    <2>1. Len(checks) = 3 /\ \A i \in 1 .. 3 : ~checks[i][1]
        BY <1>2
    <2> HIDE DEF checks
    <2>2. Verdict(checks) = "ok"
        BY <2>1, NoHit
    <2> QED BY <2>2 DEF checks
<1>3. ASSUME NEW c1, NEW c2, NEW c3, NEW c4, ~c1[1], ~c2[1], ~c3[1], ~c4[1]
      PROVE  Verdict(<<c1, c2, c3, c4>>) = "ok"
    <2> DEFINE checks == <<c1, c2, c3, c4>>
    <2>1. Len(checks) = 4 /\ \A i \in 1 .. 4 : ~checks[i][1]
        BY <1>3
    <2> HIDE DEF checks
    <2>2. Verdict(checks) = "ok"
        BY <2>1, NoHit
    <2> QED BY <2>2 DEF checks
<1>4. ASSUME NEW c1, NEW c2, NEW c3, NEW c4, NEW c5, ~c1[1], ~c2[1], ~c3[1], ~c4[1], ~c5[1]
      PROVE  Verdict(<<c1, c2, c3, c4, c5>>) = "ok"
    <2> DEFINE checks == <<c1, c2, c3, c4, c5>>
    <2>1. Len(checks) = 5 /\ \A i \in 1 .. 5 : ~checks[i][1]
        BY <1>4
    <2> HIDE DEF checks
    <2>2. Verdict(checks) = "ok"
        BY <2>1, NoHit
    <2> QED BY <2>2 DEF checks
<1>5. google(a) = "ok" /\ yahoo(a) = "ok"
    BY <1>1, <1>4 DEF google, yahoo
<1>6. brave(a) = "ok" /\ searxng(a) = "ok"
    BY <1>1, <1>2, <1>3 DEF brave, searxng
<1>7. bing(a) = "ok"
    <2> DEFINE unrelated == <<a.body = "unrelated", "blocked">>
               checks == <<Challenge(a), Status(a, {403}, "blocked"), Status(a, {429}, "limited"),
                           NotOK(a), NoContainer(a), unrelated>>
    <2>1. ~unrelated[1]
        OBVIOUS
    <2> HIDE DEF unrelated
    <2>2. Len(checks) = 6 /\ \A i \in 1 .. 6 : ~checks[i][1]
        BY <1>1, <2>1
    <2>3. bing(a) = Verdict(checks)
        BY DEF bing, unrelated
    <2> HIDE DEF checks
    <2> QED BY <2>2, <2>3, NoHit
<1> QED BY <1>5, <1>6, <1>7 DEF Class, Paging

LEMMA PageRowsAre ==
    ASSUME ProviderAssumption, NEW p, NEW rows \in Seq(Urls), NEW n \in Nat
    PROVE  PageRows(p, rows, n) \in Seq(Urls)
<1>1. FirstRows(rows, PageSize) \in Seq(Urls) /\ FirstRows(rows, n) \in Seq(Urls)
    BY FirstRowsAre DEF ProviderAssumption
<1> QED BY <1>1 DEF PageRows

\* A page is added to what was collected; only an empty one leaves nothing.
LEMMA PageIsMerged ==
    ASSUME NEW p, NEW pages \in Seq(Seq(Urls)), NEW rows \in Seq(Urls), NEW n \in Nat \ {0}
    PROVE  LET got == Merge(p, FirstRows(Distinct(p, FlattenSeq(pages)), n), rows, n)
           IN  /\ got \in Seq(Urls)
               /\ got = FirstRows(Distinct(p, FlattenSeq(Append(pages, rows))), n)
               /\ got = <<>> => rows = <<>>
<1> DEFINE all == FlattenSeq(pages)
           longer == all \o rows
           D == Distinct(p, longer)
<1>1. all \in Seq(Urls) /\ FlattenSeq(Append(pages, rows)) = longer
    BY FlattenGrows
<1>2. /\ longer \in Seq(Urls) /\ Len(longer) = Len(all) + Len(rows)
      /\ \A i \in 1 .. Len(rows) : longer[Len(all) + i] = rows[i]
    <2> HIDE DEF all
    <2>1. /\ longer \in Seq(Urls) /\ Len(longer) = Len(all) + Len(rows)
          /\ \A i \in 1 .. Len(longer) :
                longer[i] = IF i <= Len(all) THEN all[i] ELSE rows[i - Len(all)]
        BY <1>1, ConcatProperties
    <2>2. ASSUME NEW i \in 1 .. Len(rows) PROVE longer[Len(all) + i] = rows[i]
        <3>1. /\ Len(all) \in Nat /\ Len(rows) \in Nat /\ Len(all) + i \in 1 .. Len(longer)
              /\ ~(Len(all) + i <= Len(all)) /\ (Len(all) + i) - Len(all) = i
            BY <1>1, <2>1
        <3> HIDE DEF longer
        <3> QED BY <2>1, <3>1
    <2> QED BY <2>1, <2>2
<1>3. Merge(p, FirstRows(Distinct(p, all), n), rows, n) = FirstRows(D, n)
    <2> HIDE DEF all
    <2> QED BY <1>1, MergeIsDistinct
<1> HIDE DEF longer, all
<1>4. D \in Seq(Urls) /\ Len(D) \in Nat
    BY <1>2, DistinctRows
<1>5. FirstRows(D, n) \in Seq(Urls) /\ Len(FirstRows(D, n)) = IF n <= Len(D) THEN n ELSE Len(D)
    <2> HIDE DEF D
    <2> QED BY <1>4, FirstRowsAre
<1>6. FirstRows(D, n) = <<>> => rows = <<>>
    <2> SUFFICES ASSUME FirstRows(D, n) = <<>>, rows # <<>> PROVE FALSE
        OBVIOUS
    <2>1. Len(D) = 0
        BY <1>4, <1>5
    <2>2. 1 \in 1 .. Len(rows) /\ Len(all) + 1 \in 1 .. Len(longer)
        <3>1. Len(rows) \in Nat /\ Len(rows) # 0 /\ Len(all) \in Nat
            BY <1>1, EmptySeq
        <3> QED BY <1>2, <3>1
    <2>3. HasKey(p, longer, KeyOf(p, longer[Len(all) + 1]))
        BY <2>2 DEF HasKey
    <2>4. HasKey(p, D, KeyOf(p, longer[Len(all) + 1]))
        BY <1>2, <2>3, EveryKeyIsKept
    <2> HIDE DEF D
    <2> QED BY <2>1, <2>4 DEF HasKey
<1> QED BY <1>1, <1>3, <1>5, <1>6 DEF all

LEMMA NoPagesNoRows ==
    ASSUME NEW p, NEW n \in Nat
    PROVE  FirstRows(Distinct(p, FlattenSeq(<<>>)), n) = <<>>
<1>1. <<>> \in Seq(Seq(Urls)) /\ <<>> \in Seq(Urls)
    BY EmptySeq
<1>2. FlattenSeq(<<>>) = <<>>
    BY <1>1, FlattenGrows
<1>3. Distinct(p, <<>>) = <<>>
    <2>1. Firsts(p, <<>>) = {}
        BY DEF Firsts
    <2>2. Cardinality(Firsts(p, <<>>)) = 0
        BY <2>1, FS_EmptySet
    <2>3. Distinct(p, <<>>) \in Seq(Urls) /\ Len(Distinct(p, <<>>)) = 0
        BY <1>1, <2>2, DistinctRows
    <2> QED BY <2>3, EmptySeq
<1>4. FirstRows(<<>>, n) = <<>>
    <2> DEFINE none == <<>>
    <2>1. none \in Seq(Urls) /\ Len(none) = 0 /\ Len(none) <= n
        BY <1>1
    <2> HIDE DEF none
    <2>2. FirstRows(none, n) = none
        BY <2>1, FirstRowsAre
    <2> QED BY <2>2 DEF none
<1> QED BY <1>2, <1>3, <1>4

-----------------------------------------------------------------------------
(* The inductive invariant: what holds of each call, and who is past the   *)
(* gate.                                                                   *)

ProviderTypeOK ==
    /\ provider \in [Calls -> Providers \cup {"none"}]
    /\ req \in [Calls -> [count : 0 .. MaxCount, valid : BOOLEAN]]
    /\ ctx \in [Calls -> {"live", "dead"}]
    /\ pc \in [Calls -> {"start", "gate", "send", "sent", "delay", "done"}]
    /\ fetched \in [Calls -> Seq(Seq(Urls))]
    /\ last \in [Calls -> Bodies \cup {"none", "refused"}]
    /\ results \in [Calls -> Seq(Urls)]
    /\ outcome \in [Calls -> Errors \cup {"none", "ok", "context"}]
    /\ gate \in SUBSET Calls
    /\ cooldown \in Nat

Merged(c) ==
    provider[c] \in Paging =>
        results[c] = FirstRows(Distinct(provider[c], FlattenSeq(fetched[c])), Count(c))

\* A call that has pages and goes on is one that needs another.
StillShort(c) ==
    pc[c] # "done" /\ fetched[c] # <<>> =>
        /\ provider[c] \in Paging /\ req[c].valid
        /\ Len(results[c]) < Count(c) /\ Len(fetched[c]) < PageCap(provider[c])
        /\ ~Stops(provider[c], Last(fetched[c]), Count(c))

UnderWay(c) ==
    pc[c] # "done" =>
        /\ outcome[c] = "none" /\ provider[c] \in Providers
        /\ pc[c] = "gate" => provider[c] = "stackexchange"
        /\ pc[c] = "sent" => req[c].valid
        /\ pc[c] = "delay" => provider[c] = "yahoo"

EmptyIsTrue(c) ==
    outcome[c] = "ok" /\ results[c] = <<>> =>
        \/ last[c] = "results" /\ Last(fetched[c]) = <<>>
        \/ last[c] \in Tolerated(provider[c])

ShortIsExhausted(c) ==
    provider[c] \in Paging /\ outcome[c] = "ok" /\ Len(results[c]) < Count(c) => Exhausted(c)

RowsAreKept(c) ==
    outcome[c] \notin {"none", "ok"} /\ results[c] # <<>> =>
        provider[c] = "yahoo" /\ outcome[c] = "context"

CallOK(c) ==
    /\ fetched[c] = <<>> => results[c] = <<>>
    /\ Merged(c) /\ StillShort(c) /\ UnderWay(c)
    /\ EmptyIsTrue(c) /\ ShortIsExhausted(c) /\ RowsAreKept(c)

\* Only one call to Stack Exchange is past the gate, and not in the cooldown.
PastTheGate(c) ==
    provider[c] = "stackexchange" /\ pc[c] \in {"send", "sent"} =>
        gate = {c} /\ (pc[c] = "send" => cooldown = 0)

ProviderIInv == ProviderTypeOK /\ \A c \in Calls : CallOK(c) /\ PastTheGate(c)

LEMMA ProviderInit ==
    ASSUME ProviderAssumption, Init
    PROVE  ProviderIInv
<1>1. <<>> \in Seq(Seq(Urls)) /\ <<>> \in Seq(Urls)
    BY EmptySeq
<1>2. provider \in [Calls -> Providers \cup {"none"}]
    BY DEF Init, ProviderAssumption
<1>3. ProviderTypeOK
    BY <1>1, <1>2 DEF Init, ProviderTypeOK
<1>4. ASSUME NEW c \in Calls PROVE CallOK(c) /\ PastTheGate(c)
    <2>1. /\ fetched[c] = <<>> /\ results[c] = <<>> /\ outcome[c] = "none"
          /\ pc[c] = IF provider[c] = "none" THEN "done" ELSE "start"
        BY DEF Init
    <2>2. provider[c] \in Providers \cup {"none"} /\ Count(c) \in Nat
        BY <1>2, <1>3 DEF ProviderTypeOK, Count, ProviderAssumption
    <2>3. Merged(c)
        BY <2>1, <2>2, NoPagesNoRows DEF Merged
    <2> QED BY <2>1, <2>2, <2>3
            DEF CallOK, StillShort, UnderWay, EmptyIsTrue, ShortIsExhausted, RowsAreKept, PastTheGate
<1> QED BY <1>3, <1>4 DEF ProviderIInv

-----------------------------------------------------------------------------
(* A step of one call, as the other calls see it.                          *)

SameCall(d) ==
    /\ provider'[d] = provider[d] /\ req'[d] = req[d] /\ pc'[d] = pc[d]
    /\ fetched'[d] = fetched[d] /\ last'[d] = last[d]
    /\ results'[d] = results[d] /\ outcome'[d] = outcome[d]

Alone(c) ==
    /\ \A d \in Calls \ {c} : SameCall(d)
    /\ gate' = gate \/ gate' = gate \ {c} \/ (gate = {} /\ gate' = {c})
    /\ cooldown' = cooldown \/ (provider[c] = "stackexchange" /\ pc[c] = "sent")

LEMMA SameCallKeeps ==
    ASSUME NEW d \in Calls, CallOK(d), SameCall(d)
    PROVE  CallOK(d)'
BY DEF CallOK, SameCall, Merged, StillShort, UnderWay, EmptyIsTrue, ShortIsExhausted,
       Exhausted, RowsAreKept, Count

LEMMA OthersStayPut ==
    ASSUME NEW c \in Calls, ProviderIInv, Alone(c), ProviderTypeOK',
           CallOK(c)', PastTheGate(c)'
    PROVE  ProviderIInv'
<1>1. ASSUME NEW d \in Calls \ {c} PROVE CallOK(d)' /\ PastTheGate(d)'
    <2>1. SameCall(d) /\ CallOK(d) /\ PastTheGate(d) /\ PastTheGate(c)
        BY DEF Alone, ProviderIInv
    <2>2. CallOK(d)'
        BY <2>1, SameCallKeeps
    <2>3. ASSUME provider[d] = "stackexchange", pc[d] \in {"send", "sent"}
          PROVE  gate' = {d} /\ cooldown' = cooldown
        <3>1. gate = {d} /\ gate # {} /\ gate # {c} /\ gate \ {c} = {d}
            BY <2>1, <2>3 DEF PastTheGate
        <3>2. ~(provider[c] = "stackexchange" /\ pc[c] = "sent")
            BY <2>1, <3>1 DEF PastTheGate
        <3> QED BY <3>1, <3>2 DEF Alone
    <2>4. PastTheGate(d)'
        BY <2>1, <2>3 DEF PastTheGate, SameCall
    <2> QED BY <2>2, <2>4
<1> QED BY <1>1 DEF ProviderIInv

\* To another control point, with nothing else done.
LEMMA GoKeeps ==
    ASSUME NEW c \in Calls, NEW to \in {"gate", "send", "sent", "delay"}, ProviderIInv,
           pc[c] # "done", Go(c, to),
           UNCHANGED <<provider, req, ctx, fetched, last, results, outcome, cooldown>>,
           gate' = gate \/ (gate = {} /\ gate' = {c}),
           to = "gate" => provider[c] = "stackexchange",
           to = "sent" => req[c].valid,
           to = "delay" => provider[c] = "yahoo"
    PROVE  ProviderTypeOK' /\ Alone(c) /\ CallOK(c)'
<1>1. ProviderTypeOK'
    BY DEF ProviderIInv, ProviderTypeOK, Go
<1>2. Alone(c)
    BY DEF Alone, SameCall, Go, ProviderIInv, ProviderTypeOK
<1>3. pc'[c] = to /\ CallOK(c)
    BY DEF ProviderIInv, ProviderTypeOK, Go
<1>4. CallOK(c)'
    BY <1>3 DEF CallOK, Merged, StillShort, UnderWay, EmptyIsTrue, ShortIsExhausted,
                RowsAreKept, Count
<1> QED BY <1>1, <1>2, <1>4

\* Back with an error, which takes no rows away.
LEMMA FailKeeps ==
    ASSUME NEW c \in Calls, NEW how \in {"context", "limited", "error"}, ProviderIInv,
           pc[c] # "done", Return(c, how),
           UNCHANGED <<provider, req, ctx, fetched, last, results, cooldown>>,
           results[c] = <<>> \/ (provider[c] = "yahoo" /\ how = "context")
    PROVE  ProviderIInv'
<1>1. ProviderTypeOK'
    BY DEF ProviderIInv, ProviderTypeOK, Return, Go, Errors
<1>2. Alone(c)
    BY DEF Alone, SameCall, Return, Go, ProviderIInv, ProviderTypeOK
<1>3. pc'[c] = "done" /\ outcome'[c] = how /\ CallOK(c)
    BY DEF ProviderIInv, ProviderTypeOK, Return, Go
<1>4. CallOK(c)'
    BY <1>3 DEF CallOK, Merged, StillShort, UnderWay, EmptyIsTrue, ShortIsExhausted,
                RowsAreKept, Count
<1>5. PastTheGate(c)'
    BY <1>3 DEF PastTheGate
<1> QED BY <1>1, <1>2, <1>4, <1>5, OthersStayPut

-----------------------------------------------------------------------------
(* The actions.                                                            *)

LEMMA StartKeeps ==
    ASSUME NEW c \in Calls, ProviderIInv, Start(c)
    PROVE  ProviderIInv'
<1>1. /\ CallOK(c) /\ pc[c] = "start" /\ pc[c] # "done"
      /\ UNCHANGED <<provider, req, ctx, fetched, last, results, cooldown>>
    BY DEF ProviderIInv, Start
<1>2. CASE provider[c] # "stackexchange"
    <2>1. Go(c, "send") /\ UNCHANGED <<outcome, gate>>
        BY <1>2 DEF Start
    <2>2. ProviderTypeOK' /\ Alone(c) /\ CallOK(c)'
        BY <1>1, <2>1, GoKeeps
    <2>3. PastTheGate(c)'
        BY <1>2 DEF PastTheGate, Start
    <2> QED BY <2>2, <2>3, OthersStayPut
<1>3. CASE provider[c] = "stackexchange" /\ ctx[c] = "dead"
    <2>1. Return(c, "context")
        BY <1>3 DEF Start
    <2>2. results[c] = <<>>
        BY <1>1, <1>3 DEF CallOK, StillShort, Paging
    <2> QED BY <1>1, <2>1, <2>2, FailKeeps
<1>4. CASE provider[c] = "stackexchange" /\ ctx[c] # "dead"
    <2>1. Go(c, "gate") /\ UNCHANGED <<outcome, gate>>
        BY <1>4 DEF Start
    <2>2. ProviderTypeOK' /\ Alone(c) /\ CallOK(c)'
        BY <1>1, <1>4, <2>1, GoKeeps
    <2>3. pc'[c] = "gate"
        BY <2>1 DEF Go, ProviderIInv, ProviderTypeOK
    <2>4. PastTheGate(c)'
        BY <2>3 DEF PastTheGate
    <2> QED BY <2>2, <2>4, OthersStayPut
<1> QED BY <1>2, <1>3, <1>4

LEMMA EnterGateKeeps ==
    ASSUME NEW c \in Calls, ProviderIInv, EnterGate(c)
    PROVE  ProviderIInv'
<1>1. CallOK(c) /\ pc[c] = "gate" /\ pc[c] # "done" /\ gate = {}
    BY DEF ProviderIInv, EnterGate
<1>2. provider[c] = "stackexchange" /\ results[c] = <<>>
    BY <1>1 DEF CallOK, UnderWay, StillShort, Paging
<1>3. CASE cooldown > 0
    <2>1. Return(c, "limited")
        BY <1>3 DEF EnterGate
    <2> QED BY <1>1, <1>2, <2>1, FailKeeps DEF EnterGate
<1>4. CASE ~(cooldown > 0)
    <2>1. Go(c, "send") /\ gate' = {c}
        BY <1>4 DEF EnterGate
    <2>2. ProviderTypeOK' /\ Alone(c) /\ CallOK(c)'
        BY <1>1, <1>4, <2>1, GoKeeps DEF EnterGate
    <2>3. cooldown' = 0
        BY <1>4 DEF EnterGate, ProviderIInv, ProviderTypeOK
    <2>4. PastTheGate(c)'
        BY <2>1, <2>3 DEF PastTheGate
    <2> QED BY <2>2, <2>4, OthersStayPut
<1> QED BY <1>3, <1>4

LEMMA LeaveGateKeeps ==
    ASSUME NEW c \in Calls, ProviderIInv, LeaveGate(c)
    PROVE  ProviderIInv'
<1>1. CallOK(c) /\ pc[c] = "gate" /\ pc[c] # "done"
    BY DEF ProviderIInv, LeaveGate
<1>2. results[c] = <<>>
    BY <1>1 DEF CallOK, UnderWay, StillShort, Paging
<1> QED BY <1>1, <1>2, FailKeeps DEF LeaveGate

LEMMA RefuseKeeps ==
    ASSUME NEW c \in Calls, ProviderIInv, Refuse(c)
    PROVE  ProviderIInv'
<1>1. CallOK(c) /\ pc[c] = "send" /\ pc[c] # "done" /\ ~req[c].valid
    BY DEF ProviderIInv, Refuse
<1>2. results[c] = <<>>
    BY <1>1 DEF CallOK, StillShort
<1> QED BY <1>1, <1>2, FailKeeps DEF Refuse

LEMMA SendKeeps ==
    ASSUME NEW c \in Calls, ProviderIInv, Send(c)
    PROVE  ProviderIInv'
<1>1. PastTheGate(c) /\ pc[c] = "send" /\ pc[c] # "done" /\ req[c].valid
    BY DEF ProviderIInv, Send
<1>2. ProviderTypeOK' /\ Alone(c) /\ CallOK(c)'
    BY <1>1, GoKeeps DEF Send
<1>3. pc'[c] = "sent"
    BY DEF Send, Go, ProviderIInv, ProviderTypeOK
<1>4. PastTheGate(c)'
    BY <1>1, <1>3 DEF PastTheGate, Send
<1> QED BY <1>2, <1>4, OthersStayPut

LEMMA DelayEndsKeeps ==
    ASSUME NEW c \in Calls, ProviderIInv, DelayEnds(c)
    PROVE  ProviderIInv'
<1>1. CallOK(c) /\ pc[c] = "delay" /\ pc[c] # "done"
    BY DEF ProviderIInv, DelayEnds
<1>2. provider[c] = "yahoo"
    BY <1>1 DEF CallOK, UnderWay
<1>3. CASE Go(c, "send") /\ UNCHANGED <<outcome, gate>>
    <2>1. ProviderTypeOK' /\ Alone(c) /\ CallOK(c)'
        BY <1>1, <1>3, GoKeeps DEF DelayEnds
    <2>2. PastTheGate(c)'
        BY <1>2 DEF PastTheGate, DelayEnds
    <2> QED BY <2>1, <2>2, OthersStayPut
<1>4. CASE Return(c, "context")
    BY <1>1, <1>2, <1>4, FailKeeps DEF DelayEnds
<1> QED BY <1>3, <1>4 DEF DelayEnds

LEMMA CooldownIsNat ==
    ASSUME ProviderAssumption, NEW a, a.backoff \in Nat, a.midnight \in Nat, cooldown \in Nat
    PROVE  decode(a) \in Nat
<1> DEFINE asked == Max({a.backoff, a.midnight, IF a.body = "throttle" THEN Throttle ELSE 0})
<1>1. Throttle \in Nat /\ MaxCooldown \in Nat
    BY DEF ProviderAssumption
<1>2. asked \in Nat
    <2>1. \A x, y, z \in Nat : Max({x, y, z}) \in Nat
        BY DEF Max
    <2> QED BY <1>1, <2>1
<1> HIDE DEF asked
<1>3. Min({asked, MaxCooldown}) \in Nat
    BY <1>1, <1>2, MinOfTwo
<1>4. decode(a) \in {Min({asked, MaxCooldown}), cooldown}
    BY DEF decode, asked
<1> QED BY <1>3, <1>4

LEMMA CountIs ==
    ASSUME ProviderAssumption, ProviderTypeOK, NEW c \in Calls
    PROVE  Count(c) \in Nat \ {0}
<1>1. req[c].count \in 0 .. MaxCount /\ MaxCount \in Nat /\ DefaultCount \in Nat \ {0}
    BY DEF ProviderTypeOK, ProviderAssumption
<1> QED BY <1>1 DEF Count

\* An answer that is no page of results.
LEMMA FailedPageKeeps ==
    ASSUME ProviderAssumption, NEW c \in Calls, ProviderIInv,
           NEW a \in Answers(provider[c]), Receive(c, a), Class(provider[c], a) # "ok"
    PROVE  ProviderIInv'
<1> DEFINE class == Class(provider[c], a)
<1>1. /\ ProviderTypeOK /\ CallOK(c) /\ pc[c] = "sent" /\ pc[c] # "done"
      /\ provider[c] \in Providers
    BY DEF ProviderIInv, Receive, CallOK, UnderWay
<1>2. class \in Errors /\ a.body \in Bodies /\ a.backoff \in Nat /\ a.midnight \in Nat
    BY <1>1, ClassIs, AnswerIs DEF AnswerTo
<1>3. /\ PageFails(c, class) /\ UNCHANGED <<provider, req, ctx, fetched, results>>
      /\ last' = [last EXCEPT ![c] = IF a.status = 200 THEN a.body ELSE "refused"]
      /\ cooldown' = IF provider[c] = "stackexchange" THEN decode(a) ELSE cooldown
    BY DEF Receive
<1> HIDE DEF class
<1>4. PICK how \in Errors \cup {"ok"} :
          /\ Return(c, how)
          /\ how # "ok" => results[c] = <<>>
          /\ how = "ok" => results[c] # <<>>
    <2>1. CASE provider[c] \in Paging /\ fetched[c] # <<>> /\ results[c] # <<>>
        BY <1>3, <2>1 DEF PageFails
    <2>2. CASE ~(provider[c] \in Paging /\ fetched[c] # <<>> /\ results[c] # <<>>)
        <3>1. results[c] = <<>>
            BY <1>1, <2>2 DEF CallOK, StillShort
        <3>2. class # "ok"
            BY <1>2 DEF Errors
        <3> QED BY <1>2, <1>3, <2>2, <3>1, <3>2 DEF PageFails
    <2> QED BY <2>1, <2>2
<1>5. cooldown' \in Nat
    BY <1>1, <1>2, <1>3, CooldownIsNat DEF ProviderTypeOK
<1>6. ProviderTypeOK'
    BY <1>1, <1>2, <1>3, <1>4, <1>5 DEF ProviderTypeOK, Return, Go
<1>7. Alone(c)
    BY <1>1, <1>3, <1>4 DEF Alone, SameCall, Return, Go, ProviderTypeOK
<1>8. pc'[c] = "done" /\ outcome'[c] = how
    BY <1>1, <1>4 DEF Return, Go, ProviderTypeOK
<1>9. ShortIsExhausted(c)'
    <2>1. CASE provider[c] \in Paging
        <3>1. ~(a.status = 200 /\ a.body = "results")
            BY <2>1, GoodPage
        <3>2. last'[c] # "results"
            BY <1>1, <1>3, <3>1 DEF ProviderTypeOK
        <3> QED BY <3>2 DEF ShortIsExhausted, Exhausted
    <2>2. CASE provider[c] \notin Paging
        BY <1>3, <2>2 DEF ShortIsExhausted
    <2> QED BY <2>1, <2>2
<1>10. CallOK(c)'
    BY <1>1, <1>3, <1>4, <1>8, <1>9
       DEF CallOK, Merged, StillShort, UnderWay, EmptyIsTrue, RowsAreKept, Count
<1>11. PastTheGate(c)'
    BY <1>8 DEF PastTheGate
<1> QED BY <1>6, <1>7, <1>10, <1>11, OthersStayPut

\* A page of results.
LEMMA PageKeeps ==
    ASSUME ProviderAssumption, NEW c \in Calls, ProviderIInv,
           NEW a \in Answers(provider[c]), Receive(c, a), Class(provider[c], a) = "ok"
    PROVE  ProviderIInv'
<1> DEFINE p == provider[c]
           n == Count(c)
           rows == PageRows(p, a.rows, n)
           got == IF p \in Paging THEN Merge(p, results[c], rows, n) ELSE rows
           more == /\ ~Stops(p, rows, n)
                   /\ Len(fetched[c]) + 1 < PageCap(p)
                   /\ Len(got) < n
<1>1. /\ ProviderTypeOK /\ CallOK(c) /\ pc[c] = "sent" /\ pc[c] # "done"
      /\ p \in Providers /\ req[c].valid /\ outcome[c] = "none"
    BY DEF ProviderIInv, Receive, CallOK, UnderWay
<1>2. /\ a.status = 200 /\ a.rows \in Seq(Urls) /\ a.backoff \in Nat /\ a.midnight \in Nat
      /\ a.body \in Bodies
      /\ a.body = "results" \/ a.body \in Tolerated(p)
    BY <1>1, ClassIs, AnswerIs DEF AnswerTo
<1>3. n \in Nat \ {0} /\ fetched[c] \in Seq(Seq(Urls)) /\ results[c] \in Seq(Urls)
    BY <1>1, CountIs DEF ProviderTypeOK
<1>4. rows \in Seq(Urls)
    BY <1>2, <1>3, PageRowsAre
<1>5. /\ UNCHANGED <<provider, req, ctx>>
      /\ last' = [last EXCEPT ![c] = a.body]
      /\ fetched' = [fetched EXCEPT ![c] = Append(fetched[c], rows)]
      /\ results' = [results EXCEPT ![c] = got]
      /\ cooldown' = IF p = "stackexchange" THEN decode(a) ELSE cooldown
    BY <1>2 DEF Receive
<1>6. \/ ~more /\ Return(c, "ok")
      \/ more /\ Go(c, IF p = "yahoo" THEN "delay" ELSE "send") /\ UNCHANGED <<outcome, gate>>
    BY DEF Receive
<1>7. /\ got \in Seq(Urls) /\ (got = <<>> => rows = <<>>)
      /\ p \in Paging =>
            got = FirstRows(Distinct(p, FlattenSeq(Append(fetched[c], rows))), n)
    <2>1. CASE p \in Paging
        <3>1. results[c] = FirstRows(Distinct(p, FlattenSeq(fetched[c])), n)
            BY <1>1, <2>1 DEF CallOK, Merged
        <3> DEFINE pages == fetched[c]
        <3> HIDE DEF rows, n, p, pages
        <3>2. LET g == Merge(p, FirstRows(Distinct(p, FlattenSeq(pages)), n), rows, n)
              IN  /\ g \in Seq(Urls)
                  /\ g = FirstRows(Distinct(p, FlattenSeq(Append(pages, rows))), n)
                  /\ g = <<>> => rows = <<>>
            BY <1>3, <1>4, PageIsMerged DEF pages
        <3> QED BY <2>1, <3>1, <3>2 DEF pages
    <2>2. CASE p \notin Paging
        BY <1>4, <2>2
    <2> QED BY <2>1, <2>2
<1>8. Append(fetched[c], rows) \in Seq(Seq(Urls)) /\ Last(Append(fetched[c], rows)) = rows
    BY <1>3, <1>4, AppendProperties DEF Last
<1>9. cooldown' \in Nat
    BY <1>1, <1>2, <1>5, CooldownIsNat DEF ProviderTypeOK
<1> HIDE DEF p, n, rows, got, more
<1>10. /\ fetched'[c] = Append(fetched[c], rows) /\ results'[c] = got /\ last'[c] = a.body
       /\ provider'[c] = p /\ Count(c)' = n /\ req'[c].valid /\ fetched'[c] # <<>>
    <2>1. Append(fetched[c], rows) # <<>>
        <3> DEFINE longer == Append(fetched[c], rows)
        <3>1. Len(longer) = Len(fetched[c]) + 1 /\ Len(fetched[c]) \in Nat
            BY <1>3, <1>4, AppendProperties
        <3> HIDE DEF longer
        <3>2. longer # <<>>
            BY <3>1
        <3> QED BY <3>2 DEF longer
    <2> QED BY <1>1, <1>5, <2>1 DEF ProviderTypeOK, Count, p, n
<1>11. Merged(c)' /\ (fetched[c] = <<>> => results[c] = <<>>)'
    BY <1>7, <1>10 DEF Merged
<1>12. CASE ~more
    <2>1. Return(c, "ok") /\ pc'[c] = "done" /\ outcome'[c] = "ok"
        BY <1>1, <1>6, <1>12 DEF Return, Go, ProviderTypeOK
    <2>2. ProviderTypeOK'
        BY <1>1, <1>2, <1>5, <1>7, <1>8, <1>9, <2>1 DEF ProviderTypeOK, Return, Go
    <2>3. Alone(c)
        BY <1>1, <1>5, <2>1 DEF Alone, SameCall, Return, Go, ProviderTypeOK, p
    <2>4. EmptyIsTrue(c)'
        BY <1>2, <1>7, <1>8, <1>10 DEF EmptyIsTrue
    <2>5. ShortIsExhausted(c)'
        <3> SUFFICES ASSUME p \in Paging, Len(got) < n
                     PROVE  Exhausted(c)'
            BY <1>10 DEF ShortIsExhausted
        <3> DEFINE cap == IF p = "brave" THEN BravePages ELSE MaxPages
        <3>1. Stops(p, rows, n) \/ ~(Len(fetched[c]) + 1 < PageCap(p))
            BY <1>12 DEF more
        <3>2. CASE Stops(p, rows, n)
            <4>1. \/ rows = <<>>
                  \/ p \in {"google", "bing"} /\ Len(rows) < PageSize
                  \/ p = "brave" /\ Len(rows) < Min({n, BraveMaxCount})
                BY <3>2 DEF Stops, googleStops, bingStops, yahooStops, searxngStops, braveStops
            <4> QED BY <1>8, <1>10, <4>1 DEF Exhausted
        <3>3. CASE ~(Len(fetched[c]) + 1 < PageCap(p))
            <4>1. /\ PageCap(p) = cap /\ cap \in Nat \ {0} /\ Len(fetched[c]) \in Nat
                  /\ Len(Append(fetched[c], rows)) = Len(fetched[c]) + 1
                BY <1>3, <1>4, AppendProperties DEF PageCap, ProviderAssumption
            <4>2. Len(fetched[c]) < cap
                <5>1. CASE fetched[c] = <<>>
                    BY <4>1, <5>1
                <5>2. CASE fetched[c] # <<>>
                    BY <1>1, <4>1, <5>2 DEF CallOK, StillShort, p
                <5> QED BY <5>1, <5>2
            <4>3. Len(Append(fetched[c], rows)) = cap
                BY <3>3, <4>1, <4>2
            <4> QED BY <1>10, <4>3 DEF Exhausted
        <3> QED BY <3>1, <3>2, <3>3
    <2>6. CallOK(c)' /\ PastTheGate(c)'
        BY <1>11, <2>1, <2>4, <2>5 DEF CallOK, StillShort, UnderWay, RowsAreKept, PastTheGate
    <2> QED BY <2>2, <2>3, <2>6, OthersStayPut
<1>13. CASE more
    <2>1. /\ pc' = [pc EXCEPT ![c] = IF p = "yahoo" THEN "delay" ELSE "send"]
          /\ UNCHANGED <<outcome, gate>>
        BY <1>6, <1>13 DEF Go
    <2>2. /\ pc'[c] = IF p = "yahoo" THEN "delay" ELSE "send"
          /\ outcome'[c] = "none"
        BY <1>1, <2>1 DEF ProviderTypeOK
    <2>3. ~Stops(p, rows, n) /\ Len(got) < n /\ p \in Paging
        BY <1>13 DEF more, Stops
    <2>4. ProviderTypeOK'
        BY <1>1, <1>2, <1>5, <1>7, <1>8, <1>9, <2>1 DEF ProviderTypeOK
    <2>5. Alone(c)
        BY <1>1, <1>5, <2>1 DEF Alone, SameCall, ProviderTypeOK, p
    <2>6. StillShort(c)'
        <3>1. Len(fetched[c]) + 1 < PageCap(p)
            BY <1>13 DEF more
        <3>2. Len(Append(fetched[c], rows)) = Len(fetched[c]) + 1
            BY <1>3, <1>4, AppendProperties
        <3>3. Len(fetched'[c]) < PageCap(p)
            BY <1>10, <3>1, <3>2
        <3>4. (Len(fetched[c]) < PageCap(provider[c]))'
            BY <1>10, <3>3 DEF PageCap
        <3> QED BY <1>8, <1>10, <2>3, <3>4 DEF StillShort
    <2>7. UnderWay(c)' /\ EmptyIsTrue(c)' /\ ShortIsExhausted(c)' /\ RowsAreKept(c)'
        BY <1>1, <1>10, <2>2 DEF UnderWay, EmptyIsTrue, ShortIsExhausted, RowsAreKept
    <2>8. PastTheGate(c)'
        BY <1>10, <2>3 DEF PastTheGate, Paging
    <2> QED BY <1>11, <2>4, <2>5, <2>6, <2>7, <2>8, OthersStayPut DEF CallOK
<1> QED BY <1>12, <1>13

-----------------------------------------------------------------------------
(* The theorems.                                                           *)

LEMMA ProviderStep ==
    ASSUME ProviderAssumption, ProviderIInv, [Next]_vars
    PROVE  ProviderIInv'
<1>1. CASE UNCHANGED vars
    <2>1. ProviderTypeOK'
        BY <1>1 DEF vars, ProviderIInv, ProviderTypeOK
    <2>2. ASSUME NEW d \in Calls PROVE CallOK(d)' /\ PastTheGate(d)'
        <3>1. CallOK(d) /\ PastTheGate(d) /\ SameCall(d) /\ gate' = gate /\ cooldown' = cooldown
            BY <1>1 DEF vars, ProviderIInv, SameCall
        <3>2. CallOK(d)'
            BY <3>1, SameCallKeeps
        <3>3. PastTheGate(d)'
            BY <3>1 DEF PastTheGate, SameCall
        <3> QED BY <3>2, <3>3
    <2> QED BY <2>1, <2>2 DEF ProviderIInv
<1>2. CASE Tick
    <2>1. ProviderTypeOK' /\ cooldown # 0
        BY <1>2 DEF Tick, ProviderIInv, ProviderTypeOK
    <2>2. ASSUME NEW d \in Calls PROVE CallOK(d)' /\ PastTheGate(d)'
        <3>1. CallOK(d) /\ PastTheGate(d) /\ SameCall(d) /\ gate' = gate
            BY <1>2 DEF Tick, ProviderIInv, SameCall
        <3>2. CallOK(d)'
            BY <3>1, SameCallKeeps
        <3>3. PastTheGate(d)'
            BY <2>1, <3>1 DEF PastTheGate, SameCall
        <3> QED BY <3>2, <3>3
    <2> QED BY <2>1, <2>2 DEF ProviderIInv
<1>3. ASSUME NEW c \in Calls, Search(c) PROVE ProviderIInv'
    <2>1. CASE Start(c)
        BY <2>1, StartKeeps
    <2>2. CASE EnterGate(c)
        BY <2>2, EnterGateKeeps
    <2>3. CASE LeaveGate(c)
        BY <2>3, LeaveGateKeeps
    <2>4. CASE Refuse(c)
        BY <2>4, RefuseKeeps
    <2>5. CASE Send(c)
        BY <2>5, SendKeeps
    <2>6. ASSUME NEW a \in Answers(provider[c]), Receive(c, a) PROVE ProviderIInv'
        BY <2>6, PageKeeps, FailedPageKeeps
    <2>7. CASE DelayEnds(c)
        BY <2>7, DelayEndsKeeps
    <2> QED BY <1>3, <2>1, <2>2, <2>3, <2>4, <2>5, <2>6, <2>7 DEF Search
<1>4. ASSUME NEW c \in Calls, Cancel(c) PROVE ProviderIInv'
    <2>1. ProviderTypeOK'
        BY <1>4 DEF Cancel, ProviderIInv, ProviderTypeOK
    <2>2. CallOK(c) /\ PastTheGate(c) /\ SameCall(c) /\ Alone(c)
        BY <1>4 DEF Cancel, ProviderIInv, SameCall, Alone
    <2>3. CallOK(c)'
        BY <2>2, SameCallKeeps
    <2>4. PastTheGate(c)'
        BY <1>4, <2>2 DEF PastTheGate, Cancel
    <2> QED BY <2>1, <2>2, <2>3, <2>4, OthersStayPut
<1> QED BY <1>1, <1>2, <1>3, <1>4 DEF Next

(***************************************************************************)
(* The invariant of the backends: types, what a call has collected and     *)
(* still lacks, and who may be past Stack Exchange's gate.                 *)
(***************************************************************************)
THEOREM ProviderInvariant == Spec => []ProviderIInv
<1>1. Init => ProviderIInv
    BY ProviderAssumption, ProviderInit
<1>2. ProviderIInv /\ [Next]_vars => ProviderIInv'
    BY ProviderAssumption, ProviderStep
<1> QED BY <1>1, <1>2, PTL DEF Spec

(***************************************************************************)
(* Whatever the pages hold and however many are read, a search that pages  *)
(* returns the first rows with distinct keys, in the order they came.      *)
(***************************************************************************)
THEOREM ProviderPagesAreMergedInOrder == Spec => []PagesAreMergedInOrder
<1>1. ProviderIInv => PagesAreMergedInOrder
    <2> SUFFICES ASSUME ProviderIInv PROVE PagesAreMergedInOrder
        OBVIOUS
    <2>1. \A c \in Calls : Merged(c) /\ ShortIsExhausted(c)
        BY DEF ProviderIInv, CallOK
    <2> QED BY <2>1
            DEF PagesAreMergedInOrder, Merged, ShortIsExhausted, Distinct, Firsts, Nth, Rank
<1> QED BY <1>1, ProviderInvariant, PTL

(***************************************************************************)
(* No backend turns a block page, an error or a foreign document into a    *)
(* search without results, save the lenient ones on an absent list.        *)
(***************************************************************************)
THEOREM ProviderEmptyMeansEmpty == Spec => []EmptyMeansEmpty
<1>1. ProviderIInv => EmptyMeansEmpty
    BY DEF ProviderIInv, CallOK, EmptyIsTrue, EmptyMeansEmpty
<1> QED BY <1>1, ProviderInvariant, PTL

(***************************************************************************)
(* A failure of a later page never costs the rows of the earlier ones,     *)
(* except that Yahoo drops them when the context ends between two pages.   *)
(***************************************************************************)
THEOREM ProviderLaterPagesAreBonus == Spec => []LaterPagesAreBonus
<1>1. ProviderIInv => LaterPagesAreBonus
    BY DEF ProviderIInv, CallOK, RowsAreKept, LaterPagesAreBonus
<1> QED BY <1>1, ProviderInvariant, PTL

\* The step into "sent" is Send, whoever takes it.
LEMMA OnlySendSends ==
    ASSUME ProviderIInv, [Next]_vars, NEW c \in Calls, pc'[c] = "sent", pc[c] # "sent"
    PROVE  Send(c)
<1>1. pc \in [Calls -> {"start", "gate", "send", "sent", "delay", "done"}] /\ pc'[c] # pc[c]
    BY DEF ProviderIInv, ProviderTypeOK
<1>2. ~UNCHANGED vars /\ ~Tick /\ ~\E d \in Calls : Cancel(d)
    BY <1>1 DEF vars, Tick, Cancel
<1>3. PICK d \in Calls : Search(d)
    BY <1>2 DEF Next
<1>4. ASSUME NEW to, to # "sent", Go(d, to) PROVE FALSE
    BY <1>1, <1>4 DEF Go
<1>5. ~Start(d) /\ ~EnterGate(d) /\ ~LeaveGate(d) /\ ~Refuse(d) /\ ~DelayEnds(d)
    BY <1>4 DEF Start, EnterGate, LeaveGate, Refuse, DelayEnds, Return
<1>6. ASSUME NEW a, Receive(d, a) PROVE FALSE
    <2>1. \/ PageFails(d, Class(provider[d], a)) \/ Return(d, "ok")
          \/ Go(d, "delay") \/ Go(d, "send")
        BY <1>6 DEF Receive
    <2> QED BY <1>4, <2>1 DEF PageFails, Return
<1>7. Send(d)
    BY <1>3, <1>5, <1>6 DEF Search
<1>8. d = c
    BY <1>1, <1>7 DEF Send, Go
<1> QED BY <1>7, <1>8

(***************************************************************************)
(* A further page is fetched only by a search that is still short, and not *)
(* after a page that showed there are no more.                             *)
(***************************************************************************)
THEOREM ProviderNoPageIsWasted == Spec => NoPageIsWasted
<1>1. ASSUME ProviderIInv, [Next]_vars, NEW c \in Calls,
             pc'[c] = "sent", pc[c] # "sent", fetched[c] # <<>>
      PROVE  /\ Len(results[c]) < Count(c)
             /\ Last(fetched[c]) # <<>>
             /\ provider[c] \in {"google", "bing"} => Len(Last(fetched[c])) >= PageSize
             /\ provider[c] = "brave" =>
                    Len(Last(fetched[c])) >= Min({Count(c), BraveMaxCount})
             /\ Len(fetched[c]) < IF provider[c] = "brave" THEN BravePages ELSE MaxPages
    <2>1. pc[c] = "send" /\ CallOK(c)
        BY <1>1, OnlySendSends DEF Send, ProviderIInv
    <2> DEFINE rows == Last(fetched[c])
               n == Count(c)
               full == Min({n, BraveMaxCount})
    <2>2. /\ provider[c] \in Paging /\ Len(results[c]) < n /\ ~Stops(provider[c], rows, n)
        BY <1>1, <2>1 DEF CallOK, StillShort
    <2>3. rows \in Seq(Urls) /\ Len(rows) \in Nat
        <3>1. fetched[c] \in Seq(Seq(Urls)) /\ fetched[c] # <<>>
            BY <1>1 DEF ProviderIInv, ProviderTypeOK
        <3>2. Last(fetched[c]) \in Seq(Urls)
            BY <3>1 DEF Last
        <3> QED BY <3>2
    <2>4. n \in Nat \ {0} /\ full \in Nat \ {0} /\ PageSize \in Nat \ {0}
        <3>1. n \in Nat \ {0} /\ BraveMaxCount \in Nat \ {0} /\ PageSize \in Nat \ {0}
            BY <1>1, ProviderAssumption, CountIs DEF ProviderIInv, ProviderAssumption
        <3> HIDE DEF n
        <3> QED BY <3>1, MinOfTwo
    <2> HIDE DEF rows, n, full
    <2>5. /\ provider[c] \in {"google", "bing"} => Len(rows) >= PageSize
          /\ provider[c] = "brave" => Len(rows) >= full
          /\ provider[c] \in {"yahoo", "searxng"} => rows # <<>>
        BY <2>2, <2>3, <2>4 DEF Stops, googleStops, bingStops, yahooStops, searxngStops,
                                braveStops, full
    <2>6. rows # <<>>
        <3>1. Len(rows) # 0 => rows # <<>>
            OBVIOUS
        <3> QED BY <2>2, <2>3, <2>4, <2>5, <3>1 DEF Paging
    <2>7. Len(fetched[c]) < IF provider[c] = "brave" THEN BravePages ELSE MaxPages
        BY <1>1, <2>1 DEF CallOK, StillShort, PageCap
    <2> QED BY <2>2, <2>5, <2>6, <2>7 DEF rows, n, full
<1>2. ProviderIInv /\ [Next]_vars =>
        [\A c \in Calls : pc'[c] = "sent" /\ pc[c] # "sent" /\ fetched[c] # <<>> =>
            /\ Len(results[c]) < Count(c)
            /\ Len(fetched[c]) < IF provider[c] = "brave" THEN BravePages ELSE MaxPages
            /\ Last(fetched[c]) # <<>>
            /\ provider[c] \in {"google", "bing"} => Len(Last(fetched[c])) >= PageSize
            /\ provider[c] = "brave" =>
                Len(Last(fetched[c])) >= Min({Count(c), BraveMaxCount})]_vars
    BY <1>1
<1> QED BY <1>2, ProviderInvariant, PTL DEF Spec, NoPageIsWasted

(***************************************************************************)
(* However many calls ask Stack Exchange at once, one is under way at a    *)
(* time and none starts in the cooldown an earlier one brought home.       *)
(***************************************************************************)
THEOREM ProviderCooldownIsHonoured == Spec => CooldownIsHonoured
<1>1. ASSUME ProviderIInv, [Next]_vars, NEW c \in Calls,
             provider[c] = "stackexchange", pc'[c] = "sent", pc[c] # "sent"
      PROVE  /\ cooldown = 0
             /\ \A d \in Calls \ {c} : provider[d] = "stackexchange" => pc[d] # "sent"
    <2>1. pc[c] = "send" /\ PastTheGate(c)
        BY <1>1, OnlySendSends DEF Send, ProviderIInv
    <2>2. gate = {c} /\ cooldown = 0
        BY <1>1, <2>1 DEF PastTheGate
    <2>3. \A d \in Calls \ {c} : PastTheGate(d)
        BY <1>1 DEF ProviderIInv
    <2> QED BY <2>2, <2>3 DEF PastTheGate
<1>2. ProviderIInv /\ [Next]_vars =>
        [\A c \in Calls : provider[c] = "stackexchange" /\ pc'[c] = "sent" /\ pc[c] # "sent" =>
            /\ cooldown = 0
            /\ \A d \in Calls \ {c} : provider[d] = "stackexchange" => pc[d] # "sent"]_vars
    BY <1>1
<1> QED BY <1>2, ProviderInvariant, PTL DEF Spec, CooldownIsHonoured
=============================================================================

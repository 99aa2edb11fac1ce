---------------------------- MODULE PyramidProofs ----------------------------
(* Folds and sums over finite sets, and with them the pyramids of a strip of  *)
(* any length, with any number of levels, panels and values.                  *)
EXTENDS Kernels, FiniteSetTheorems, WellFoundedInduction, TLAPS

\* Of the members of a set of naturals, one has nothing of the set below it.
LEMMA LeastExists ==
  ASSUME NEW S \in SUBSET Nat, S # {}
  PROVE  Min(S) \in S /\ \A y \in S : Min(S) <= y
<1> DEFINE Segments == {0 .. x : x \in S}
<1>1. Segments \subseteq FiniteSubsetsOf(Nat) /\ Segments # {}
  <2>1. \A x \in S : IsFiniteSet(0 .. x) /\ 0 .. x \in SUBSET Nat
    BY FS_Interval
  <2>2. \A x \in S : 0 .. x \in FiniteSubsetsOf(Nat)
    BY <2>1 DEF FiniteSubsetsOf
  <2> QED
    BY <2>2
<1>2. PICK x \in S : \A U \in Segments : <<U, 0 .. x>> \notin StrictSubsetOrdering(Nat)
  <2>1. PICK V \in Segments : \A U \in Segments : ~ (<<U, V>> \in StrictSubsetOrdering(Nat))
    <3> HIDE DEF Segments
    <3> QED
      BY <1>1, FS_StrictSubsetOrderingWellFounded, WFMin
  <2> QED
    BY <2>1
<1>3. ASSUME NEW y \in S, y < x PROVE FALSE
  <2>1. 0 .. y \subseteq 0 .. x /\ 0 .. x \subseteq Nat /\ x \in 0 .. x /\ x \notin 0 .. y
    BY <1>3
  <2>2. <<0 .. y, 0 .. x>> \in StrictSubsetOrdering(Nat)
    BY <2>1 DEF StrictSubsetOrdering
  <2>3. 0 .. y \in Segments
    OBVIOUS
  <2> QED
    BY <1>2, <2>2, <2>3
<1>4. \A y \in S : x <= y
  BY <1>3
<1> QED
  BY <1>4 DEF Min

\* Of the members of a set of naturals, one is the smallest.
LEMMA LeastNatural ==
  ASSUME NEW S \in SUBSET Nat, S # {}
  PROVE  \E x \in S : \A y \in S : x <= y
BY LeastExists

\* A fold over a finite set takes one member off after the other, as ch picks them.
Choice(S, ch) == \A s \in SUBSET S : s # {} => ch[s] \in s
Folding(S, base, ch, st, g) ==
  \A s \in SUBSET S : g[s] = IF s = {} THEN base ELSE st[<<ch[s], g[s \ {ch[s]}]>>]

\* The recursive function of a fold exists, and has its values where the step has.
LEMMA FoldDefined ==
  ASSUME NEW S, IsFiniteSet(S), NEW V, NEW base \in V,
         NEW ch, Choice(S, ch),
         NEW st \in [S \X V -> V]
  PROVE  \E g \in [SUBSET S -> V] : Folding(S, base, ch, st, g)
<1> USE DEF Choice
<1> DEFINE D(n) == {s \in SUBSET S : Cardinality(s) <= n}
           R(n, g) == \A s \in D(n) : g[s] = IF s = {} THEN base ELSE st[<<ch[s], g[s \ {ch[s]}]>>]
           E(n) == \E g \in [D(n) -> V] : R(n, g)
<1>0. \A s \in SUBSET S : IsFiniteSet(s) /\ Cardinality(s) \in Nat /\ Cardinality(s) <= Cardinality(S)
  BY FS_Subset, FS_CardinalityType
<1>1. E(0)
  <2>1. D(0) = {{}}
    <3>1. Cardinality({}) = 0
      BY FS_EmptySet
    <3>2. \A s \in SUBSET S : Cardinality(s) <= 0 => s = {}
      BY <1>0, FS_EmptySet
    <3> HIDE DEF R, E
    <3>3. {} \in D(0)
      BY <3>1
    <3>4. \A s \in D(0) : s = {}
      BY <3>2
    <3> HIDE DEF D
    <3> QED
      BY <3>3, <3>4
  <2>2. [s \in D(0) |-> base] \in [D(0) -> V] /\ R(0, [s \in D(0) |-> base])
    BY <2>1
  <2> QED
    BY <2>2
<1>2. ASSUME NEW n \in Nat, E(n) PROVE E(n + 1)
  <2>1. PICK h \in [D(n) -> V] : R(n, h)
    BY <1>2
  <2>2. ASSUME NEW s \in D(n + 1), s # {}
        PROVE  s \ {ch[s]} \in D(n) /\ ch[s] \in S /\ ch[s] \in s
    <3>1. ch[s] \in s /\ IsFiniteSet(s) /\ s \in SUBSET S /\ Cardinality(s) <= n + 1
      BY <1>0, <2>2
    <3>2. Cardinality(s \ {ch[s]}) = Cardinality(s) - 1
      BY <3>1, FS_RemoveElement
    <3>3. Cardinality(s) \in Nat /\ Cardinality(s \ {ch[s]}) \in Nat
      BY <1>0, <3>1
    <3> QED
      BY <3>1, <3>2, <3>3
  <2> DEFINE g == [s \in D(n + 1) |-> IF s = {} THEN base ELSE st[<<ch[s], h[s \ {ch[s]}]>>]]
  <2>3. g \in [D(n + 1) -> V]
    <3>1. ASSUME NEW s \in D(n + 1), s # {} PROVE st[<<ch[s], h[s \ {ch[s]}]>>] \in V
      <4>1. h[s \ {ch[s]}] \in V /\ <<ch[s], h[s \ {ch[s]}]>> \in S \X V
        BY <2>1, <2>2, <3>1
      <4> QED
        BY <4>1
    <3> QED
      BY <3>1
  <2>4. D(n) \subseteq D(n + 1)
    <3>1. \A k \in Nat : k <= n => k <= n + 1
      OBVIOUS
    <3> QED
      BY <1>0, <3>1
  <2>5. \A s \in D(n) : g[s] = h[s]
    BY <2>1, <2>4
  <2>6. R(n + 1, g)
    <3>1. ASSUME NEW s \in D(n + 1), s # {} PROVE g[s \ {ch[s]}] = h[s \ {ch[s]}]
      BY <2>2, <2>5, <3>1
    <3>2. ASSUME NEW s \in D(n + 1)
          PROVE  g[s] = IF s = {} THEN base ELSE st[<<ch[s], h[s \ {ch[s]}]>>]
      OBVIOUS
    <3> HIDE DEF g
    <3> QED
      BY <3>1, <3>2
  <2> QED
    BY <2>3, <2>6
<1>3. \A n \in Nat : E(n)
  <2> DEFINE Bad == {n \in Nat : ~E(n)}
  <2> HIDE DEF E, D, R
  <2>1. ASSUME Bad # {} PROVE FALSE
    <3>1. PICK n \in Bad : \A k \in Bad : n <= k
      BY <2>1, LeastNatural
    <3>2. n # 0 /\ n \in Nat
      BY <1>1
    <3>3. n - 1 \in Nat /\ E(n - 1)
      BY <3>1, <3>2
    <3> QED
      BY <1>2, <3>2, <3>3
  <2> QED
    BY <2>1
<1>4. Cardinality(S) \in Nat /\ D(Cardinality(S)) = SUBSET S
  BY <1>0, FS_CardinalityType
<1>5. PICK g \in [D(Cardinality(S)) -> V] : R(Cardinality(S), g)
  <2> HIDE DEF D, R
  <2> QED
    BY <1>3, <1>4
<1>6. g \in [SUBSET S -> V] /\ \A s \in SUBSET S : g[s] = IF s = {} THEN base ELSE st[<<ch[s], g[s \ {ch[s]}]>>]
  BY <1>4, <1>5
<1> QED
  BY <1>6 DEF Folding

\* B has a set if it has the set without its pick.
Peels(S, ch, B) == \A s \in SUBSET S : s # {} /\ s \ {ch[s]} \in B => s \in B

\* What the empty set has, and each set that has it without its pick, all subsets have.
LEMMA Peeling ==
  ASSUME NEW S, IsFiniteSet(S), NEW ch, Choice(S, ch),
         NEW B, {} \in B, Peels(S, ch, B)
  PROVE  SUBSET S \subseteq B
<1> USE DEF Choice, Peels
<1> DEFINE Sizes == {Cardinality(s) : s \in (SUBSET S) \ B}
<1>0. \A s \in SUBSET S : IsFiniteSet(s) /\ Cardinality(s) \in Nat
  BY FS_Subset, FS_CardinalityType
<1>1. SUFFICES ASSUME (SUBSET S) \ B # {} PROVE FALSE
  OBVIOUS
<1>2. Sizes \in SUBSET Nat /\ Sizes # {}
  BY <1>0, <1>1
<1>3. PICK n \in Sizes : \A k \in Sizes : n <= k
  <2> HIDE DEF Sizes
  <2> QED
    BY <1>2, LeastNatural
<1>4. PICK s \in (SUBSET S) \ B : n = Cardinality(s)
  BY <1>3
<1>5. s # {} /\ ch[s] \in s
  BY <1>4
<1>6. Cardinality(s \ {ch[s]}) = n - 1 /\ n \in Nat
  BY <1>0, <1>4, <1>5, FS_RemoveElement
<1>7. s \ {ch[s]} \in (SUBSET S) \ B
  BY <1>4, <1>5
<1>8. n - 1 \in Sizes
  BY <1>6, <1>7
<1> QED
  <2>1. n <= n - 1
    BY <1>3, <1>8
  <2> QED
    BY <2>1, <1>6

\* What holds at 0 and passes from each number to the next holds of all.
LEMMA Counting ==
  ASSUME NEW B, 0 \in B, \A n \in Nat : n \in B => n + 1 \in B
  PROVE  Nat \subseteq B
<1> SUFFICES ASSUME Nat \ B # {} PROVE FALSE
  OBVIOUS
<1>1. PICK n \in Nat \ B : \A k \in Nat \ B : n <= k
  BY LeastNatural
<1>2. n - 1 \in Nat /\ n - 1 \notin Nat \ B
  BY <1>1
<1> QED
  BY <1>1, <1>2

\* A finite set of integers has a smallest and a largest member.
LEMMA FiniteExtremes ==
  ASSUME NEW S \in SUBSET Int, IsFiniteSet(S), S # {}
  PROVE  /\ Min(S) \in S /\ \A y \in S : Min(S) <= y
         /\ Max(S) \in S /\ \A y \in S : y <= Max(S)
<1> DEFINE ch == [s \in SUBSET S |-> CHOOSE x \in s : TRUE]
           B == {s \in SUBSET S : s # {} => \E x, z \in s : \A y \in s : x <= y /\ y <= z}
<1>1. Choice(S, ch)
  BY DEF Choice
<1>2. {} \in B
  OBVIOUS
<1>3. ASSUME NEW s \in SUBSET S, s # {}, s \ {ch[s]} \in B
      PROVE  s \in B
  <2> DEFINE c == ch[s]
  <2>1. c \in s
    BY <1>1, <1>3 DEF Choice
  <2> HIDE DEF ch
  <2> SUFFICES \E x, z \in s : \A y \in s : x <= y /\ y <= z
    OBVIOUS
  <2>2. CASE s \ {c} = {}
    <3>1. \A y \in s : y = c /\ c \in Int
      BY <2>2
    <3>2. \A y \in s : c <= y /\ y <= c
      BY <3>1
    <3> HIDE DEF c
    <3> QED
      BY <2>1, <3>2
  <2>3. CASE s \ {c} # {}
    <3>1. PICK x, z \in s \ {c} : \A y \in s \ {c} : x <= y /\ y <= z
      BY <1>3, <2>3
    <3> DEFINE lo == IF x <= c THEN x ELSE c
               hi == IF z >= c THEN z ELSE c
    <3>2. lo \in s /\ hi \in s /\ x \in Int /\ z \in Int /\ c \in Int
      BY <2>1, <3>1
    <3>3. ASSUME NEW y \in s PROVE lo <= y /\ y <= hi
      BY <3>1, <3>2, <3>3
    <3> QED
      BY <3>2, <3>3
  <2> QED
    BY <2>2, <2>3
<1>4. SUBSET S \subseteq B
  <2> HIDE DEF ch, B
  <2>1. Peels(S, ch, B)
    BY <1>3 DEF Peels
  <2> QED
    BY <1>1, <1>2, <2>1, Peeling
<1>5. PICK x, z \in S : \A y \in S : x <= y /\ y <= z
  BY <1>4
<1>6. \A y \in S : z >= y
  BY <1>5
<1> QED
  BY <1>5, <1>6 DEF Min, Max

-----------------------------------------------------------------------------
(* Sums.  *)

\* A sum over a finite set takes off one summand after the other.
Adds(k, w, S) ==
  /\ k[{}] = 0
  /\ \A s \in SUBSET S : s # {} =>
        k[s] = w[CHOOSE x \in s : TRUE] + k[s \ {CHOOSE x \in s : TRUE}]

\* A sum over whole numbers.
AllInt(w, S) == \A x \in S : w[x] \in Int

\* A sum is the fold that takes the summands off one by one.
LEMMA SumIter ==
  ASSUME NEW w, NEW S, IsFiniteSet(S), AllInt(w, S)
  PROVE \E k : SumFunctionOnSet(w, S) = k[S] /\ Adds(k, w, S)
<1> USE DEF AllInt
<1> DEFINE ch == [s \in SUBSET S |-> CHOOSE x \in s : TRUE]
           st == [p \in S \X Int |-> w[p[1]] + p[2]]
           P(g) == g = [s \in SUBSET S |-> IF s = {} THEN 0
                    ELSE w[CHOOSE x \in s : TRUE] + g[s \ {CHOOSE x \in s : TRUE}]]
<1>1. Choice(S, ch)
  BY DEF Choice
<1>2. st \in [S \X Int -> Int]
  OBVIOUS
<1>3. PICK g \in [SUBSET S -> Int] : Folding(S, 0, ch, st, g)
  <2> HIDE DEF ch, st
  <2>1. 0 \in Int
    OBVIOUS
  <2> QED
    BY <1>1, <1>2, <2>1, FoldDefined
<1>4. P(g)
  <2>1. ASSUME NEW s \in SUBSET S, s # {}
        PROVE st[<<ch[s], g[s \ {ch[s]}]>>] = w[CHOOSE x \in s : TRUE] + g[s \ {CHOOSE x \in s : TRUE}]
    <3>1. ch[s] \in S /\ g[s \ {ch[s]}] \in Int /\ ch[s] = CHOOSE x \in s : TRUE
      <4> s \ {ch[s]} \in SUBSET S
        OBVIOUS
      <4>1. ch[s] = CHOOSE x \in s : TRUE
        OBVIOUS
      <4> HIDE DEF ch
      <4> QED
        BY <1>1, <1>3, <2>1, <4>1 DEF Choice
    <3>2. st[<<ch[s], g[s \ {ch[s]}]>>] = w[ch[s]] + g[s \ {ch[s]}]
      <4> HIDE DEF ch
      <4> QED
        BY <3>1
    <3> HIDE DEF ch, st
    <3> QED
      BY <3>1, <3>2
  <2> DEFINE f == [s \in SUBSET S |-> IF s = {} THEN 0
                    ELSE w[CHOOSE x \in s : TRUE] + g[s \ {CHOOSE x \in s : TRUE}]]
  <2> HIDE DEF ch, st
  <2>2. \A s \in SUBSET S : g[s] = f[s]
    BY <1>3, <2>1 DEF Folding
  <2>3. f = [s \in SUBSET S |-> f[s]]
    OBVIOUS
  <2>4. g = [s \in SUBSET S |-> g[s]]
    BY <1>3
  <2>5. g = f
    <3> HIDE DEF f
    <3> QED
      BY <2>2, <2>3, <2>4
  <2> QED
    BY <2>5
<1>5. PICK k : P(k) /\ SumFunctionOnSet(w, S) = k[S]
  BY <1>4 DEF SumFunctionOnSet, FoldFunctionOnSet, MapThenFoldSet
<1>6. Adds(k, w, S)
  BY <1>5 DEF Adds
<1> HIDE DEF P, ch, st
<1> QED
  BY <1>5, <1>6

\* Weighted values that lie between two bounds, summand by summand, do so in
\* sum; and weights that are positive have a positive sum.
LEMMA SumBounds ==
  ASSUME NEW S, IsFiniteSet(S), NEW w, NEW v, NEW lo \in Int, NEW hi \in Int,
         \A x \in S : /\ w[x] \in Int /\ v[x] \in Int
                      /\ lo * w[x] <= v[x] /\ v[x] <= hi * w[x]
  PROVE  /\ SumFunctionOnSet(w, S) \in Int /\ SumFunctionOnSet(v, S) \in Int
         /\ lo * SumFunctionOnSet(w, S) <= SumFunctionOnSet(v, S)
         /\ SumFunctionOnSet(v, S) <= hi * SumFunctionOnSet(w, S)
         /\ S # {} /\ (\A x \in S : w[x] > 0) => SumFunctionOnSet(w, S) > 0
<1>0. AllInt(w, S) /\ AllInt(v, S)
  BY DEF AllInt
<1>1. PICK k : SumFunctionOnSet(w, S) = k[S] /\ Adds(k, w, S)
  BY <1>0, SumIter
<1>2. PICK j : SumFunctionOnSet(v, S) = j[S] /\ Adds(j, v, S)
  BY <1>0, SumIter
<1> DEFINE ch == [s \in SUBSET S |-> CHOOSE x \in s : TRUE]
           Pos == \A x \in S : w[x] > 0
           B == {s \in SUBSET S :
                  /\ k[s] \in Int /\ j[s] \in Int
                  /\ lo * k[s] <= j[s] /\ j[s] <= hi * k[s]
                  /\ Pos => k[s] >= 0 /\ (s # {} => k[s] > 0)}
<1>3. Choice(S, ch)
  BY DEF Choice
<1>4. {} \in B
  BY <1>1, <1>2 DEF Adds
<1>5. ASSUME NEW s \in SUBSET S, s # {}, s \ {ch[s]} \in B
      PROVE  s \in B
  <2> DEFINE c == ch[s]
             r == s \ {ch[s]}
  <2>0. c = CHOOSE x \in s : TRUE
    OBVIOUS
  <2>1. c \in S /\ k[s] = w[c] + k[r] /\ j[s] = v[c] + j[r]
    BY <1>1, <1>2, <1>3, <1>5, <2>0 DEF Choice, Adds
  <2>2. /\ k[r] \in Int /\ j[r] \in Int
        /\ lo * k[r] <= j[r] /\ j[r] <= hi * k[r]
        /\ Pos => k[r] >= 0
    BY <1>5
  <2> HIDE DEF c, r, ch
  <2>3. w[c] \in Int /\ v[c] \in Int /\ lo * w[c] <= v[c] /\ v[c] <= hi * w[c]
    BY <2>1
  <2>4. lo * (w[c] + k[r]) = lo * w[c] + lo * k[r] /\ hi * (w[c] + k[r]) = hi * w[c] + hi * k[r]
    BY <2>2, <2>3
  <2>5. lo * w[c] \in Int /\ lo * k[r] \in Int /\ hi * w[c] \in Int /\ hi * k[r] \in Int
    BY <2>2, <2>3
  <2>6. lo * k[s] <= j[s] /\ j[s] <= hi * k[s] /\ k[s] \in Int /\ j[s] \in Int
    BY <2>1, <2>2, <2>3, <2>4, <2>5
  <2>7. Pos => k[s] > 0
    BY <2>1, <2>2, <2>3
  <2> QED
    BY <2>6, <2>7
<1>6. SUBSET S \subseteq B
  <2> HIDE DEF ch, B
  <2>1. Peels(S, ch, B)
    BY <1>5 DEF Peels
  <2> QED
    BY <1>3, <1>4, <2>1, Peeling
<1>7. S \in B
  <2> HIDE DEF B
  <2> QED
    BY <1>6
<1> QED
  BY <1>1, <1>2, <1>7

\* The prefixes of the numbers up to n.
PrefixOf(n, i) ==
  /\ 1 .. i \in SUBSET (1 .. n) /\ (1 .. i = {} <=> i = 0)
  /\ i > 0 => Max(1 .. i) = i /\ (1 .. i) \ {i} = 1 .. (i - 1) /\ i \in 1 .. n /\ i - 1 \in 0 .. n

\* Taking the largest off the first i numbers leaves the first i - 1.
LEMMA PrefixesOf == \A n \in Nat : \A i \in 0 .. n : PrefixOf(n, i)
<1> SUFFICES ASSUME NEW n \in Nat, NEW i \in 0 .. n PROVE PrefixOf(n, i)
  OBVIOUS
<1>1. i > 0 => Max(1 .. i) = i
  <2> SUFFICES ASSUME i > 0 PROVE Max(1 .. i) = i
    OBVIOUS
  <2>1. i \in 1 .. i /\ \A y \in 1 .. i : i >= y
    OBVIOUS
  <2>2. \A x \in 1 .. i : (\A y \in 1 .. i : x >= y) => x = i
    OBVIOUS
  <2> QED
    BY <2>1, <2>2 DEF Max
<1> QED
  BY <1>1 DEF PrefixOf

\* A fold takes the largest index last.
LEMMA LastIndex ==
  ASSUME NEW n \in Nat
  PROVE  /\ IsFiniteSet(1 .. n)
         /\ Choice(1 .. n, [s \in SUBSET (1 .. n) |-> Max(s)])
         /\ \A s \in SUBSET (1 .. n) : s # {} => Max(s) \in s
<1>1. IsFiniteSet(1 .. n)
  BY FS_Interval
<1>2. ASSUME NEW s \in SUBSET (1 .. n), s # {} PROVE Max(s) \in s
  <2>1. IsFiniteSet(s)
    BY <1>1, FS_Subset
  <2>2. s \in SUBSET Int
    OBVIOUS
  <2> QED
    BY <1>2, <2>1, <2>2, FiniteExtremes
<1> QED
  BY <1>1, <1>2 DEF Choice

-----------------------------------------------------------------------------
(* Distances.  *)
-----------------------------------------------------------------------------
(* Seams.                                                                   *)

\* A sum may take off any summand first.
LEMMA AnySummand ==
  ASSUME NEW S, IsFiniteSet(S), NEW w, AllInt(w, S), NEW k, Adds(k, w, S)
  PROVE  \A s \in SUBSET S : k[s] \in Int /\ \A x \in s : k[s] = w[x] + k[s \ {x}]
<1> USE DEF AllInt
<1> DEFINE ch == [s \in SUBSET S |-> CHOOSE x \in s : TRUE]
           Good(s) == \A x \in s : k[s] = w[x] + k[s \ {x}]
           A == {s \in SUBSET S : k[s] \in Int}
           B == {n \in Nat : \A s \in SUBSET S : Cardinality(s) = n => Good(s)}
<1>0. \A s \in SUBSET S : IsFiniteSet(s) /\ Cardinality(s) \in Nat
  BY FS_Subset, FS_CardinalityType
<1>1. \A s \in SUBSET S : s # {} => ch[s] \in s /\ k[s] = w[ch[s]] + k[s \ {ch[s]}]
  BY DEF Adds
<1>2. \A s \in SUBSET S : k[s] \in Int
  <2>1. Choice(S, ch)
    BY DEF Choice
  <2>2. {} \in A
    BY DEF Adds
  <2>3. Peels(S, ch, A)
    <3> HIDE DEF ch
    <3> QED
      BY <1>1 DEF Peels
  <2> HIDE DEF ch, A
  <2>4. SUBSET S \subseteq A
    BY <2>1, <2>2, <2>3, Peeling
  <2> QED
    BY <2>4 DEF A
<1> HIDE DEF ch
<1>3. 0 \in B
  <2>1. \A s \in SUBSET S : Cardinality(s) = 0 => s = {}
    BY <1>0, FS_EmptySet
  <2>2. Good({})
    OBVIOUS
  <2> HIDE DEF Good
  <2> QED
    BY <2>1, <2>2
<1>4. ASSUME NEW n \in Nat, n \in B PROVE n + 1 \in B
  <2>0. ASSUME NEW s \in SUBSET S, Cardinality(s) = n + 1 PROVE Good(s)
    <3>1. \A x \in s : Cardinality(s \ {x}) = n
      <4> TAKE x \in s
      <4>1. Cardinality(s \ {x}) = Cardinality(s) - 1
        BY <1>0, FS_RemoveElement
      <4> QED
        BY <2>0, <4>1
    <3>2. \A x \in s : s \ {x} \in SUBSET S /\ Good(s \ {x})
      <4> HIDE DEF Good
      <4> QED
        BY <1>4, <3>1
    <3>3. s # {}
      BY <2>0, FS_EmptySet
    <3> DEFINE c == ch[s]
    <3>4. c \in s /\ k[s] = w[c] + k[s \ {c}]
      BY <1>1, <3>3
    <3> HIDE DEF c
    <3>5. ASSUME NEW x \in s PROVE k[s] = w[x] + k[s \ {x}]
      <4>1. CASE x = c
        BY <3>4, <4>1
      <4>2. CASE x # c
        <5>1. x \in s \ {c} /\ c \in s \ {x}
          BY <3>4, <4>2
        <5>2. k[s \ {c}] = w[x] + k[(s \ {c}) \ {x}] /\ k[s \ {x}] = w[c] + k[(s \ {x}) \ {c}]
          BY <3>2, <3>4, <5>1
        <5>3. (s \ {c}) \ {x} = (s \ {x}) \ {c} /\ (s \ {x}) \ {c} \in SUBSET S
          OBVIOUS
        <5> DEFINE rest == k[(s \ {x}) \ {c}]
                   a == k[s \ {c}]
                   b == k[s \ {x}]
                   u == w[x]
                   v == w[c]
        <5>4. u \in Int /\ v \in Int /\ rest \in Int
          BY <1>2, <3>4, <5>3
        <5>5. a = u + rest /\ b = v + rest /\ k[s] = v + a
          BY <3>4, <5>2, <5>3
        <5> HIDE DEF rest, a, b, u, v
        <5>6. k[s] = u + b
          BY <5>4, <5>5
        <5> QED
          BY <5>6 DEF u, b
      <4> QED
        BY <4>1, <4>2
    <3> QED
      BY <3>5
  <2> HIDE DEF Good
  <2> QED
    BY <2>0
<1>5. Nat \subseteq B
  <2> HIDE DEF B
  <2> QED
    BY <1>3, <1>4, Counting
<1>6. \A s \in SUBSET S : Good(s)
  <2> HIDE DEF Good
  <2> QED
    BY <1>0, <1>5
<1> QED
  BY <1>2, <1>6
-----------------------------------------------------------------------------
(* Levels.                                                                    *)

\* A function whose value at a level follows from that at the level before.
Climbs(g, n, base, st) == g = [l \in 0 .. n |-> IF l = 0 THEN base ELSE st[l][g[l - 1]]]
StepsThrough(n, base, st, T) ==
  base \in T[0] /\ \A l \in 1 .. n : \A v \in T[l - 1] : st[l][v] \in T[l]

\* What holds at level 0 and from each level to the next holds at all levels.
LEMMA LevelByLevel ==
  ASSUME NEW n \in Nat, NEW T, NEW g, g[0] \in T[0],
         \A l \in 1 .. n : g[l - 1] \in T[l - 1] => g[l] \in T[l]
  PROVE  \A l \in 0 .. n : g[l] \in T[l]
<1> DEFINE B == {l \in Nat : l <= n => g[l] \in T[l]}
<1>1. 0 \in B
  OBVIOUS
<1>2. ASSUME NEW l \in Nat, l \in B PROVE l + 1 \in B
  <2> SUFFICES ASSUME l + 1 <= n PROVE g[l + 1] \in T[l + 1]
    OBVIOUS
  <2>1. l + 1 \in 1 .. n /\ (l + 1) - 1 = l /\ l <= n
    OBVIOUS
  <2>2. g[l] \in T[l]
    BY <1>2, <2>1
  <2> QED
    BY <2>1, <2>2
<1> HIDE DEF B
<1>3. Nat \subseteq B
  BY <1>1, <1>2, Counting
<1> QED
  BY <1>3 DEF B

\* The values of such a function are of the levels' types.
LEMMA ClimbsTyped ==
  ASSUME NEW n \in Nat, NEW base, NEW st, NEW T, StepsThrough(n, base, st, T),
         NEW g, Climbs(g, n, base, st)
  PROVE  \A l \in 0 .. n : g[l] \in T[l]
<1>1. g[0] \in T[0]
  BY DEF Climbs, StepsThrough
<1>2. ASSUME NEW l \in 1 .. n, g[l - 1] \in T[l - 1] PROVE g[l] \in T[l]
  <2>1. l \in 0 .. n /\ l # 0
    OBVIOUS
  <2>2. g[l] = st[l][g[l - 1]]
    BY <2>1 DEF Climbs
  <2> QED
    BY <1>2, <2>2 DEF StepsThrough
<1> QED
  BY <1>1, <1>2, LevelByLevel

\* It exists.
LEMMA ClimbsExist ==
  ASSUME NEW n \in Nat, NEW base, NEW st, NEW T, StepsThrough(n, base, st, T)
  PROVE  \E g : Climbs(g, n, base, st)
<1> DEFINE D == 1 .. n
           V == UNION {T[l] : l \in 0 .. n}
           ch == [s \in SUBSET D |-> Max(s)]
           next == [p \in D \X V |-> IF p[2] \in T[p[1] - 1] THEN st[p[1]][p[2]] ELSE base]
<1>1. Choice(D, ch) /\ IsFiniteSet(D) /\ \A s \in SUBSET D : s # {} => Max(s) \in s
  BY LastIndex
<1>2. base \in V
  BY DEF StepsThrough
<1>3. ASSUME NEW l \in D, NEW v \in T[l - 1] PROVE st[l][v] \in T[l] /\ T[l] \subseteq V
  <2>1. st[l][v] \in T[l]
    BY <1>3 DEF StepsThrough
  <2>2. l \in 0 .. n
    OBVIOUS
  <2> QED
    BY <2>1, <2>2
<1>4. next \in [D \X V -> V]
  <2>1. ASSUME NEW l \in D, NEW v \in V
        PROVE  (IF v \in T[l - 1] THEN st[l][v] ELSE base) \in V
    <3> HIDE DEF V, D
    <3> QED
      BY <1>2, <1>3
  <2> HIDE DEF V, D
  <2> QED
    BY <2>1
<1>5. PICK k \in [SUBSET D -> V] : Folding(D, base, ch, next, k)
  <2> HIDE DEF ch, next, D, V
  <2> QED
    BY <1>1, <1>2, <1>4, FoldDefined
<1> DEFINE g == [l \in 0 .. n |-> k[1 .. l]]
           B == {l \in Nat : l <= n => g[l] \in T[l] /\ g[l] = IF l = 0 THEN base ELSE st[l][g[l - 1]]}
<1>6. 0 \in B
  <2>1. 1 .. 0 = {} /\ {} \in SUBSET D /\ 0 \in 0 .. n
    OBVIOUS
  <2>2. g[0] = base
    BY <1>5, <2>1 DEF Folding
  <2> QED
    BY <2>2 DEF StepsThrough
<1>7. ASSUME NEW l \in Nat, l \in B PROVE l + 1 \in B
  <2> DEFINE j == l + 1
  <2> SUFFICES ASSUME j <= n PROVE g[j] \in T[j] /\ g[j] = IF j = 0 THEN base ELSE st[j][g[j - 1]]
    OBVIOUS
  <2>1. j \in D /\ j \in 0 .. n /\ l \in 0 .. n /\ j # 0 /\ j > 0 /\ j - 1 = l /\ l <= n
    OBVIOUS
  <2>2. g[l] \in T[l] /\ g[l] = k[1 .. l] /\ g[j] = k[1 .. j]
    BY <1>7, <2>1
  <2> HIDE DEF j
  <2>3. 1 .. j \in SUBSET D /\ 1 .. j # {} /\ Max(1 .. j) = j /\ (1 .. j) \ {j} = 1 .. l
    <3>1. PrefixOf(n, j)
      BY <2>1, PrefixesOf
    <3> QED
      BY <2>1, <3>1 DEF PrefixOf
  <2>4. k[1 .. j] = next[<<j, k[1 .. l]>>]
    <3>1. ch[1 .. j] = j
      <4> HIDE DEF D
      <4> QED
        BY <2>3
    <3> HIDE DEF next, D, ch
    <3> QED
      BY <1>5, <2>3, <3>1 DEF Folding
  <2>5. 1 .. l \in SUBSET D
    BY <2>1
  <2>6. k[1 .. l] \in V
    <3> HIDE DEF D, V
    <3> QED
      BY <1>5, <2>5
  <2>7. k[1 .. j] = st[j][k[1 .. l]]
    <3> HIDE DEF D, V
    <3> QED
      BY <2>1, <2>2, <2>4, <2>6
  <2>8. k[1 .. l] \in T[j - 1]
    BY <2>1, <2>2
  <2>9. st[j][k[1 .. l]] \in T[j]
    BY <1>3, <2>1, <2>8
  <2> HIDE DEF g
  <2> QED
    BY <2>1, <2>2, <2>7, <2>9
<1> HIDE DEF B
<1>8. Nat \subseteq B
  BY <1>6, <1>7, Counting
<1>9. \A l \in 0 .. n : g[l] = IF l = 0 THEN base ELSE st[l][g[l - 1]]
  <2> TAKE l \in 0 .. n
  <2>1. l \in Nat /\ l <= n /\ l \in B
    BY <1>8
  <2> HIDE DEF g
  <2> QED
    BY <2>1 DEF B
<1>10. Climbs(g, n, base, st)
  <2>1. g = [l \in 0 .. n |-> g[l]]
    OBVIOUS
  <2> HIDE DEF g
  <2> QED
    BY <1>9, <2>1 DEF Climbs
<1> QED
  BY <1>10

\* A pyramid has from two to six levels above its residual.
LEMMA LevelsAre == Levels \in 2 .. 6
<1> DEFINE P(n) == FeatherBlocks <= 2 ^ n
           Q(n) == (n = 6 \/ P(n)) /\ (n = 2 \/ ~ P(n - 1))
<1>1. Levels = CHOOSE n \in 2 .. 6 : Q(n)
  BY DEF Levels, n_levels_for_feather
<1> HIDE DEF P
<1>2. \E n \in 2 .. 6 : Q(n)
  <2>1. 3 - 1 = 2 /\ 4 - 1 = 3 /\ 5 - 1 = 4 /\ 6 - 1 = 5
    OBVIOUS
  <2>2. Q(2) \/ Q(3) \/ Q(4) \/ Q(5) \/ Q(6)
    BY <2>1
  <2>3. 2 \in 2 .. 6 /\ 3 \in 2 .. 6 /\ 4 \in 2 .. 6 /\ 5 \in 2 .. 6 /\ 6 \in 2 .. 6
    OBVIOUS
  <2> HIDE DEF Q
  <2> QED
    BY <2>2, <2>3
<1> HIDE DEF Q
<1> QED
  BY <1>1, <1>2

\* A level keeps its planes times a power of sixteen.
LEMMA PowerIs ==
  /\ Power[0] = 1
  /\ \A l \in 1 .. Levels : Power[l] = 16 * Power[l - 1]
  /\ \A l \in 0 .. Levels : Power[l] \in Nat \ {0}
<1> DEFINE N == Nat \ {0}
           T == [l \in 0 .. Levels |-> N]
           st == [l \in 1 .. Levels |-> [v \in N |-> 16 * v]]
           P(f) == f = [l \in 0 .. Levels |-> IF l = 0 THEN 1 ELSE 16 * f[l - 1]]
<1>1. Levels \in Nat /\ 0 \in 0 .. Levels
  BY LevelsAre
<1>2. \A l \in 1 .. Levels : l \in 0 .. Levels /\ l # 0 /\ l - 1 \in 0 .. Levels
  BY <1>1
<1>3. 1 \in N /\ \A l \in 1 .. Levels : \A v \in N : 16 * v \in N
  OBVIOUS
<1>4. StepsThrough(Levels, 1, st, T)
  BY <1>1, <1>2, <1>3 DEF StepsThrough
<1>5. PICK g : Climbs(g, Levels, 1, st)
  <2> HIDE DEF st, T
  <2> QED
    BY <1>1, <1>4, ClimbsExist
<1>6. \A l \in 0 .. Levels : g[l] \in N
  <2>1. \A l \in 0 .. Levels : g[l] \in T[l]
    <3> HIDE DEF st, T
    <3> QED
      BY <1>1, <1>4, <1>5, ClimbsTyped
  <2> QED
    BY <2>1
<1>7. P(g)
  <2>1. \A l \in 0 .. Levels : g[l] = IF l = 0 THEN 1 ELSE 16 * g[l - 1]
    <3> TAKE l \in 0 .. Levels
    <3>1. g[l] = IF l = 0 THEN 1 ELSE st[l][g[l - 1]]
      BY <1>5 DEF Climbs
    <3>2. l # 0 => l - 1 \in 0 .. Levels /\ l \in 1 .. Levels
      BY <1>1
    <3> HIDE DEF N
    <3> QED
      BY <1>6, <3>1, <3>2
  <2>2. g = [l \in 0 .. Levels |-> g[l]]
    BY <1>5 DEF Climbs
  <2> QED
    BY <2>1, <2>2
<1>8. P(Power)
  <2> HIDE DEF P
  <2>1. Power = CHOOSE f : P(f)
    BY DEF Power, P
  <2> QED
    BY <1>7, <2>1
<1> HIDE DEF P
<1>9. Power[0] = 1 /\ \A l \in 1 .. Levels : Power[l] = 16 * Power[l - 1]
  BY <1>1, <1>2, <1>8 DEF P
<1>10. \A l \in 0 .. Levels : Power[l] \in T[l]
  <2>1. Power[0] \in T[0]
    BY <1>1, <1>3, <1>9
  <2>2. ASSUME NEW l \in 1 .. Levels, Power[l - 1] \in T[l - 1] PROVE Power[l] \in T[l]
    <3>1. Power[l - 1] \in N /\ Power[l] = 16 * Power[l - 1]
      BY <1>2, <1>9, <2>2
    <3> HIDE DEF N
    <3> QED
      BY <1>2, <1>3, <3>1
  <2> HIDE DEF T
  <2> QED
    BY <1>1, <2>1, <2>2, LevelByLevel
<1> QED
  BY <1>9, <1>10

\* A level is half as long as the one before, rounded up, and never empty.
LEMMA DimsAre ==
  /\ level_dims[0] = Strip
  /\ \A l \in 1 .. Levels : level_dims[l] = (level_dims[l - 1] + 1) \div 2
  /\ \A l \in 0 .. Levels : level_dims[l] \in Nat \ {0}
<1> DEFINE N == Nat \ {0}
           T == [l \in 0 .. Levels |-> N]
           st == [l \in 1 .. Levels |-> [v \in N |-> (v + 1) \div 2]]
           P(f) == f = [l \in 0 .. Levels |-> IF l = 0 THEN Strip ELSE (f[l - 1] + 1) \div 2]
<1>1. Levels \in Nat /\ 0 \in 0 .. Levels
  BY LevelsAre
<1>2. \A l \in 1 .. Levels : l \in 0 .. Levels /\ l # 0 /\ l - 1 \in 0 .. Levels
  BY <1>1
<1>3. Strip \in N /\ \A l \in 1 .. Levels : \A v \in N : (v + 1) \div 2 \in N
  BY PyramidAssumption
<1>4. StepsThrough(Levels, Strip, st, T)
  BY <1>1, <1>2, <1>3 DEF StepsThrough
<1>5. PICK g : Climbs(g, Levels, Strip, st)
  <2> HIDE DEF st, T
  <2> QED
    BY <1>1, <1>4, ClimbsExist
<1>6. \A l \in 0 .. Levels : g[l] \in N
  <2>1. \A l \in 0 .. Levels : g[l] \in T[l]
    <3> HIDE DEF st, T
    <3> QED
      BY <1>1, <1>4, <1>5, ClimbsTyped
  <2> QED
    BY <2>1
<1>7. P(g)
  <2>1. \A l \in 0 .. Levels : g[l] = IF l = 0 THEN Strip ELSE (g[l - 1] + 1) \div 2
    <3> TAKE l \in 0 .. Levels
    <3>1. g[l] = IF l = 0 THEN Strip ELSE st[l][g[l - 1]]
      BY <1>5 DEF Climbs
    <3>2. l # 0 => l - 1 \in 0 .. Levels /\ l \in 1 .. Levels
      BY <1>1
    <3> HIDE DEF N
    <3> QED
      BY <1>6, <3>1, <3>2
  <2>2. g = [l \in 0 .. Levels |-> g[l]]
    BY <1>5 DEF Climbs
  <2> QED
    BY <2>1, <2>2
<1>8. P(level_dims)
  <2> HIDE DEF P
  <2>1. level_dims = CHOOSE f : P(f)
    BY DEF level_dims, P
  <2> QED
    BY <1>7, <2>1
<1> HIDE DEF P
<1>9. level_dims[0] = Strip /\ \A l \in 1 .. Levels : level_dims[l] = (level_dims[l - 1] + 1) \div 2
  BY <1>1, <1>2, <1>8 DEF P
<1>10. \A l \in 0 .. Levels : level_dims[l] \in T[l]
  <2>1. level_dims[0] \in T[0]
    BY <1>1, <1>3, <1>9
  <2>2. ASSUME NEW l \in 1 .. Levels, level_dims[l - 1] \in T[l - 1] PROVE level_dims[l] \in T[l]
    <3>1. level_dims[l - 1] \in N /\ level_dims[l] = (level_dims[l - 1] + 1) \div 2
      BY <1>2, <1>9, <2>2
    <3> HIDE DEF N
    <3> QED
      BY <1>2, <1>3, <3>1
  <2> HIDE DEF T
  <2> QED
    BY <1>1, <2>1, <2>2, LevelByLevel
<1> QED
  BY <1>9, <1>10

\* What a covered cell is worth at least.
LEMMA FaintestIs ==
  /\ Faintest[0] = 1
  /\ \A l \in 1 .. Levels : Faintest[l] = (IF l = 1 THEN 11 ELSE 5 * Faintest[l - 1])
  /\ \A l \in 0 .. Levels : Faintest[l] \in Nat \ {0}
<1> DEFINE N == Nat \ {0}
           T == [l \in 0 .. Levels |-> N]
           st == [l \in 1 .. Levels |-> [v \in N |-> IF l = 1 THEN 11 ELSE 5 * v]]
           P(f) == f = [l \in 0 .. Levels |-> IF l = 0 THEN 1 ELSE IF l = 1 THEN 11 ELSE 5 * f[l - 1]]
<1>1. Levels \in Nat /\ 0 \in 0 .. Levels
  BY LevelsAre
<1>2. \A l \in 1 .. Levels : l \in 0 .. Levels /\ l # 0 /\ l - 1 \in 0 .. Levels
  BY <1>1
<1>3. 1 \in N /\ \A l \in 1 .. Levels : \A v \in N : (IF l = 1 THEN 11 ELSE 5 * v) \in N
  OBVIOUS
<1>4. StepsThrough(Levels, 1, st, T)
  BY <1>1, <1>2, <1>3 DEF StepsThrough
<1>5. PICK g : Climbs(g, Levels, 1, st)
  <2> HIDE DEF st, T
  <2> QED
    BY <1>1, <1>4, ClimbsExist
<1>6. \A l \in 0 .. Levels : g[l] \in N
  <2>1. \A l \in 0 .. Levels : g[l] \in T[l]
    <3> HIDE DEF st, T
    <3> QED
      BY <1>1, <1>4, <1>5, ClimbsTyped
  <2> QED
    BY <2>1
<1>7. P(g)
  <2>1. \A l \in 0 .. Levels : g[l] = IF l = 0 THEN 1 ELSE IF l = 1 THEN 11 ELSE 5 * g[l - 1]
    <3> TAKE l \in 0 .. Levels
    <3>1. g[l] = IF l = 0 THEN 1 ELSE st[l][g[l - 1]]
      BY <1>5 DEF Climbs
    <3>2. l # 0 => l - 1 \in 0 .. Levels /\ l \in 1 .. Levels
      BY <1>1
    <3> HIDE DEF N
    <3> QED
      BY <1>6, <3>1, <3>2
  <2>2. g = [l \in 0 .. Levels |-> g[l]]
    BY <1>5 DEF Climbs
  <2> QED
    BY <2>1, <2>2
<1>8. P(Faintest)
  <2> HIDE DEF P
  <2>1. Faintest = CHOOSE f : P(f)
    BY DEF Faintest, P
  <2> QED
    BY <1>7, <2>1
<1> HIDE DEF P
<1>9. Faintest[0] = 1 /\ \A l \in 1 .. Levels : Faintest[l] = (IF l = 1 THEN 11 ELSE 5 * Faintest[l - 1])
  BY <1>1, <1>2, <1>8 DEF P
<1>10. \A l \in 0 .. Levels : Faintest[l] \in T[l]
  <2>1. Faintest[0] \in T[0]
    BY <1>1, <1>3, <1>9
  <2>2. ASSUME NEW l \in 1 .. Levels, Faintest[l - 1] \in T[l - 1] PROVE Faintest[l] \in T[l]
    <3>1. Faintest[l - 1] \in N /\ Faintest[l] = (IF l = 1 THEN 11 ELSE 5 * Faintest[l - 1])
      BY <1>2, <1>9, <2>2
    <3> HIDE DEF N
    <3> QED
      BY <1>2, <1>3, <3>1
  <2> HIDE DEF T
  <2> QED
    BY <1>1, <2>1, <2>2, LevelByLevel
<1> QED
  BY <1>9, <1>10

\* Outside a row, its first or last cell is nearest.
LEMMA NearestIs ==
  ASSUME NEW l \in 0 .. Levels, NEW x \in Int
  PROVE  /\ Nearest(x, l) \in Line(l)
         /\ x \in Line(l) => Nearest(x, l) = x
         /\ x < 0 => Nearest(x, l) = 0
         /\ x >= level_dims[l] => Nearest(x, l) = level_dims[l] - 1
<1> DEFINE n == level_dims[l]
<1>1. n \in Nat \ {0}
  BY DimsAre
<1>2. Line(l) = 0 .. n - 1 /\ Nearest(x, l) = IF x < 0 THEN 0 ELSE IF x > n - 1 THEN n - 1 ELSE x
  BY DEF Line, Nearest, Clamp
<1> HIDE DEF n
<1>3. /\ Nearest(x, l) \in Line(l)
      /\ x \in Line(l) => Nearest(x, l) = x
      /\ x < 0 => Nearest(x, l) = 0
      /\ x >= n => Nearest(x, l) = n - 1
  BY <1>1, <1>2
<1> QED
  BY <1>3 DEF n

\* A cell and the coarser one it is in, and the one after that.
LEMMA Halves ==
  ASSUME NEW l \in 0 .. Levels - 1
  PROVE  /\ \A j \in Line(l + 1) : 2 * j \in Line(l)
         /\ \A x \in Line(l) :
              LET h == x \div 2
              IN  /\ h \in Line(l + 1)
                  /\ (x % 2 = 0 /\ x = 2 * h) \/ (x % 2 # 0 /\ x = 2 * h + 1)
                  /\ x = 2 * h + 1 /\ x + 1 \in Line(l) => h + 1 \in Line(l + 1)
<1> DEFINE n == level_dims[l]
           m == level_dims[l + 1]
<1>1. n \in Nat \ {0} /\ m \in Nat /\ m = (n + 1) \div 2
  <2>1. l + 1 \in 1 .. Levels /\ l \in 0 .. Levels /\ l + 1 \in 0 .. Levels /\ (l + 1) - 1 = l
    BY LevelsAre
  <2> QED
    BY <2>1, DimsAre
<1>2. Line(l) = 0 .. n - 1 /\ Line(l + 1) = 0 .. m - 1
  BY DEF Line
<1> HIDE DEF n, m
<1>3. 2 * m >= n /\ 2 * m <= n + 1
  BY <1>1
<1>4. \A j \in Line(l + 1) : 2 * j \in Line(l)
  BY <1>1, <1>2, <1>3
<1>5. ASSUME NEW x \in Line(l)
      PROVE  LET h == x \div 2
              IN  /\ h \in Line(l + 1)
                  /\ (x % 2 = 0 /\ x = 2 * h) \/ (x % 2 # 0 /\ x = 2 * h + 1)
                  /\ x = 2 * h + 1 /\ x + 1 \in Line(l) => h + 1 \in Line(l + 1)
  <2> DEFINE h == x \div 2
  <2>1. x \in Nat /\ x <= n - 1
    BY <1>1, <1>2
  <2>2. h \in Nat /\ ((x % 2 = 0 /\ x = 2 * h) \/ (x % 2 # 0 /\ x = 2 * h + 1))
    BY <2>1
  <2> HIDE DEF h
  <2>3. h <= m - 1
    BY <1>1, <1>3, <2>1, <2>2
  <2>4. x = 2 * h + 1 /\ x + 1 \in Line(l) => h + 1 \in Line(l + 1)
    BY <1>1, <1>2, <1>3, <2>1, <2>2
  <2>5. h \in Line(l + 1)
    BY <1>1, <1>2, <2>2, <2>3
  <2> QED
    BY <2>2, <2>4, <2>5 DEF h
<1> QED
  BY <1>4, <1>5

\* The planes of a level: of data, and of weights.
LevelRow(l) == [Line(l) -> Int]
LevelWeights(l) == [Line(l) -> Nat]

\* The kernel, tap by tap.
LEMMA TapsAre ==
  ASSUME NEW l \in 0 .. Levels, NEW p, NEW x \in Line(l)
  PROVE  smooth(p, l)[x] = p[Nearest(x - 2, l)] * 1 + p[Nearest(x - 1, l)] * 4 + p[x] * 6
                           + p[Nearest(x + 1, l)] * 4 + p[Nearest(x + 2, l)] * 1
<1>1. x \in Int
  BY DimsAre DEF Line
<1>2. Kernel[1] = 1 /\ Kernel[2] = 4 /\ Kernel[3] = 6 /\ Kernel[4] = 4 /\ Kernel[5] = 1
  BY DEF Kernel
<1>3. x + 1 - 3 = x - 2 /\ x + 2 - 3 = x - 1 /\ x + 3 - 3 = x /\ x + 4 - 3 = x + 1 /\ x + 5 - 3 = x + 2
  BY <1>1
<1>4. Nearest(x, l) = x
  BY <1>1, NearestIs
<1>5. smooth(p, l)[x] = p[Nearest(x + 1 - 3, l)] * Kernel[1] + p[Nearest(x + 2 - 3, l)] * Kernel[2]
                        + p[Nearest(x + 3 - 3, l)] * Kernel[3] + p[Nearest(x + 4 - 3, l)] * Kernel[4]
                        + p[Nearest(x + 5 - 3, l)] * Kernel[5]
  BY DEF smooth
<1> QED
  BY <1>2, <1>3, <1>4, <1>5

\* The cells the kernel reaches.
LEMMA TapsThere ==
  ASSUME NEW l \in 0 .. Levels, NEW x \in Line(l)
  PROVE  /\ x \in Int
         /\ Nearest(x - 2, l) \in Line(l) /\ Nearest(x - 1, l) \in Line(l)
         /\ Nearest(x + 1, l) \in Line(l) /\ Nearest(x + 2, l) \in Line(l)
<1>1. x \in Int
  BY DimsAre DEF Line
<1> QED
  BY <1>1, NearestIs

\* Smoothing and halving keep data and weights what they are, and commute with
\* a factor.
LEMMA SmoothKeeps ==
  ASSUME NEW l \in 0 .. Levels
  PROVE  /\ \A p \in LevelRow(l) : smooth(p, l) \in LevelRow(l)
         /\ \A p \in LevelWeights(l) : smooth(p, l) \in LevelWeights(l)
         /\ \A c \in Int : \A p, v \in LevelRow(l) : (\A x \in Line(l) : p[x] = c * v[x])
              => \A x \in Line(l) : smooth(p, l)[x] = c * smooth(v, l)[x]
<1>1. ASSUME NEW p \in LevelRow(l) PROVE smooth(p, l) \in LevelRow(l)
  <2>1. ASSUME NEW x \in Line(l) PROVE smooth(p, l)[x] \in Int
    <3> DEFINE a == p[Nearest(x - 2, l)]
               b == p[Nearest(x - 1, l)]
               d == p[x]
               e == p[Nearest(x + 1, l)]
               f == p[Nearest(x + 2, l)]
    <3>1. a \in Int /\ b \in Int /\ d \in Int /\ e \in Int /\ f \in Int
      BY TapsThere DEF LevelRow
    <3>2. smooth(p, l)[x] = a * 1 + b * 4 + d * 6 + e * 4 + f * 1
      BY TapsAre
    <3> HIDE DEF a, b, d, e, f
    <3> QED
      BY <3>1, <3>2
  <2>2. smooth(p, l) = [x \in Line(l) |-> smooth(p, l)[x]]
    BY DEF smooth
  <2> QED
    BY <2>1, <2>2 DEF LevelRow
<1>2. ASSUME NEW p \in LevelWeights(l) PROVE smooth(p, l) \in LevelWeights(l)
  <2>1. ASSUME NEW x \in Line(l) PROVE smooth(p, l)[x] \in Nat
    <3> DEFINE a == p[Nearest(x - 2, l)]
               b == p[Nearest(x - 1, l)]
               d == p[x]
               e == p[Nearest(x + 1, l)]
               f == p[Nearest(x + 2, l)]
    <3>1. a \in Nat /\ b \in Nat /\ d \in Nat /\ e \in Nat /\ f \in Nat
      BY TapsThere DEF LevelWeights
    <3>2. smooth(p, l)[x] = a * 1 + b * 4 + d * 6 + e * 4 + f * 1
      BY TapsAre
    <3> HIDE DEF a, b, d, e, f
    <3> QED
      BY <3>1, <3>2
  <2>2. smooth(p, l) = [x \in Line(l) |-> smooth(p, l)[x]]
    BY DEF smooth
  <2> QED
    BY <2>1, <2>2 DEF LevelWeights
<1>3. ASSUME NEW c \in Int, NEW p \in LevelRow(l), NEW v \in LevelRow(l),
             \A x \in Line(l) : p[x] = c * v[x], NEW x \in Line(l)
      PROVE  smooth(p, l)[x] = c * smooth(v, l)[x]
  <2> DEFINE a == v[Nearest(x - 2, l)]
             b == v[Nearest(x - 1, l)]
             d == v[x]
             e == v[Nearest(x + 1, l)]
             f == v[Nearest(x + 2, l)]
  <2>1. a \in Int /\ b \in Int /\ d \in Int /\ e \in Int /\ f \in Int
    BY TapsThere DEF LevelRow
  <2>2. smooth(p, l)[x] = (c * a) * 1 + (c * b) * 4 + (c * d) * 6 + (c * e) * 4 + (c * f) * 1
    BY <1>3, TapsAre, TapsThere
  <2>3. smooth(v, l)[x] = a * 1 + b * 4 + d * 6 + e * 4 + f * 1
    BY TapsAre
  <2> HIDE DEF a, b, d, e, f
  <2>4. c * (a * 1 + b * 4 + d * 6 + e * 4 + f * 1)
          = (c * a) * 1 + (c * b) * 4 + (c * d) * 6 + (c * e) * 4 + (c * f) * 1
    BY <2>1
  <2> QED
    BY <2>2, <2>3, <2>4
<1> QED
  BY <1>1, <1>2, <1>3

-----------------------------------------------------------------------------
(* Up the pyramid: data, validity and masks.                                  *)

\* A coarser plane is the smoothed one at every other cell.
LEMMA HalvedKeeps ==
  ASSUME NEW l \in 0 .. Levels - 1
  PROVE  /\ \A p \in LevelRow(l) : downsample(p, l) \in LevelRow(l + 1)
         /\ \A p \in LevelWeights(l) : downsample(p, l) \in LevelWeights(l + 1)
         /\ \A c \in Int : \A p, v \in LevelRow(l) : (\A x \in Line(l) : p[x] = c * v[x])
              => \A x \in Line(l + 1) : downsample(p, l)[x] = c * downsample(v, l)[x]
         /\ \A p : \A x \in Line(l + 1) : downsample(p, l)[x] = smooth(p, l)[2 * x]
<1>1. l \in 0 .. Levels /\ \A x \in Line(l + 1) : 2 * x \in Line(l)
  BY LevelsAre, Halves
<1>2. \A p : downsample(p, l) = [x \in Line(l + 1) |-> smooth(p, l)[2 * x]]
  BY DEF downsample
<1>3. \A p : \A x \in Line(l + 1) : downsample(p, l)[x] = smooth(p, l)[2 * x]
  BY <1>2
<1>4. ASSUME NEW p \in LevelRow(l) PROVE downsample(p, l) \in LevelRow(l + 1)
  <2>1. smooth(p, l) \in LevelRow(l)
    BY <1>1, SmoothKeeps
  <2>2. \A x \in Line(l + 1) : smooth(p, l)[2 * x] \in Int
    BY <1>1, <2>1 DEF LevelRow
  <2> QED
    BY <1>2, <2>2 DEF LevelRow
<1>5. ASSUME NEW p \in LevelWeights(l) PROVE downsample(p, l) \in LevelWeights(l + 1)
  <2>1. smooth(p, l) \in LevelWeights(l)
    BY <1>1, SmoothKeeps
  <2>2. \A x \in Line(l + 1) : smooth(p, l)[2 * x] \in Nat
    BY <1>1, <2>1 DEF LevelWeights
  <2> QED
    BY <1>2, <2>2 DEF LevelWeights
<1>6. ASSUME NEW c \in Int, NEW p \in LevelRow(l), NEW v \in LevelRow(l),
             \A x \in Line(l) : p[x] = c * v[x], NEW x \in Line(l + 1)
      PROVE  downsample(p, l)[x] = c * downsample(v, l)[x]
  <2>1. \A y \in Line(l) : smooth(p, l)[y] = c * smooth(v, l)[y]
    BY <1>1, <1>6, SmoothKeeps
  <2> QED
    BY <1>1, <1>3, <2>1
<1> QED
  BY <1>3, <1>4, <1>5, <1>6

\* The Gaussian levels of a plane.
IsGaussian(g, plane) ==
  /\ g[0] = plane
  /\ \A l \in 0 .. Levels - 1 : g[l + 1] = downsample(g[l], l)

\* Whatever is in a plane, its Gaussian levels are planes, each half the one before.
LEMMA GaussiansAre ==
  ASSUME NEW plane \in LevelRow(0)
  PROVE  /\ IsGaussian(Gaussians(plane), plane)
         /\ \A l \in 0 .. Levels : Gaussians(plane)[l] \in LevelRow(l)
         /\ plane \in LevelWeights(0) => \A l \in 0 .. Levels : Gaussians(plane)[l] \in LevelWeights(l)
<1> DEFINE T == [l \in 0 .. Levels |-> LevelRow(l)]
           U == [l \in 0 .. Levels |-> LevelWeights(l)]
           st == [l \in 1 .. Levels |-> [v \in LevelRow(l - 1) |-> downsample(v, l - 1)]]
           P(f) == f = [l \in 0 .. Levels |-> IF l = 0 THEN plane ELSE downsample(f[l - 1], l - 1)]
           gauss == Gaussians(plane)
<1>1. Levels \in Nat /\ 0 \in 0 .. Levels
  BY LevelsAre
<1>2. \A l \in 1 .. Levels : l \in 0 .. Levels /\ l # 0 /\ l - 1 \in 0 .. Levels - 1
                             /\ l - 1 \in 0 .. Levels /\ (l - 1) + 1 = l
  BY <1>1
<1>3. ASSUME NEW l \in 1 .. Levels
      PROVE  /\ \A v \in LevelRow(l - 1) : downsample(v, l - 1) \in LevelRow(l)
             /\ \A v \in LevelWeights(l - 1) : downsample(v, l - 1) \in LevelWeights(l)
  BY <1>2, HalvedKeeps
<1>4. StepsThrough(Levels, plane, st, T)
  <2>1. \A l \in 1 .. Levels : T[l - 1] = LevelRow(l - 1) /\ T[l] = LevelRow(l)
    BY <1>2
  <2>2. \A l \in 1 .. Levels : \A v \in LevelRow(l - 1) : st[l][v] = downsample(v, l - 1)
    OBVIOUS
  <2>3. T[0] = LevelRow(0)
    BY <1>1
  <2> HIDE DEF T, st
  <2> QED
    BY <1>3, <2>1, <2>2, <2>3 DEF StepsThrough
<1>5. PICK g : Climbs(g, Levels, plane, st)
  <2> HIDE DEF st, T
  <2> QED
    BY <1>1, <1>4, ClimbsExist
<1>6. \A l \in 0 .. Levels : g[l] \in LevelRow(l)
  <2>1. \A l \in 0 .. Levels : g[l] \in T[l]
    <3> HIDE DEF st, T
    <3> QED
      BY <1>1, <1>4, <1>5, ClimbsTyped
  <2> QED
    BY <2>1
<1>7. P(g)
  <2>1. \A l \in 0 .. Levels : g[l] = IF l = 0 THEN plane ELSE downsample(g[l - 1], l - 1)
    <3> TAKE l \in 0 .. Levels
    <3>1. g[l] = IF l = 0 THEN plane ELSE st[l][g[l - 1]]
      BY <1>5 DEF Climbs
    <3>2. l # 0 => l - 1 \in 0 .. Levels /\ l \in 1 .. Levels
      BY <1>1
    <3>3. l # 0 => st[l][g[l - 1]] = downsample(g[l - 1], l - 1)
      BY <1>6, <3>2
    <3> HIDE DEF st
    <3> QED
      BY <3>1, <3>3
  <2>2. g = [l \in 0 .. Levels |-> g[l]]
    BY <1>5 DEF Climbs
  <2> HIDE DEF st
  <2> QED
    BY <2>1, <2>2
<1>8. P(gauss)
  <2> HIDE DEF P
  <2>1. gauss = CHOOSE f : P(f)
    BY DEF Gaussians, P
  <2> QED
    BY <1>7, <2>1
<1> HIDE DEF P, gauss
<1>9. gauss[0] = plane /\ \A l \in 1 .. Levels : gauss[l] = downsample(gauss[l - 1], l - 1)
  BY <1>1, <1>2, <1>8 DEF P
<1>10. \A l \in 0 .. Levels : gauss[l] \in T[l]
  <2>1. gauss[0] \in T[0]
    BY <1>1, <1>9
  <2>2. ASSUME NEW l \in 1 .. Levels, gauss[l - 1] \in T[l - 1] PROVE gauss[l] \in T[l]
    <3>1. gauss[l - 1] \in LevelRow(l - 1)
      BY <1>2, <2>2
    <3>2. gauss[l] \in LevelRow(l)
      BY <1>3, <1>9, <3>1
    <3> QED
      BY <1>2, <3>2
  <2> HIDE DEF T
  <2> QED
    BY <1>1, <2>1, <2>2, LevelByLevel
<1>11. ASSUME plane \in LevelWeights(0) PROVE \A l \in 0 .. Levels : gauss[l] \in U[l]
  <2>1. gauss[0] \in U[0]
    BY <1>1, <1>9, <1>11
  <2>2. ASSUME NEW l \in 1 .. Levels, gauss[l - 1] \in U[l - 1] PROVE gauss[l] \in U[l]
    <3>1. gauss[l - 1] \in LevelWeights(l - 1)
      BY <1>2, <2>2
    <3>2. gauss[l] \in LevelWeights(l)
      BY <1>3, <1>9, <3>1
    <3> QED
      BY <1>2, <3>2
  <2> HIDE DEF U
  <2> QED
    BY <1>1, <2>1, <2>2, LevelByLevel
<1>12. IsGaussian(gauss, plane)
  <2>1. ASSUME NEW l \in 0 .. Levels - 1 PROVE gauss[l + 1] = downsample(gauss[l], l)
    <3>1. l + 1 \in 1 .. Levels /\ (l + 1) - 1 = l
      BY <1>1
    <3> QED
      BY <1>9, <3>1
  <2> QED
    BY <1>9, <2>1 DEF IsGaussian
<1>13. \A l \in 0 .. Levels : gauss[l] \in LevelRow(l)
  BY <1>10
<1>14. plane \in LevelWeights(0) => \A l \in 0 .. Levels : gauss[l] \in LevelWeights(l)
  BY <1>11
<1> QED
  BY <1>12, <1>13, <1>14 DEF gauss

\* LevelWeights are whole numbers.
LEMMA WeightsAreRows == \A l : \A p \in LevelWeights(l) : p \in LevelRow(l)
BY DEF LevelWeights, LevelRow

\* A plane that is a multiple of its weights stays so on every level.
LEMMA LevelsScale ==
  ASSUME NEW c \in Int, NEW a \in LevelRow(0), NEW v \in LevelWeights(0),
         \A x \in Line(0) : a[x] = c * v[x]
  PROVE  \A l \in 0 .. Levels : \A x \in Line(l) :
            Gaussians(a)[l][x] = c * Gaussians(v)[l][x]
<1> DEFINE ga == Gaussians(a)
           gv == Gaussians(v)
           f == [l \in 0 .. Levels |-> \A x \in Line(l) : ga[l][x] = c * gv[l][x]]
           T == [l \in 0 .. Levels |-> {TRUE}]
<1>1. Levels \in Nat /\ 0 \in 0 .. Levels
  BY LevelsAre
<1>2. v \in LevelRow(0)
  BY WeightsAreRows
<1>3. IsGaussian(ga, a) /\ IsGaussian(gv, v)
      /\ \A l \in 0 .. Levels : ga[l] \in LevelRow(l) /\ gv[l] \in LevelRow(l)
  BY <1>2, GaussiansAre
<1> HIDE DEF ga, gv
<1>4. f[0] \in T[0]
  BY <1>1, <1>3 DEF IsGaussian
<1>5. ASSUME NEW l \in 1 .. Levels, f[l - 1] \in T[l - 1] PROVE f[l] \in T[l]
  <2> DEFINE k == l - 1
  <2>1. k \in 0 .. Levels - 1 /\ k \in 0 .. Levels /\ l \in 0 .. Levels /\ k + 1 = l
    BY <1>1
  <2>2. \A x \in Line(k) : ga[k][x] = c * gv[k][x]
    BY <1>5, <2>1
  <2> HIDE DEF k
  <2>3. ga[l] = downsample(ga[k], k) /\ gv[l] = downsample(gv[k], k)
    BY <1>3, <2>1 DEF IsGaussian
  <2>4. \A x \in Line(k + 1) : downsample(ga[k], k)[x] = c * downsample(gv[k], k)[x]
    BY <1>3, <2>1, <2>2, HalvedKeeps
  <2>5. f[l]
    BY <2>1, <2>3, <2>4
  <2> HIDE DEF f
  <2> QED
    BY <2>1, <2>5
<1>6. \A l \in 0 .. Levels : f[l] \in T[l]
  <2> HIDE DEF f, T
  <2> QED
    BY <1>1, <1>4, <1>5, LevelByLevel
<1> QED
  BY <1>6 DEF ga, gv

\* Where the validity is worth something a mask stays what it is, elsewhere it is 0.
LEMMA SupportedKeeps ==
  ASSUME NEW l \in 0 .. Levels, NEW m \in LevelWeights(l), NEW v \in LevelWeights(l)
  PROVE  /\ Supported(m, v, l) \in LevelWeights(l)
         /\ \A x \in Line(l) :
              /\ v[x] * SupportOver >= Power[l] => Supported(m, v, l)[x] = m[x]
              /\ Supported(m, v, l)[x] > 0 => v[x] > 0
<1>1. /\ SupportOver \in Nat \ {0} /\ Power[l] \in Nat \ {0}
      /\ \A x \in Line(l) : m[x] \in Nat /\ v[x] \in Nat
  BY PyramidAssumption, PowerIs DEF LevelWeights
<1>2. Supported(m, v, l) = [x \in Line(l) |-> IF v[x] * SupportOver >= Power[l] THEN m[x] ELSE 0]
  BY DEF Supported
<1>3. ASSUME NEW x \in Line(l), v[x] * SupportOver >= Power[l] PROVE v[x] > 0
  <2> DEFINE q == v[x]
             s == SupportOver
             w == Power[l]
  <2>1. q \in Nat /\ s \in Nat /\ w \in Nat \ {0} /\ q * s >= w
    BY <1>1, <1>3
  <2> HIDE DEF q, s, w
  <2>2. CASE q = 0
    <3>1. q * s = 0
      BY <2>1, <2>2
    <3> QED
      BY <2>1, <3>1
  <2>3. CASE q # 0
    BY <2>1, <2>3 DEF q
  <2> QED
    BY <2>2, <2>3
<1>4. Supported(m, v, l) \in [Line(l) -> Nat]
  BY <1>1, <1>2
<1> QED
  BY <1>2, <1>3, <1>4 DEF LevelWeights

\* The levels of an ownership mask, clamped as they are made.
IsReach(cur, mask, v) ==
  /\ cur[0] = Supported(mask, v[0], 0)
  /\ \A l \in 0 .. Levels - 1 : cur[l + 1] = Supported(downsample(cur[l], l), v[l + 1], l + 1)

\* They are weights.
LEMMA ReachesAre ==
  ASSUME NEW mask \in LevelWeights(0), NEW v, \A l \in 0 .. Levels : v[l] \in LevelWeights(l)
  PROVE  /\ IsReach(Reaches(mask, v), mask, v)
         /\ \A l \in 0 .. Levels : Reaches(mask, v)[l] \in LevelWeights(l)
<1> DEFINE T == [l \in 0 .. Levels |-> LevelWeights(l)]
           base == Supported(mask, v[0], 0)
           E(l, w) == Supported(downsample(w, l - 1), v[l], l)
           st == [l \in 1 .. Levels |-> [w \in LevelWeights(l - 1) |-> E(l, w)]]
           P(f) == f = [l \in 0 .. Levels |->
                          Supported(IF l = 0 THEN mask ELSE downsample(f[l - 1], l - 1), v[l], l)]
           cur == Reaches(mask, v)
<1>1. Levels \in Nat /\ 0 \in 0 .. Levels
  BY LevelsAre
<1>2. \A l \in 1 .. Levels : l \in 0 .. Levels /\ l # 0 /\ l - 1 \in 0 .. Levels - 1
                             /\ l - 1 \in 0 .. Levels /\ (l - 1) + 1 = l
  BY <1>1
<1>3. ASSUME NEW l \in 1 .. Levels
      PROVE  \A w \in LevelWeights(l - 1) : E(l, w) \in LevelWeights(l)
  <2>1. \A w \in LevelWeights(l - 1) : downsample(w, l - 1) \in LevelWeights(l)
    BY <1>2, HalvedKeeps
  <2> QED
    BY <1>2, <2>1, SupportedKeeps
<1>b. base \in LevelWeights(0)
  BY <1>1, SupportedKeeps
<1> HIDE DEF E, base
<1>4. StepsThrough(Levels, base, st, T)
  <2>1. \A l \in 1 .. Levels : T[l - 1] = LevelWeights(l - 1) /\ T[l] = LevelWeights(l)
    BY <1>2
  <2>2. \A l \in 1 .. Levels : \A w \in LevelWeights(l - 1) : st[l][w] = E(l, w)
    OBVIOUS
  <2>3. T[0] = LevelWeights(0)
    BY <1>1
  <2> HIDE DEF T, st
  <2> QED
    BY <1>b, <1>3, <2>1, <2>2, <2>3 DEF StepsThrough
<1>5. PICK g : Climbs(g, Levels, base, st)
  <2> HIDE DEF st, T
  <2> QED
    BY <1>1, <1>4, ClimbsExist
<1>6. \A l \in 0 .. Levels : g[l] \in LevelWeights(l)
  <2>1. \A l \in 0 .. Levels : g[l] \in T[l]
    <3> HIDE DEF st, T
    <3> QED
      BY <1>1, <1>4, <1>5, ClimbsTyped
  <2> QED
    BY <2>1
<1>7. P(g)
  <2>1. \A l \in 0 .. Levels :
          g[l] = Supported(IF l = 0 THEN mask ELSE downsample(g[l - 1], l - 1), v[l], l)
    <3> TAKE l \in 0 .. Levels
    <3>1. g[l] = IF l = 0 THEN base ELSE st[l][g[l - 1]]
      BY <1>5 DEF Climbs
    <3>2. l # 0 => l - 1 \in 0 .. Levels /\ l \in 1 .. Levels
      BY <1>1
    <3>3. l # 0 => st[l][g[l - 1]] = E(l, g[l - 1])
      BY <1>6, <3>2
    <3> HIDE DEF st
    <3>4. CASE l = 0
      BY <3>1, <3>4 DEF base
    <3>5. CASE l # 0
      BY <3>1, <3>3, <3>5 DEF E
    <3> QED
      BY <3>4, <3>5
  <2>2. g = [l \in 0 .. Levels |-> g[l]]
    BY <1>5 DEF Climbs
  <2> HIDE DEF st
  <2> QED
    BY <2>1, <2>2
<1>8. P(cur)
  <2> HIDE DEF P
  <2>1. cur = CHOOSE f : P(f)
    BY DEF Reaches, P
  <2> QED
    BY <1>7, <2>1
<1> HIDE DEF P, cur
<1>9. cur[0] = base /\ \A l \in 1 .. Levels : cur[l] = E(l, cur[l - 1])
  BY <1>1, <1>2, <1>8 DEF P, E, base
<1>10. \A l \in 0 .. Levels : cur[l] \in T[l]
  <2>1. cur[0] \in T[0]
    BY <1>1, <1>b, <1>9
  <2>2. ASSUME NEW l \in 1 .. Levels, cur[l - 1] \in T[l - 1] PROVE cur[l] \in T[l]
    <3>1. cur[l - 1] \in LevelWeights(l - 1)
      BY <1>2, <2>2
    <3>2. cur[l] \in LevelWeights(l)
      BY <1>3, <1>9, <3>1
    <3> QED
      BY <1>2, <3>2
  <2> HIDE DEF T
  <2> QED
    BY <1>1, <2>1, <2>2, LevelByLevel
<1>12. IsReach(cur, mask, v)
  <2>1. ASSUME NEW l \in 0 .. Levels - 1
        PROVE  cur[l + 1] = Supported(downsample(cur[l], l), v[l + 1], l + 1)
    <3>1. l + 1 \in 1 .. Levels /\ (l + 1) - 1 = l
      BY <1>1
    <3> QED
      BY <1>9, <3>1 DEF E
  <2> QED
    BY <1>9, <2>1 DEF IsReach, base
<1>13. \A l \in 0 .. Levels : cur[l] \in LevelWeights(l)
  BY <1>10
<1> QED
  BY <1>12, <1>13 DEF cur

\* The mask pyramid: weights that vanish where the validity does.
LEMMA MasksAre ==
  ASSUME NEW mask \in LevelWeights(0), NEW valid \in LevelWeights(0), NEW l \in 0 .. Levels
  PROVE  LET v   == Gaussians(valid)
             cur == Reaches(mask, v)
             mp  == mask_pyramid(mask, valid)
         IN  /\ v[l] \in LevelWeights(l) /\ cur[l] \in LevelWeights(l) /\ mp[l] \in LevelWeights(l)
             /\ mp[l] = Supported(smooth(cur[l], l), v[l], l)
             /\ \A x \in Line(l) : mp[l][x] > 0 => v[l][x] > 0
<1> DEFINE v   == Gaussians(valid)
           cur == Reaches(mask, v)
           mp  == mask_pyramid(mask, valid)
<1>1. \A k \in 0 .. Levels : v[k] \in LevelWeights(k)
  BY GaussiansAre, WeightsAreRows
<1>2. \A k \in 0 .. Levels : cur[k] \in LevelWeights(k)
  <2> HIDE DEF v
  <2> QED
    BY <1>1, ReachesAre
<1>3. mp[l] = Supported(smooth(cur[l], l), v[l], l)
  BY DEF mask_pyramid
<1> HIDE DEF v, cur, mp
<1>4. smooth(cur[l], l) \in LevelWeights(l)
  BY <1>2, SmoothKeeps
<1>5. mp[l] \in LevelWeights(l) /\ \A x \in Line(l) : mp[l][x] > 0 => v[l][x] > 0
  BY <1>1, <1>3, <1>4, SupportedKeeps
<1> QED
  BY <1>1, <1>2, <1>3, <1>5 DEF v, cur, mp

\* What was multiplied by a positive number and is divided by it is what it was.
LEMMA Quotient ==
  ASSUME NEW c \in Int, NEW w \in Nat \ {0}
  PROVE  (c * w) \div w = c
<1> DEFINE n == c * w
           q == n \div w
           r == n % w
           d == c - q
<1>1. n \in Int /\ q \in Int /\ r \in 0 .. w - 1 /\ n = w * q + r
  OBVIOUS
<1>2. d \in Int /\ d * w = r
  <2> HIDE DEF q, r
  <2>1. d \in Int /\ d * w = c * w - q * w
    BY <1>1
  <2>2. q * w = w * q
    BY <1>1
  <2> QED
    BY <1>1, <2>1, <2>2
<1> HIDE DEF q, r, n, d
<1>3. ~ d >= 1
  <2> SUFFICES ASSUME d >= 1 PROVE FALSE
    OBVIOUS
  <2>1. d * w >= w
    BY <1>2
  <2> QED
    BY <1>1, <1>2, <2>1
<1>4. ~ d <= -1
  <2> SUFFICES ASSUME d <= -1 PROVE FALSE
    OBVIOUS
  <2>1. d * w <= -w
    BY <1>2
  <2> QED
    BY <1>1, <1>2, <2>1
<1>5. d = 0
  BY <1>2, <1>3, <1>4
<1>6. c = q
  BY <1>1, <1>5 DEF d
<1> QED
  BY <1>6 DEF q, n

\* MeanBetweenCells two coarse cells lies their mean.
LEMMA MeanBetweenCells ==
  ASSUME NEW l \in 0 .. Levels - 1, NEW coarse \in LevelRow(l + 1)
  PROVE  /\ upsample(coarse, l) \in LevelRow(l)
         /\ \A c \in Int : \A x \in Line(l) :
              coarse[x \div 2] = c /\ (x % 2 # 0 => coarse[Nearest((x \div 2) + 1, l + 1)] = c)
              => upsample(coarse, l)[x] = c
<1>1. l + 1 \in 0 .. Levels /\ \A x \in Line(l) : x \in Int /\ x \div 2 \in Line(l + 1)
  BY LevelsAre, Halves DEF Line
<1>2. \A x \in Line(l) : x \div 2 \in Int /\ (x \div 2) + 1 \in Int
  BY <1>1
<1>3. \A x \in Line(l) : Nearest((x \div 2) + 1, l + 1) \in Line(l + 1)
  BY <1>1, <1>2, NearestIs
<1>4. \A y \in Line(l + 1) : coarse[y] \in Int
  BY DEF LevelRow
<1>5. upsample(coarse, l) =
        [x \in Line(l) |-> IF x % 2 = 0 THEN coarse[x \div 2]
                           ELSE (coarse[x \div 2] + coarse[Nearest((x \div 2) + 1, l + 1)]) \div 2]
  BY DEF upsample
<1>6. \A x \in Line(l) : upsample(coarse, l)[x] \in Int
  BY <1>1, <1>3, <1>4, <1>5
<1>7. ASSUME NEW c \in Int, NEW x \in Line(l), coarse[x \div 2] = c,
             x % 2 # 0 => coarse[Nearest((x \div 2) + 1, l + 1)] = c
      PROVE  upsample(coarse, l)[x] = c
  <2>1. CASE x % 2 = 0
    BY <1>5, <1>7, <2>1
  <2>2. CASE x % 2 # 0
    <3>1. upsample(coarse, l)[x] = (c + c) \div 2
      BY <1>5, <1>7, <2>2
    <3> QED
      BY <3>1
  <2> QED
    BY <2>1, <2>2
<1> QED
  BY <1>5, <1>6, <1>7 DEF LevelRow

\* Where a cell has weight, the coarser cells that stand for it have.
LEMMA WeightGoesUp ==
  ASSUME NEW l \in 0 .. Levels - 1, NEW w \in LevelWeights(l), NEW x \in Line(l), w[x] > 0
  PROVE  /\ downsample(w, l)[x \div 2] > 0
         /\ x % 2 # 0 => downsample(w, l)[Nearest((x \div 2) + 1, l + 1)] > 0
<1> DEFINE h == x \div 2
           d == downsample(w, l)
<1>1. l \in 0 .. Levels /\ l + 1 \in 0 .. Levels /\ x \in Int /\ h \in Line(l + 1) /\ h \in Int
  BY LevelsAre, Halves DEF Line
<1>2. \A y \in Line(l) : w[y] \in Nat
  BY DEF LevelWeights
<1>3. \A y \in Line(l + 1) : 2 * y \in Line(l) /\ d[y] = smooth(w, l)[2 * y]
  BY <1>1, HalvedKeeps, Halves
<1>4. ASSUME NEW y \in Line(l)
      PROVE  /\ y = x => smooth(w, l)[y] > 0
             /\ Nearest(y + 1, l) = x => smooth(w, l)[y] > 0
             /\ Nearest(y - 1, l) = x => smooth(w, l)[y] > 0
  <2> DEFINE a == w[Nearest(y - 2, l)]
             b == w[Nearest(y - 1, l)]
             c == w[y]
             e == w[Nearest(y + 1, l)]
             f == w[Nearest(y + 2, l)]
             s == smooth(w, l)[y]
  <2>1. a \in Nat /\ b \in Nat /\ c \in Nat /\ e \in Nat /\ f \in Nat
    BY <1>1, <1>2, TapsThere
  <2>2. s = a * 1 + b * 4 + c * 6 + e * 4 + f * 1
    BY <1>1, TapsAre
  <2>3. (y = x => c > 0) /\ (Nearest(y + 1, l) = x => e > 0) /\ (Nearest(y - 1, l) = x => b > 0)
    OBVIOUS
  <2>4. (c > 0 => s > 0) /\ (e > 0 => s > 0) /\ (b > 0 => s > 0)
    <3> HIDE DEF a, b, c, e, f, s
    <3> QED
      BY <2>1, <2>2
  <2> QED
    BY <2>3, <2>4
<1>5. CASE x % 2 = 0
  <2>1. x = 2 * h
    BY <1>5, Halves
  <2> HIDE DEF h, d
  <2>2. d[h] > 0
    BY <1>1, <1>3, <1>4, <2>1
  <2> QED
    BY <1>5, <2>2 DEF h, d
<1>6. CASE x % 2 # 0
  <2>1. x = 2 * h + 1 /\ (x + 1 \in Line(l) => h + 1 \in Line(l + 1))
    BY <1>6, Halves
  <2> DEFINE y == 2 * h
             n == Nearest(h + 1, l + 1)
  <2> HIDE DEF h, d
  <2>2. y \in Line(l) /\ y + 1 = x /\ y \in Int
    BY <1>1, <1>3, <2>1
  <2>3. Nearest(y + 1, l) = x
    BY <1>1, <2>2, NearestIs
  <2>4. d[h] > 0
    BY <1>1, <1>3, <1>4, <2>2, <2>3
  <2>5. CASE h + 1 \in Line(l + 1)
    <3>1. n = h + 1
      BY <1>1, <2>5, NearestIs
    <3>2. 2 * n \in Line(l) /\ 2 * n - 1 = x /\ d[n] = smooth(w, l)[2 * n]
      BY <1>1, <1>3, <2>1, <2>5, <3>1
    <3>3. Nearest(2 * n - 1, l) = x
      BY <1>1, <3>2, NearestIs
    <3>4. d[n] > 0
      <4> DEFINE z == 2 * n
      <4> HIDE DEF z
      <4>1. z \in Line(l) /\ Nearest(z - 1, l) = x /\ d[n] = smooth(w, l)[z]
        BY <3>2, <3>3 DEF z
      <4> QED
        BY <1>4, <4>1
    <3> QED
      BY <1>6, <2>4, <3>4 DEF h, d
  <2>6. CASE h + 1 \notin Line(l + 1)
    <3>1. n = h
      <4>1. level_dims[l + 1] \in Nat \ {0}
        BY <1>1, DimsAre
      <4>2. h + 1 >= level_dims[l + 1] /\ h <= level_dims[l + 1] - 1
        BY <1>1, <2>6, <4>1 DEF Line
      <4>3. Nearest(h + 1, l + 1) = level_dims[l + 1] - 1
        BY <1>1, <4>2, NearestIs
      <4> QED
        BY <1>1, <4>1, <4>2, <4>3
    <3> QED
      BY <1>6, <2>4, <3>1 DEF h, d
  <2> QED
    BY <2>5, <2>6
<1> QED
  BY <1>5, <1>6

\* The quotient of data and validity on one level.
Ratio(a, v, l) == [x \in Line(l) |-> IF v[x] > 0 THEN a[x] \div v[x] ELSE 0]

\* It gives back the factor where there is validity.
LEMMA RatioIs ==
  ASSUME NEW l \in 0 .. Levels, NEW a \in LevelRow(l), NEW v \in LevelWeights(l)
  PROVE  /\ Ratio(a, v, l) \in LevelRow(l)
         /\ \A c \in Int : \A x \in Line(l) :
              a[x] = c * v[x] /\ v[x] > 0 => Ratio(a, v, l)[x] = c
<1>1. \A x \in Line(l) : a[x] \in Int /\ v[x] \in Nat
  BY DEF LevelRow, LevelWeights
<1>2. Ratio(a, v, l) = [x \in Line(l) |-> IF v[x] > 0 THEN a[x] \div v[x] ELSE 0]
  BY DEF Ratio
<1>3. ASSUME NEW x \in Line(l) PROVE Ratio(a, v, l)[x] \in Int
  <2> DEFINE p == a[x]
             q == v[x]
  <2>1. Ratio(a, v, l)[x] = IF q > 0 THEN p \div q ELSE 0
    BY <1>2
  <2>2. p \in Int /\ q \in Nat
    BY <1>1
  <2> HIDE DEF p, q
  <2>3. q > 0 => p \div q \in Int
    BY <2>2
  <2> QED
    BY <2>1, <2>3
<1>4. ASSUME NEW c \in Int, NEW x \in Line(l), a[x] = c * v[x], v[x] > 0
      PROVE  Ratio(a, v, l)[x] = c
  <2>1. Ratio(a, v, l)[x] = (c * v[x]) \div v[x]
    BY <1>2, <1>4
  <2>2. v[x] \in Nat \ {0}
    BY <1>1, <1>4
  <2> QED
    BY <2>1, <2>2, Quotient
<1> QED
  BY <1>2, <1>3, <1>4 DEF LevelRow

\* What a level holds of a plane that is c everywhere.
LevelValue(c, l) == IF l = Levels THEN c ELSE 0

\* The Laplacian levels and the residual of a panel whose data are one value
\* wherever they count: nothing but the residual, wherever the validity is not 0.
LEMMA DataAre ==
  ASSUME NEW c \in Int, NEW plane \in LevelRow(0), NEW valid \in LevelWeights(0),
         \A x \in Line(0) : plane[x] * valid[x] = c * valid[x], NEW l \in 0 .. Levels
  PROVE  /\ build_masked(plane, valid)[l] \in LevelRow(l)
         /\ \A x \in Line(l) : Gaussians(valid)[l][x] > 0
              => build_masked(plane, valid)[l][x] = LevelValue(c, l)
<1> DEFINE data == [x \in Line(0) |-> plane[x] * valid[x]]
           a == Gaussians(data)
           v == Gaussians(valid)
           gauss == [k \in 0 .. Levels |-> Ratio(a[k], v[k], k)]
           bm == build_masked(plane, valid)
<1>1. Levels \in Nat
  BY LevelsAre
<1>2. data \in LevelRow(0) /\ valid \in LevelRow(0) /\ \A x \in Line(0) : data[x] = c * valid[x]
  <2>1. \A x \in Line(0) : plane[x] \in Int /\ valid[x] \in Nat
    BY DEF LevelRow, LevelWeights
  <2>2. \A x \in Line(0) : plane[x] * valid[x] \in Int
    BY <2>1
  <2> QED
    BY <2>2, WeightsAreRows DEF LevelRow
<1>3. bm = [k \in 0 .. Levels |->
              IF k = Levels THEN gauss[k]
              ELSE LET up == upsample(gauss[k + 1], k)
                   IN  [x \in Line(k) |-> gauss[k][x] - up[x]]]
  BY DEF build_masked, Ratio
<1>4. /\ \A k \in 0 .. Levels : a[k] \in LevelRow(k) /\ v[k] \in LevelWeights(k)
      /\ \A k \in 0 .. Levels - 1 : v[k + 1] = downsample(v[k], k)
  <2> HIDE DEF data
  <2> QED
    BY <1>2, GaussiansAre DEF IsGaussian
<1>5. \A k \in 0 .. Levels : \A x \in Line(k) : a[k][x] = c * v[k][x]
  <2> HIDE DEF data
  <2> QED
    BY <1>2, LevelsScale
<1> HIDE DEF a, v
<1>6. \A k \in 0 .. Levels :
        /\ gauss[k] \in LevelRow(k)
        /\ \A x \in Line(k) : v[k][x] > 0 => gauss[k][x] = c
  <2> TAKE k \in 0 .. Levels
  <2>1. gauss[k] = Ratio(a[k], v[k], k)
    OBVIOUS
  <2>2. a[k] \in LevelRow(k) /\ v[k] \in LevelWeights(k) /\ \A x \in Line(k) : a[k][x] = c * v[k][x]
    BY <1>4, <1>5
  <2> QED
    BY <2>1, <2>2, RatioIs
<1> HIDE DEF gauss, bm
<1>7. CASE l = Levels
  <2>1. bm[l] = gauss[l]
    BY <1>3, <1>7
  <2> QED
    BY <1>6, <1>7, <2>1 DEF bm, v, LevelValue
<1>8. CASE l # Levels
  <2> DEFINE up == upsample(gauss[l + 1], l)
  <2>1. l \in 0 .. Levels - 1 /\ l + 1 \in 0 .. Levels
    BY <1>1, <1>8
  <2>2. bm[l] = [x \in Line(l) |-> gauss[l][x] - up[x]]
    BY <1>3, <1>8
  <2>3. up \in LevelRow(l)
    BY <1>6, <2>1, MeanBetweenCells
  <2>4. ASSUME NEW x \in Line(l), v[l][x] > 0 PROVE up[x] = c
    <3>1. x \div 2 \in Line(l + 1) /\ (x \div 2) + 1 \in Int
      BY <2>1, Halves DEF Line
    <3>2. Nearest((x \div 2) + 1, l + 1) \in Line(l + 1)
      BY <2>1, <3>1, NearestIs
    <3>3. v[l] \in LevelWeights(l) /\ v[l + 1] = downsample(v[l], l)
      BY <1>4, <2>1
    <3>4. /\ v[l + 1][x \div 2] > 0
          /\ x % 2 # 0 => v[l + 1][Nearest((x \div 2) + 1, l + 1)] > 0
      BY <2>1, <2>4, <3>3, WeightGoesUp
    <3>5. /\ gauss[l + 1][x \div 2] = c
          /\ x % 2 # 0 => gauss[l + 1][Nearest((x \div 2) + 1, l + 1)] = c
      BY <1>6, <2>1, <3>1, <3>2, <3>4
    <3> QED
      BY <1>6, <2>1, <3>5, MeanBetweenCells
  <2> HIDE DEF up
  <2>5. \A x \in Line(l) : gauss[l][x] \in Int /\ up[x] \in Int
    BY <1>6, <2>3 DEF LevelRow
  <2>6. bm[l] \in LevelRow(l)
    BY <2>2, <2>5 DEF LevelRow
  <2>7. \A x \in Line(l) : v[l][x] > 0 => bm[l][x] = 0
    <3> TAKE x \in Line(l)
    <3> HAVE v[l][x] > 0
    <3>1. bm[l][x] = c - c
      BY <1>6, <2>2, <2>4
    <3> QED
      BY <3>1
  <2> QED
    BY <1>8, <2>6, <2>7 DEF bm, v, LevelValue
<1> QED
  BY <1>7, <1>8

\* A sum of naturals is one, and positive if a summand is.
LEMMA SumPositive ==
  ASSUME NEW S, IsFiniteSet(S), NEW w, \A x \in S : w[x] \in Nat
  PROVE  /\ SumFunctionOnSet(w, S) \in Nat
         /\ \A x \in S : w[x] > 0 => SumFunctionOnSet(w, S) > 0
<1>0. AllInt(w, S)
  BY DEF AllInt
<1>1. PICK k : SumFunctionOnSet(w, S) = k[S] /\ Adds(k, w, S)
  BY <1>0, SumIter
<1>9. Adds(k, w, S)
  BY <1>1
<1>8. \A s \in SUBSET S : k[s] \in Int /\ \A y \in s : k[s] = w[y] + k[s \ {y}]
  BY <1>0, <1>9, AnySummand
<1> DEFINE ch == [s \in SUBSET S |-> CHOOSE x \in s : TRUE]
           B == {s \in SUBSET S : k[s] \in Nat}
<1>2. Choice(S, ch)
  BY DEF Choice
<1>3. {} \in B
  BY <1>1 DEF Adds
<1>4. ASSUME NEW s \in SUBSET S, s # {}, s \ {ch[s]} \in B PROVE s \in B
  <2> DEFINE c == ch[s]
             r == s \ {ch[s]}
  <2>0. c = CHOOSE x \in s : TRUE
    OBVIOUS
  <2>1. c \in S /\ k[s] = w[c] + k[r]
    BY <1>1, <1>2, <1>4, <2>0 DEF Choice, Adds
  <2>2. k[r] \in Nat
    BY <1>4
  <2> HIDE DEF c, r, ch
  <2> QED
    BY <2>1, <2>2
<1>5. SUBSET S \subseteq B
  <2> HIDE DEF ch, B
  <2>1. Peels(S, ch, B)
    BY <1>4 DEF Peels
  <2> QED
    BY <1>2, <1>3, <2>1, Peeling
<1>6. \A s \in SUBSET S : k[s] \in Nat
  BY <1>5
<1>7. ASSUME NEW x \in S, w[x] > 0 PROVE k[S] > 0
  <2>1. k[S] = w[x] + k[S \ {x}]
    BY <1>8
  <2>2. k[S \ {x}] \in Nat /\ w[x] \in Nat
    BY <1>6
  <2> QED
    BY <1>7, <2>1, <2>2
<1> QED
  BY <1>1, <1>6, <1>7

\* Panels whose data are c in the residual and 0 above it, wherever their masks
\* are not 0.
FlatPanels(datas, masks, c) ==
  /\ IsFiniteSet(DOMAIN masks)
  /\ \A k \in DOMAIN masks : \A l \in 0 .. Levels :
       /\ masks[k][l] \in LevelWeights(l) /\ datas[k][l] \in LevelRow(l)
       /\ \A x \in Line(l) : masks[k][l][x] > 0
            => datas[k][l][x] = LevelValue(c, l)

\* Their mean is 0 on a Laplacian level, and c in the residual where a mask is not 0.
LEMMA LevelsBlend ==
  ASSUME NEW c \in Int, NEW datas, NEW masks, FlatPanels(datas, masks, c),
         NEW l \in 0 .. Levels, NEW x \in Line(l)
  PROVE  /\ \A k \in DOMAIN masks : masks[k][l][x] > 0 => Total(masks, l, x) > 0
         /\ l # Levels => BlendedLevel(datas, masks, l)[x] = 0
         /\ l = Levels /\ Total(masks, l, x) > 0 => BlendedLevel(datas, masks, l)[x] = c
<1> DEFINE D == DOMAIN masks
           w == [k \in D |-> masks[k][l][x]]
           v == [k \in D |-> masks[k][l][x] * datas[k][l][x]]
           t == LevelValue(c, l)
           sw == SumFunctionOnSet(w, D)
           sv == SumFunctionOnSet(v, D)
<1>1. sw = Total(masks, l, x) /\ sv = Weighted(datas, masks, l, x) /\ IsFiniteSet(D) /\ t \in Int
  BY DEF Total, Weighted, FlatPanels, LevelValue
<1>2. BlendedLevel(datas, masks, l)[x] = IF sw > 0 THEN sv \div sw ELSE 0
  BY <1>1 DEF BlendedLevel
<1>3. ASSUME NEW k \in D PROVE w[k] \in Nat /\ v[k] = t * w[k]
  <2> DEFINE m == masks[k][l][x]
             d == datas[k][l][x]
  <2>1. m \in Nat /\ d \in Int /\ (m > 0 => d = t)
    BY DEF FlatPanels, LevelWeights, LevelRow
  <2>2. w[k] = m /\ v[k] = m * d
    OBVIOUS
  <2> HIDE DEF m, d, t, w, v
  <2>3. CASE m = 0
    <3>1. m * d = 0 /\ t * m = 0
      BY <1>1, <2>1, <2>3
    <3> QED
      BY <2>1, <2>2, <3>1
  <2>4. CASE m # 0
    <3>1. d = t /\ m * d = t * m
      BY <1>1, <2>1, <2>4
    <3> QED
      BY <2>1, <2>2, <3>1
  <2> QED
    BY <2>3, <2>4
<1>4. sw \in Nat /\ \A k \in D : w[k] > 0 => sw > 0
  <2> HIDE DEF D, w
  <2> QED
    BY <1>1, <1>3, SumPositive
<1>5. sv = t * sw
  <2>1. \A k \in D : w[k] \in Int /\ v[k] \in Int /\ t * w[k] <= v[k] /\ v[k] <= t * w[k]
    <3> HIDE DEF w, v, t, D
    <3>1. \A k \in D : t * w[k] \in Int
      BY <1>1, <1>3
    <3> QED
      BY <1>3, <3>1
  <2> HIDE DEF w, v, t, D
  <2>2. /\ SumFunctionOnSet(v, D) \in Int
        /\ t * SumFunctionOnSet(w, D) <= SumFunctionOnSet(v, D)
        /\ SumFunctionOnSet(v, D) <= t * SumFunctionOnSet(w, D)
    BY <1>1, <2>1, SumBounds
  <2> HIDE DEF sw, sv
  <2>3. sv \in Int /\ t * sw <= sv /\ sv <= t * sw /\ t * sw \in Int
    BY <1>1, <1>4, <2>2 DEF sw, sv
  <2> QED
    BY <2>3
<1>6. sw > 0 => BlendedLevel(datas, masks, l)[x] = t
  <2> HAVE sw > 0
  <2> HIDE DEF sw, sv, t
  <2>1. sv \div sw = t
    <3>1. sw \in Nat \ {0}
      BY <1>4
    <3> QED
      BY <1>1, <1>5, <3>1, Quotient
  <2> QED
    BY <1>2, <2>1
<1>7. \A k \in D : masks[k][l][x] > 0 => Total(masks, l, x) > 0
  BY <1>1, <1>4
<1> HIDE DEF sw, sv
<1> QED
  BY <1>1, <1>2, <1>6, <1>7 DEF LevelValue

\* Of the weights of a cell and its right neighbour, at least 5 times the smaller
\* reaches the two coarser cells they are drawn from; of four in a row, 11 times.
LEMMA PairAbove ==
  ASSUME NEW l \in 0 .. Levels - 1, NEW w \in LevelWeights(l), NEW f \in Nat, NEW z \in Line(l),
         w[z] >= f, w[Nearest(z + 1, l)] >= f
  PROVE  LET d == downsample(w, l)
             h == z \div 2
             n == Nearest(h + 1, l + 1)
         IN  /\ d[h] >= 5 * f /\ d[n] >= 5 * f
             /\ w[Nearest(z - 1, l)] >= f /\ w[Nearest(z + 2, l)] >= f
                  => d[h] >= 11 * f /\ d[n] >= 11 * f
             /\ w[z] > 0 \/ w[Nearest(z + 1, l)] > 0 => d[h] > 0
<1> DEFINE d == downsample(w, l)
           h == z \div 2
           n == Nearest(h + 1, l + 1)
           p == w[Nearest(z - 1, l)]
           q == w[z]
           r == w[Nearest(z + 1, l)]
           s == w[Nearest(z + 2, l)]
           Good(k) == /\ k \in Nat /\ k >= 5 * f
                      /\ p >= f /\ s >= f => k >= 11 * f
           Lit(k) == q > 0 \/ r > 0 => k > 0
<1>1. l \in 0 .. Levels /\ l + 1 \in 0 .. Levels /\ z \in Int /\ h \in Line(l + 1) /\ h \in Int
  BY LevelsAre, Halves DEF Line
<1>2. \A y \in Line(l) : w[y] \in Nat
  BY DEF LevelWeights
<1>3. \A y \in Line(l + 1) : 2 * y \in Line(l) /\ d[y] = smooth(w, l)[2 * y]
  BY <1>1, HalvedKeeps, Halves
<1>4. p \in Nat /\ q \in Nat /\ r \in Nat /\ s \in Nat /\ q >= f /\ r >= f
  <2>1. z - 1 \in Int /\ z + 1 \in Int /\ z + 2 \in Int
    BY <1>1
  <2>2. Nearest(z - 1, l) \in Line(l) /\ Nearest(z + 1, l) \in Line(l)
        /\ Nearest(z + 2, l) \in Line(l)
    BY <1>1, <2>1, NearestIs
  <2> QED
    BY <1>2, <2>2
<1>5. ASSUME NEW y \in Line(l)
      PROVE  /\ w[Nearest(y - 2, l)] \in Nat /\ w[Nearest(y - 1, l)] \in Nat /\ w[y] \in Nat
             /\ w[Nearest(y + 1, l)] \in Nat /\ w[Nearest(y + 2, l)] \in Nat
             /\ smooth(w, l)[y] = w[Nearest(y - 2, l)] * 1 + w[Nearest(y - 1, l)] * 4 + w[y] * 6
                                  + w[Nearest(y + 1, l)] * 4 + w[Nearest(y + 2, l)] * 1
  BY <1>1, <1>2, TapsThere, TapsAre
<1> HIDE DEF d, h, p, q, r, s
<1>6. Good(d[h]) /\ Lit(d[h])
  <2> DEFINE y == 2 * h
  <2>1. y \in Line(l) /\ d[h] = smooth(w, l)[y] /\ y \in Int
    BY <1>1, <1>3
  <2> DEFINE a == w[Nearest(y - 2, l)]
           b == w[Nearest(y - 1, l)]
           c == w[y]
           e == w[Nearest(y + 1, l)]
           g == w[Nearest(y + 2, l)]
  <2>2. a \in Nat /\ b \in Nat /\ c \in Nat /\ e \in Nat /\ g \in Nat
        /\ smooth(w, l)[y] = a * 1 + b * 4 + c * 6 + e * 4 + g * 1
    BY <1>5, <2>1
  <2> HIDE DEF a, b, c, e, g
  <2>3. d[h] = a + b * 4 + c * 6 + e * 4 + g
    BY <2>1, <2>2
  <2> HIDE DEF y
  <2>4. CASE z % 2 = 0
    <3>1. y = z
      BY <2>4, Halves DEF y, h
    <3>2. b = p /\ c = q /\ e = r /\ g = s
      BY <3>1 DEF a, b, c, e, g, p, q, r, s
    <3> QED
      BY <1>4, <2>2, <2>3, <3>2
  <2>5. CASE z % 2 # 0
    <3>1. y = z - 1
      BY <1>1, <2>5, Halves DEF y, h
    <3>2. Nearest(y, l) = y /\ y + 1 = z /\ y + 2 = z + 1 /\ Nearest(z, l) = z
      BY <1>1, <2>1, <3>1, NearestIs
    <3>3. c = p /\ e = q /\ g = r
      BY <3>1, <3>2 DEF a, b, c, e, g, p, q, r
    <3> QED
      BY <1>4, <2>2, <2>3, <3>3
  <2> QED
    BY <2>4, <2>5
<1>7. Good(d[n])
  <2>1. CASE h + 1 \in Line(l + 1)
    <3> DEFINE y == 2 * (h + 1)
    <3>1. n = h + 1
      BY <1>1, <2>1, NearestIs
    <3>2. y \in Line(l) /\ d[n] = smooth(w, l)[y] /\ y \in Int
      BY <1>1, <1>3, <2>1, <3>1
    <3> DEFINE a == w[Nearest(y - 2, l)]
             b == w[Nearest(y - 1, l)]
             c == w[y]
             e == w[Nearest(y + 1, l)]
             g == w[Nearest(y + 2, l)]
    <3>3. a \in Nat /\ b \in Nat /\ c \in Nat /\ e \in Nat /\ g \in Nat
          /\ smooth(w, l)[y] = a * 1 + b * 4 + c * 6 + e * 4 + g * 1
      BY <1>5, <3>2
    <3> HIDE DEF a, b, c, e, g
    <3>4. d[n] = a + b * 4 + c * 6 + e * 4 + g
      BY <3>2, <3>3
    <3>5. y = 2 * h + 2
      BY <1>1
    <3> HIDE DEF y, n
    <3>6. Nearest(y, l) = y /\ Nearest(z, l) = z
      BY <1>1, <3>2, NearestIs
    <3>7. CASE z % 2 = 0
      <4>1. y - 2 = z /\ y - 1 = z + 1 /\ y = z + 2
        BY <1>1, <3>2, <3>5, <3>7, Halves DEF h
      <4>2. a = q /\ b = r /\ c = s
        BY <3>6, <4>1 DEF a, b, c, e, g, q, r, s
      <4> QED
        BY <1>4, <3>3, <3>4, <4>2
    <3>8. CASE z % 2 # 0
      <4>1. y - 2 = z - 1 /\ y - 1 = z /\ y = z + 1 /\ y + 1 = z + 2
        BY <1>1, <3>2, <3>5, <3>8, Halves DEF h
      <4>2. a = p /\ b = q /\ c = r /\ e = s
        BY <3>6, <4>1 DEF a, b, c, e, g, p, q, r, s
      <4> QED
        BY <1>4, <3>3, <3>4, <4>2
    <3> QED
      BY <3>7, <3>8
  <2>2. CASE h + 1 \notin Line(l + 1)
    <3>1. level_dims[l + 1] \in Nat \ {0}
      BY <1>1, DimsAre
    <3>2. h + 1 >= level_dims[l + 1] /\ h <= level_dims[l + 1] - 1
      BY <1>1, <2>2, <3>1 DEF Line
    <3>3. Nearest(h + 1, l + 1) = level_dims[l + 1] - 1
      BY <1>1, <3>2, NearestIs
    <3>4. n = h
      BY <1>1, <3>1, <3>2, <3>3
    <3> QED
      BY <1>6, <3>4
  <2> QED
    BY <2>1, <2>2
<1> QED
  BY <1>6, <1>7 DEF d, h, p, q, r, s

\* The levels of the validity and of the mask of one panel.
Ladders(v, cur) ==
  /\ \A l \in 0 .. Levels : v[l] \in LevelWeights(l) /\ cur[l] \in LevelWeights(l)
  /\ \A l \in 0 .. Levels - 1 :
       /\ v[l + 1] = downsample(v[l], l)
       /\ cur[l + 1] = Supported(downsample(cur[l], l), v[l + 1], l + 1)

\* A cell and its right neighbour that the panel counts in, and one of them with
\* weight in its mask.  On the finest level the cells next to them count as well.
PairReached(v, cur, l, z) ==
  /\ z \in Line(l)
  /\ v[l][z] >= Faintest[l] /\ v[l][Nearest(z + 1, l)] >= Faintest[l]
  /\ l = 0 => v[l][Nearest(z - 1, l)] >= 1 /\ v[l][Nearest(z + 2, l)] >= 1
  /\ cur[l][z] > 0 \/ cur[l][Nearest(z + 1, l)] > 0

\* What counts at least that much is above the threshold of the masks.
LEMMA FaintestCounts ==
  ASSUME NEW l \in 0 .. Levels, NEW k \in Int, k >= Faintest[l]
  PROVE  k * SupportOver >= Power[l]
<1> DEFINE f == Faintest[l]
           s == SupportOver
           p == Power[l]
<1>1. f \in Nat /\ s \in Nat /\ p \in Nat /\ f * s >= p /\ k >= f
  BY FaintestIs, PowerIs, PyramidAssumption, SupportAssumption
<1> HIDE DEF f, s, p
<1>2. k * s >= f * s
  BY <1>1
<1>3. k * s \in Int /\ f * s \in Int
  BY <1>1
<1>4. k * s >= p
  BY <1>1, <1>2, <1>3
<1> QED
  BY <1>4 DEF s, p

\* The coarser cells of such a pair are such a pair.
LEMMA ReachedAbove ==
  ASSUME NEW v, NEW cur, Ladders(v, cur), NEW l \in 0 .. Levels - 1, NEW z, PairReached(v, cur, l, z)
  PROVE  PairReached(v, cur, l + 1, z \div 2)
<1> DEFINE h == z \div 2
           n == Nearest(h + 1, l + 1)
           f == Faintest[l]
           g == Faintest[l + 1]
           w == v[l]
           c == cur[l]
           dw == downsample(w, l)
           dc == downsample(c, l)
<1>1. l \in 0 .. Levels /\ l + 1 \in 1 .. Levels /\ l + 1 \in 0 .. Levels /\ (l + 1) - 1 = l
      /\ l + 1 # 0
  BY LevelsAre
<1>2. z \in Line(l) /\ z \in Int /\ h \in Line(l + 1) /\ h \in Int
  BY Halves DEF Line, PairReached
<1>3. n \in Line(l + 1)
  BY <1>1, <1>2, NearestIs
<1>4. /\ w \in LevelWeights(l) /\ c \in LevelWeights(l)
      /\ v[l + 1] = dw /\ cur[l + 1] = Supported(dc, dw, l + 1)
      /\ dw \in LevelWeights(l + 1) /\ dc \in LevelWeights(l + 1)
  BY <1>1, HalvedKeeps DEF Ladders
<1>5. f \in Nat /\ g \in Nat /\ g = (IF l + 1 = 1 THEN 11 ELSE 5 * f) /\ (l = 0 => f = 1)
  BY <1>1, FaintestIs
<1>6. /\ w[z] >= f /\ w[Nearest(z + 1, l)] >= f
      /\ l = 0 => w[Nearest(z - 1, l)] >= f /\ w[Nearest(z + 2, l)] >= f
      /\ c[z] > 0 \/ c[Nearest(z + 1, l)] > 0
  BY <1>5 DEF PairReached
<1>7. /\ dw[h] >= 5 * f /\ dw[n] >= 5 * f
      /\ l = 0 => dw[h] >= 11 * f /\ dw[n] >= 11 * f
  <2> HIDE DEF w, f
  <2> QED
    BY <1>2, <1>4, <1>5, <1>6, PairAbove
<1>8. dc[h] > 0
  <2>1. \A y \in Line(l) : c[y] >= 0
    BY <1>4 DEF LevelWeights
  <2>2. Nearest(z + 1, l) \in Line(l)
    BY <1>1, <1>2, NearestIs
  <2> HIDE DEF c
  <2>3. c[z] >= 0 /\ c[Nearest(z + 1, l)] >= 0 /\ 0 \in Nat
    BY <1>2, <2>1, <2>2
  <2> QED
    BY <1>2, <1>4, <1>6, <2>3, PairAbove
<1> HIDE DEF dw, dc
<1>9. dw[h] >= g /\ dw[n] >= g /\ dw[h] \in Int
  <2>1. dw[h] \in Nat /\ dw[n] \in Nat
    BY <1>2, <1>3, <1>4 DEF LevelWeights
  <2> HIDE DEF h, n, f, g
  <2> QED
    BY <1>1, <1>5, <1>7, <2>1
<1>10. Supported(dc, dw, l + 1)[h] > 0
  <2>1. dw[h] * SupportOver >= Power[l + 1]
    BY <1>1, <1>9, FaintestCounts
  <2> QED
    BY <1>1, <1>2, <1>4, <1>8, <2>1, SupportedKeeps
<1> QED
  BY <1>1, <1>2, <1>4, <1>9, <1>10 DEF PairReached

\* Its panel has weight in both cells.
LEMMA ReachedCounts ==
  ASSUME NEW v, NEW cur, Ladders(v, cur), NEW l \in 0 .. Levels, NEW z, PairReached(v, cur, l, z)
  PROVE  /\ Supported(smooth(cur[l], l), v[l], l)[z] > 0
         /\ Supported(smooth(cur[l], l), v[l], l)[Nearest(z + 1, l)] > 0
<1> DEFINE c == cur[l]
           w == v[l]
           m == Nearest(z + 1, l)
           sm == smooth(c, l)
<1>1. z \in Line(l) /\ z \in Int /\ m \in Line(l) /\ m \in Int
  <2>1. z \in Line(l) /\ z \in Int
    BY DEF Line, PairReached
  <2> QED
    BY <2>1, NearestIs DEF Line
<1>2. c \in LevelWeights(l) /\ w \in LevelWeights(l) /\ sm \in LevelWeights(l)
  BY SmoothKeeps DEF Ladders
<1>3. \A y \in Line(l) : c[y] \in Nat /\ w[y] \in Nat
  BY <1>2 DEF LevelWeights
<1>4. w[z] >= Faintest[l] /\ w[m] >= Faintest[l] /\ (c[z] > 0 \/ c[m] > 0)
  BY DEF PairReached
<1> HIDE DEF c, w, m
<1>5. ASSUME NEW y \in Line(l), y = z \/ y = m
      PROVE  sm[y] > 0
  <2> DEFINE a == c[Nearest(y - 2, l)]
             b == c[Nearest(y - 1, l)]
             d == c[y]
             e == c[Nearest(y + 1, l)]
             g == c[Nearest(y + 2, l)]
  <2>1. a \in Nat /\ b \in Nat /\ d \in Nat /\ e \in Nat /\ g \in Nat
    BY <1>3, TapsThere
  <2>2. sm[y] = a * 1 + b * 4 + d * 6 + e * 4 + g * 1
    BY TapsAre
  <2>3. d > 0 \/ e > 0 \/ b > 0
    <3>1. CASE y = z
      BY <1>4, <3>1 DEF m
    <3>2. CASE y = m /\ y # z
      <4>1. m = z + 1
        <5>1. CASE z + 1 \in Line(l)
          BY <1>1, <5>1, NearestIs DEF m
        <5>2. CASE z + 1 \notin Line(l)
          <6>1. level_dims[l] \in Nat \ {0} /\ z + 1 >= level_dims[l] /\ z <= level_dims[l] - 1
            BY <1>1, <5>2, DimsAre DEF Line
          <6>2. m = level_dims[l] - 1
            BY <1>1, <6>1, NearestIs DEF m
          <6> QED
            BY <1>1, <3>2, <6>1, <6>2
        <5> QED
          BY <5>1, <5>2
      <4>2. Nearest(y - 1, l) = z
        BY <1>1, <3>2, <4>1, NearestIs
      <4> QED
        BY <1>4, <3>2, <4>2
    <3> QED
      BY <1>5, <3>1, <3>2
  <2> HIDE DEF a, b, d, e, g, sm
  <2> QED
    BY <2>1, <2>2, <2>3
<1>6. w[z] * SupportOver >= Power[l] /\ w[m] * SupportOver >= Power[l]
  BY <1>1, <1>3, <1>4, FaintestCounts
<1>7. Supported(sm, w, l)[z] > 0 /\ Supported(sm, w, l)[m] > 0
  <2> HIDE DEF sm
  <2> QED
    BY <1>1, <1>2, <1>5, <1>6, SupportedKeeps
<1> QED
  BY <1>7 DEF c, w, m

-----------------------------------------------------------------------------
(* Down again: the blend of the levels and the collapse.                      *)

\* A blended plane of a level and where it is defined.
LevelCanvas(l) == [plane : LevelRow(l), def : [Line(l) -> BOOLEAN]]

\* A cell and its right neighbour are defined and have the value c.
PairFlat(out, c, l, z) ==
  \A x \in {z, Nearest(z + 1, l)} : out.def[x] /\ out.plane[x] = c

\* The mean of a level is a plane, all 0 but for the residual.
LEMMA BlendedIsRow ==
  ASSUME NEW c \in Int, NEW datas, NEW masks, FlatPanels(datas, masks, c), NEW l \in 0 .. Levels
  PROVE  BlendedLevel(datas, masks, l) \in LevelRow(l)
<1>1. ASSUME NEW x \in Line(l) PROVE BlendedLevel(datas, masks, l)[x] \in Int
  <2>1. BlendedLevel(datas, masks, l)[x] =
          IF Total(masks, l, x) > 0
          THEN Weighted(datas, masks, l, x) \div Total(masks, l, x) ELSE 0
    BY DEF BlendedLevel
  <2>2. CASE Total(masks, l, x) > 0
    <3>1. BlendedLevel(datas, masks, l)[x] \in {0, c}
      BY <2>2, LevelsBlend
    <3> QED
      BY <3>1
  <2>3. CASE ~ Total(masks, l, x) > 0
    BY <2>1, <2>3
  <2> QED
    BY <2>2, <2>3
<1>2. BlendedLevel(datas, masks, l) = [x \in Line(l) |-> BlendedLevel(datas, masks, l)[x]]
  BY DEF BlendedLevel
<1> QED
  BY <1>1, <1>2 DEF LevelRow

\* Nor does the collapse let anything in: from coarse to fine a pair keeps its value.
LEMMA FinerKeeps ==
  ASSUME NEW c \in Int, NEW datas, NEW masks, FlatPanels(datas, masks, c),
         NEW l \in 0 .. Levels - 1, NEW coarse \in LevelCanvas(l + 1)
  PROVE  /\ Finer(datas, masks, l, coarse) \in LevelCanvas(l)
         /\ \A z \in Line(l) :
              /\ PairFlat(coarse, c, l + 1, z \div 2)
              /\ Total(masks, l, z) > 0 /\ Total(masks, l, Nearest(z + 1, l)) > 0
              => PairFlat(Finer(datas, masks, l, coarse), c, l, z)
<1> DEFINE here == BlendedLevel(datas, masks, l)
           cp == coarse.plane
           cd == coarse.def
           up == upsample(cp, l)
           out == Finer(datas, masks, l, coarse)
<1>1. l \in 0 .. Levels /\ l # Levels /\ l + 1 \in 0 .. Levels
  BY LevelsAre
<1>2. cp \in LevelRow(l + 1) /\ cd \in [Line(l + 1) -> BOOLEAN]
  BY DEF LevelCanvas
<1>3. /\ up \in LevelRow(l)
      /\ \A x \in Line(l) :
           cp[x \div 2] = c /\ (x % 2 # 0 => cp[Nearest((x \div 2) + 1, l + 1)] = c)
           => up[x] = c
  <2> HIDE DEF cp
  <2> QED
    BY <1>2, MeanBetweenCells
<1>4. here \in LevelRow(l) /\ \A x \in Line(l) : here[x] = 0
  <2>1. here \in LevelRow(l)
    BY <1>1, BlendedIsRow
  <2>2. ASSUME NEW x \in Line(l) PROVE here[x] = 0
    BY <1>1, LevelsBlend
  <2> QED
    BY <2>1, <2>2
<1>5. /\ out.plane = [x \in Line(l) |-> here[x] + up[x]]
      /\ out.def = [x \in Line(l) |-> Total(masks, l, x) > 0 /\ cd[Nearest(x \div 2, l + 1)]]
      /\ out = [plane |-> out.plane, def |-> out.def]
  BY DEF Finer
<1> HIDE DEF here, cp, cd, up, out
<1>6. \A x \in Line(l) : x \in Int /\ x \div 2 \in Line(l + 1) /\ x \div 2 \in Int
                         /\ Nearest(x \div 2, l + 1) = x \div 2
  <2> TAKE x \in Line(l)
  <2>1. x \in Int /\ x \div 2 \in Line(l + 1) /\ x \div 2 \in Int
    BY Halves DEF Line
  <2> QED
    BY <1>1, <2>1, NearestIs
<1>7. out \in LevelCanvas(l)
  <2>1. out.plane \in LevelRow(l)
    <3>1. \A x \in Line(l) : here[x] + up[x] \in Int
      BY <1>3, <1>4 DEF LevelRow
    <3> QED
      BY <1>5, <3>1 DEF LevelRow
  <2>2. out.def \in [Line(l) -> BOOLEAN]
    <3>1. \A x \in Line(l) : (Total(masks, l, x) > 0 /\ cd[Nearest(x \div 2, l + 1)]) \in BOOLEAN
      OBVIOUS
    <3> QED
      BY <1>5, <3>1
  <2> QED
    BY <1>5, <2>1, <2>2 DEF LevelCanvas
<1>8. ASSUME NEW z \in Line(l), PairFlat(coarse, c, l + 1, z \div 2),
             Total(masks, l, z) > 0, Total(masks, l, Nearest(z + 1, l)) > 0
      PROVE  PairFlat(out, c, l, z)
  <2> DEFINE h == z \div 2
             n == Nearest(h + 1, l + 1)
             m == Nearest(z + 1, l)
  <2>1. z \in Int /\ h \in Line(l + 1) /\ h \in Int
    BY <1>6
  <2>2. m \in Line(l) /\ n \in Line(l + 1)
    BY <1>1, <2>1, NearestIs
  <2>3. cd[h] /\ cp[h] = c /\ cd[n] /\ cp[n] = c
    BY <1>8 DEF PairFlat, cd, cp
  <2>4. /\ (z % 2 = 0 /\ z = 2 * h) \/ (z % 2 # 0 /\ z = 2 * h + 1)
        /\ z = 2 * h + 1 /\ z + 1 \in Line(l) => h + 1 \in Line(l + 1)
    BY Halves
  <2>5. m = z \/ (m = z + 1 /\ z + 1 \in Line(l))
    <3>1. CASE z + 1 \in Line(l)
      BY <1>1, <2>1, <3>1, NearestIs
    <3>2. CASE z + 1 \notin Line(l)
      <4>1. level_dims[l] \in Nat \ {0} /\ z + 1 >= level_dims[l] /\ z <= level_dims[l] - 1
        BY <1>1, <2>1, <3>2, DimsAre DEF Line
      <4>2. m = level_dims[l] - 1
        BY <1>1, <2>1, <4>1, NearestIs
      <4> QED
        BY <2>1, <4>1, <4>2
    <3> QED
      BY <3>1, <3>2
  <2>6. ASSUME NEW x \in {z, m}
        PROVE  /\ cd[Nearest(x \div 2, l + 1)] /\ cp[x \div 2] = c
               /\ x % 2 # 0 => cp[Nearest((x \div 2) + 1, l + 1)] = c
    <3>1. CASE x \div 2 = h
      BY <1>6, <2>2, <2>3, <3>1
    <3>2. CASE x = z + 1 /\ z % 2 # 0 /\ z + 1 \in Line(l)
      <4>1. z = 2 * h + 1 /\ h + 1 \in Line(l + 1)
        BY <2>4, <3>2
      <4>2. x \div 2 = h + 1 /\ x % 2 = 0
        <5> HIDE DEF h
        <5> QED
          BY <2>1, <3>2, <4>1
      <4>3. n = h + 1 /\ Nearest(x \div 2, l + 1) = h + 1
        BY <1>1, <2>1, <4>1, <4>2, NearestIs
      <4> QED
        BY <2>3, <4>2, <4>3
    <3>3. x \div 2 = h \/ (x = z + 1 /\ z % 2 # 0 /\ z + 1 \in Line(l))
      <4>1. x = z \/ (x = z + 1 /\ z + 1 \in Line(l))
        BY <2>5
      <4>2. CASE x = z + 1 /\ z + 1 \in Line(l) /\ z % 2 = 0
        <5>1. z = 2 * h
          BY <2>4, <4>2
        <5>2. x = 2 * h + 1
          BY <4>2, <5>1
        <5> HIDE DEF h
        <5> QED
          BY <2>1, <5>2
      <4> QED
        BY <4>1, <4>2
    <3> QED
      BY <3>1, <3>2, <3>3
  <2>7. ASSUME NEW x \in {z, m} PROVE out.def[x] /\ out.plane[x] = c
    <3>1. x \in Line(l) /\ Total(masks, l, x) > 0
      BY <1>8, <2>2
    <3>2. up[x] = c /\ here[x] = 0
      BY <1>3, <1>4, <2>6, <3>1
    <3>3. out.plane[x] = 0 + c
      <4>1. out.plane[x] = here[x] + up[x]
        BY <1>5, <3>1
      <4> QED
        BY <3>2, <4>1
    <3>4. out.def[x] = (Total(masks, l, x) > 0 /\ cd[Nearest(x \div 2, l + 1)])
      BY <1>5, <3>1
    <3>5. cd[Nearest(x \div 2, l + 1)]
      BY <2>6
    <3>6. out.def[x]
      BY <3>1, <3>4, <3>5
    <3>7. out.plane[x] = c
      BY <3>3
    <3> QED
      BY <3>6, <3>7
  <2> QED
    BY <2>7 DEF PairFlat
<1> QED
  BY <1>7, <1>8 DEF out

\* So pairs that some panel reaches on every level come out with the value.
LEMMA CollapseKeeps ==
  ASSUME NEW c \in Int, NEW datas, NEW masks, FlatPanels(datas, masks, c), NEW G,
         \A l \in 0 .. Levels : \A z \in G[l] :
            /\ z \in Line(l) /\ Total(masks, l, z) > 0 /\ Total(masks, l, Nearest(z + 1, l)) > 0
            /\ l # Levels => z \div 2 \in G[l + 1]
  PROVE  \A z \in G[0] : PairFlat(blend_pyramids_guarded(datas, masks), c, 0, z)
<1> DEFINE Fit(l) == {out \in LevelCanvas(l) : \A z \in G[l] : PairFlat(out, c, l, z)}
           T == [n \in 0 .. Levels |-> Fit(Levels - n)]
           base == Coarsest(datas, masks)
           E(n, o) == Finer(datas, masks, Levels - n, o)
           st == [n \in 1 .. Levels |-> [o \in Fit(Levels - (n - 1)) |-> E(n, o)]]
           P(f) == f = [n \in 0 .. Levels |-> IF n = 0 THEN base
                                             ELSE Finer(datas, masks, Levels - n, f[n - 1])]
<1>1. Levels \in Nat /\ 0 \in 0 .. Levels /\ Levels \in 0 .. Levels /\ Levels - 0 = Levels
  BY LevelsAre
<1>2. \A n \in 1 .. Levels : n \in 0 .. Levels /\ n # 0 /\ n - 1 \in 0 .. Levels
                             /\ Levels - n \in 0 .. Levels - 1 /\ Levels - n \in 0 .. Levels
                             /\ Levels - n # Levels /\ Levels - (n - 1) = (Levels - n) + 1
  BY <1>1
<1>3. base \in Fit(Levels)
  <2> DEFINE bl == BlendedLevel(datas, masks, Levels)
  <2>1. bl \in LevelRow(Levels)
    BY <1>1, BlendedIsRow
  <2>2. \A x \in Line(Levels) : Total(masks, Levels, x) > 0 => bl[x] = c
    BY <1>1, LevelsBlend
  <2> HIDE DEF bl
  <2>3. base = [plane |-> bl, def |-> [x \in Line(Levels) |-> Total(masks, Levels, x) > 0]]
    BY DEF Coarsest, bl
  <2>4. base \in LevelCanvas(Levels)
    BY <2>1, <2>3 DEF LevelCanvas
  <2>5. \A z \in G[Levels] : PairFlat(base, c, Levels, z)
    <3> TAKE z \in G[Levels]
    <3>1. z \in Line(Levels) /\ Total(masks, Levels, z) > 0
          /\ Total(masks, Levels, Nearest(z + 1, Levels)) > 0
      BY <1>1
    <3>2. Nearest(z + 1, Levels) \in Line(Levels)
      <4>1. z + 1 \in Int
        BY <3>1 DEF Line
      <4> QED
        BY <1>1, <4>1, NearestIs
    <3>3. \A x \in {z, Nearest(z + 1, Levels)} :
            x \in Line(Levels) /\ Total(masks, Levels, x) > 0
      BY <3>1, <3>2
    <3>4. \A x \in Line(Levels) :
            /\ base.plane[x] = bl[x]
            /\ base.def[x] = (Total(masks, Levels, x) > 0)
      BY <2>3
    <3> HIDE DEF base
    <3> QED
      BY <2>2, <3>3, <3>4 DEF PairFlat
  <2> QED
    BY <2>4, <2>5
<1>4. ASSUME NEW n \in 1 .. Levels, NEW o \in Fit(Levels - (n - 1))
      PROVE  E(n, o) \in Fit(Levels - n)
  <2> DEFINE l == Levels - n
  <2>1. l \in 0 .. Levels - 1 /\ l \in 0 .. Levels /\ l # Levels /\ Levels - (n - 1) = l + 1
    BY <1>2
  <2> HIDE DEF l
  <2>2. o \in LevelCanvas(l + 1) /\ \A z \in G[l + 1] : PairFlat(o, c, l + 1, z)
    BY <1>4, <2>1
  <2>3. Finer(datas, masks, l, o) \in LevelCanvas(l)
    BY <2>1, <2>2, FinerKeeps
  <2>4. \A z \in G[l] : PairFlat(Finer(datas, masks, l, o), c, l, z)
    <3> TAKE z \in G[l]
    <3>1. /\ z \in Line(l) /\ Total(masks, l, z) > 0 /\ Total(masks, l, Nearest(z + 1, l)) > 0
          /\ z \div 2 \in G[l + 1]
      BY <2>1
    <3>2. PairFlat(o, c, l + 1, z \div 2)
      BY <2>2, <3>1
    <3> QED
      BY <2>1, <2>2, <3>1, <3>2, FinerKeeps
  <2> QED
    BY <2>3, <2>4 DEF l
<1> HIDE DEF Fit, base, E
<1>5. StepsThrough(Levels, base, st, T)
  <2>1. \A n \in 1 .. Levels : T[n - 1] = Fit(Levels - (n - 1)) /\ T[n] = Fit(Levels - n)
    BY <1>2
  <2>2. \A n \in 1 .. Levels : \A o \in Fit(Levels - (n - 1)) : st[n][o] = E(n, o)
    OBVIOUS
  <2>3. T[0] = Fit(Levels)
    BY <1>1
  <2> HIDE DEF T, st
  <2> QED
    BY <1>3, <1>4, <2>1, <2>2, <2>3 DEF StepsThrough
<1>6. PICK g : Climbs(g, Levels, base, st)
  <2> HIDE DEF st, T
  <2> QED
    BY <1>1, <1>5, ClimbsExist
<1>7. \A n \in 0 .. Levels : g[n] \in Fit(Levels - n)
  <2>1. \A n \in 0 .. Levels : g[n] \in T[n]
    <3> HIDE DEF st, T
    <3> QED
      BY <1>1, <1>5, <1>6, ClimbsTyped
  <2> QED
    BY <2>1
<1>8. P(g)
  <2>1. \A n \in 0 .. Levels :
          g[n] = IF n = 0 THEN base ELSE Finer(datas, masks, Levels - n, g[n - 1])
    <3> TAKE n \in 0 .. Levels
    <3>1. g[n] = IF n = 0 THEN base ELSE st[n][g[n - 1]]
      BY <1>6 DEF Climbs
    <3>2. n # 0 => n - 1 \in 0 .. Levels /\ n \in 1 .. Levels
      BY <1>1
    <3>3. n # 0 => st[n][g[n - 1]] = E(n, g[n - 1])
      BY <1>7, <3>2
    <3> HIDE DEF st
    <3> QED
      BY <3>1, <3>3 DEF E
  <2>2. g = [n \in 0 .. Levels |-> g[n]]
    BY <1>6 DEF Climbs
  <2> HIDE DEF st
  <2> QED
    BY <2>1, <2>2
<1> DEFINE cur == CHOOSE f : P(f)
<1>9. P(cur)
  <2> HIDE DEF P
  <2> QED
    BY <1>8
<1>10. blend_pyramids_guarded(datas, masks) = cur[Levels]
  BY DEF blend_pyramids_guarded, base
<1> HIDE DEF cur
<1>11. cur[0] = base /\ \A n \in 1 .. Levels : cur[n] = E(n, cur[n - 1])
  BY <1>1, <1>2, <1>9 DEF P, E
<1>12. \A n \in 0 .. Levels : cur[n] \in T[n]
  <2>1. cur[0] \in T[0]
    BY <1>1, <1>3, <1>11
  <2>2. ASSUME NEW n \in 1 .. Levels, cur[n - 1] \in T[n - 1] PROVE cur[n] \in T[n]
    <3>1. cur[n - 1] \in Fit(Levels - (n - 1))
      BY <1>2, <2>2
    <3>2. cur[n] \in Fit(Levels - n)
      BY <1>4, <1>11, <3>1
    <3> QED
      BY <1>2, <3>2
  <2> HIDE DEF T, P
  <2> QED
    BY <1>1, <2>1, <2>2, LevelByLevel
<1>13. cur[Levels] \in Fit(0)
  <2>1. Levels - Levels = 0
    BY <1>1
  <2> QED
    BY <1>1, <1>12, <2>1
<1> QED
  BY <1>10, <1>13 DEF Fit

\* Planes of ones and zeros.
LEMMA OneIs ==
  ASSUME NEW S
  PROVE  /\ One(S) \in LevelWeights(0)
         /\ \A x \in Line(0) : (x \in S => One(S)[x] = 1) /\ (x \notin S => One(S)[x] = 0)
BY DEF One, LevelWeights

\* Panels that are one level within their reach, where every covered cell has an
\* owner that covers it.
LEMMA FlatStays ==
  ASSUME NEW covs \in Seq(SUBSET Line(0)), NEW level \in Int, NEW beyond \in Int,
         NEW owner \in [Line(0) -> 0 .. Len(covs)],
         \A x \in Line(0) : /\ (\E p \in DOMAIN covs : x \in covs[p]) => owner[x] # 0
                            /\ owner[x] # 0 => x \in covs[owner[x]],
         NEW bases,
         bases = [p \in DOMAIN covs |-> [x \in Line(0) |->
                     IF x \in ReachOf(covs[p]) THEN level ELSE beyond]]
  PROVE  FlatStaysFlat(covs, level, pyramid_base_planes(covs, bases, owner))
<1> DEFINE owning == {p \in DOMAIN covs : \E x \in Line(0) : owner[x] = p}
           valid(p) == One(ReachOf(covs[p]))
           mask(p) == One({x \in Line(0) : owner[x] = p})
           v(p) == Gaussians(valid(p))
           cur(p) == Reaches(mask(p), v(p))
           datas == [p \in owning |-> build_masked(bases[p], valid(p))]
           masks == [p \in owning |-> mask_pyramid(mask(p), valid(p))]
           out == pyramid_base_planes(covs, bases, owner)
<1>1. Levels \in Nat /\ 0 \in 0 .. Levels /\ DOMAIN covs = 1 .. Len(covs) /\ Len(covs) \in Nat
  BY LevelsAre
<1>2. IsFiniteSet(owning) /\ owning \subseteq DOMAIN covs
  <2>1. IsFiniteSet(DOMAIN covs)
    BY <1>1, FS_Interval
  <2>2. owning \subseteq DOMAIN covs
    OBVIOUS
  <2> QED
    BY <2>1, <2>2, FS_Subset
<1>3. ASSUME NEW p \in owning
      PROVE  /\ valid(p) \in LevelWeights(0) /\ mask(p) \in LevelWeights(0)
             /\ bases[p] \in LevelRow(0)
             /\ \A x \in Line(0) : bases[p][x] * valid(p)[x] = level * valid(p)[x]
  <2>1. bases[p] = [x \in Line(0) |-> IF x \in ReachOf(covs[p]) THEN level ELSE beyond]
    BY <1>2
  <2>2. valid(p) \in LevelWeights(0) /\ mask(p) \in LevelWeights(0)
    BY OneIs
  <2>3. ASSUME NEW x \in Line(0) PROVE bases[p][x] * valid(p)[x] = level * valid(p)[x]
    <3>1. CASE x \in ReachOf(covs[p])
      BY <2>1, <3>1
    <3>2. CASE x \notin ReachOf(covs[p])
      <4>1. valid(p)[x] = 0
        BY <3>2, OneIs
      <4> HIDE DEF valid
      <4>2. bases[p][x] = beyond
        BY <2>1, <3>2
      <4> QED
        BY <4>1, <4>2
    <3> QED
      BY <3>1, <3>2
  <2>4. bases[p] \in LevelRow(0)
    BY <2>1 DEF LevelRow
  <2> QED
    BY <2>2, <2>3, <2>4
<1> HIDE DEF valid, mask
<1>4. ASSUME NEW p \in owning
      PROVE  /\ Ladders(v(p), cur(p))
             /\ v(p)[0] = valid(p) /\ cur(p)[0] = Supported(mask(p), valid(p), 0)
  <2>1. /\ IsGaussian(v(p), valid(p))
        /\ \A l \in 0 .. Levels : v(p)[l] \in LevelWeights(l)
    BY <1>3, GaussiansAre, WeightsAreRows
  <2> HIDE DEF v
  <2>2. /\ IsReach(cur(p), mask(p), v(p))
        /\ \A l \in 0 .. Levels : cur(p)[l] \in LevelWeights(l)
    BY <1>3, <2>1, ReachesAre
  <2> HIDE DEF cur
  <2> QED
    BY <2>1, <2>2 DEF Ladders, IsGaussian, IsReach
<1>5. ASSUME NEW p \in owning, NEW l \in 0 .. Levels
      PROVE  /\ masks[p][l] \in LevelWeights(l) /\ datas[p][l] \in LevelRow(l)
             /\ masks[p][l] = Supported(smooth(cur(p)[l], l), v(p)[l], l)
             /\ \A x \in Line(l) : masks[p][l][x] > 0
                  => datas[p][l][x] = LevelValue(level, l)
  <2>1. masks[p] = mask_pyramid(mask(p), valid(p)) /\ datas[p] = build_masked(bases[p], valid(p))
    OBVIOUS
  <2>2. /\ masks[p][l] \in LevelWeights(l)
        /\ masks[p][l] = Supported(smooth(cur(p)[l], l), v(p)[l], l)
        /\ \A x \in Line(l) : masks[p][l][x] > 0 => v(p)[l][x] > 0
    BY <1>3, <2>1, MasksAre
  <2>3. /\ datas[p][l] \in LevelRow(l)
        /\ \A x \in Line(l) : v(p)[l][x] > 0
             => datas[p][l][x] = LevelValue(level, l)
    <3> DEFINE b == bases[p]
               w == valid(p)
    <3>1. b \in LevelRow(0) /\ w \in LevelWeights(0)
      BY <1>3
    <3>4. \A x \in Line(0) : b[x] * w[x] = level * w[x]
      BY <1>3
    <3> HIDE DEF b, w
    <3>2. build_masked(b, w)[l] \in LevelRow(l)
      BY <3>1, <3>4, DataAre
    <3>5. \A x \in Line(l) : Gaussians(w)[l][x] > 0
             => build_masked(b, w)[l][x] = LevelValue(level, l)
      BY <3>1, <3>4, DataAre
    <3>3. datas[p] = build_masked(b, w) /\ v(p) = Gaussians(w)
      BY <2>1 DEF b, w
    <3> HIDE DEF datas, v
    <3> QED
      BY <3>2, <3>3, <3>5
  <2> HIDE DEF masks, datas, v, cur
  <2> QED
    BY <2>2, <2>3
<1>6. DOMAIN masks = owning
  OBVIOUS
<1>7. owning # {} => out = blend_pyramids_guarded(datas, masks)
  BY DEF pyramid_base_planes, valid, mask
<1> HIDE DEF owning, v, cur, datas, masks, out
<1>8. FlatPanels(datas, masks, level)
  BY <1>2, <1>5, <1>6 DEF FlatPanels
<1> DEFINE G == [l \in 0 .. Levels |-> {z \in Line(l) : \E p \in owning : PairReached(v(p), cur(p), l, z)}]
<1>9. ASSUME NEW l \in 0 .. Levels, NEW z \in G[l]
      PROVE  /\ z \in Line(l) /\ Total(masks, l, z) > 0 /\ Total(masks, l, Nearest(z + 1, l)) > 0
             /\ l # Levels => z \div 2 \in G[l + 1]
  <2>1. PICK p \in owning : PairReached(v(p), cur(p), l, z)
    OBVIOUS
  <2>2. z \in Line(l) /\ Nearest(z + 1, l) \in Line(l)
    <3>1. z \in Line(l) /\ z + 1 \in Int
      BY DEF Line
    <3> QED
      BY <3>1, NearestIs
  <2>3. masks[p][l][z] > 0 /\ masks[p][l][Nearest(z + 1, l)] > 0
    BY <1>4, <1>5, <2>1, ReachedCounts
  <2>4. Total(masks, l, z) > 0 /\ Total(masks, l, Nearest(z + 1, l)) > 0
    <3> DEFINE m == Nearest(z + 1, l)
    <3> HIDE DEF m, G
    <3>1. z \in Line(l) /\ m \in Line(l) /\ masks[p][l][z] > 0 /\ masks[p][l][m] > 0
      BY <2>2, <2>3 DEF m
    <3>2. \A x \in Line(l) : masks[p][l][x] > 0 => Total(masks, l, x) > 0
      BY <1>6, <1>8, LevelsBlend
    <3>3. Total(masks, l, z) > 0 /\ Total(masks, l, m) > 0
      BY <3>1, <3>2
    <3> QED
      BY <3>3 DEF m
  <2>5. ASSUME l # Levels PROVE z \div 2 \in G[l + 1]
    <3>1. l \in 0 .. Levels - 1 /\ l + 1 \in 0 .. Levels
      BY <1>1, <2>5
    <3>2. PairReached(v(p), cur(p), l + 1, z \div 2)
      BY <1>4, <2>1, <3>1, ReachedAbove
    <3>3. z \div 2 \in Line(l + 1)
      BY <3>2 DEF PairReached
    <3> QED
      BY <3>1, <3>2, <3>3
  <2> QED
    BY <2>2, <2>4, <2>5
<1>10. \A z \in G[0] : PairFlat(blend_pyramids_guarded(datas, masks), level, 0, z)
  <2> HIDE DEF G
  <2> QED
    BY <1>8, <1>9, CollapseKeeps
<1>11. ASSUME NEW x \in Line(0), NEW r \in DOMAIN covs, NEW y \in covs[r], x - y \in -1 .. 1
       PROVE  out.def[x] /\ out.plane[x] = level
  <2> DEFINE q == owner[y]
             z == IF x = y - 1 THEN x ELSE y
  <2>1. y \in Line(0) /\ x \in Int /\ y \in Int
    <3>1. covs[r] \in SUBSET Line(0)
      BY <1>1
    <3> QED
      BY <3>1 DEF Line
  <2>2. q \in owning /\ y \in covs[q] /\ q \in DOMAIN covs
    <3>1. q # 0 /\ y \in covs[q] /\ q \in 0 .. Len(covs)
      BY <2>1
    <3>2. q \in DOMAIN covs
      BY <1>1, <3>1
    <3> QED
      BY <2>1, <3>1, <3>2 DEF owning
  <2> HIDE DEF q
  <2>3. z \in Line(0) /\ z \in Int /\ z - y \in -1 .. 0 /\ z + 1 \in Int
    BY <2>1
  <2>4. ASSUME NEW u \in Int, u - y \in -2 .. 2
        PROVE  Nearest(u, 0) \in Line(0) /\ valid(q)[Nearest(u, 0)] = 1
    <3> DEFINE t == Nearest(u, 0)
    <3>1. t \in Line(0) /\ level_dims[0] \in Nat \ {0}
      BY <1>1, NearestIs, DimsAre
    <3>2. t - y \in -2 .. 2
      <4>1. y >= 0 /\ y <= level_dims[0] - 1
        BY <2>1, <3>1 DEF Line
      <4>2. CASE u \in Line(0)
        BY <1>1, <2>4, <4>2, NearestIs
      <4>3. CASE u < 0
        <5>1. t = 0
          BY <1>1, <4>3, NearestIs
        <5> QED
          BY <2>1, <2>4, <4>1, <4>3, <5>1
      <4>4. CASE u >= level_dims[0]
        <5> DEFINE d == level_dims[0]
        <5>1. t = d - 1
          BY <1>1, <4>4, NearestIs
        <5>2. d \in Nat /\ y <= d - 1 /\ u >= d
          BY <3>1, <4>1, <4>4
        <5> HIDE DEF d, t
        <5>3. u \in Int /\ y \in Int /\ u - y <= 2
          BY <2>1, <2>4
        <5>4. t \in Int /\ t - y >= 0 /\ t - y <= 2
          BY <5>1, <5>2, <5>3
        <5> QED
          BY <5>3, <5>4
      <4>5. u \in Line(0) \/ u < 0 \/ u >= level_dims[0]
        BY <3>1 DEF Line
      <4> QED
        BY <4>2, <4>3, <4>4, <4>5
    <3> HIDE DEF t
    <3>3. t \in ReachOf(covs[q])
      BY <2>2, <3>1, <3>2 DEF ReachOf
    <3>4. valid(q)[t] = 1
      BY <3>1, <3>3, OneIs DEF valid
    <3> QED
      BY <3>1, <3>4 DEF t
  <2>5. Nearest(z, 0) = z /\ Nearest(y, 0) = y
    BY <1>1, <2>1, <2>3, NearestIs
  <2>6. /\ valid(q)[z] = 1 /\ valid(q)[Nearest(z + 1, 0)] = 1 /\ valid(q)[y] = 1
        /\ valid(q)[Nearest(z - 1, 0)] = 1 /\ valid(q)[Nearest(z + 2, 0)] = 1
    <3>1. /\ z - 1 \in Int /\ z + 2 \in Int /\ z - y \in -2 .. 2 /\ (z - 1) - y \in -2 .. 2
          /\ (z + 1) - y \in -2 .. 2 /\ (z + 2) - y \in -2 .. 2 /\ y - y \in -2 .. 2
      <4> HIDE DEF z
      <4>1. z \in Int /\ y \in Int /\ -1 <= z - y /\ z - y <= 0
        BY <2>1, <2>3
      <4>2. z - 1 \in Int /\ z + 2 \in Int /\ y - y \in -2 .. 2
        BY <4>1
      <4>3. z - y \in -2 .. 2 /\ (z - 1) - y \in -2 .. 2
        BY <4>1
      <4>4. (z + 1) - y \in -2 .. 2 /\ (z + 2) - y \in -2 .. 2
        BY <4>1
      <4> QED
        BY <4>2, <4>3, <4>4
    <3> HIDE DEF z
    <3>2. valid(q)[Nearest(z, 0)] = 1 /\ valid(q)[Nearest(y, 0)] = 1
      BY <2>1, <2>3, <2>4, <3>1
    <3> QED
      BY <2>3, <2>4, <2>5, <3>1, <3>2
  <2>7. cur(q)[0][y] > 0
    <3>1. mask(q)[y] = 1
      <4>1. y \in {a \in Line(0) : owner[a] = q}
        BY <2>1 DEF q
      <4> QED
        BY <2>1, <4>1, OneIs DEF mask
    <3>2. valid(q)[y] * SupportOver >= Power[0]
      <4>1. Faintest[0] = 1
        BY FaintestIs
      <4>2. 1 >= Faintest[0] /\ 1 \in Int
        BY <4>1
      <4> QED
        BY <1>1, <2>6, <4>2, FaintestCounts
    <3>3. Supported(mask(q), valid(q), 0)[y] = mask(q)[y]
      BY <1>1, <1>3, <2>1, <2>2, <3>2, SupportedKeeps
    <3> QED
      BY <1>4, <2>2, <3>1, <3>3
  <2>8. y \in {z, Nearest(z + 1, 0)}
    <3>1. CASE x = y - 1
      <4>1. z + 1 = y
        BY <2>1, <3>1
      <4> QED
        BY <2>5, <4>1
    <3>2. CASE x # y - 1
      BY <3>2
    <3> QED
      BY <3>1, <3>2
  <2>9. x \in {z, Nearest(z + 1, 0)}
    <3>1. CASE x = y - 1
      BY <3>1
    <3>2. CASE x = y
      BY <2>1, <3>2
    <3>3. CASE x = y + 1
      <4>1. z + 1 = x
        BY <2>1, <3>3
      <4> QED
        BY <1>1, <2>1, <4>1, NearestIs
    <3>4. x = y - 1 \/ x = y \/ x = y + 1
      BY <1>11, <2>1
    <3> QED
      BY <3>1, <3>2, <3>3, <3>4
  <2> HIDE DEF z
  <2>10. PairReached(v(q), cur(q), 0, z)
    <3>1. v(q)[0] = valid(q) /\ Faintest[0] = 1
      BY <1>4, <2>2, FaintestIs
    <3>2. v(q)[0][z] >= Faintest[0] /\ v(q)[0][Nearest(z + 1, 0)] >= Faintest[0]
      BY <2>6, <3>1
    <3>3. v(q)[0][Nearest(z - 1, 0)] >= 1 /\ v(q)[0][Nearest(z + 2, 0)] >= 1
      BY <2>6, <3>1
    <3>4. cur(q)[0][z] > 0 \/ cur(q)[0][Nearest(z + 1, 0)] > 0
      BY <2>7, <2>8
    <3> QED
      BY <2>3, <3>2, <3>3, <3>4 DEF PairReached
  <2>11. z \in G[0]
    BY <1>1, <2>2, <2>3, <2>10
  <2>12. out = blend_pyramids_guarded(datas, masks)
    BY <1>7, <2>2
  <2> HIDE DEF G
  <2>13. PairFlat(out, level, 0, z)
    BY <1>10, <2>11, <2>12
  <2> QED
    BY <2>9, <2>13 DEF PairFlat
<1>12. \A x \in Line(0) : (\E y \in UNION {covs[p] : p \in DOMAIN covs} : x - y \in -1 .. 1)
                          => out.def[x] /\ out.plane[x] = level
  <2> TAKE x \in Line(0)
  <2> HAVE \E y \in UNION {covs[p] : p \in DOMAIN covs} : x - y \in -1 .. 1
  <2>1. PICK y \in UNION {covs[p] : p \in DOMAIN covs} : x - y \in -1 .. 1
    OBVIOUS
  <2>2. PICK r \in DOMAIN covs : y \in covs[r]
    BY <2>1
  <2> QED
    BY <1>11, <2>1, <2>2
<1> QED
  BY <1>12 DEF FlatStaysFlat, out

-----------------------------------------------------------------------------
(* The tasks of the kernels.  *)

\* The steps of two kinds of task.
GraphStep == Graph \/ Groups
MaskStep  == MaskStars \/ Split
SeamStep  == Costs \/ Seam
OwnerStep == Owners \/ Report

\* A step works on the task it was given, and each kind of task has steps of its own.
LEMMA StepsOfKinds ==
  ASSUME TaskNext
  PROVE  /\ task' = task
         /\ task.kind = "graph" => GraphStep
         /\ task.kind = "mask" => MaskStep
         /\ task.kind = "seam" => SeamStep
         /\ task.kind = "owner" => OwnerStep
         /\ task.kind = "fill" => Fill
         /\ task.kind = "ramps" => Transition
         /\ task.kind = "strip" => Merge
<1>1. CASE Graph \/ Groups
  BY <1>1 DEF Graph, Groups, Fresh, Step_, GraphStep
<1>2. CASE MaskStars \/ Split
  BY <1>2 DEF MaskStars, Split, Fresh, Step_, MaskStep
<1>3. CASE Fill
  BY <1>3 DEF Fill, Fresh, Step_
<1>4. CASE Transition
  BY <1>4 DEF Transition, Fresh, Step_
<1>5. CASE Costs \/ Seam
  BY <1>5 DEF Costs, Seam, Fresh, Step_, SeamStep
<1>6. CASE Owners \/ Report
  BY <1>6 DEF Owners, Report, Fresh, Step_, OwnerStep
<1>13. CASE Merge
  BY <1>13 DEF Merge, Fresh, Step_
<1>7. CASE FitLine \/ Detrend \/ MeasureGain \/ SolveSystem
  <2>1. task' = task /\ task.kind \in {"line", "gain", "system"}
    BY <1>7 DEF FitLine, Detrend, MeasureGain, SolveSystem, Fresh, Step_
  <2> QED
    BY <2>1
<1>8. CASE FitEdges \/ SolveOffsets \/ FitResiduals \/ FitSurfaces
  <2>1. task' = task /\ task.kind = "levels"
    BY <1>8 DEF FitEdges, SolveOffsets, FitResiduals, FitSurfaces, Fresh, Step_
  <2> QED
    BY <2>1
<1>9. CASE Weigh \/ MergeBackground \/ CutBright \/ FitFlatten
  <2>1. task' = task /\ task.kind = "flat"
    BY <1>9 DEF Weigh, MergeBackground, CutBright, FitFlatten, Fresh, Step_
  <2> QED
    BY <2>1
<1>10. CASE Flag \/ Sink \/ Stretch
  <2>1. task' = task /\ task.kind \in {"seams", "preview"}
    BY <1>10 DEF Flag, Sink, Stretch, Fresh, Step_
  <2> QED
    BY <2>1
<1>11. CASE OpenNew \/ OpenPanel \/ ScanPanel \/ Reopen \/ Info \/ TakePlanes \/ KeepSummary
  <2>1. task' = task /\ task.kind = "panel"
    BY <1>11
      DEF OpenNew, OpenPanel, ScanPanel, Reopen, Info, TakePlanes,
         KeepSummary, Fresh, Step_
  <2> QED
    BY <2>1
<1>12. CASE Terms \/ FoldFlatten \/ CorrectCells
  <2>1. task' = task /\ task.kind = "surface"
    BY <1>12 DEF Terms, FoldFlatten, CorrectCells, Fresh, Step_
  <2> QED
    BY <2>1
<1> QED
  BY <1>1, <1>2, <1>3, <1>4, <1>5, <1>6, <1>7, <1>8, <1>9, <1>10, <1>11,
     <1>12, <1>13 DEF TaskNext
\* The base of a strip's panels: one level within the reach of each.
StripBases(t) ==
  [p \in DOMAIN t.covs |-> [x \in Line(0) |->
      IF x \in ReachOf(t.covs[p]) THEN t.level ELSE t.beyond]]

\* The task of the pyramid, with its result.
FlatWork ==
  /\ task \in Tasks
  /\ Done("strip", "out") =>
        work.out = pyramid_base_planes(task.covs, StripBases(task), task.owner)

\* No step of a task changes that.
LEMMA FlatStep == FlatWork /\ [TaskNext]_<<task, work>> => FlatWork'
<1> SUFFICES ASSUME FlatWork, [TaskNext]_<<task, work>> PROVE FlatWork'
  OBVIOUS
<1>1. CASE UNCHANGED <<task, work>>
  BY <1>1 DEF FlatWork, Done
<1>2. CASE TaskNext /\ task.kind # "strip"
  BY <1>2, StepsOfKinds DEF FlatWork, Done
<1>3. CASE TaskNext /\ task.kind = "strip"
  <2> DEFINE o == pyramid_base_planes(task.covs, StripBases(task), task.owner)
  <2>1. Merge /\ task' = task
    BY <1>3, StepsOfKinds
  <2>2. Gets([out |-> o])
    BY <2>1 DEF Merge, StripBases
  <2> HIDE DEF o
  <2>3. work'.out = o
    BY <2>2 DEF Gets
  <2> QED
    BY <2>1, <2>3 DEF FlatWork, o
<1> QED
  BY <1>1, <1>2, <1>3

\* Panels that agree on a flat base blend to that base at every cell the pixels
\* of a covered cell sample, whatever lies beyond the panels' reach and however
\* many levels the pyramid has (Kernels!FlatBaseStaysFlat): wherever the owner's
\* validity counts, it counts in the coarser cells a cell is drawn from.
THEOREM FlatAlwaysFlat == TaskSpec => []FlatBaseStaysFlat
<1>1. TaskInit => FlatWork
  BY DEF TaskInit, FlatWork, Done
<1>2. ASSUME FlatWork, Done("strip", "out") PROVE FlatStaysFlat(task.covs, task.level, work.out)
  <2> DEFINE b == StripBases(task)
  <2>1. task \in Tasks /\ task.kind = "strip" /\ work.out = pyramid_base_planes(task.covs, b, task.owner)
    BY <1>2 DEF FlatWork, Done
  <2>2. /\ task.covs \in Seq(SUBSET Line(0)) /\ task.level \in Int /\ task.beyond \in Int
        /\ task.owner \in [Line(0) -> 0 .. Len(task.covs)]
    BY <2>1, KernelsAssumption
  <2>3. \A x \in Line(0) :
           /\ (\E p \in DOMAIN task.covs : x \in task.covs[p]) => task.owner[x] # 0
           /\ task.owner[x] # 0 => x \in task.covs[task.owner[x]]
    BY <2>1, KernelsAssumption
  <2>4. b = [p \in DOMAIN task.covs |-> [x \in Line(0) |->
               IF x \in ReachOf(task.covs[p]) THEN task.level ELSE task.beyond]]
    BY DEF StripBases
  <2> HIDE DEF b
  <2>5. FlatStaysFlat(task.covs, task.level, pyramid_base_planes(task.covs, b, task.owner))
    BY <2>2, <2>3, <2>4, FlatStays
  <2> QED
    BY <2>1, <2>5
<1>3. FlatWork => FlatBaseStaysFlat
  BY <1>2 DEF FlatBaseStaysFlat
<1> QED
  BY <1>1, <1>3, FlatStep, PTL DEF TaskSpec
=============================================================================

----------------------------- MODULE Rationals ------------------------------
(* Exact fractions, kept in lowest terms, for the least-squares solves of the *)
(* photometry: a fraction is <<numerator, denominator>>, denominator positive.*)
(* And linalg.rs, whose LU with partial pivoting is exact here, so that its   *)
(* scale-relative threshold on a pivot is zero.                               *)
EXTENDS Integers, Sequences, FiniteSets, FiniteSetsExt, SequencesExt

Magnitude(n) == IF n < 0 THEN -n ELSE n
Gcd(m, n) ==
    LET euclid[p \in Nat \X Nat] == IF p[2] = 0 THEN p[1] ELSE euclid[<<p[2], p[1] % p[2]>>]
    IN  euclid[<<Magnitude(m), Magnitude(n)>>]
Signed(n, d, g) == IF d < 0 THEN << -(n \div g), -(d \div g) >> ELSE <<n \div g, d \div g>>
Frac(n, d) == IF n = 0 THEN <<0, 1>> ELSE Signed(n, d, Gcd(n, d))

Whole(n) == <<n, 1>>
Joined(a, b, g) == Frac(a[1] * (b[2] \div g) + b[1] * (a[2] \div g), a[2] * (b[2] \div g))
Sum2(a, b)  == Joined(a, b, Gcd(a[2], b[2]))
Minus(a, b) == Sum2(a, <<-b[1], b[2]>>)
Crossed(a, b) == <<a[1] * b[1], a[2] * b[2]>>
Times(a, b) == IF a[1] = 0 \/ b[1] = 0 THEN <<0, 1>>
               ELSE Crossed(Frac(a[1], b[2]), Frac(b[1], a[2]))
Over(a, b)  == IF b[1] < 0 THEN Times(a, <<-b[2], -b[1]>>) ELSE Times(a, <<b[2], b[1]>>)
Less(a, b)  == Minus(a, b)[1] < 0
Leq(a, b)   == Minus(a, b)[1] <= 0
AbsOf(a)    == <<Magnitude(a[1]), a[2]>>
SumOver(S, v(_)) == FoldSet(LAMBDA x, s : Sum2(v(x), s), <<0, 1>>, S)

-----------------------------------------------------------------------------
(* solve_dense: column by column, the largest pivot (the first of equals) is  *)
(* swapped up and eliminated below; then back substitution.  A system is      *)
(* [a |-> matrix, b |-> right-hand side]; Singular has no solution.           *)

Singular == <<>>
Pivot(sys, k) ==
    CHOOSE p \in k .. Len(sys.b) : \A r \in k .. Len(sys.b) :
        \/ Less(AbsOf(sys.a[r][k]), AbsOf(sys.a[p][k]))
        \/ AbsOf(sys.a[r][k]) = AbsOf(sys.a[p][k]) /\ p <= r
Swapped(sys, p, k) ==
    [a |-> [sys.a EXCEPT ![k] = sys.a[p], ![p] = sys.a[k]],
     b |-> [sys.b EXCEPT ![k] = sys.b[p], ![p] = sys.b[k]]]
Factor(sys, r, k) == Over(sys.a[r][k], sys.a[k][k])
Eliminated(sys, k) ==
    [a |-> [r \in DOMAIN sys.b |-> IF r <= k THEN sys.a[r]
               ELSE [c \in DOMAIN sys.b |->
                        Minus(sys.a[r][c], Times(Factor(sys, r, k), sys.a[k][c]))]],
     b |-> [r \in DOMAIN sys.b |-> IF r <= k THEN sys.b[r]
               ELSE Minus(sys.b[r], Times(Factor(sys, r, k), sys.b[k]))]]
Reduce(sys, k) ==
    IF sys = Singular THEN Singular
    ELSE IF sys.a[Pivot(sys, k)][k] = Whole(0) THEN Singular
    ELSE Eliminated(Swapped(sys, Pivot(sys, k), k), k)

Substituted(sys, x, k) ==
    Over(Minus(sys.b[k], SumOver(k + 1 .. Len(sys.b), LAMBDA c : Times(sys.a[k][c], x[c]))),
         sys.a[k][k])
solve_dense(a, b) ==
    LET n   == Len(b)
        sys == FoldLeft(Reduce, [a |-> a, b |-> b], [k \in 1 .. n |-> k])
    IN  IF sys = Singular THEN Singular
        ELSE FoldLeft(LAMBDA x, k : [x EXCEPT ![k] = Substituted(sys, x, k)],
                      [k \in 1 .. n |-> Whole(0)], [k \in 1 .. n |-> n + 1 - k])

(* A solution solves the system, and a system without one has dependent rows. *)
Det2(a) == Minus(Times(a[1][1], a[2][2]), Times(a[1][2], a[2][1]))
Minor(a, j) == << [k \in 1 .. 2 |-> a[2][IF k < j THEN k ELSE k + 1]],
                  [k \in 1 .. 2 |-> a[3][IF k < j THEN k ELSE k + 1]] >>
Det(a) ==
    IF Len(a) = 2 THEN Det2(a)
    ELSE Sum2(Minus(Times(a[1][1], Det2(Minor(a, 1))), Times(a[1][2], Det2(Minor(a, 2)))),
              Times(a[1][3], Det2(Minor(a, 3))))
Solves(a, b, x) ==
    IF x = Singular THEN Det(a) = Whole(0)
    ELSE \A r \in DOMAIN b : SumOver(DOMAIN b, LAMBDA c : Times(a[r][c], x[c])) = b[r]
=============================================================================

-------------------------------- MODULE Fits --------------------------------
(* The fits that bring panels to one level: photometry.rs (robust line per    *)
(* overlap, offsets from the overlap graph), surfaces.rs (residual surface,   *)
(* here of order 0) and flatten.rs (global background plane).  A panel is     *)
(* [cov, mean]: coverage and mean per cell, one channel.  All arithmetic is   *)
(* exact.  The gains of the robust solve (logarithms, IRLS) are a parameter.  *)
EXTENDS Overlap, Rationals

CONSTANTS ClipTimes, ClipOver,    \* CLIP_SIGMA, as a fraction
          FitRounds,              \* FIT_ROUNDS
          ClipRounds,             \* CLIP_ROUNDS
          BgMad,                  \* BG_MAD_K
          RidgeOver,              \* RIDGE_LAMBDA is one over this
          BackgroundTimes, BackgroundOver  \* MIN_BG_FRAC, as a fraction

ASSUME FitsAssumption ==
    /\ {ClipTimes, ClipOver, FitRounds, ClipRounds, RidgeOver, BackgroundOver} \subseteq Nat \ {0}
    /\ {BgMad, BackgroundTimes} \subseteq Nat

IntSum(S, v(_)) == MapThenSumSet(v, S)
SharedOf(panels, e) ==
    {c \in Inside(e.bbox8) : panels[e.a].cov[c] = Full /\ panels[e.b].cov[c] = Full}

-----------------------------------------------------------------------------
(* fit_edge: rounds of an ordinary line of panel b over panel a on the kept   *)
(* cells; between them the cells within the clip of it are kept, those        *)
(* dropped before included.  A line is [n, gain, offset]: gain over n, offset *)
(* over n, n the determinant (or the count, where the gain is not seen).      *)

Moments(x, y, K) ==
    [n |-> Cardinality(K), x |-> IntSum(K, LAMBDA c : x[c]), y |-> IntSum(K, LAMBDA c : y[c]),
     xx |-> IntSum(K, LAMBDA c : x[c] * x[c]), yy |-> IntSum(K, LAMBDA c : y[c] * y[c]),
     xy |-> IntSum(K, LAMBDA c : x[c] * y[c])]
Vxx(s) == s.n * s.xx - s.x * s.x
Vxy(s) == s.n * s.xy - s.x * s.y
LineOf(s) ==
    IF Vxx(s) > 0
    THEN [n |-> s.n * Vxx(s), gain |-> s.n * Vxy(s), offset |-> s.y * Vxx(s) - s.x * Vxy(s)]
    ELSE [n |-> s.n, gain |-> s.n, offset |-> s.y - s.x]
Residual(line, x, y, c) == y[c] * line.n - line.gain * x[c] - line.offset

(* |r| <= k sigma, with the sigma of the kept cells.                          *)
WithinClip(r, sq, n) == n * r * r * ClipOver * ClipOver <= ClipTimes * ClipTimes * sq
Reclipped(x, y, K) ==
    LET line == LineOf(Moments(x, y, K))
        sq   == IntSum(K, LAMBDA c : Residual(line, x, y, c) * Residual(line, x, y, c))
    IN  {c \in DOMAIN x : WithinClip(Residual(line, x, y, c), sq, Cardinality(K))}
KeptCells(x, y) ==      \* the last round fits and does not clip
    FoldLeft(LAMBDA K, i : IF Cardinality(K) < 2 THEN K ELSE Reclipped(x, y, K), DOMAIN x,
             [i \in 1 .. FitRounds - 1 |-> i])

fit_edge(panels, e) ==
    LET shared == SharedOf(panels, e)
        x == [c \in shared |-> panels[e.a].mean[c]]
        y == [c \in shared |-> panels[e.b].mean[c]]
        FitOn(K) == [a |-> e.a, b |-> e.b, kept |-> K, stats |-> Moments(x, y, K)]
    IN  FitOn(KeptCells(x, y))

(* What the gain of an edge is measured from, detrended_moments: the plane of *)
(* each side over the overlap is taken out, or its mean where fewer than      *)
(* eight cells are kept or the cells do not span a plane.                     *)
Local(e, c) == << Whole(1), Frac(c[1] - e.bbox8[1], Greater(e.bbox8[3] - e.bbox8[1], 1)),
                            Frac(c[2] - e.bbox8[2], Greater(e.bbox8[4] - e.bbox8[2], 1)) >>
PlaneOf(e, w, K) ==
    IF Cardinality(K) < 8 THEN Singular
    ELSE solve_dense([u \in 1 .. 3 |-> [v \in 1 .. 3 |->
                         SumOver(K, LAMBDA c : Times(Local(e, c)[u], Local(e, c)[v]))]],
                     [u \in 1 .. 3 |-> SumOver(K, LAMBDA c : Times(Local(e, c)[u], Whole(w[c])))])
Detrended(e, w, K, plane) ==
    [c \in K |-> Minus(Whole(w[c]),
        IF plane = Singular THEN Frac(IntSum(K, LAMBDA d : w[d]), Cardinality(K))
        ELSE SumOver(1 .. 3, LAMBDA u : Times(plane[u], Local(e, c)[u])))]
MomentsOf(rx, ry, K) ==
    LET Mean2(f, g) == Over(SumOver(K, LAMBDA c : Times(f[c], g[c])), Whole(Cardinality(K)))
    IN  IF Cardinality(K) < 2 THEN [xx |-> Whole(0), yy |-> Whole(0), xy |-> Whole(0)]
        ELSE [xx |-> Mean2(rx, rx), yy |-> Mean2(ry, ry), xy |-> Mean2(rx, ry)]

(* The gain is trusted where the two sides co-vary, correlation at least one  *)
(* half; then it is the symmetric slope, which has the sign of xy.            *)
Identifiable(m) ==
    /\ m.xx # Whole(0) /\ m.yy # Whole(0)
    /\ Leq(Over(m.yy, m.xx), Times(Whole(4), Times(Over(m.xy, m.xx), Over(m.xy, m.xx))))

(* Gradients are no gain: on eight cells or more, a panel whose structure is  *)
(* that of the other one g times as bright measures g, whatever gradients lie *)
(* over the two, and panels that are all gradient measure nothing.            *)
GainIsOfStructure(g, structure, m) ==
    IF ~structure THEN ~Identifiable(m)
    ELSE /\ Identifiable(m)
         /\ m.xy = Times(Whole(g), m.xx) /\ m.yy = Times(Whole(g * g), m.xx)

(* The clip rejects outliers, not the overlap: of n kept cells at most n over *)
(* k^2 lie beyond k sigma, so each round keeps the rest, and no edge of two   *)
(* cells or more is left without a fit.                                       *)
KeepsMost(x, y, K) ==
    LET share == Frac(ClipTimes * ClipTimes - ClipOver * ClipOver, ClipTimes * ClipTimes)
        AtLeast(m, n) == Leq(Times(Whole(n), share), Whole(m))
    IN  Cardinality(DOMAIN x) >= 2 =>
            \E m \in 0 .. Cardinality(DOMAIN x) :      \* after the first of two clips
                AtLeast(m, Cardinality(DOMAIN x)) /\ AtLeast(Cardinality(K), m)

-----------------------------------------------------------------------------
(* The gauge of photometry::solve and that of fit_surfaces, written twice in  *)
(* the code: per component the panel with most fully covered cells, the first *)
(* of equals.                                                                 *)

full_cov_cells(panels, p) == Cardinality(FullCells(panels[p].cov))
BestOf(panels, comp) ==
    CHOOSE p \in comp : \A q \in comp :
        \/ full_cov_cells(panels, q) < full_cov_cells(panels, p)
        \/ full_cov_cells(panels, q) = full_cov_cells(panels, p) /\ p <= q
refs_of_solve(panels, edges) ==
    LET comps == components(Len(panels), edges)
    IN  {BestOf(panels, comps[k]) : k \in DOMAIN comps}
refs_of_surfaces(panels, edges) ==
    LET comps == components(Len(panels), edges)
        Better(best, p) == IF full_cov_cells(panels, p) > full_cov_cells(panels, best)
                           THEN p ELSE best
        Members(k) == SelectSeq([p \in DOMAIN panels |-> p], LAMBDA p : p \in comps[k])
    IN  {FoldLeft(Better, Min(comps[k]), Tail(Members(k))) : k \in DOMAIN comps}

-----------------------------------------------------------------------------
(* offset_solve: with the gains fixed, the graph Laplacian of the differences *)
(* of the mean levels; the rows of the gauge panels are replaced.             *)

Sign(f, p) == IF p = f.a THEN 1 ELSE -1
LevelGap(f, gains) ==
    Frac(gains[f.b] * f.stats.y - gains[f.a] * f.stats.x, f.stats.n)
Touching(fits, p) == {f \in fits : p \in {f.a, f.b} /\ f.stats.n > 0}
Laplacian(fits, refs, p, q) ==
    IF p \in refs THEN (IF p = q THEN 1 ELSE 0)
    ELSE IF p = q THEN Cardinality(Touching(fits, p))
    ELSE -Cardinality(Touching(fits, p) \cap Touching(fits, q))
GaugeKept(fits, refs, gains, p) ==                                       \* mutant
    SumOver(Touching(fits, p), LAMBDA f : Times(Whole(Sign(f, p)), LevelGap(f, gains)))
LevelSum(fits, refs, gains, p) ==
    IF p \in refs THEN Whole(0)
    ELSE SumOver(Touching(fits, p), LAMBDA f : Times(Whole(Sign(f, p)), LevelGap(f, gains)))
offset_solve(fits, refs, gains) ==
    LET n == Len(gains)
        z == solve_dense([p \in 1 .. n |-> [q \in 1 .. n |-> Whole(Laplacian(fits, refs, p, q))]],
                         [p \in 1 .. n |-> LevelSum(fits, refs, gains, p)])
    IN  [p \in DOMAIN z |-> IF p \in refs THEN Whole(0) ELSE z[p]]

(* The offsets exist, the gauge is zero, and they balance: at every panel,    *)
(* the gauge panels too, the mismatches left on its overlaps add up to zero,  *)
(* so no panel can be moved for the better.                                   *)
Mismatch(f, gains, o) == Minus(Minus(o[f.a], o[f.b]), LevelGap(f, gains))
LevelsBalance(fits, refs, gains, o) ==
    /\ o # Singular
    /\ \A p \in DOMAIN gains :
          /\ p \in refs => o[p] = Whole(0)
          /\ SumOver(Touching(fits, p), LAMBDA f : Times(Whole(Sign(f, p)), Mismatch(f, gains, o)))
                = Whole(0)

-----------------------------------------------------------------------------
(* fit_surfaces at order 0: median_mad of the corrected means sets what is    *)
(* background; the background residuals of an edge are clipped about their    *)
(* mean; normal equations with a ridge, and a stabilizer that decides only    *)
(* for panels nothing else does.                                              *)

(* The k-th value of a function in ascending order.                           *)
Nth(v, k) ==
    CHOOSE x \in {v[c] : c \in DOMAIN v} :
        /\ Cardinality({c \in DOMAIN v : Less(v[c], x)}) <= k
        /\ k < Cardinality({c \in DOMAIN v : Leq(v[c], x)})
median_of_sorted(v) ==
    LET n == Cardinality(DOMAIN v)
    IN  Over(Sum2(Nth(v, (n - 1) \div 2), Nth(v, n \div 2)), Whole(2))
Threshold(v) ==
    LET med == median_of_sorted(v)
        mad == median_of_sorted([c \in DOMAIN v |-> AbsOf(Minus(v[c], med))])
    IN  Sum2(med, Times(Whole(BgMad), mad))

CorrectedMean(panels, phot, p, c) ==
    Sum2(Whole(phot.gains[p] * panels[p].mean[c]), phot.offsets[p])
Background(panels, phot, p) ==
    LET v == [c \in FullCells(panels[p].cov) |-> CorrectedMean(panels, phot, p, c)]
    IN  IF DOMAIN v = {} THEN {}
        ELSE LET top == Threshold(v) IN {c \in DOMAIN v : Leq(v[c], top)}

MeanOf(S, v(_)) == Over(SumOver(S, v), Whole(Cardinality(S)))
ClippedOnce(S, K, v(_)) ==
    LET mean == MeanOf(K, v)
        sq   == SumOver(K, LAMBDA c : Times(Minus(v(c), mean), Minus(v(c), mean)))
        r(c) == Minus(v(c), mean)
    IN  {c \in S : Leq(Times(Whole(Cardinality(K) * ClipOver * ClipOver), Times(r(c), r(c))),
                       Times(Whole(ClipTimes * ClipTimes), sq))}
residuals(panels, edges, phot) ==      \* one per edge with background cells left
    LET v(e, c) == Minus(CorrectedMean(panels, phot, e.a, c), CorrectedMean(panels, phot, e.b, c))
        S(e) == SharedOf(panels, e) \cap Background(panels, phot, e.a)
                                    \cap Background(panels, phot, e.b)
        Clip(K, e) == IF Cardinality(K) < 2 THEN K ELSE ClippedOnce(S(e), K, LAMBDA c : v(e, c))
        K(e) == FoldLeft(LAMBDA k, i : Clip(k, e), S(e), [i \in 1 .. ClipRounds |-> i])
    IN  {[a |-> e.a, b |-> e.b, mean |-> MeanOf(K(e), LAMBDA c : v(e, c))] :
            e \in {f \in edges : K(f) # {}}}

Ridge(panels, p) == IF FullCells(panels[p].cov) = {} THEN Whole(1) ELSE Frac(1, RidgeOver)
fit_surfaces(panels, refs, res) ==
    LET At(p) == {r \in res : p \in {r.a, r.b}}
        Row(p) == [q \in DOMAIN panels |->
            IF p \in refs THEN Whole(IF p = q THEN 1 ELSE 0)
            ELSE IF p = q THEN Sum2(Whole(Cardinality(At(p))), Ridge(panels, p))
            ELSE Whole(-Cardinality(At(p) \cap At(q)))]
        Rhs(p) == IF p \in refs THEN Whole(0)
                  ELSE SumOver(At(p), LAMBDA r : Times(Whole(-Sign(r, p)), r.mean))
    IN  solve_dense([p \in DOMAIN panels |-> Row(p)], [p \in DOMAIN panels |-> Rhs(p)])

(* The surfaces never make the panels disagree more: over the background the  *)
(* code chose, the squares of the mean residuals of the edges add up to no    *)
(* more than before, and the gauge panels of the photometry are left alone.   *)
NoWorse(refs, res, s) ==
    LET After(r) == Sum2(r.mean, Minus(s[r.a], s[r.b]))
        Sq(v) == Times(v, v)
    IN  /\ s # Singular
        /\ \A p \in refs : s[p] = Whole(0)
        /\ Leq(SumOver(res, LAMBDA r : Sq(After(r))), SumOver(res, LAMBDA r : Sq(r.mean)))

-----------------------------------------------------------------------------
(* fit_flatten at order 1: a plane through the merged background, refused     *)
(* when too little of the mosaic is background.  Coordinates are those of the *)
(* cell centres, in half cells.                                               *)

Coord(c) == <<Whole(1), Whole(2 * c[1] + 1), Whole(2 * c[2] + 1)>>
CentreCoord == <<Whole(1), Whole(W), Whole(H)>>
PlaneAt(f, phi) == Sum2(f[1], Sum2(Times(f[2], phi[2]), Times(f[3], phi[3])))

Considered(panels) == UNION {FullCells(panels[p].cov) : p \in DOMAIN panels}
OfCell(panels, c)  == {p \in DOMAIN panels : panels[p].cov[c] = Full}
ClearIfAny(panels, masks) ==                                             \* mutant
    {c \in Considered(panels) : \E p \in OfCell(panels, c) : c \notin masks[p]}
Clear(panels, masks) ==
    {c \in Considered(panels) : \A p \in OfCell(panels, c) : c \notin masks[p]}
Merged(panels, dists, c) ==
    Over(SumOver(OfCell(panels, c), LAMBDA p : Whole(dists[p][c] * panels[p].mean[c])),
         SumOver(OfCell(panels, c), LAMBDA p : Whole(dists[p][c])))
BackgroundOf(merged) ==
    IF DOMAIN merged = {} THEN {}
    ELSE LET top == Threshold(merged)
         IN  {c \in DOMAIN merged : Leq(merged[c], top)}

Refused == <<"refused">>
fit_flatten(panels, merged, bg) ==
    LET A == [u \in 1 .. 3 |-> [w \in 1 .. 3 |->
                SumOver(bg, LAMBDA c : Times(Coord(c)[u], Coord(c)[w]))]]
        B == [u \in 1 .. 3 |-> SumOver(bg, LAMBDA c : Times(Coord(c)[u], merged[c]))]
    IN  IF \/ Considered(panels) = {}
           \/ Cardinality(bg) * BackgroundOver < BackgroundTimes * Cardinality(Considered(panels))
        THEN Refused ELSE solve_dense(A, B)

(* apply_to_surf: what a blend adds to the surface of every panel.            *)
apply_to_surf(f, c) == Minus(PlaneAt(f, CentreCoord), PlaneAt(f, Coord(c)))

(* A plane under the mosaic goes and its central level stays, whatever stars  *)
(* the masks hide: a flatten that is neither refused nor singular leaves      *)
(* every unmasked cell of such a mosaic at the level of the centre.           *)
Flattens(panels, masks, plane, f) ==
    f \notin {Refused, Singular} =>
        \A c \in Clear(panels, masks) : \A p \in OfCell(panels, c) :
            Sum2(Whole(panels[p].mean[c]), apply_to_surf(f, c)) = PlaneAt(plane, CentreCoord)
=============================================================================

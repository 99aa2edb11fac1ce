------------------------------ MODULE Pyramid -------------------------------
(* pyramid.rs on a canvas one cell high: masked Laplacian pyramids of the     *)
(* panels' base planes, blended level by level with the pyramids of their     *)
(* ownership masks and collapsed.  The kernel [1,4,6,4,1]/16 is exact here: a *)
(* plane of level l is kept times 16^l.  On one row the vertical half of the  *)
(* kernel changes nothing (its borders are replicated).  The quotients of     *)
(* data are exact for the flat planes the property is about, and a weight is  *)
(* above EPS_WEIGHT if it is above 0: no weight of six levels is that small.  *)
EXTENDS Integers, FiniteSets, Functions

CONSTANTS Strip,      \* bound: cells of the row
          FeatherBlocks, \* feather_px / BLOCK
          SupportOver \* MASK_SUPPORT_MIN is one over this

ASSUME PyramidAssumption ==
    Strip \in Nat \ {0} /\ FeatherBlocks \in Nat \ {0} /\ SupportOver \in Nat \ {0}

Kernel == <<1, 4, 6, 4, 1>>
Clamp(x, lo, hi) == IF x < lo THEN lo ELSE IF x > hi THEN hi ELSE x

n_levels_for_feather(blocks) ==      \* the binary logarithm rounded up, from 2 to 6
    CHOOSE n \in 2 .. 6 : (n = 6 \/ blocks <= 2 ^ n) /\ (n = 2 \/ ~ blocks <= 2 ^ (n - 1))
Levels == n_levels_for_feather(FeatherBlocks)      \* Laplacian levels

Power[l \in 0 .. Levels] == IF l = 0 THEN 1 ELSE 16 * Power[l - 1]
level_dims[l \in 0 .. Levels] ==      \* halves rounded up
    IF l = 0 THEN Strip ELSE (level_dims[l - 1] + 1) \div 2
Line(l) == 0 .. level_dims[l] - 1
Nearest(x, l) == Clamp(x, 0, level_dims[l] - 1)

(* The threshold is not above what a single covered cell is worth, at its     *)
(* place of a level and beside it: at least Faintest[l] of 16^l.              *)
Faintest[l \in 0 .. Levels] ==
    IF l = 0 THEN 1 ELSE IF l = 1 THEN 11 ELSE 5 * Faintest[l - 1]
ASSUME SupportAssumption == \A l \in 0 .. Levels : Faintest[l] * SupportOver >= Power[l]

smooth(plane, l) ==
    LET tap(x, k) == plane[Nearest(x + k - 3, l)] * Kernel[k]
    IN  [x \in Line(l) |-> tap(x, 1) + tap(x, 2) + tap(x, 3) + tap(x, 4) + tap(x, 5)]
downsample(plane, l) == LET sm == smooth(plane, l) IN [x \in Line(l + 1) |-> sm[2 * x]]

(* Coarse cell j lies at fine cell 2j; between two, their mean.               *)
upsample(coarse, l) ==
    [x \in Line(l) |->
        IF x % 2 = 0 THEN coarse[x \div 2]
        ELSE (coarse[x \div 2] + coarse[Nearest((x \div 2) + 1, l + 1)]) \div 2]

(* build_masked: data and validity run through the same chain; their quotient *)
(* is the Gaussian level, 0 where nothing valid is in reach.                  *)
Gaussians(plane) ==
    LET gauss[l \in 0 .. Levels] == IF l = 0 THEN plane ELSE downsample(gauss[l - 1], l - 1)
    IN  gauss
build_masked(plane, valid) ==
    LET a == Gaussians([x \in Line(0) |-> plane[x] * valid[x]])
        v == Gaussians(valid)
        gauss == [l \in 0 .. Levels |-> [x \in Line(l) |->
                     IF v[l][x] > 0 THEN a[l][x] \div v[l][x] ELSE 0]]
    IN  [l \in 0 .. Levels |->
            IF l = Levels THEN gauss[l]
            ELSE LET up == upsample(gauss[l + 1], l)
                 IN  [x \in Line(l) |-> gauss[l][x] - up[x]]]

SupportedAnywhere(m, v, l) == m                                          \* mutant

(* mask_pyramid: the ownership mask, clamped at every level to where the      *)
(* validity is worth something, and stored smoothed once more.                *)
Supported(m, v, l) ==
    [x \in Line(l) |-> IF v[x] * SupportOver >= Power[l] THEN m[x] ELSE 0]
Reaches(mask, v) ==
    LET cur[l \in 0 .. Levels] ==
            Supported(IF l = 0 THEN mask ELSE downsample(cur[l - 1], l - 1), v[l], l)
    IN  cur
mask_pyramid(mask, valid) ==
    LET v   == Gaussians(valid)
        cur == Reaches(mask, v)
    IN  [l \in 0 .. Levels |-> Supported(smooth(cur[l], l), v[l], l)]

-----------------------------------------------------------------------------
(* blend_pyramids_guarded: per level the mean of the data under the masks,    *)
(* then the collapse; a cell is defined when the masks do not vanish at it or *)
(* at the nearest coarse cell of any level.                                   *)

Total(masks, l, x) == SumFunctionOnSet([k \in DOMAIN masks |-> masks[k][l][x]], DOMAIN masks)
Weighted(datas, masks, l, x) ==
    SumFunctionOnSet([k \in DOMAIN masks |-> masks[k][l][x] * datas[k][l][x]], DOMAIN masks)
BlendedLevel(datas, masks, l) ==
    [x \in Line(l) |->
        LET s == Total(masks, l, x)
        IN  IF s > 0 THEN Weighted(datas, masks, l, x) \div s ELSE 0]

Coarsest(datas, masks) ==
    [plane |-> BlendedLevel(datas, masks, Levels),
     def   |-> [x \in Line(Levels) |-> Total(masks, Levels, x) > 0]]
Finer(datas, masks, l, coarse) ==
    LET here == BlendedLevel(datas, masks, l)
        up   == upsample(coarse.plane, l)
    IN  [plane |-> [x \in Line(l) |-> here[x] + up[x]],
         def   |-> [x \in Line(l) |-> Total(masks, l, x) > 0
                       /\ coarse.def[Nearest(x \div 2, l + 1)]]]
blend_pyramids_guarded(datas, masks) ==      \* cur[n]: n levels above the residual
    LET cur[n \in 0 .. Levels] == IF n = 0 THEN Coarsest(datas, masks)
                                  ELSE Finer(datas, masks, Levels - n, cur[n - 1])
    IN  cur[Levels]

(* pyramid_base_planes: panels that own no cell are left out; validity is the *)
(* reach of the panel's coverage, two cells more on each side.                *)
ReachOf(cov) == {x \in Line(0) : \E y \in cov : x - y \in -2 .. 2}
One(S) == [x \in Line(0) |-> IF x \in S THEN 1 ELSE 0]

pyramid_base_planes(covs, bases, owner) ==
    LET owning == {p \in DOMAIN covs : \E x \in Line(0) : owner[x] = p}
        datas  == [p \in owning |-> build_masked(bases[p], One(ReachOf(covs[p])))]
        masks  == [p \in owning |-> mask_pyramid(One({x \in Line(0) : owner[x] = p}),
                                                 One(ReachOf(covs[p])))]
    IN  IF owning = {}
        THEN [plane |-> [x \in Line(0) |-> 0], def |-> [x \in Line(0) |-> FALSE]]
        ELSE blend_pyramids_guarded(datas, masks)

-----------------------------------------------------------------------------
(* Panels that agree on a flat base give that base, at every cell the pixels  *)
(* of a covered cell sample: no level lets the zeros beyond the panels in.    *)
FlatStaysFlat(covs, level, out) ==
    \A x \in Line(0) :
        (\E y \in UNION {covs[p] : p \in DOMAIN covs} : x - y \in -1 .. 1)
            => out.def[x] /\ out.plane[x] = level
=============================================================================

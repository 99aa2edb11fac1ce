------------------------------ MODULE Reports -------------------------------
(* What is shown of a mosaic: the in-memory sinks of a preview and the        *)
(* autostretch of its PNG (output/png.rs), the seam map, the seam residuals   *)
(* and the closing statistics of a session (diag.rs).  A sample is an integer *)
(* from 0 to Unit, which is 1.0 in the code; one channel is summarised.       *)
EXTENDS Seams, Scan

CONSTANTS Unit,
          MaxPixels,                 \* MAX_PIXELS
          ShadowTimes, ShadowOver,   \* SHADOW_SIGMAS times 1.4826, as a fraction
          TargetOver                 \* MIDTONE_TARGET is one over this

ASSUME ReportsAssumption ==
    /\ {Unit, MaxPixels, ShadowTimes, ShadowOver} \subseteq Nat \ {0}
    /\ TargetOver \in Nat \ {0, 1}

-----------------------------------------------------------------------------
(* The sinks.  dims is <<width, height, channels>>; rows of a band and the    *)
(* buffer are planar.                                                         *)

Begins(dims) ==
    dims[1] > 0 /\ dims[2] > 0 /\ dims[1] * dims[2] <= MaxPixels /\ dims[3] \in {1, 3}

Buffer(dims) == [i \in 0 .. dims[1] * dims[2] * dims[3] - 1 |-> 0]

RowsIn(dims, band) == Cardinality(DOMAIN band.rows) \div (dims[1] * dims[3])
BandOf(dims, band) ==
    /\ Cardinality(DOMAIN band.rows) % (dims[1] * dims[3]) = 0
    /\ band.y0 + RowsIn(dims, band) <= dims[2]

(* One plane of the band after the other, at the row the band starts at.      *)
Copied(dims, data, band) ==
    LET n == RowsIn(dims, band) * dims[1]
        plane == dims[1] * dims[2]
        Target(c, k) == c * plane + band.y0 * dims[1] + k
    IN  [i \in {Target(c, k) : c \in 0 .. dims[3] - 1, k \in 0 .. n - 1} |->
           band.rows[(i \div plane) * n + (i % plane) - band.y0 * dims[1]]] @@ data

(* A sink takes the bands until one does not fit.                             *)
TakeBand(dims, sink, band) ==
    IF sink = Missing \/ ~BandOf(dims, band) THEN Missing ELSE Found(Copied(dims, sink[1], band))
Collect(dims, bands) ==
    IF ~Begins(dims) THEN Missing
    ELSE FoldLeft(LAMBDA s, b : TakeBand(dims, s, b), Found(Buffer(dims)), bands)

-----------------------------------------------------------------------------
(* The stretch: where shadows are clipped and the balance that puts the       *)
(* median at the target.                                                      *)

Lower(a, b) == IF Less(a, b) THEN a ELSE b
ToUnit(a) == IF a[1] < 0 THEN Whole(0) ELSE Lower(a, Whole(1))
InUnit(v, clip) == ToUnit(Over(Minus(Frac(v, Unit), clip), Minus(Whole(1), clip)))

Balance(x) ==
    LET t == Frac(1, TargetOver)
    IN  IF x = Whole(0) \/ x = Whole(1) THEN Frac(1, 2)
        ELSE Over(Times(x, Minus(t, Whole(1))),
                  Minus(Minus(Times(Times(Whole(2), t), x), t), x))

stretch_params(v) ==
    IF DOMAIN v = {} THEN [clip |-> Whole(0), midtone |-> Frac(1, 2)]
    ELSE LET m    == Median(v)
             mad  == Median([i \in DOMAIN v |-> Abs(v[i] - m)])
             low  == Frac(m * ShadowOver - ShadowTimes * mad, ShadowOver * Unit)
             clip == IF low[1] < 0 THEN Whole(0) ELSE Lower(low, Frac(99, 100))
         IN  [clip |-> clip, midtone |-> Balance(InUnit(m, clip))]

mtf(m, x) ==
    IF x = Whole(0) \/ x = Whole(1) THEN x
    ELSE Over(Times(Minus(m, Whole(1)), x),
              Minus(Times(Minus(Times(Whole(2), m), Whole(1)), x), m))
Stretched(s, v) == mtf(s.midtone, InUnit(v, s.clip))
Byte(q) == (510 * q[1] + q[2]) \div (2 * q[2])      \* q * 255 + 0.5, cut

(* The bytes of the PNG: every channel stretched by its covered pixels.       *)
AllPixels(dims, data) == 0 .. dims[1] * dims[2] - 1                      \* mutant
CoveredOf(dims, data) ==
    {i \in 0 .. dims[1] * dims[2] - 1 :
        \A k \in 0 .. dims[3] - 1 : data[k * dims[1] * dims[2] + i] # 0}
Preview(dims, data) ==
    LET plane == dims[1] * dims[2]
    IN  [c \in 0 .. dims[3] - 1 |->
           LET s == stretch_params([i \in CoveredOf(dims, data) |-> data[c * plane + i]])
           IN  [i \in 0 .. plane - 1 |-> Byte(Stretched(s, data[c * plane + i]))]]

-----------------------------------------------------------------------------
(* diag.rs: <<cell, owner, other owner>> where ownership changes.             *)

boundary_cells(owner) ==
    { <<p[1], owner[p[1]], owner[p[2]]>> : p \in
        {p \in Cells \X Cells : p[2] \in Beside(p[1]) /\ owner[p[1]] # owner[p[2]]
                                /\ owner[p[1]] # NoOwner /\ owner[p[2]] # NoOwner} }

(* Per pair of panels that meet: how many of their boundary cells both cover  *)
(* fully, and the mean corrected step there.                                  *)
Measured(panels, b) == panels[b[2]].cov[b[1]] = Full /\ panels[b[3]].cov[b[1]] = Full
Pair(b) == <<Lesser(b[2], b[3]), Greater(b[2], b[3])>>
StepAt(panels, b) == Abs(corrected(panels[b[2]], b[1]) - corrected(panels[b[3]], b[1]))
seam_deltas(panels, owner) ==
    LET seen == {b \in boundary_cells(owner) : Measured(panels, b)}
    IN  [k \in {Pair(b) : b \in seen} |->
           LET here == {b \in seen : Pair(b) = k}
           IN  [n |-> Cardinality(here),
                delta |-> Frac(FoldSet(LAMBDA b, s : s + StepAt(panels, b), 0, here),
                               Cardinality(here))]]

(* The cells of a box of pixels: the crop of the preview and of the report.   *)
CropOf(bbox) ==
    << bbox[1] \div Block, bbox[2] \div Block,
       Lesser((bbox[3] + Block - 1) \div Block, W), Lesser((bbox[4] + Block - 1) \div Block, H) >>
InCrop(bbox) == {c \in Cells : c \in Inside(CropOf(bbox))}

Ranked(v, k) ==      \* the k-th from below
    LET UpTo(q) == Cardinality({i \in DOMAIN v : Leq(v[i], q)})
        values  == {v[i] : i \in DOMAIN v}
    IN  CHOOSE q \in values : UpTo(q) >= k /\ \A r \in values : Less(r, q) => UpTo(r) < k

(* The mean of the middle two, or the middle one; 0 of nothing.               *)
MiddleOf(v) ==
    LET n == Cardinality(DOMAIN v)
    IN  IF n = 0 THEN Whole(0)
        ELSE IF n % 2 = 1 THEN Ranked(v, n \div 2 + 1)
        ELSE Times(Sum2(Ranked(v, n \div 2), Ranked(v, n \div 2 + 1)), Frac(1, 2))

(* The seams that mmm report flags.  Its median is the upper of two.          *)
seam_median(deltas) ==
    IF DOMAIN deltas = {} THEN Whole(0)
    ELSE Ranked([k \in DOMAIN deltas |-> deltas[k].delta], Cardinality(DOMAIN deltas) \div 2 + 1)
Flagged(deltas) ==
    LET m == seam_median(deltas)
    IN  {k \in DOMAIN deltas : m # Whole(0) /\ Less(Times(Whole(3), m), deltas[k].delta)}

(* write_session_reports: the statistics of summary.json.                     *)
MosaicSummary(panels, edges, owner, bbox) ==
    LET crop   == InCrop(bbox)
        deltas == seam_deltas(panels, owner)
        Cov(p) == Cardinality(FullCells(panels[p].cov))
        Of(e)  == Frac(e.n_cells, Greater(Lesser(Cov(e.a), Cov(e.b)), 1))
    IN  [output        |-> <<bbox[3] - bbox[1], bbox[4] - bbox[2]>>,
         covered_frac  |-> Frac(Cardinality({c \in crop : owner[c] # NoOwner}),
                                Greater(Cardinality(crop), 1)),
         overlap_edges |-> Cardinality(edges),
         median_overlap_frac |-> MiddleOf([e \in edges |-> Of(e)]),
         seam_delta_median   |-> MiddleOf([k \in DOMAIN deltas |-> deltas[k].delta]),
         seam_delta_max      |-> FoldSet(LAMBDA k, m : IF Less(m, deltas[k].delta)
                                     THEN deltas[k].delta ELSE m, Whole(0), DOMAIN deltas)]

(* write_seam_map: what a pixel of the map is made of, and where the labels   *)
(* of the panels go.  The crop is that of the preview, and a cell is a pixel. *)
Luminance(img, c) ==
    IF \A k \in DOMAIN img : img[k][c] # 0
    THEN FoldSet(LAMBDA k, s : s + img[k][c], 0, DOMAIN img) \div Len(img) ELSE 0
SeamMap(img, owner, bbox) ==
    LET crop == InCrop(bbox)
        s    == stretch_params([c \in {d \in crop : Luminance(img, d) # 0} |-> Luminance(img, c)])
        dark == {b[1] : b \in boundary_cells(owner)}
    IN  [c \in crop |-> [grey |-> Stretched(s, Luminance(img, c)), dim |-> c \in dark,
                         hue  |-> IF owner[c] = NoOwner THEN 0 ELSE 1 + ((5 * (owner[c] - 1)) % 12)]]
Labels(owner, bbox) ==
    LET o == CropOf(bbox)
        Mine(p) == {c \in InCrop(bbox) : owner[c] = p}
        Centroid(p, k) == FoldSet(LAMBDA c, s : s + c[k] - o[k], 0, Mine(p)) \div Cardinality(Mine(p))
    IN  [p \in {owner[c] : c \in InCrop(bbox)} \ {NoOwner} |-> <<Centroid(p, 1), Centroid(p, 2)>>]

-----------------------------------------------------------------------------
(* What the previews and the reports promise.                                 *)

(* No data is black and white is white, no two pixels change places, and the  *)
(* middle of what is covered gets the target grey.                            *)
ShowsImage(img, bytes) ==
    \A c \in DOMAIN img :
        LET Of(i) == bytes[c - 1][i[2] * W + i[1]]
            lit   == {i \in Cells : \A k \in DOMAIN img : img[k][i] # 0}
        IN  /\ \A i, j \in Cells : img[c][i] <= img[c][j] => Of(i) <= Of(j)
            /\ \A i \in Cells : /\ img[c][i] = 0 => Of(i) = 0
                                /\ img[c][i] = Unit => Of(i) = 255
            /\ lit # {} => LET m == Median([i \in lit |-> img[c][i]])
                               i == CHOOSE j \in lit : img[c][j] = m
                           IN  m < Unit /\ Of(i) # 0 => Of(i) = Byte(Frac(1, TargetOver))

(* Every step across a seam counts for its pair from both sides; no seam is   *)
(* between panels that never meet; the statistics are fractions; panels that  *)
(* agree have no steps; a crop has exactly the cells that hold its pixels.    *)
IsReport(panels, edges, owner, bbox, r) ==
    LET deltas == seam_deltas(panels, owner)
        Holds(c) == \E x \in bbox[1] .. bbox[3] - 1, y \in bbox[2] .. bbox[4] - 1 :
                        c = <<x \div Block, y \div Block>>
        Meet2(k) == {p \in Cells \X Cells : owner[p[1]] = k[1] /\ owner[p[2]] = k[2] /\ p[2] \in Beside(p[1])}
        Agree == \A c \in Cells : \A p, q \in DOMAIN panels :
                    corrected(panels[p], c) = corrected(panels[q], c)
    IN  /\ InCrop(bbox) = {c \in Cells : Holds(c)}
        /\ \A f \in {r.covered_frac, r.median_overlap_frac} : f[1] >= 0 /\ Leq(f, Whole(1))
        /\ Leq(r.seam_delta_median, r.seam_delta_max)
        /\ Agree => r.seam_delta_max = Whole(0)
        /\ \A k \in DOMAIN deltas :
             /\ Meet2(k) # {}
             /\ deltas[k].n = Cardinality({c \in Cells : panels[k[1]].cov[c] = Full /\ panels[k[2]].cov[c] = Full
                    /\ \E p \in Meet2(k) : c \in {p[1], p[2]}})
(* A minority of the seams is flagged, the worst ones of all.                 *)
IsFlagged(deltas, flagged) ==
    /\ flagged # {} => 2 * Cardinality(flagged) < Cardinality(DOMAIN deltas)
    /\ \A k \in flagged, l \in DOMAIN deltas \ flagged : Less(deltas[l].delta, deltas[k].delta)
IsSeamMap(owner, bbox, map, labels) ==
    LET o == CropOf(bbox)
    IN  /\ \A c \in DOMAIN map : map[c].dim <=>
              owner[c] # NoOwner /\ \E d \in Beside(c) : owner[d] \notin {NoOwner, owner[c]}
        /\ \A c, d \in DOMAIN map : (Abs(owner[c] - owner[d]) = 1 /\ {owner[c], owner[d]} \cap {NoOwner} = {})
                                       => map[c].hue # map[d].hue
        /\ \A p \in DOMAIN labels : labels[p][1] \in 0 .. o[3] - o[1] - 1
                                    /\ labels[p][2] \in 0 .. o[4] - o[2] - 1
=============================================================================

----------------------------- MODULE Compositor -----------------------------
(* A blend from its session to its sinks (blend.rs, output/mod.rs): the maps  *)
(* in the order blend_twoband computes them, the bands and their rows, the    *)
(* pixel of every mode, and the two sinks of a Tee.  The canvas has one pixel *)
(* per cell, so a bilinear tap of a grid is the cell of the pixel.  Panels    *)
(* are those of Seams with two fields more: px, the pixel in the cell (0 is   *)
(* no data), and opens, whether the panel's storage can be opened.  Values    *)
(* are finite integers, quotients pairs <<numerator, denominator>>; White is  *)
(* the top of the unit range.                                                 *)
EXTENDS BlendGrids

CONSTANTS White, DefectVetoFactor,
          Blends    \* the blends to draw: see Mode, Panels, ... below

(* A panel has a pixel in every cell its summary calls fully covered; a blend *)
(* without a region of interest has one that is the whole canvas.  Panels are *)
(* finite numbers throughout, and so is the plane of the pyramid.             *)
ASSUME CompositorAssumption ==
    /\ White \in Nat \ {0} /\ DefectVetoFactor \in Nat
    /\ \A b \in Blends :
         /\ b.mode \in {"feather", "twoband", "pyramid", "l8"} /\ b.band_rows \in Nat \ {0}
         /\ b.roi \in Int \X Int \X Int \X Int
         /\ Len(b.panels) \in Nat /\ DOMAIN b.panels = 1 .. Len(b.panels)
         /\ \A c \in Cells : b.pyr.plane[c] \in Int
         /\ \A p \in DOMAIN b.panels :
              /\ b.panels[p].gain \in Int /\ b.panels[p].off \in Int
              /\ \A c \in Cells :
                   /\ {b.panels[p].px[c], b.panels[p].mean[c], b.panels[p].surf[c]} \subseteq Int
                   /\ b.panels[p].cov[c] = Full => b.panels[p].px[c] # 0

VARIABLES
    blend,   \* the session and the BlendParams of the call
    stage,   \* where blend_with_source is
    prep,    \* the maps computed so far
    y0,      \* first row of the band being drawn, in output rows
    drawn,   \* the rows of that band that are done (threads of a pool draw them)
    sinks    \* what the two sinks of the Tee hold: [rows |-> y -> row, state |-> ...]

vars == <<blend, stage, prep, y0, drawn, sinks>>

Panels == blend.panels
Ids    == DOMAIN Panels
Full_(pn, c) == pn.px[c] * pn.gain + pn.off + pn.surf[c]

Content(p) == Box({c \in Cells : Panels[p].px[c] # 0})      \* the bbox of PanelMeta

union_bbox == Box(UNION {Inside(Content(p)) : p \in Ids})
output_bbox ==
    LET extent == IF blend.extent # "default" THEN blend.extent
                  ELSE IF blend.imposed THEN "canvas" ELSE "union"
    IN  Meet(IF extent = "canvas" THEN <<0, 0, W, H>> ELSE union_bbox, blend.roi)

out_w == prep.bbox[3] - prep.bbox[1]
out_h == prep.bbox[4] - prep.bbox[2]

NoMaps == [masks |-> <<>>, splits |-> <<>>, owner |-> <<>>, hard |-> {}, ramps |-> <<>>,
           t |-> <<>>, dist |-> <<>>, base |-> <<>>, bbox |-> NoBox]
EmptySink == [rows |-> <<>>, state |-> "created"]
Init ==
    /\ blend \in Blends
    /\ stage = "start" /\ prep = NoMaps /\ y0 = 0 /\ drawn = <<>>
    /\ sinks = <<EmptySink, EmptySink>>

-----------------------------------------------------------------------------
(* Preparation.                                                               *)

TwoBand == blend.mode \in {"twoband", "pyramid"}

(* Star masks and their splits; blend_full and blend_l8 need the masks alone. *)
Mask ==
    /\ stage = "start"
    /\ LET masks == [p \in Ids |-> star_mask(Panels[p])]
       IN  prep' = [prep EXCEPT !.masks = masks,
                !.splits = [p \in Ids |-> split_mask_components(masks[p])]]
    /\ stage' = IF TwoBand THEN "masked" ELSE "prepare"
    /\ UNCHANGED <<blend, y0, drawn, sinks>>

Own ==
    /\ stage = "masked"
    /\ prep' = [prep EXCEPT !.owner = compute_owner_map_masked(Panels,
                            build([p \in Ids |-> Panels[p].cov]), prep.masks)]
    /\ stage' = "owned"
    /\ UNCHANGED <<blend, y0, drawn, sinks>>

Transitions ==
    /\ stage = "owned"
    /\ prep' = [prep EXCEPT
            !.hard  = hard(prep.owner, [p \in Ids |-> prep.splits[p].compact]),
            !.ramps = ramps(prep.owner, [p \in Ids |-> prep.splits[p].structure], Len(Panels)),
            !.t     = ref_t(prep.masks)]
    /\ stage' = "prepare"
    /\ UNCHANGED <<blend, y0, drawn, sinks>>

prep_from_summaries ==
    /\ stage = "prepare"
    /\ prep' = [prep EXCEPT
            !.dist = [p \in Ids |-> distance_map(Panels[p].cov)],
            !.base = [p \in Ids |->
                 suppress_stars_in_base([c \in Cells |-> corrected(Panels[p], c)],
                                        Panels[p].cov, prep.masks[p])]]
    /\ stage' = "open"
    /\ UNCHANGED <<blend, y0, drawn, sinks>>

(* The storages are opened at full resolution only; then the box, which must  *)
(* not be empty, and begin on both sinks, the first one first.                *)
Open ==
    /\ stage = "open"
    /\ IF (blend.mode # "l8" /\ \E p \in Ids : ~Panels[p].opens) \/ IsEmpty(output_bbox)
       THEN stage' = "error" /\ UNCHANGED prep
       ELSE stage' = "begin" /\ prep' = [prep EXCEPT !.bbox = output_bbox]
    /\ UNCHANGED <<blend, y0, drawn, sinks>>

(* A call of the Tee: it reaches the first sink, then the second; an error of *)
(* one keeps it from those after it and ends the blend.                       *)
Reached(i, failing) == failing = 0 \/ i < failing
Tee(Call(_), then) ==
    \E failing \in 0 .. 2 :      \* 0: neither
        /\ sinks' = [i \in 1 .. 2 |-> IF i = failing THEN [sinks[i] EXCEPT !.state = "failed"]
                                      ELSE IF Reached(i, failing) THEN Call(sinks[i])
                                      ELSE sinks[i]]
        /\ stage' = IF failing = 0 THEN then ELSE "error"

Begin ==
    /\ stage = "begin"
    /\ Tee(LAMBDA s : [s EXCEPT !.state = "open"], "draw")
    /\ UNCHANGED <<blend, prep, y0, drawn>>

-----------------------------------------------------------------------------
(* Panels that cover a pixel of the band: in the rows of the band, in those   *)
(* and the columns of the content box, and not zero.                          *)

RowsHere == Lesser(blend.band_rows, out_h - y0)
ActiveCropless ==                                                        \* mutant
    {p \in Ids : Content(p)[2] < y0 + RowsHere /\ Content(p)[4] > y0}
Active == {p \in Ids : Content(p)[2] < prep.bbox[2] + y0 + RowsHere
                       /\ Content(p)[4] > prep.bbox[2] + y0}
Covering(c) == {p \in Active : c \in Inside(Content(p)) /\ Panels[p].px[c] # 0}
FullyIn(c)  == {p \in Ids : Panels[p].cov[c] = Full /\ c[2] < Content(p)[4]
                            /\ c[2] >= Content(p)[2]}

(* A pixel is a function of the blend b, the maps m and the panels that cover *)
(* it; quotients first.                                                       *)
Zero == <<0, 1>>
Plus(q, r)   == <<q[1] * r[2] + r[1] * q[2], q[2] * r[2]>>
AtMost(q, r) == q[1] * r[2] <= r[1] * q[2]      \* positive denominators
Weight(m, p, c) == WeightOf(m.dist[p][c])
normalize(m, v, c) ==      \* the weighted mean of the panels' values at a cell
    << SumFunction([p \in DOMAIN v |-> Weight(m, p, c) * v[p]]),
       SumFunction([p \in DOMAIN v |-> Weight(m, p, c)]) >>

fallback(m, cov, c) ==      \* max_by: the last of equals
    CHOOSE p \in cov : \A q \in cov :
        \/ Weight(m, p, c) > Weight(m, q, c)
        \/ Weight(m, p, c) = Weight(m, q, c) /\ p >= q

(* The base of the pixel: the pyramid's plane where it is defined.            *)
bref(b, m, cov, c) ==
    IF b.mode = "pyramid" /\ c \in b.pyr.def THEN <<b.pyr.plane[c], 1>>
    ELSE normalize(m, [p \in cov |-> m.base[p][c]], c)

(* The detail of a panel is measured from its own base, or from the blended   *)
(* one where base content is invented; in between, from a mixture.  All the   *)
(* details of a pixel have the same denominator.                              *)
DetailOfOwnBase(b, m, base, p, c) ==                                     \* mutant
    << (Full_(b.panels[p], c) - m.base[p][c]) * base[2], base[2] >>
DetailOf(b, m, base, p, c) ==
    LET top == HaloCells * Straight
        t   == m.t[c]
    IN  << Full_(b.panels[p], c) * top * base[2] - t * base[1]
               - (top - t) * m.base[p][c] * base[2],
           top * base[2] >>

(* The share of a panel in a ramp: its ramp, faded over its own rim.          *)
Share(m, p, c) == m.ramps[p][c] * Lesser(m.dist[p][c], WideCells * Straight)
Mixed(m, cov, d, c) ==
    LET owner  == m.owner[c]
        giving == {p \in cov : Share(m, p, c) > 0}
        some   == fallback(m, cov, c)
    IN  IF c \in m.hard THEN d[IF owner \in cov THEN owner ELSE some]
        ELSE IF giving = {} THEN d[some]
        ELSE << SumFunction([p \in giving |-> Share(m, p, c) * d[p][1]]),
                SumFunction([p \in giving |-> Share(m, p, c)]) * d[some][2] >>

(* The defect veto: the owner and the heaviest other panel disagree far above *)
(* the noise of the cell outside their masks; the smaller detail is taken.    *)
Vetoed(b, m, cov, d, c) ==
    LET po == m.owner[c]
        pp == fallback(m, cov \ {po}, c)
        noise == Lesser(detail(b.panels[po], c), detail(b.panels[pp], c))
    IN  IF /\ b.defect_veto /\ po \in cov /\ cov # {po}
           /\ c \notin m.masks[po] \cup m.masks[pp]
           /\ Abs(d[po][1] - d[pp][1]) > DefectVetoFactor * noise * d[po][2]
        THEN IF Abs(d[po][1]) <= Abs(d[pp][1]) THEN d[po] ELSE d[pp]
        ELSE Mixed(m, cov, d, c)

clamp_unit(q) == IF AtMost(<<White, 1>>, q) THEN <<White, 1>>
                 ELSE IF AtMost(q, Zero) THEN Zero ELSE q

TwoBandPixel(b, m, cov, c) ==
    LET base == bref(b, m, cov, c)
        d    == [p \in cov |-> DetailOf(b, m, base, p, c)]
    IN  Plus(base, Vetoed(b, m, cov, d, c))
Pixel(b, m, covering, full, c) ==
    LET cov == IF b.mode = "l8" THEN full ELSE covering
    IN  IF cov = {} THEN Zero
        ELSE CASE b.mode \in {"twoband", "pyramid"} -> TwoBandPixel(b, m, cov, c)
               [] b.mode = "feather" ->
                    normalize(m, [p \in cov |-> Full_(b.panels[p], c)], c)
               [] OTHER ->
                    normalize(m, [p \in cov |-> corrected(b.panels[p], c)], c)

-----------------------------------------------------------------------------
(* The band loop.  The rows of a band are drawn by a pool in any order; the   *)
(* band is repacked in row order, clamped and handed to the Tee.              *)

At(x, y) == <<prep.bbox[1] + x, prep.bbox[2] + y>>
Drawn(r) == [x \in 0 .. out_w - 1 |->
                LET c == At(x, y0 + r)
                IN  Pixel(blend, prep, Covering(c), FullyIn(c), c)]
DrawRow(r) ==
    /\ stage = "draw" /\ y0 < out_h /\ r \in (0 .. RowsHere - 1) \ DOMAIN drawn
    /\ drawn' = [q \in DOMAIN drawn \cup {r} |-> IF q = r THEN Drawn(r) ELSE drawn[q]]
    /\ UNCHANGED <<blend, stage, prep, y0, sinks>>

Assembled == [r \in DOMAIN drawn |-> [x \in DOMAIN drawn[r] |-> clamp_unit(drawn[r][x])]]
Write(s) ==
    [s EXCEPT !.rows = [y \in DOMAIN @ \cup {y0 + r : r \in DOMAIN drawn} |->
                            IF y - y0 \in DOMAIN drawn THEN Assembled[y - y0] ELSE @[y]]]
Band ==
    /\ stage = "draw" /\ y0 < out_h /\ DOMAIN drawn = 0 .. RowsHere - 1
    /\ Tee(Write, "draw")
    /\ y0' = y0 + blend.band_rows /\ drawn' = <<>>
    /\ UNCHANGED <<blend, prep>>

Finish ==
    /\ stage = "draw" /\ y0 >= out_h
    /\ Tee(LAMBDA s : [s EXCEPT !.state = "finished"], "ok")
    /\ UNCHANGED <<blend, prep, y0, drawn>>

Next ==
    \/ Mask \/ Own \/ Transitions \/ prep_from_summaries \/ Open \/ Begin
    \/ \E r \in Rows : DrawRow(r)
    \/ Band \/ Finish

Spec == Init /\ [][Next]_vars

-----------------------------------------------------------------------------
(* Properties.                                                                *)

Seen(c) == {p \in Ids : Panels[p].px[c] # 0}
WholeIn(c) == {p \in Ids : Panels[p].cov[c] = Full}
SecondNeverAhead ==
    /\ DOMAIN sinks[2].rows \subseteq DOMAIN sinks[1].rows
    /\ sinks[2].state = "finished" => sinks[1].state = "finished"
    /\ sinks[1].state = "failed" => sinks[2].rows = sinks[1].rows /\ sinks[2].state # "failed"
    /\ (\E i \in 1 .. 2 : sinks[i].state = "failed") => stage = "error"

(* A blend that reports success has written every row of the box it announced,*)
(* no more and no fewer, to both sinks, whatever the height of its bands; and *)
(* each row is drawn from all the panels that cover it: picking the panels of *)
(* a band, its content boxes and the region of interest drop none.  When a    *)
(* sink fails, the second sink of the Tee has seen nothing that the first has *)
(* not taken, and the blend is not reported as a success: a preview never     *)
(* shows more of a mosaic than its file holds.                                *)
SinksHoldTheCrop ==
    /\ SecondNeverAhead
    /\ \A i \in 1 .. 2 :
        /\ stage = "ok" => sinks[i].state = "finished" /\ DOMAIN sinks[i].rows = 0 .. out_h - 1
        /\ \A y \in DOMAIN sinks[i].rows :
              /\ y \in 0 .. out_h - 1
              /\ sinks[i].rows[y] = [x \in 0 .. out_w - 1 |->
                    LET c == At(x, y)
                    IN  clamp_unit(Pixel(blend, prep, Seen(c), WholeIn(c), c))]

(* The pixels of a mosaic lie between the corrected pixels of the panels that *)
(* cover them: everywhere in a feathered blend, and in a two-band blend where *)
(* the panels' bases agree or base content is invented in all of them, since  *)
(* there the bases cancel; the stars, the fills and the pyramid never make up *)
(* a value.  A pixel no panel covers is no data.                              *)
StaysBetween ==
    blend.mode # "l8" => \A r \in DOMAIN drawn : \A x \in DOMAIN drawn[r] :
        LET c    == At(x, y0 + r)
            cov  == Seen(c)
            full == {Full_(Panels[p], c) : p \in cov}
            cancels == \/ blend.mode = "feather"
                       \/ prep.t[c] = HaloCells * Straight
                       \/ blend.mode = "twoband" /\ \A p, q \in cov : prep.base[p][c] = prep.base[q][c]
        IN  /\ cov = {} => drawn[r][x] = Zero
            /\ cov # {} /\ cancels => /\ AtMost(<<Min(full), 1>>, drawn[r][x])
                                      /\ AtMost(drawn[r][x], <<Max(full), 1>>)
=============================================================================

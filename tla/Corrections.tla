---------------------------- MODULE Corrections -----------------------------
(* The correction of a panel, gain * v + offset + surface, in the forms the   *)
(* code has of it: as surfaces.rs fits and evaluates it, as seam.rs evaluates *)
(* it for the cost of a seam, and as blend.rs does for cells and rows, with   *)
(* the plane of flatten.rs folded in.  A surface is a sequence of 0, 1, 3 or  *)
(* 6 coefficients of 1, x, y, x^2, xy, y^2, the whole canvas being 1 by 1.    *)
(* A table is by channel and panel, from 1, and may lack any of them.         *)
EXTENDS Grid, Scan

n_terms(order) == CASE order = 0 -> 1 [] order = 1 -> 3 [] OTHER -> 6
basis(t, x, y) == SubSeq(<<Whole(1), x, y, Times(x, x), Times(x, y), Times(y, y)>>, 1, t)

(* The middle of a cell; cells at the border of the canvas may be cut.        *)
CellXY(canvas, c) == << Frac((2 * c[1] + 1) * Block, 2 * canvas[1]),
                        Frac((2 * c[2] + 1) * Block, 2 * canvas[2]) >>

(* Surfaces::eval, Flatten::eval and, of a panel without surface, CellCorr.   *)
eval(s, x, y) ==
    LET plane == Sum2(Times(s[2], x), Times(s[3], y))
        bend  == Sum2(Times(Sum2(Times(s[4], x), Times(s[5], y)), x), Times(Times(s[6], y), y))
    IN  CASE Len(s) = 0 -> Whole(0)
          [] Len(s) = 6 -> Sum2(Sum2(s[1], plane), bend)
          [] Len(s) \in 3 .. 5 -> Sum2(s[1], plane)
          [] OTHER -> s[1]
delta(f, x, y) == Minus(eval(f, x, y), eval(f, Frac(1, 2), Frac(1, 2)))

(* max_abs_s: over the cells the panel covers fully, of the normal equations' *)
(* own basis.                                                                 *)
max_abs_s(s, canvas, cov) ==
    LET At(c) == LET q == CellXY(canvas, c)
                     phi == basis(Len(s), q[1], q[2])
                 IN  AbsOf(SumOver(DOMAIN s, LAMBDA u : Times(s[u], phi[u])))
    IN  FoldSet(LAMBDA c, m : IF Less(m, At(c)) THEN At(c) ELSE m, Whole(0),
                {c \in DOMAIN cov : cov[c] = Whole(1)})

-----------------------------------------------------------------------------
(* panel_correction_terms of a panel and a channel, the surface padded to six *)
(* terms, and what a flatten adds to it.                                      *)

Entry(table, c, id, default) ==
    IF c \in DOMAIN table /\ id \in DOMAIN table[c] THEN table[c][id] ELSE default
Padded(s) == [k \in 1 .. 6 |-> IF k <= Len(s) THEN s[k] ELSE Whole(0)]
panel_correction_terms(phot, surfaces, c, id) ==
    [gain |-> Entry(phot.gains, c, id, Whole(1)), offset |-> Entry(phot.offsets, c, id, Whole(0)),
     surf |-> Padded(Entry(surfaces, c, id, <<>>))]
WithFlatten(f, t) ==
    LET centre == eval(f, Frac(1, 2), Frac(1, 2))
        less   == [k \in 1 .. 6 |-> Minus(t.surf[k], Padded(f)[k])]
    IN  [t EXCEPT !.surf = [less EXCEPT ![1] = Sum2(@, centre)]]

(* surf_row: along a row the surface is a + x (b + x c).                      *)
surf_row(t, y) ==
    << Sum2(t.surf[1], Times(Sum2(t.surf[3], Times(t.surf[6], y)), y)),
       Sum2(t.surf[2], Times(t.surf[5], y)), t.surf[4] >>
AlongRow(r, x) == Sum2(r[1], Times(x, Sum2(r[2], Times(x, r[3]))))
Applied(t, v, s) == Sum2(Sum2(Times(v, t.gain), t.offset), s)
corrected_cell_means(t, canvas, mean) ==
    [c \in DOMAIN mean |->
        LET q == CellXY(canvas, c) IN Applied(t, mean[c], AlongRow(surf_row(t, q[2]), q[1]))]

(* CellCorr, made from the same tables on its own.                            *)
CellCorr(phot, surfaces, c, id) ==
    [gain |-> Entry(phot.gains, c, id, Whole(1)), offset |-> Entry(phot.offsets, c, id, Whole(0)),
     surf |-> Entry(surfaces, c, id, <<>>)]
SeamSees(corr, canvas, mean, c) ==
    LET q == CellXY(canvas, c) IN Applied(corr, mean[c], eval(corr.surf, q[1], q[2]))

-----------------------------------------------------------------------------
(* One correction, whoever computes it: the blended cells are what the seams  *)
(* were laid by, less the flatten, which leaves the centre of the canvas and  *)
(* moves all panels by the same; the row form agrees with it at every pixel;  *)
(* and the recorded maximum bounds the surface and is attained.               *)
OneCorrection(t, terms, cells) ==
    LET corr == CellCorr(t.phot, t.surfaces, 1, t.id)
        f    == t.flat
        Full_ == {c \in DOMAIN t.cov : t.cov[c] = Whole(1)}
        AtCell(c) == LET q == CellXY(t.canvas, c) IN AbsOf(eval(corr.surf, q[1], q[2]))
        top  == max_abs_s(corr.surf, t.canvas, t.cov)
    IN  /\ \A c \in DOMAIN t.mean :
             LET q == CellXY(t.canvas, c)
             IN  cells[c] = Minus(SeamSees(corr, t.canvas, t.mean, c), delta(f, q[1], q[2]))
        /\ \A x \in 0 .. t.canvas[1] - 1, y \in 0 .. t.canvas[2] - 1 :
             LET xn == Frac(x, t.canvas[1])
                 yn == Frac(y, t.canvas[2])
             IN  AlongRow(surf_row(terms, yn), xn) = Minus(eval(corr.surf, xn, yn), delta(f, xn, yn))
        /\ \A c \in Full_ : Leq(AtCell(c), top)
        /\ Full_ # {} => \E c \in Full_ : AtCell(c) = top
=============================================================================

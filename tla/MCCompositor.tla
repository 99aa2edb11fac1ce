---------------------------- MODULE MCCompositor ----------------------------
(* Two panels over a grid of W x H cells: a flat one, and one with another    *)
(* level, perhaps a star, and a rim of partly covered cells.                  *)
EXTENDS Compositor

Flat(n) == [c \in Cells |-> n]
Columns_(from, to) == {c \in Cells : from <= c[1] /\ c[1] <= to}
Rows_(from, to)    == {c \in Cells : from <= c[2] /\ c[2] <= to}

Panel(full, level, star, noise) ==
    LET cov == [c \in Cells |-> IF c \in full THEN Full
                                ELSE IF Beside(c) \cap full # {} THEN 1 ELSE 0]
    IN  [cov |-> cov, opens |-> level # 3 \/ noise # 3, gain |-> 1, off |-> 0, surf |-> Flat(0),
         det |-> [c \in Cells |-> IF c \in star THEN noise ELSE 1],
         mean |-> Flat(level),
         px |-> [c \in Cells |-> IF cov[c] = Full \/ (cov[c] = 1 /\ c[2] = H - 1)
                                 THEN (IF c \in star THEN 9 ELSE level) ELSE 0]]

MCBlends ==
    { [panels |-> <<Panel(a, 3, {}, opens), Panel(b, level, star, noise)>>,
       mode |-> mode, extent |-> "default", imposed |-> roi[1] = 0, roi |-> roi,
       band_rows |-> rows, defect_veto |-> TRUE,
       pyr |-> [def |-> {<<0, 0>>, <<1, 0>>}, plane |-> Flat(5)]] :
         a \in {Columns_(0, 1), Columns_(0, 2), Rows_(0, 0)},
         b \in {Columns_(1, W - 1), Columns_(2, 2), Rows_(1, H - 1)},
         opens \in {1, 3}, level \in {2, 4},
         star \in {{}, {<<1, 0>>}, {<<1, 1>>, <<2, 1>>}}, noise \in {1, 4},
         mode \in {"twoband", "pyramid", "feather", "l8"},
         roi \in {<<0, 0, W, H>>, <<1, 1, W, H>>}, rows \in {1, 2} }
=============================================================================

-------------------------------- MODULE Grid --------------------------------
(* The L8 grid of a canvas: one cell per 8x8 block of pixels (BLOCK of        *)
(* lib.rs), and what the grid algorithms of overlap.rs, seam.rs and blend.rs  *)
(* share: neighbourhoods, floods and bounding boxes.                          *)
EXTENDS Integers, Sequences, FiniteSets, FiniteSetsExt, SequencesExt

CONSTANTS W, H     \* bound: width and height of the grid, in cells
ASSUME GridAssumption == W \in Nat \ {0} /\ H \in Nat \ {0}

Cells == (0 .. W - 1) \X (0 .. H - 1)
Rows  == 0 .. H - 1

Abs(n) == IF n < 0 THEN -n ELSE n
Lesser(m, n)  == IF m < n THEN m ELSE n
Greater(m, n) == IF m > n THEN m ELSE n

(* The cells of the canvas in row-major order, the index order of the code.   *)
Raster == [i \in 1 .. W * H |-> <<(i - 1) % W, (i - 1) \div W>>]

(* The 3x3 block around a cell, clipped to the canvas, and the square of a    *)
(* larger radius.                                                             *)
Square(c, r) == {d \in Cells : Abs(d[1] - c[1]) <= r /\ Abs(d[2] - c[2]) <= r}
Near(c)      == Square(c, 1)
Beside(c)    == {d \in Cells : Abs(d[1] - c[1]) + Abs(d[2] - c[2]) = 1}
Dilated(S, r) == {c \in Cells : Square(c, r) \cap S # {}}

(* What a stack of cells floods: from the seeds over the allowed cells.       *)
Flood(seeds, allowed, Adjacent(_)) ==
    LET grow[S \in SUBSET Cells] ==
            LET more == S \cup {c \in allowed : Adjacent(c) \cap S # {}}
            IN  IF more = S THEN S ELSE grow[more]
    IN  grow[seeds]

(* Smallest box of a set of cells: <<x0, y0, x1, y1>>, ends exclusive.        *)
NoBox == <<0, 0, 0, 0>>
Box(S) ==
    IF S = {} THEN NoBox
    ELSE << Min({c[1] : c \in S}), Min({c[2] : c \in S}),
            Max({c[1] : c \in S}) + 1, Max({c[2] : c \in S}) + 1 >>
Inside(b)  == {c \in Cells : b[1] <= c[1] /\ c[1] < b[3] /\ b[2] <= c[2] /\ c[2] < b[4]}
Meet(a, b) == << Greater(a[1], b[1]), Greater(a[2], b[2]),
                 Lesser(a[3], b[3]),  Lesser(a[4], b[4]) >>
IsEmpty(b) == b[1] >= b[3] \/ b[2] >= b[4]

(* select_nth_unstable at half the length: the upper median of the values     *)
(* of a function that is not empty.                                            *)
Median(v) ==
    LET half     == Cardinality(DOMAIN v) \div 2
        Below(n) == Cardinality({d \in DOMAIN v : v[d] < n})
        UpTo(n)  == Cardinality({d \in DOMAIN v : v[d] <= n})
    IN  CHOOSE n \in {v[d] : d \in DOMAIN v} : Below(n) <= half /\ half < UpTo(n)
=============================================================================

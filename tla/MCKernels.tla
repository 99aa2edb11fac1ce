----------------------------- MODULE MCKernels ------------------------------
(* The tasks: grids of W x H cells, two or three panels, and small values;    *)
(* what varies cell by cell varies in the upper two rows.                     *)
EXTENDS Kernels

Plane(S, in, out) == [c \in Cells |-> IF c \in S THEN in ELSE out]
Cols(S) == {c \in Cells : c[1] \in S}
Covers(S) == Plane(S, Full, 0)
Upper == {c \in Cells : c[2] < 2}
Upwards(f, below) == [c \in Cells |-> IF c \in Upper THEN f[c] ELSE below]
Holed == Cells \ {<<1, 1>>}
Regions == {Cells, Cols(0 .. 1), Cols(1 .. W - 1), Cols({W - 1}), Holed, {}}

GraphTasks == { [kind |-> "graph", covs |-> <<Upwards(a, 0), Covers(Cols({0})), Covers(c)>>] :
    a \in [Upper -> {0, Full}] \cup [Upper -> {1, Full}], c \in {Cols({W - 1}), Cells} }

Panel(cov, det, mean) == [cov |-> cov, det |-> det, mean |-> mean, gain |-> 1, off |-> 0,
                          surf |-> Plane({}, 0, 0)]
MaskTasks == { [kind |-> "mask", panel |-> Panel(Plane(S, Full, r), Upwards(det, 1), Plane({}, 0, 1))] :
    S \in {Cols(0 .. 1), {}}, r \in {0, 1}, det \in [Upper -> {1, 2, 4}] }
SeamTasks == { [kind |-> "seam", masks |-> <<m, {}>>,
                panels |-> <<Panel(Covers(Cells), Plane(d, 3, 1), Plane(b, 4, 1)),
                             Panel(Covers(cov), Plane({}, 0, 1), Plane({}, 0, 1))>>] :
    m \in SUBSET Upper, d \in {{}, Cols({1}), {<<0, 1>>, <<2, 0>>}, Cells \ Upper},
    b \in {{}, {<<1, 0>>}}, cov \in {Cells, Holed} }
(* The box of the content: of a partly covered cell, the last pixel is there; *)
(* the canvas ends inside its last cells.                                     *)
ContentOf(covs) ==
    LET EndOf(n) == n * Block + Block - 1
        First(c) == IF \E p \in DOMAIN covs : covs[p][c] = Full THEN <<c[1] * Block, c[2] * Block>>
                    ELSE <<EndOf(c[1]), EndOf(c[2])>>
        some == {c \in Cells : \E p \in DOMAIN covs : covs[p][c] > 0}
    IN  << Min({First(c)[1] : c \in some}), Min({First(c)[2] : c \in some}),
           Lesser(Max({EndOf(c[1]) : c \in some}) + 1, W * Block - 1),
           Lesser(Max({EndOf(c[2]) : c \in some}) + 1, H * Block - 1) >>

OwnerTasks == { [kind |-> "owner", img |-> <<[q \in Cells |-> (q[1] + 2 * q[2]) % 4]>>,
                 bbox |-> ContentOf(<<Plane(a, Full, ra), Plane(b, Full, rb), Plane(c, Full, 0)>>),
                 panels |-> <<Panel(Plane(a, Full, ra), Plane(d, 4, 1), Plane({}, 0, 1)),
                              Panel(Plane(b, Full, rb), Plane({}, 0, 1), Plane(d, 2, 1)),
                              Panel(Plane(c, Full, 0), Plane({}, 0, 1), Plane({}, 0, 2))>>] :
    a, b \in Regions, c \in {Cols({0}), Cells}, ra \in {0, 1}, rb \in {0}, d \in {{<<1, 0>>}} }

FillTasks == { [kind |-> "fill", val |-> val, cov |-> Plane(S, Full, r), mask |-> m] :
    val \in [Cells -> {0, 9}], S \in {Cells, Cols(0 .. 1)}, r \in {0},
    m \in {Cols(1 .. W - 1), {<<0, 0>>, <<1, 1>>}} }
RampTasks == { [kind |-> "ramps", owner |-> Upwards(owner, below), compact |-> <<m, {}>>,
                structure |-> <<s, s>>] :
    owner \in [Upper -> {NoOwner, 1, 2}], below \in {1, 2},
    m \in {{<<1, 1>>, <<2, 1>>}}, s \in {{<<2, 0>>}} }

StripTasks == { [kind |-> "strip", covs |-> <<a, b>>, level |-> 64, beyond |-> beyond,
                 owner |-> [x \in Line(0) |-> IF x \in a /\ (x < 3 \/ x \notin b) THEN 1
                                              ELSE IF x \in b THEN 2 ELSE 0]] :
    a \in SUBSET Line(0), b \in {2 .. 3, 3 .. 5, {5}}, beyond \in {0, 640} }

LineTasks == { [kind |-> "line", x |-> x, y |-> y] :
    x \in {[c \in Upper |-> c[1]], [c \in Upper |-> c[2]], [c \in Upper |-> 1]},
    y \in [Upper -> 0 .. 2] }
(* An overlap of eight or nine cells: y is g times x and both have gradients. *)
GainTasks == { [kind |-> "gain", edge |-> [bbox8 |-> <<0, 0, W, H>>], g |-> g, structure |-> s # {},
                x |-> [c \in d |-> (IF c \in s THEN 4 ELSE 0) + t[1] * c[1] + t[2] * c[2]],
                y |-> [c \in d |-> g * (IF c \in s THEN 4 ELSE 0) + t[3] * c[1] + 3]] :
    s \in {{}, {<<1, 1>>}, {<<0, 0>>, <<1, 2>>}, {<<2, 0>>}}, g \in {1, 2, 3},
    d \in {Cells, Cells \ {<<0, 2>>}}, t \in {<<0, 0, 0>>, <<0, 0, 2>>, <<1, 0, 0>>, <<2, -1, 1>>} }
LevelTasks == { [kind |-> "levels", gains |-> g,
                 panels |-> [p \in 1 .. 3 |->
                    [cov |-> Covers(<<a, b, c>>[p]),
                     mean |-> [d \in Cells |-> IF p = 1 /\ d \in s THEN 5 ELSE l[p] + d[1] * (p % 2)]]]] :
    a, b \in Regions, c \in {Cells, Cols({0})}, l \in {<<1, 2, 1>>},
    s \in {{}, {<<1, 0>>}}, g \in {<<1, 1, 1>>, <<1, 2, 1>>} }
FlatTasks == { [kind |-> "flat", masks |-> <<m, n>>, plane |-> <<Whole(4), Whole(t[1]), Whole(t[2])>>,
                panels |-> [p \in 1 .. 2 |->
                   [cov |-> Covers(<<a, b>>[p]),
                    mean |-> [d \in Cells |-> IF d \in <<m, n>>[p] THEN 9
                                  ELSE 4 + t[1] * (2 * d[1] + 1) + t[2] * (2 * d[2] + 1)]]]] :
    a, b \in Regions, t \in {<<0, 1>>, <<1, -1>>}, m \in {{}, {<<1, 0>>}}, n \in {{}, {<<2, 1>>}} }
SystemTasks == { [kind |-> "system", b |-> <<Whole(1), Whole(2), Whole(3)>>,
                  a |-> [r \in 1 .. 3 |-> [c \in 1 .. 3 |-> Whole(a[r][c])]]] :
    a \in { m \in [1 .. 3 -> [1 .. 3 -> 0 .. 1]] : m[1][1] = 0 } }

FlagTasks == { [kind |-> "seams", deltas |-> [k \in DOMAIN d |-> [n |-> 1, delta |-> Whole(d[k])]]] :
    d \in UNION {[1 .. n -> {0, 1, 2, 7}] : n \in 0 .. 4} }

(* Images of one and three channels, in bands of one and two rows, in order   *)
(* and out of it; too many rows, two channels, too many pixels.               *)
BandRowsOf(img, y, n) == [y0 |-> y, rows |-> Planar(img, <<0, y, W, y + n>>)]
Banded(img, order) == [k \in DOMAIN order |-> BandRowsOf(img, order[k][1], order[k][2])]
Tall(img) == [k \in DOMAIN img |-> [q \in (0 .. W - 1) \X (0 .. H) |-> IF q \in Cells THEN img[k][q] ELSE 1]]
Split3 == {<< <<0, 1>>, <<1, 1>>, <<2, 1>> >>, << <<1, 2>>, <<0, 1>> >>}
PreviewTask(img, bands, fits) ==
    [kind |-> "preview", img |-> img, dims |-> <<W, H, Len(img)>>, bands |-> bands, fits |-> fits]
Greys == {[c \in Cells |-> IF c \in Cols({0}) THEN f[c[2]] ELSE IF c \in Cols({1}) THEN f[3] ELSE 3 * c[2]] :
             f \in [0 .. 3 -> {0, 5, 8}]}
PreviewTasks ==
    {PreviewTask(<<g>>, Banded(<<g>>, o), TRUE) : g \in Greys, o \in Split3}
    \cup {PreviewTask(<<g, h, g>>, Banded(<<g, h, g>>, << <<0, 2>>, <<2, 1>> >>), TRUE) :
              g \in Greys, h \in {[c \in Cells |-> (c[1] * 5 + c[2]) % 9]}}
    \cup {PreviewTask(<<g>>, Banded(Tall(<<g>>), << <<0, 2>>, <<2, 2>> >>), FALSE) : g \in Greys}
    \cup {PreviewTask(<<g, g>>, Banded(<<g, g>>, << <<0, 3>> >>), FALSE) : g \in Greys}

(* Panels of 3 x 3 pixels and two channels, stored in every way, also in ways *)
(* that do not fit the canvas of the session.                                 *)
Geom == <<3, 3, 2>>
Pixels == PixelsOf(Geom)
Image(zeros, box) == [c \in 1 .. 2 |-> [q \in Pixels |->
    IF q \in zeros[c] \/ q[1] \notin box[1] .. box[3] - 1 \/ q[2] \notin box[2] .. box[4] - 1
    THEN 0 ELSE c + q[1] * q[1] + 2 * q[2]]]
Zeros == {<<z, y>> : z \in SUBSET {<<0, 0>>, <<1, 1>>, <<2, 1>>, <<0, 2>>, <<2, 2>>},
                     y \in {{}, {<<1, 0>>, <<0, 1>>}, Pixels}}
PanelTask(kind, storage, box, zeros, canvas, fails, good) ==
    [kind |-> "panel", img |-> Image(zeros, box), canvas |-> canvas, fails |-> fails, good |-> good,
     storage |-> storage, source |-> IF kind = "ipc" THEN "ipc" ELSE "file", bbox |-> box,
     file |-> [kind |-> kind, geom |-> Geom, data |-> Planar(Image(zeros, box), box)]]
All_ == Canvas(Geom)
PanelTasks ==
    {PanelTask("xisf", s, All_, z, Geom, {}, TRUE) : z \in Zeros, s \in {"new", "FullCanvasXisf"}}
    \cup {PanelTask("fits", s, All_, z, Geom, {}, TRUE) : z \in Zeros, s \in {"new", "FullCanvasFits"}}
    \cup {PanelTask("ipc", "Ipc", All_, z, Geom, f, TRUE) :
              z \in Zeros, f \in {{}, {0}, {1}, {0, 1}, {2}}}
    \cup {PanelTask("crop", "CroppedCache", b, z, Geom, {}, TRUE) : z \in Zeros,
              b \in {<<1, 0, 3, 2>>, <<0, 1, 2, 3>>, <<1, 1, 2, 2>>}}
    \cup {PanelTask(k[1], k[2], All_, <<{}, {}>>, c, {}, FALSE) : c \in {<<2, 3, 2>>, <<3, 3, 1>>},
              k \in {<<"xisf", "FullCanvasXisf">>, <<"fits", "FullCanvasFits">>, <<"crop", "CroppedCache">>}}
    \cup {PanelTask(k[1], k[2], All_, <<{}, {}>>, Geom, {}, FALSE) :
              k \in {<<"tiff", "new">>, <<"crop", "new">>, <<"fits", "FullCanvasXisf">>,
                      <<"xisf", "FullCanvasFits">>, <<"tiff", "FullCanvasFits">>, <<"fits", "Ipc">>}}

(* Corrections of a panel: the tables with and without it, surfaces and       *)
(* flattens of every order, on a canvas that ends inside its last cells.      *)
Coefs(n, k) == [i \in 1 .. n |-> Whole(((i * k) % 3) - 1)]
SurfaceTasks == { [kind |-> "surface", id |-> 1, canvas |-> <<2 * W - 1, 2 * H - 1, 1>>,
                   phot |-> p, surfaces |-> s, flat |-> f,
                   mean |-> [c \in Cells |-> Whole(c[1] + c[2])],
                   cov  |-> [c \in Cells |-> IF c \in r THEN Whole(1) ELSE Whole(0)]] :
    p \in {[gains |-> <<>>, offsets |-> <<>>], [gains |-> <<<<Whole(2)>>>>, offsets |-> <<<<Whole(1)>>>>]},
    s \in {<<>>, <<<<>>>>} \cup {<<<<Coefs(n_terms(n), k)>>>> : n \in 0 .. 2, k \in {1, 2, 4}},
    f \in {<<>>} \cup {Coefs(n_terms(n), k) : n \in 1 .. 2, k \in {1, 2}}, r \in Regions }

MCTasks == GraphTasks \cup MaskTasks \cup SeamTasks \cup OwnerTasks \cup FillTasks
             \cup RampTasks \cup StripTasks \cup LineTasks \cup LevelTasks \cup FlatTasks
             \cup SystemTasks \cup PanelTasks \cup PreviewTasks
             \cup SurfaceTasks \cup GainTasks \cup FlagTasks
=============================================================================

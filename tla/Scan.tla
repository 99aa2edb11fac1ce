-------------------------------- MODULE Scan --------------------------------
(* What analyze reads of a panel: PanelReader over the storages a session can *)
(* name, the streaming scan that turns its rows into the L8 summary and the   *)
(* statistics of the panel (analyze.rs), and the copy of its planes that a    *)
(* reprojection works on (align.rs).  Planes are flat, as in the files; a     *)
(* pixel value is a small number and 0 is "no data".                          *)
EXTENDS Rationals

CONSTANTS Block,      \* pixels of a cell along each axis: 8 in the code
          BandRows    \* rows of a band: 16 of a FITS file in the code
ASSUME ScanAssumption == Block \in Nat \ {0} /\ BandRows \in Nat \ {0}

Missing == <<>>
Found(v) == <<v>>
Least(m, n) == IF m < n THEN m ELSE n

Width(b)  == b[3] - b[1]
Height(b) == b[4] - b[2]
Canvas(geom) == <<0, 0, geom[1], geom[2]>>

(* The planes of an image, cropped to a box and written one after the other:  *)
(* the pixel data of a file, or the cache of a reprojected panel.             *)
Planar(img, b) ==
    LET area == Width(b) * Height(b)
    IN  [i \in 0 .. area * Len(img) - 1 |->
           img[(i \div area) + 1][<<b[1] + (i % Width(b)), b[2] + ((i % area) \div Width(b))>>]]

-----------------------------------------------------------------------------
(* Opening.  A file is [kind, geom, data]: "xisf" (mapped, or decoded once    *)
(* into the cache of the session), "fits", "crop" (the cache of a reprojected *)
(* panel) or another; "ipc" is a panel of the host, which has no file.  What  *)
(* a session says of a panel is [storage, bbox].                              *)

full_canvas(file, geom) == [file |-> file, bbox |-> Canvas(geom), canvas |-> geom]

(* By the content of a file, never by its name; TIFF and the rest are refused.*)
sniff_format(file) == IF file.kind \in {"xisf", "fits"} THEN Found(file.kind) ELSE Missing
StorageOf(format) == IF format = "xisf" THEN "FullCanvasXisf" ELSE "FullCanvasFits"

open_file(file) ==
    IF sniff_format(file) = Missing THEN Missing ELSE Found(full_canvas(file, file.geom))

check_full_canvas(file, canvas) == file.geom = canvas

CropFits(b, canvas) ==
    b[1] < b[3] /\ b[2] < b[4] /\ b[3] <= canvas[1] /\ b[4] <= canvas[2]
CropSize(b, canvas) == Width(b) * Height(b) * canvas[3]

open(meta, file, canvas) ==
    CASE meta.storage \in {"FullCanvasXisf", "FullCanvasFits"} ->
           IF meta.storage = StorageOf(file.kind) /\ sniff_format(file) # Missing
                /\ check_full_canvas(file, canvas)
           THEN Found(full_canvas(file, canvas)) ELSE Missing
      [] meta.storage = "CroppedCache" ->
           IF CropFits(meta.bbox, canvas) /\ Cardinality(DOMAIN file.data) = CropSize(meta.bbox, canvas)
           THEN Found([file |-> [file EXCEPT !.kind = "crop"], bbox |-> meta.bbox, canvas |-> canvas])
           ELSE Missing
      [] OTHER -> Missing       \* Ipc: opened by open_ipc only

open_ipc(file, canvas) == full_canvas(file, canvas)

(* FileSource, and the IpcSource of a worker, whose reprojected panels are on *)
(* disk all the same.                                                         *)
open_reader(source, meta, file, canvas) ==
    IF source = "ipc" /\ meta.storage = "Ipc" THEN Found(open_ipc(file, canvas))
    ELSE open(meta, file, canvas)

-----------------------------------------------------------------------------
(* Rows.  FITS rows, and those of the host, come out of a band that is fetched*)
(* when the row is not in the band held; a band that fails is latched, and    *)
(* the row is absent.                                                         *)

Cached(r) == r.file.kind \in {"fits", "ipc"}

BandFirst(y) == (y \div BandRows) * BandRows
BandEnd(r, y) == Least(BandFirst(y) + BandRows, r.canvas[2])
Decoded(r, y) ==
    LET w    == r.canvas[1]
        size == (BandEnd(r, y) - BandFirst(y)) * w
    IN  [i \in 0 .. size * r.canvas[3] - 1 |->
           r.file.data[(i \div size) * w * r.canvas[2] + BandFirst(y) * w + (i % size)]]

Slice(data, start, n) == [i \in 0 .. n - 1 |-> data[start + i]]

(* One channel row: where it starts and its values, or absent.                *)
row(r, c, y) ==
    LET b == r.bbox
    IN  IF y < b[2] \/ y >= b[4] THEN Missing
        ELSE IF Cached(r)
        THEN Found([x0 |-> 0, v |-> Slice(Decoded(r, y),
                 (c * (BandEnd(r, y) - BandFirst(y)) + (y - BandFirst(y))) * r.canvas[1], r.canvas[1])])
        ELSE Found([x0 |-> b[1],
                    v |-> Slice(r.file.data, (c * Height(b) + (y - b[2])) * Width(b), Width(b))])

(* The band held and whether a fetch failed.  fails are the rows at which a   *)
(* fetch from the host fails, if one is made there; rows of a mapped FITS     *)
(* file are only decoded.                                                     *)
Idle == [held |-> -1, latched |-> FALSE]
Fetches(r, dec, y) == Cached(r) /\ dec.held # BandFirst(y)
Fetched(r, dec, y, fails) ==
    IF ~Fetches(r, dec, y) THEN dec
    ELSE IF y \in fails THEN [held |-> -1, latched |-> TRUE]
    ELSE [dec EXCEPT !.held = BandFirst(y)]

backing_error(r, dec) == Cached(r) /\ dec.latched

(* All channels of row y, as far as there are any: one storage box for all.   *)
ChannelRows(r, dec, y, fails) ==
    IF (Fetches(r, dec, y) /\ y \in fails) \/ row(r, 0, y) = Missing THEN Missing
    ELSE [c \in 1 .. r.canvas[3] |-> row(r, c - 1, y)[1]]

-----------------------------------------------------------------------------
(* scan_reader: one pass, with the sums of one row of cells, which are made   *)
(* cells and cleared after the last image row of each block.                  *)

CellColumns(r) == 0 .. ((r.canvas[1] + Block - 1) \div Block) - 1
Channels(r) == 1 .. r.canvas[3]
NoSums(r) == [c \in Channels(r) |-> [x8 \in CellColumns(r) |-> 0]]

Cleared(r, a) ==
    [a EXCEPT !.cnt = [x8 \in CellColumns(r) |-> 0], !.sum = NoSums(r), !.sum2 = NoSums(r)]

ScanStart(r) ==
    Cleared(r, [dec |-> Idle, box |-> Missing, total |-> 0,
                seen |-> [c \in Channels(r) |-> {}], all |-> [c \in Channels(r) |-> 0],
                cnt |-> <<>>, sum |-> <<>>, sum2 |-> <<>>, cells |-> <<>>])

CoveredAt(rows) ==
    IF rows = Missing THEN {}
    ELSE {i \in DOMAIN rows[1].v : \A c \in DOMAIN rows : rows[c].v[i] # 0}

Grown(box, xs, y) ==
    IF box = Missing THEN Found(<<Min(xs), y, Max(xs) + 1, y + 1>>)
    ELSE Found(<<Min(xs \cup {box[1][1]}), box[1][2], Max(xs \cup {box[1][3] - 1}) + 1, y + 1>>)

(* The covered pixels of one row are added to everything.                     *)
Added(r, a, rows, y) ==
    LET cov   == CoveredAt(rows)
        x0    == rows[1].x0
        In(x8) == {i \in cov : (x0 + i) \div Block = x8}
        Total(S, c, f(_)) == FoldSet(LAMBDA i, s : s + f(rows[c].v[i]), 0, S)
        Square2(v) == v * v
        Same(v)    == v
    IN  IF cov = {} THEN a
        ELSE [a EXCEPT
          !.box   = Grown(a.box, {x0 + i : i \in cov}, y),
          !.total = @ + Cardinality(cov),
          !.seen  = [c \in Channels(r) |-> @[c] \cup {rows[c].v[i] : i \in cov}],
          !.all   = [c \in Channels(r) |-> @[c] + Total(cov, c, Same)],
          !.cnt   = [x8 \in CellColumns(r) |-> @[x8] + Cardinality(In(x8))],
          !.sum   = [c \in Channels(r) |-> [x8 \in CellColumns(r) |-> @[c][x8] + Total(In(x8), c, Same)]],
          !.sum2  = [c \in Channels(r) |-> [x8 \in CellColumns(r) |-> @[c][x8] + Total(In(x8), c, Square2)]]]

(* A cell: the covered fraction, and for each channel the mean and the mean   *)
(* square of the deviation from it (whose root is the detail energy).         *)
CellOf(r, a, x8, y) ==
    LET w    == Least(r.canvas[1] - x8 * Block, Block)
        h    == (y % Block) + 1
        n    == a.cnt[x8]
        mean == [c \in Channels(r) |-> IF n = 0 THEN Whole(0) ELSE Frac(a.sum[c][x8], n)]
    IN  [cov |-> Frac(n, w * h), mean |-> mean,
         detail |-> [c \in Channels(r) |-> IF n = 0 THEN Whole(0)
                        ELSE Minus(Frac(a.sum2[c][x8], n), Times(mean[c], mean[c]))]]

FlushedKeeping(r, a, y) ==
    [a EXCEPT !.cells = [k \in {<<x8, y \div Block>> : x8 \in CellColumns(r)} |->
                            CellOf(r, a, k[1], y)] @@ @]

Flushed(r, a, y) ==
    Cleared(r, [a EXCEPT !.cells = [k \in {<<x8, y \div Block>> : x8 \in CellColumns(r)} |->
                                       CellOf(r, a, k[1], y)] @@ @])

ScanRow(r, a, y, fails) ==
    LET rows  == ChannelRows(r, a.dec, y, fails)
        added == [Added(r, a, rows, y) EXCEPT !.dec = Fetched(r, @, y, fails)]
    IN  IF y % Block = Block - 1 \/ y = r.canvas[2] - 1 THEN Flushed(r, added, y) ELSE added

(* The scan of a panel, or an error if a fetch failed anywhere on the way.    *)
scan_reader(r, fails) ==
    LET a == FoldLeft(LAMBDA acc, y : ScanRow(r, acc, y - 1, fails), ScanStart(r),
                      [y \in 1 .. r.canvas[2] |-> y])
        OrZero(S, value) == IF S = {} THEN 0 ELSE value
    IN  IF backing_error(r, a.dec) THEN Missing
        ELSE Found([bbox  |-> IF a.box = Missing THEN <<0, 0, 0, 0>> ELSE a.box[1],
                    nonzero_frac |-> Frac(a.total, r.canvas[1] * r.canvas[2]),
                    ch_min  |-> [c \in Channels(r) |-> OrZero(a.seen[c], Min(a.seen[c]))],
                    ch_max  |-> [c \in Channels(r) |-> OrZero(a.seen[c], Max(a.seen[c]))],
                    ch_mean |-> [c \in Channels(r) |-> IF a.total = 0 THEN Whole(0)
                                                       ELSE Frac(a.all[c], a.total)],
                    cells   |-> a.cells])

(* mmm info --stats: each channel on its own.                                 *)
info_stats(r) ==
    LET At(c, y)  == row(r, c - 1, y)[1].v
        Of(c, q)  == At(c, q[2])[q[1]]
        Lit(c)    == {q \in (0 .. r.canvas[1] - 1) \X (0 .. r.canvas[2] - 1) : Of(c, q) # 0}
    IN  [c \in Channels(r) |->
           [lit  |-> Frac(Cardinality(Lit(c)), r.canvas[1] * r.canvas[2]),
            range |-> LET vs == {Of(c, q) : q \in Lit(c)}
                      IN  IF vs = {} THEN Missing ELSE Found(<<Min(vs), Max(vs)>>),
            mean |-> IF Lit(c) = {} THEN Whole(0)
                     ELSE Frac(FoldSet(LAMBDA q, s : s + Of(c, q), 0, Lit(c)), Cardinality(Lit(c)))]]

-----------------------------------------------------------------------------
(* The summary of a panel as it is kept on disk: the grid, then the coverage, *)
(* the means and the details of the cells in planes, row by row.  A word of   *)
(* the file is a value of a cell.                                             *)

L8Summary(canvas, cells) ==
    LET w8 == (canvas[1] + Block - 1) \div Block
        h8 == (canvas[2] + Block - 1) \div Block
        At(i) == cells[<<i % w8, i \div w8>>]
        Planes(Of(_, _)) == [i \in 0 .. canvas[3] * w8 * h8 - 1 |->
                                Of(At(i % (w8 * h8)), (i \div (w8 * h8)) + 1)]
    IN  [w8 |-> w8, h8 |-> h8, channels |-> canvas[3],
         coverage |-> [i \in 0 .. w8 * h8 - 1 |-> At(i).cov],
         mean     |-> Planes(LAMBDA k, c : k.mean[c]),
         detail   |-> Planes(LAMBDA k, c : k.detail[c])]
cell_at(s, c, x8, y8) == s.mean[c * s.w8 * s.h8 + y8 * s.w8 + x8]
det_at(s, c, x8, y8)  == s.detail[c * s.w8 * s.h8 + y8 * s.w8 + x8]
cov_at(s, x8, y8)     == s.coverage[y8 * s.w8 + x8]

Words(s) == [i \in 1 .. Cardinality(DOMAIN s) |-> s[i - 1]]
write(s) == [magic |-> "MMM9", dims |-> <<s.w8, s.h8, s.channels>>,
             words |-> Words(s.coverage) \o Words(s.mean) \o Words(s.detail)]
read(file) ==
    LET n == file.dims[1] * file.dims[2]
        m == file.dims[3] * n
        read_plane(off, k) == [i \in 0 .. k - 1 |-> file.words[off + i + 1]]
    IN  IF file.magic # "MMM9" \/ Len(file.words) # n + 2 * m THEN Missing
        ELSE Found([w8 |-> file.dims[1], h8 |-> file.dims[2], channels |-> file.dims[3],
                    coverage |-> read_plane(0, n), mean |-> read_plane(n, m),
                    detail |-> read_plane(n + m, m)])

-----------------------------------------------------------------------------
(* reproject_from_reader: the planes, row by row, until one is absent; an     *)
(* error rather than planes with rows missing.                                *)
TakeRow(r, p, y, fails) ==
    LET rows == ChannelRows(r, p.dec, y, fails)
    IN  IF ~p.complete THEN p
        ELSE IF rows = Missing
        THEN [p EXCEPT !.complete = FALSE, !.dec = Fetched(r, @, y, fails)]
        ELSE [p EXCEPT !.dec = Fetched(r, @, y, fails),
                       !.planes = [c \in Channels(r) |->
                            @[c] @@ [q \in {<<x, y>> : x \in DOMAIN rows[c].v} |-> rows[c].v[q[1]]]]]

reproject_from_reader(r, fails) ==
    LET p == FoldLeft(LAMBDA acc, y : TakeRow(r, acc, y - 1, fails),
                      [dec |-> Idle, complete |-> TRUE, planes |-> [c \in Channels(r) |-> <<>>]],
                      [y \in 1 .. r.canvas[2] |-> y])
    IN  IF backing_error(r, p.dec) \/ ~p.complete THEN Missing ELSE Found(p.planes)

-----------------------------------------------------------------------------
(* What a scan promises of an image on a canvas, said pixel by pixel.         *)

PixelsOf(canvas) == (0 .. canvas[1] - 1) \X (0 .. canvas[2] - 1)
CoveredPixels(img, canvas) ==
    {q \in PixelsOf(canvas) : \A c \in DOMAIN img : img[c][q] # 0}
MeanOfPixels(img, c, S) ==
    IF S = {} THEN Whole(0) ELSE Frac(FoldSet(LAMBDA q, s : s + img[c][q], 0, S), Cardinality(S))

IsSummary(img, canvas, cells) ==
    LET covered == CoveredPixels(img, canvas)
        Home(q) == <<q[1] \div Block, q[2] \div Block>>
    IN  /\ DOMAIN cells = {Home(q) : q \in PixelsOf(canvas)}
        /\ \A k \in DOMAIN cells :
             LET all  == {q \in PixelsOf(canvas) : Home(q) = k}
                 here == covered \cap all
             IN  /\ cells[k].cov = Frac(Cardinality(here), Cardinality(all))
                 /\ \A c \in DOMAIN img :
                      LET mean == MeanOfPixels(img, c, here)
                          Gap(q) == Minus(Whole(img[c][q]), mean)
                      IN  /\ cells[k].mean[c] = mean
                          /\ here # {} => Times(cells[k].detail[c], Whole(Cardinality(here)))
                                            = SumOver(here, LAMBDA q : Times(Gap(q), Gap(q)))

(* A summary that is read has every cell of the scan at its place; a file     *)
(* that was cut short or is of the first version is refused.                  *)
IsKept(cells, canvas, file, kept) ==
    IF file = write(L8Summary(canvas, cells))
    THEN kept # Missing /\ \A k \in DOMAIN cells :
            /\ cov_at(kept[1], k[1], k[2]) = cells[k].cov
            /\ \A c \in 1 .. canvas[3] : /\ cell_at(kept[1], c - 1, k[1], k[2]) = cells[k].mean[c]
                                         /\ det_at(kept[1], c - 1, k[1], k[2]) = cells[k].detail[c]
    ELSE kept = Missing

(* What mmm info says of a file and what a scan of it finds: the same, unless *)
(* a pixel is dark in some channel only.                                      *)
IsInfo(img, canvas, s, info) ==
    \A c \in DOMAIN img :
        LET lit == {q \in PixelsOf(canvas) : img[c][q] # 0}
        IN  /\ Leq(s.nonzero_frac, info[c].lit)
            /\ info[c].mean = MeanOfPixels(img, c, lit)
            /\ lit = {} <=> info[c].range = Missing
            /\ lit = CoveredPixels(img, canvas) =>
                 /\ info[c].lit = s.nonzero_frac /\ info[c].mean = s.ch_mean[c]
                 /\ lit # {} => info[c].range[1] = <<s.ch_min[c], s.ch_max[c]>>
(* The box is the smallest around the covered pixels, and the statistics are  *)
(* those of the covered pixels.                                               *)
IsScan(img, canvas, s) ==
    LET covered == CoveredPixels(img, canvas)
        Ends(S, k) == <<Min({q[k] : q \in S}), Max({q[k] : q \in S}) + 1>>
    IN  /\ IsSummary(img, canvas, s.cells)
        /\ IF covered = {} THEN s.bbox = <<0, 0, 0, 0>>
           ELSE <<s.bbox[1], s.bbox[3]>> = Ends(covered, 1)
                  /\ <<s.bbox[2], s.bbox[4]>> = Ends(covered, 2)
        /\ s.nonzero_frac = Frac(Cardinality(covered), canvas[1] * canvas[2])
        /\ \A c \in DOMAIN img :
             /\ s.ch_mean[c] = MeanOfPixels(img, c, covered)
             /\ covered # {} => /\ s.ch_min[c] = Min({img[c][q] : q \in covered})
                                /\ s.ch_max[c] = Max({img[c][q] : q \in covered})
=============================================================================

------------------------------ MODULE Kernels -------------------------------
(* The grid algorithms of mmm-core one by one, each on the inputs a task      *)
(* names and with its result kept in work: the overlap graph and the distance *)
(* maps, the star masks, the seams and the owner map, the base fill, the      *)
(* ramps, the pyramid on a strip, and the fits of photometry, surfaces and    *)
(* flatten in the order analyze and blend run them.  A task is chosen once.   *)
EXTENDS BlendGrids, Fits, Pyramid, Reports, Corrections

CONSTANT Tasks     \* the inputs to try

(* The coverage of a cell is at most full, and its other values are numbers,  *)
(* in the summaries of the panels and in the planes to fill.  On the strip    *)
(* every covered cell has an owner, and owners cover what they own, as        *)
(* OwnersHavePixels says of the maps.                                         *)
Summary == [cov : [Cells -> 0 .. Full], det : [Cells -> Int], mean : [Cells -> Int],
            gain : Int, off : Int, surf : [Cells -> Int]]
ASSUME KernelsAssumption ==
    \A t \in Tasks :
        /\ t.kind = "graph" => t.covs \in Seq([Cells -> 0 .. Full])
        /\ t.kind \in {"seam", "owner"} => t.panels \in Seq(Summary)
        /\ t.kind = "seam" => Len(t.panels) = 2
        /\ t.kind = "fill" => t.val \in [Cells -> Int]
        /\ t.kind = "strip" =>
              /\ t.covs \in Seq(SUBSET Line(0)) /\ t.level \in Int /\ t.beyond \in Int
              /\ t.owner \in [Line(0) -> 0 .. Len(t.covs)]
              /\ \A x \in Line(0) :
                   /\ (\E p \in DOMAIN t.covs : x \in t.covs[p]) => t.owner[x] # 0
                   /\ t.owner[x] # 0 => x \in t.covs[t.owner[x]]

VARIABLES task, work

TaskInit == task \in Tasks /\ work = <<>>

(* The next result of a task of this kind, after those named before.          *)
Step_(kind, done) == task.kind = kind /\ DOMAIN work = done /\ UNCHANGED task
Fresh(kind) == Step_(kind, {})
Gets(results) ==
    work' = [name \in DOMAIN results \cup DOMAIN work |->
                IF name \in DOMAIN results THEN results[name] ELSE work[name]]

-----------------------------------------------------------------------------
(* overlap.rs                                                                 *)
Graph == /\ Fresh("graph")
         /\ Gets([edges |-> build(task.covs),
                  dists |-> [p \in DOMAIN task.covs |-> distance_map(task.covs[p])]])
Groups == /\ Step_("graph", {"edges", "dists"})
          /\ Gets([groups |-> components(Len(task.covs), work.edges)])

(* seam.rs                                                                    *)
MaskStars == Fresh("mask") /\ Gets([mask |-> star_mask(task.panel)])
Split == Step_("mask", {"mask"}) /\ Gets([parts |-> split_mask_components(work.mask)])
Costs == /\ Fresh("seam")
         /\ \E e \in build([p \in 1 .. 2 |-> task.panels[p].cov]) :
               Gets([edge |-> e, cost |-> CellCosts(task.panels, task.masks, e)])
Seam == /\ Step_("seam", {"edge", "cost"})
        /\ Gets([path |-> SeamPath(work.cost, work.edge)])
Owners == /\ Fresh("owner")
          /\ Gets([owner |-> compute_owner_map(task.panels,
                        build([p \in DOMAIN task.panels |-> task.panels[p].cov]))])

(* blend.rs and pyramid.rs                                                    *)
Fill == /\ Fresh("fill")
        /\ Gets([out |-> suppress_stars_in_base(task.val, task.cov, task.mask)])
Transition == /\ Fresh("ramps")
              /\ Gets([hard  |-> hard(task.owner, task.compact),
                       ramps |-> ramps(task.owner, task.structure, Len(task.compact))])
Merge == /\ Fresh("strip")
         /\ Gets([out |-> pyramid_base_planes(task.covs,
                      [p \in DOMAIN task.covs |-> [x \in Line(0) |->
                           IF x \in ReachOf(task.covs[p]) THEN task.level ELSE task.beyond]],
                      task.owner)])

(* photometry.rs and surfaces.rs                                              *)
FitLine == Fresh("line") /\ Gets([kept |-> KeptCells(task.x, task.y)])
Detrend == /\ Fresh("gain")
           /\ \E px \in {PlaneOf(task.edge, task.x, DOMAIN task.x)},
                 py \in {PlaneOf(task.edge, task.y, DOMAIN task.y)} :
                Gets([rx |-> Detrended(task.edge, task.x, DOMAIN task.x, px),
                      ry |-> Detrended(task.edge, task.y, DOMAIN task.y, py)])
MeasureGain == /\ Step_("gain", {"rx", "ry"})
               /\ Gets([moments |-> MomentsOf(work.rx, work.ry, DOMAIN task.x)])
FitEdges ==
    /\ Fresh("levels")
    /\ LET edges == build([p \in DOMAIN task.panels |-> task.panels[p].cov])
       IN  Gets([edges |-> edges, fits |-> {fit_edge(task.panels, e) : e \in edges},
                 refs |-> refs_of_solve(task.panels, edges),
                 pinned |-> refs_of_surfaces(task.panels, edges)])
SolveOffsets ==
    /\ Step_("levels", {"edges", "fits", "refs", "pinned"})
    /\ Gets([offsets |-> offset_solve(work.fits, work.refs, task.gains)])
FitResiduals ==
    /\ Step_("levels", {"edges", "fits", "refs", "pinned", "offsets"})
    /\ Gets([res |-> residuals(task.panels, work.edges,
                               [gains |-> task.gains, offsets |-> work.offsets])])
FitSurfaces ==
    /\ Step_("levels", {"edges", "fits", "refs", "pinned", "offsets", "res"})
    /\ Gets([surf |-> fit_surfaces(task.panels, work.pinned, work.res)])

(* flatten.rs                                                                 *)
Weigh == /\ Fresh("flat")
         /\ Gets([dists |-> [p \in DOMAIN task.panels |-> distance_map(task.panels[p].cov)]])
MergeBackground ==
    /\ Step_("flat", {"dists"})
    /\ Gets([merged |-> [c \in Clear(task.panels, task.masks) |->
                            Merged(task.panels, work.dists, c)]])
CutBright == /\ Step_("flat", {"dists", "merged"})
             /\ Gets([bg |-> BackgroundOf(work.merged)])
FitFlatten == /\ Step_("flat", {"dists", "merged", "bg"})
              /\ Gets([plane |-> fit_flatten(task.panels, work.merged, work.bg)])

(* diag.rs and output/png.rs *)
Report ==
    /\ Step_("owner", {"owner"})
    /\ LET edges == build([p \in DOMAIN task.panels |-> task.panels[p].cov])
       IN  Gets([report |-> MosaicSummary(task.panels, edges, work.owner, task.bbox),
                 map    |-> SeamMap(task.img, work.owner, task.bbox),
                 labels |-> Labels(work.owner, task.bbox)])
Flag == Fresh("seams") /\ Gets([flagged |-> Flagged(task.deltas)])
Sink == Fresh("preview") /\ Gets([held |-> Collect(task.dims, task.bands)])
Stretch == /\ Step_("preview", {"held"}) /\ work.held # Missing
           /\ Gets([bytes |-> Preview(task.dims, work.held[1])])

(* panel_reader.rs, the scan and the copy of the planes.  A new panel has no  *)
(* session yet; any other is read on the canvas of its session, by what the   *)
(* session says of it, and its file may have been replaced since.             *)
OpenNew == Fresh("panel") /\ task.storage = "new" /\ Gets([reader |-> open_file(task.file)])
OpenPanel ==
    /\ Fresh("panel") /\ task.storage # "new"
    /\ Gets([reader |-> open_reader(task.source, [storage |-> task.storage, bbox |-> task.bbox],
                                    task.file, task.canvas)])
ScanPanel ==
    /\ Step_("panel", {"reader"}) /\ work.reader # Missing
    /\ Gets([scan |-> scan_reader(work.reader[1], task.fails)])
Reopen ==
    /\ Step_("panel", {"reader", "scan"}) /\ work.scan # Missing /\ task.storage = "new"
    /\ LET meta == [storage |-> StorageOf(sniff_format(task.file)[1]), bbox |-> work.scan[1].bbox]
       IN  Gets([again |-> open_reader("file", meta, task.file, task.canvas)])
Info == /\ Step_("panel", {"reader", "scan"}) /\ work.scan # Missing /\ task.storage = "new"
        /\ Gets([info |-> info_stats(work.reader[1])])
(* summary.rs: written by analyze, read by blend; a write can be stopped in   *)
(* the middle, and a session can be of an older version.                      *)
KeepSummary ==
    /\ Step_("panel", {"reader", "scan"}) /\ work.scan # Missing /\ task.file.kind = "crop"
    /\ LET whole == write(L8Summary(task.canvas, work.scan[1].cells))
       IN  \E file \in {whole, [whole EXCEPT !.magic = "MMM8"], [whole EXCEPT !.words = Front(@)],
                         [whole EXCEPT !.words = <<>>]} :
              Gets([file |-> file, kept |-> read(file)])
TakePlanes ==
    /\ Step_("panel", {"reader", "scan"}) /\ task.file.kind # "crop"
    /\ Gets([planes |-> reproject_from_reader(work.reader[1], task.fails)])

(* A correction as blend.rs prepares it. *)
Terms == /\ Fresh("surface")
         /\ Gets([terms |-> panel_correction_terms(task.phot, task.surfaces, 1, task.id)])
FoldFlatten == /\ Step_("surface", {"terms"})
               /\ Gets([flat |-> IF task.flat = <<>> THEN work.terms
                                 ELSE WithFlatten(task.flat, work.terms)])
CorrectCells == /\ Step_("surface", {"terms", "flat"})
                /\ Gets([cells |-> corrected_cell_means(work.flat, task.canvas, task.mean)])

SolveSystem == Fresh("system") /\ Gets([x |-> solve_dense(task.a, task.b)])

TaskNext ==
    \/ Graph \/ Groups \/ MaskStars \/ Split \/ Costs \/ Seam \/ Owners \/ Fill \/ Transition \/ Merge
    \/ FitLine \/ Detrend \/ MeasureGain \/ FitEdges \/ SolveOffsets \/ FitResiduals \/ FitSurfaces
    \/ Weigh \/ MergeBackground \/ CutBright \/ FitFlatten \/ SolveSystem
    \/ Report \/ Flag \/ Sink \/ Stretch \/ OpenNew \/ OpenPanel \/ ScanPanel \/ Reopen \/ Info \/ TakePlanes
    \/ KeepSummary \/ Terms \/ FoldFlatten \/ CorrectCells

TaskSpec == TaskInit /\ [][TaskNext]_<<task, work>>

-----------------------------------------------------------------------------
(* Properties.                                                                *)

Done(kind, name) == task.kind = kind /\ name \in DOMAIN work

(* OverlapGraph::build and components: the boxes that prefilter the pairs     *)
(* lose no shared cell, union-find groups exactly the panels that are         *)
(* connected, and the two raster passes of distance_map find the distance to  *)
(* the nearest cell that is not fully covered, in any direction.              *)
GraphIsShared ==
    Done("graph", "groups") =>
        /\ IsOverlapGraph(task.covs, work.edges)
        /\ AreComponents(Len(task.covs), work.edges, work.groups)
        /\ \A p \in DOMAIN task.covs : IsDistance(task.covs[p], work.dists[p])

(* star_mask, split_mask_components and suppress_stars_in_base: a star is     *)
(* masked as far as it is bright and connected and nothing else is, the split *)
(* into compact stars and structure never cuts a connected component in two,  *)
(* and the fill leaves trusted cells alone, gives a masked cell its layers    *)
(* reach a value among trusted ones, and one further in no more brightness    *)
(* than the background threshold, unless it keeps its own.                    *)
StarsAreWhole ==
    /\ Done("mask", "mask") => IsStarMask(task.panel, work.mask)
    /\ Done("mask", "parts") => IsSplit(work.mask, work.parts)
    /\ Done("fill", "out") => IsOnionFill(task.val, task.cov, task.mask, work.out)

(* edge_seam's dynamic program: no seam that moves by at most one cell per    *)
(* step is cheaper, and none leads over a masked star that it could go round  *)
(* for less than the penalty.                                                 *)
NoSeamIsCheaper == Done("seam", "path") => IsOptimal(work.cost, work.edge, work.path)
SeamIsCheapest ==
    /\ NoSeamIsCheaper
    /\ Done("seam", "path") => SparesStars(task.panels, task.masks, work.edge, work.path)

(* compute_owner_map: whatever seams the edges cut one after the other, the   *)
(* owner of a cell has pixels in it, and all of them if some panel has.       *)
OwnersHavePixels ==
    Done("owner", "owner") => OwnersCover(task.panels, work.owner)

(* PngSink: bands of any height in any order give the planes of the image, or *)
(* the preview is refused; the stretch of each channel keeps the order of the *)
(* pixels, no data black, white white and the median at the target, and what  *)
(* is not covered by every channel has no part in it.  Beside it, what        *)
(* diag.rs reports of the owner map and its seams is so, as is the list of    *)
(* seams the worker flags in its report.                                      *)
PreviewShowsTheImage ==
    /\ Done("preview", "held") =>
          IF task.fits THEN work.held = Found(Planar(task.img, Canvas(task.dims)))
          ELSE work.held = Missing
    /\ Done("preview", "bytes") => ShowsImage(task.img, work.bytes)
    /\ Done("owner", "report") =>
          /\ IsReport(task.panels, build([p \in DOMAIN task.panels |-> task.panels[p].cov]),
                      work.owner, task.bbox, work.report)
          /\ IsSeamMap(work.owner, task.bbox, work.map, work.labels)
    /\ Done("seams", "flagged") => IsFlagged(task.deltas, work.flagged)

(* detail_transition_maps: in every cell the ramp of the owner leads and all  *)
(* others trail, across zones of different width; and a compact star that     *)
(* touches a seam is locked to one panel on both sides.                       *)
RampsFollowOwners ==
    Done("ramps", "ramps") =>
        OwnerLeads(task.owner, work.ramps) /\ StarsLocked(task.owner, task.compact, work.hard)

(* pyramid_base_planes: panels that agree on a flat base blend to that base,  *)
(* whatever lies beyond their reach and wherever their borders are.           *)
FlatBaseStaysFlat ==
    Done("strip", "out") => FlatStaysFlat(task.covs, task.level, work.out)

(* photometry::solve and fit_surfaces, end to end: the sigma clip of fit_edge *)
(* drops a few outliers and never an overlap; the gain is that of the shared  *)
(* structure, with a gradient over either panel or both; solve_dense solves   *)
(* what it does not refuse and refuses only singular systems; the offsets     *)
(* exist for every graph of overlaps and balance the levels at every panel,   *)
(* the gauge panels with their replaced rows included; and the surfaces pin   *)
(* the same panels, by their own copy of the gauge, and bring no overlap sum  *)
(* further apart.                                                             *)
LevelsComeTogether ==
    /\ Done("line", "kept") => KeepsMost(task.x, task.y, work.kept)
    /\ Done("gain", "moments") => GainIsOfStructure(task.g, task.structure, work.moments)
    /\ Done("system", "x") => Solves(task.a, task.b, work.x)
    /\ Done("levels", "offsets") =>
          LevelsBalance(work.fits, work.refs, task.gains, work.offsets)
    /\ Done("levels", "surf") => NoWorse(work.refs, work.res, work.surf)

(* fit_flatten with apply_to_surf: a plane under a mosaic with masked stars   *)
(* is taken out of every panel, and the central level stays; and the seams,   *)
(* the cells and the rows of a blend are corrected alike, whatever tables the *)
(* session has and whatever order its surfaces and its flatten are of.        *)
FlattenTakesThePlane ==
    /\ Done("flat", "plane") => Flattens(task.panels, task.masks, task.plane, work.plane)
    /\ Done("surface", "cells") => OneCorrection(task, work.flat, work.cells)

(* PanelReader and scan_reader: whatever storage a panel has, a file that is  *)
(* not what the session says is refused, and one that is opens for a blend as *)
(* it did for the scan; a scan has every row or ends with an error, also when *)
(* a band fails once and decodes at the next row; the summary made row by row *)
(* is that of the image, cell by cell, partial cells at the border of the     *)
(* canvas and the box of a cropped cache included, also after it went through *)
(* its file, of which nothing less is accepted; and mmm info tells of a file  *)
(* what the scan finds.                                                       *)
FailsAt == task.file.kind = "ipc" /\ \E y \in task.fails : y % BandRows = 0
ScanIsThePanel ==
    /\ Done("panel", "reader") => (work.reader = Missing <=> ~task.good)
    /\ Done("panel", "info") => IsInfo(task.img, task.canvas, work.scan[1], work.info)
    /\ Done("panel", "again") => work.again = work.reader
    /\ Done("panel", "scan") =>
          IF FailsAt THEN work.scan = Missing
          ELSE work.scan # Missing /\ IsScan(task.img, task.canvas, work.scan[1])
    /\ Done("panel", "kept") => IsKept(work.scan[1].cells, task.canvas, work.file, work.kept)
    /\ Done("panel", "planes") =>
          IF FailsAt THEN work.planes = Missing ELSE work.planes = Found(task.img)
=============================================================================

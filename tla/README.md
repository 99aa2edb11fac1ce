# Mega Merge Mosaic: a verification development

TLA+ modules, TLC runs and TLAPS proofs about the mosaicking engine of this
repository: the Rust core (`crates/mmm-core`), the worker process
(`crates/mmm-ipc-worker`), the command line (`crates/mmm`) and the PixInsight
module with its C++ host library (`integration/pixinsight`). Every definition is
translated from the source; `PROJECT.json` names the lines behind each one.

Contents: [1 the system](#1-the-system), [2 the modules](#2-the-modules), [3 the
runs](#3-the-runs), [4 fairness](#4-fairness), [5 proofs](#5-proofs), [6 where
code and documents differ](#6-where-code-and-documents-differ), [7 not
modelled](#7-what-is-not-modelled), [8 plan](#8-plan).

## 1 The system

A job merges overlapping sky panels into one mosaic. *Analyze* reads every panel
once (registered canvases as they are, plate-solved panels through a
reprojection onto a frame), keeps a summary of 8 x 8 pixel cells per panel,
builds the overlap graph, and solves for gains, offsets and, on request,
residual surfaces; it leaves everything in a *session directory*. *Blend* reads
the directory, finds star masks, seams and transition ramps on the cells, and
composites the mosaic band by band into *sinks*. Several groups of panels can
share one *reference frame*, so that their mosaics lie on one grid. Three front
ends drive this: the command line, in one process; the worker, which is driven
over two pipes and one shared-memory segment; and the PixInsight module, which
starts that worker, asks it for frames and serves its pixels.

```
 PixInsight process                                worker process
 +---------------------------------+   stdin      +----------------------------------+
 | DriveHost (MmmExecution.cpp)    |  Init,       | run() (mmm-ipc-worker/main.rs)   |
 |   Host::run  --- serve loop ----+--replies,--->|   reader thread                  |
 |   Host::cancel (any thread)     |  Cancel      |   analyze -> blend (rayon pool)  |
 |   window, progress callbacks    |   stdout     |     PanelReader -> BandCache     |
 |                                 |<-requests,---+--------> HostLink <- ShmRowSink  |
 |        slots of one segment  <==== shared memory ====>  input/output slot pools   |
 +---------------------------------+  Begin,Done  +----------------------------------+
                                                      |  session directory, decoded/
```

| Component (source) | State | Operations | What is hard | What makes it correct |
|---|---|---|---|---|
| Worker link (`ipc/client.rs`) | two slot pools, pending replies, two flags, condition variables | `request_band`, `send_output_band`, reader thread, cancel, shutdown | any number of threads, lost wakeups, a slot given back while the host fills it | no slot lost or shared, every reply reaches its call, every call returns |
| Frame codec (`ipc/protocol.rs`) | bytes of a frame | `write_frame`, `read_message` | short reads, several writers, a pipe cut anywhere | a channel of whole messages with an honest end |
| Host (`mmm_host.cpp`) | child, pipes, segment, `cancel_requested_`, `begun_`, output size | `run`, `cancel`, validation of every frame | cancel from another thread, broken pipes, a worker that skews | nothing left behind, the right outcome, no access outside a slot |
| Worker (`mmm-ipc-worker/main.rs`) | the link, exit code | Init, probes, analyze, blend, reports, Done or Error | Cancel in every stage, a host that vanishes | ends, and says why |
| Module driver (`MmmExecution.cpp`) | hidden window, groups | `DriveHost`, slot sizing, shared reference | a job that ends half way; decisions made before the worker reads a panel | a half-painted image is never shown; slots fit what the worker will send |
| Reference and frames (`reference.rs`, `align.rs`, `analyze.rs`) | a frame | `derive`, `choose_frame`, checks, `reproject` | three places classify the same set | they agree; nothing is clipped; the cards of an output are true |
| Band cache (`band_cache.rs`) | one band per pool thread, a latched error | `row` | borrowed rows above a refilled buffer, failed fetches that look like holes | a row is the row asked for; success means everything was read |
| Panel reader, scan, summary (`panel_reader.rs`, `analyze.rs`, `summary.rs`) | the backing of a panel, cell sums | `open`, `row`, `scan_reader`, `read`, `write` | five storages, crops, partial cells at the border | the summary is that of the image; nothing unfit is opened |
| Session directory (`session.rs`, `analyze.rs`) | artifacts, written in place | the steps of analyze; the loads of blend | kills between two writes, files of an earlier run | `session.json` comes last; a blend sees one run |
| Decode cache (`decoded.rs`) | files `<key>.decoded`, temporaries, one mutex per process | `decoded_planes_in`, `decode_locked` | threads, processes, kills, recycled pids, re-saved panels | a mapped file is whole and is the panel that was opened |
| Overlap graph (`overlap.rs`) | none | `build`, `components`, `distance_map` | a prefilter, two raster passes | equal to the plain definition |
| Photometry, surfaces, flatten | normal equations | `fit_edge`, `offset_solve`, `fit_surfaces`, `fit_flatten`, `solve_dense` | few cells, gradients, components without a gauge | levels come together; one correction in all the places that evaluate it |
| Seams and pyramid (`seam.rs`, `pyramid.rs`) | an owner map; levels | masks, Voronoi, seam paths, masked pyramids | seams that relabel one map in turn; borders of the coverage | owners have pixels; seams are cheapest; flat stays flat |
| Blend engine (`blend.rs`, `output/mod.rs`) | maps, bands, sinks | `blend_*`, `Tee` | rows out of order, crops, fall-backs of a pixel, a sink that fails | the sinks hold the crop, between the panels it is made of |
| Diagnostics and preview (`diag.rs`, `output/png.rs`, `main.rs report`) | none | seam deltas, maps, the stretch | pixels without data | what they show is so |
| GUI, formats, projections | widgets, bytes, floating point | — | — | — |

`PROJECT.json` lists the components with the degree to which each is modelled,
and under `hazards` what is hard to test, at the line where it bites, with the
properties that would notice.

## 2 The modules

| Module | Models | Builds on |
|---|---|---|
| `BandService` | what the link promises its callers: a call returns Ok only on a good answer to that very call, and an error only when the host refused it or the link stopped | |
| `HostLink` | `ipc/client.rs` with its threads, and the host as one that serves a request at a time through the segment | refines `BandService` |
| `MessageChannel` | what the framing promises: whole messages in order, then a clean end or an error | |
| `Codec` | `protocol.rs` and the mutex of `HostLink::send`: bytes, short reads, ends anywhere | refines `MessageChannel` |
| `RowStream` | what a job promises the user: a window, its bands from first to last, shown complete or closed | |
| `IpcRun` | `DriveHost`, `Host::run`, `Host::cancel`, both pipes, the worker's `run()` from spawn to reap | refines `RowStream` |
| `HostGuard` | slot sizing, the worker's band arithmetic, and the host's checks of every number | |
| `BandCache` | `BandCache::row` under scan, reprojection and blend | |
| `SessionStore` | the artifacts of analyze in order, and what blend loads | |
| `DecodedCache` | `decoded_planes_in` across threads, processes and kills | |
| `Frames` | `reference.rs`, the frame choice of `align.rs`, the checks of `analyze.rs`, on a sky with one axis | |
| `Pipeline` | a whole job: `mmm batch`, `mmm frame` with `analyze` and `blend`, and `run_blend` of the module over files or views, group by group | `Frames` |
| `Grid`, `Overlap`, `Seams`, `BlendGrids` | grids of cells; `overlap.rs`; `seam.rs`; the maps of `blend.rs` | one on another |
| `Pyramid` | `pyramid.rs` and `pyramid_base_planes`, on a strip | |
| `Rationals`, `Fits` | exact quotients with `solve_dense`; `photometry.rs`, `surfaces.rs`, `flatten.rs` | `Overlap` |
| `Scan` | `panel_reader.rs`, `scan_reader`, `summary.rs`, the choice of a decoder, `mmm info --stats` | `Rationals` |
| `Corrections` | the forms in which a panel's correction is evaluated | `Grid`, `Scan` |
| `Reports` | the PNG preview, `diag.rs`, the flagged seams of `mmm report` | `Seams`, `Scan` |
| `Kernels` | the above as one state machine over tasks: a task goes through the functions in the order the program calls them | all of these |
| `Compositor` | a blend from its session to two sinks behind a `Tee` | `BlendGrids` |
| `MC*` | the small instances; `HostLink` and `SessionStore` need no more than a `.cfg` | |
| `HostLinkProofs`, `IpcRunProofs`, `BandCacheProofs`, `PipelineProofs` | theorems, see section 5 | their component |
| `WireProofs` | theorems about what crosses the process border | `Codec`, `HostGuard` |
| `DirectoryProofs` | theorems about the files of a session and of the decode cache | `SessionStore`, `DecodedCache` |
| `PyramidProofs` | lemmas about folds and sums, and the theorem about the pyramid | `Kernels` |
| `BlendProofs` | theorems about the grids and the blend drawn from them | `PyramidProofs`, `Compositor` |

Operators marked `mutant` in a comment are not part of a specification: each is
a plausible mistake in the code, and exchanging it for the definition it varies
makes the property named in `PROJECT.json` fail.

### HostLink

State: `pc[t]` is the place of a thread inside `request_band` or
`send_output_band`; `free` are the two `SlotPool`s, `pending` the map of
`ReplySlot`s, `cancelled` and `shutdown` the flags of the link, `toHost` and
`toWorker` the pipes, `shm` the content of each slot as the pair of processes
sees it, `hostCur` the request the host is at. A thread's step is what it does
between two points where another thread can be seen to interfere: take a slot
(`acquire`, `poolDoze`, `poolSleep`), insert into the table, write the frame,
check and sleep (`wait`, `doze`, `asleep`), read the slot, give it back. Mutexes
around a check and a `Condvar::wait` are kept (`PoolMutexFree`,
`SlotMutexFree`): they are what prevents a lost wakeup, and the mutants that
drop them are found. The reader thread's three reactions (a reply, Cancel, end
of pipe) are split where it takes and releases locks. The host may answer,
refuse, exit or die at any moment. Calls are numbered instead of carrying
request ids of 32 bits.

### Codec

Bytes are digits of a small base; an integer has two or three of them in the
place of four and eight, so that carries and both ends of a range occur. Threads
take the mutex, write their frame byte by byte into a pipe with room for two,
and release it; the reader is `read_tag`, `read_exact`, `read_payload` and
`decode`, one byte at a time. A JSON payload is a value that is good or
`Garbled`. The process exits when all is sent, or dies at any byte.

### IpcRun

`hpc` walks through `Host::run` inside `DriveHost`, `cpc` through one
`Host::cancel` on whatever thread calls it, `wpc` through the worker's `run()`.
Requests of the pool are ids in `open`; the link's own interleavings are
HostLink's. `Throw` is the `catch (...)` of `run()`; a fault the environment may
cause (`Faults`) is taken by `Failing`, which also records `trouble`, so that
properties can say that a fault has a cause. Writing to a worker that is gone
throws at a reply, and is swallowed for Init and Cancel, as in the code. The
worker aborts where the code panics (`panic = "abort"`).

### HostGuard

One job of any mode with concrete geometry. While `honest`, requests, Begin and
output bands are the ones `BandCache`, `blend_full` and `ShmRowSink` compute; at
any moment the worker may turn `Stray` and send any numbers of `Wire` in any
order. `BandRequest`, `Begin` and `OutputBand` are the host's handlers, check by
check; `touched` is the byte range of the segment the last frame made the host
access.

### BandCache

A buffer holds tags `<<channel, row>>`, so a property can say which row a slice
shows. The producer may fail `MaxFailures` times. What follows a failure differs
per stage and is modelled per stage: the scan skips to the next row and asks for
the latched error at the end, the reprojection leaves both loops, the blend
panics. Two threads of one pool never share a cell (`current_thread_index`).

### SessionStore

`dir[f]` is the run whose content file `f` has, `Absent` or `Torn`: artifacts
are created by truncation and written in place, in the order of
`finish_session`, and a run may stop between any two steps. A blend loads file
by file, beside or after a run. The operating system may refuse to remove an old
`surfaces.json`; the code goes on as if it were gone, and `kept` remembers it.

### DecodedCache

Threads of several processes open the panel (`src` counts how often it was
saved), compute the key from a *second* look at the path, look for the file,
queue for the process's mutex, look again, create the temporary, decode, rename.
`Kill` restarts a process with another, possibly recycled, pid; `Resave`
replaces the panel. `sums` are the versions of the panel whose pixel block
carries a checksum, any subset of them; `mixed` remembers the keys that were
computed, without a checksum, from a path that had been replaced since the panel
was opened.

### Frames and Pipeline

The sky has one axis, a position is a number of steps, `Sub` to a pixel, so that
panels lie at distances that are not whole pixels. A panel is what its header
says (width, channels, linear solution, whether it yields a model, whether it
opens) and the set of its pixels with data. `Frames` is what `reference.rs`,
`align.rs` and `analyze.rs` compute from that: a derived reference, a chosen
frame, the two checks against an imposed frame, the pixels of a reprojection.

`Pipeline` runs a job through the stages `derive`, `size`, `analyze`, `scan`,
`reproject` and `blend`, group after group. The same question, registered or
solved, is answered in three places from different evidence: by the derivation
of a reference from the headers of all groups, by the host from the views'
geometry and a probe (`ViewsAreSolved`), and by analyze from the headers and
then from the pixels. The model keeps all three and the properties say that they
never come apart. `skewed` is a worker of another version, which answers no
probe and refuses Init; `Stop` is a failed read or write, or an abort, at any
step.

### Grid, Overlap, Seams, BlendGrids, Pyramid, Fits, Corrections, Scan, Reports, Kernels

Pure algorithms, as operators, functions and folds in the order of the loops
they stand for, each next to what it should compute, stated without an
algorithm: reachability for union-find and flood fill, all-paths minimum for the
dynamic program, the nearest uncovered cell for two raster passes, balance at
every panel for the elimination. Data are small integers and exact quotients in
the place of `f32`: what is checked is the structure (which cells, which order,
which fall-back, which index), not rounding. Constants of the code that only
scale (thresholds, radii, weights) are CONSTANTS named after them.

`Kernels` gives these functions a state: a task from `Tasks` is taken, and each
action computes one result from the results before it, as the program does, so
that for instance `seam` sees the masks `star_mask` made and the cost plane
`CellCosts` made from them.

### Compositor

`Mask` to `Own` to `Transitions` to `Open` are the preparations, `Begin` calls
the sinks, `DrawRow` draws one row of the current band (rows of a band in any
order, as the pool draws them), `Band` hands the band to the `Tee`, `Finish`
ends. A pixel of each mode is the chain of weights and fall-backs of
`blend_twoband_impl`, `blend_full` or `blend_l8`; it is a function of the blend
and its maps alone, never of the pool's progress. Every call of a sink may fail.

## 3 The runs

| Run | Shows |
|---|---|
| `link` | `HostLink` implements `BandService`; slots are accounted for, no two requests the host may still serve share one, bands and output rows reach the call they belong to |
| `link_live` | every call returns |
| `codec` | the byte streams implement `MessageChannel`; the end of the other process is always noticed |
| `job` | however a job goes: nothing left behind; its outcome is true (a fault has a cause, Done wins over a late cancel, an early cancel is honoured); what the user sees is a `RowStream`; `run()` returns; an orphaned worker exits |
| `guard` | no number a worker sends takes the host outside the slot or the image, and none of the checks is in the way of honest work |
| `cache` | rows held are the rows asked for, success means all was read, one fetch per band, a stage ends |
| `session` | `session.json` last, a directory of one run is loaded whole or refused, a blend that no run disturbs uses the files of one run, but for a `surfaces.json` whose removal was refused |
| `decoded` | a mapped file is whole and is the opened panel (without a block checksum: unless a key was computed from a replaced path), one decode at a time and at most one per process and key, the mutex is never abandoned, no litter without a kill |
| `pipeline` | outputs of a shared frame lie on its grid; the cards of an output agree with the sky its panels show; no pixel the kernel can reach is lost between header and output; slots are wide enough for the mosaic the worker will choose; a set that is what the user says it is ends with outputs |
| `pipeline_channels` | a statement of a comment that the code does not keep, see section 6 |
| `kernels` | each algorithm against its definition, and chains of them against what the program relies on, see below |
| `compose` | what reaches the two sinks is the crop, row for row, drawn from every panel that covers it, and the preview never gets ahead of the file; a pixel lies between the corrected pixels of the panels that cover it wherever their bases cancel, and a pixel no panel covers is no data |

What `kernels` says, property by property: `GraphIsShared` (edges, boxes,
components, distances), `StarsAreWhole` (the mask is the flood from the
seeds over bright cells and nothing else, a split cuts no component, the fill of
the base gives a masked cell its layers reach a value among trusted ones; a
masked cell further in may keep its own, and gets no other above the background),
`SeamIsCheapest` (no monotone seam is cheaper, and no star is cut where a way
round over shared, unstarred cells costs less than the penalty on one starred
cell), `OwnersHavePixels` (after any sequence of seams),
`RampsFollowOwners`, `FlatBaseStaysFlat` (partial coverage and odd sizes
included), `LevelsComeTogether` (clip, gain, elimination, offsets and surfaces,
the gauges of each component), `FlattenTakesThePlane` (and one correction in all
four forms it is evaluated in), `ScanIsThePanel` (every storage, crops, files
that do not fit, failed bands, the summary through its file),
`PreviewShowsTheImage` (and the seam statistics, the seam map, its labels and the
flagged seams tell of the owner map they were made from).

### Bounds, and why they are enough

* `link`: two threads, two input slots and one output slot, two calls, one
  Cancel, one wakeup without cause, two frames per pipe. Two threads over one
  output slot compete; over two input slots one can hold a slot the host still
  fills for a call given up. A third thread adds only another sleeper in the
  same wait set; `notify_all` treats sleepers alike. The proofs of section 5
  have no such bound.
* `link_live`: one slot per pool and one frame per pipe, so that threads starve
  each other and writes block. No spurious wakeup: it would only be another way
  to wake.
* `codec`: two threads with up to two messages of every kind and direction,
  empty payloads, one too long for its length field, integers at both ends of
  their ranges, a pipe of two bytes, so that every field is cut by a short read.
* `job`: two output bands (first and last differ), two requests in flight, three
  requests in all (one per stage and one more), two calls of `cancel()` (the
  second must change nothing), every fault of the environment once each.
* `guard`: panels of one and of two sizes, frames wider and narrower than every
  panel, band heights that divide the panel and that do not, a band taller than
  the panel; stray numbers 0, 1, 2 and 6, which lie inside, on and beyond each
  limit.
* `cache`: seven rows in bands of three, so that the last band is short and an
  output band straddles two input bands; three channels; two threads; two
  failures.
* `session`: two runs of up to two panels. A third run finds a directory that
  two runs can also leave. Any removal of `surfaces.json` may be refused. The
  code ignores what `remove_file` answers, so `QuietBlendIsPure` excepts that
  file in that case, and no other; without the exception TLC finds it violated
  (section 6).
* `decoded`: two threads of one process and one of another, two re-saves, one
  kill, one failing decode, pids that recycle, and every choice of the versions
  that have a checksum of their pixel block, which the key then contains.
  `MappedIsOpened` excepts a version without one, under a key in `mixed`;
  without the exception TLC finds it violated (section 6). The two threads of
  one process are alike in the specification, and no property names one, so they
  are a symmetry set.
* `pipeline`: thirteen panels, raw ones of two widths at fractional distances
  and canvases whose solutions agree, agree only with one another's neighbour,
  or are absent, with two channel counts, sparse and full, and one unreadable;
  all pairs of them as one group, all pairs and singles with nine second groups;
  every input setting and extent. Two panels are enough to differ in each
  respect; a second group is enough to disagree with a first one's frame.
* `kernels`: grids of 3 x 3 cells (strips of 6 for the pyramid), two or three
  panels, all coverages or values over the cells that vary. Three columns hold a
  cell with neighbours on all sides, a hole, a corner, a cut star; three panels
  a chain and two components. Tasks of one kind vary everything their algorithm
  looks at and keep the rest fixed. `MaskCostFactor` is 5 here and 100 in the
  code, which looks for a seam only in bands of 64 cells or more: bands of three
  cells with a factor of 100 would make every way round worth it. With 5 both
  kinds of seam occur, ones that go round a star and ones that cut it because the
  way round costs more than the penalty.
* `compose`: 4 x 3 pixels, two panels with partly covered rims, bands of one and
  two rows (which divide the height and do not), a crop that starts at neither
  edge, every mode, each sink failing at each call.

`CHECK_DEADLOCK FALSE` is set where the modelled system comes to a regular end:
calls are used up (`link_live`), messages are read (`codec`), the job is over
(`job`, `pipeline`, `pipeline_channels`), the host killed the worker or has Done
(`guard`), the stage ended (`cache`), every open is answered (`decoded`), the
task or the blend is done (`kernels`, `compose`). That nobody gets stuck
*before* the end is what `RunReturns`, `OrphanExits`, `StageEnds`,
`EveryCallReturns` and `EndIsNoticed` state; `DecodedInTurn` says that the mutex
of the decode cache is always handed on. `link` and `session` are checked for
deadlock.

## 4 Fairness

* `HostLink!FairSpec`: weak fairness of each worker thread and of the reader
  (the operating system schedules runnable threads); of the host's serve loop
  *until it wrote a Cancel*, since afterwards it may wait for the
  acknowledgement and serve nothing more; and of the host closing its pipe after
  that. Nothing is assumed about who gets a slot: threads may overtake each
  other, but calls are finite. A thread whose write blocks on a full pipe of a
  hung host is excepted by name (`WriteBlocked`): no code on the worker's side
  could get it out.
* `Codec!PipeSpec`: weak fairness of the reader, of the writers together, and of the
  exit when everything is sent. Nobody is obliged to die.
* `IpcRun!FairSpec`: weak fairness of the host's steps, of a `cancel()` that has
  begun, of the worker's steps and of its reader. No callback is obliged to
  cancel, no fault is obliged to happen.
* `BandCache!Spec`: weak fairness of the stage as a whole.
* The other specifications have only safety properties and no fairness.

## 5 Proofs

Checked by TLAPS for every value of the constants, under the named assumptions
of each module (finite positive bounds, 0 not being a slot, well-formed jobs).

| Theorem | Module | Argument |
|---|---|---|
| `TypeCorrect`, `SlotsAlwaysAccounted` | `HostLinkProofs` | `SlotInv`: a thread holds a slot exactly in the places between acquire and release (`InCall`), a slot in the pool is held by nobody (`FreeInPool`), and two threads never hold the same one |
| `SlotNeverShared` | `HostLinkProofs` | `RequestInv`: whose the requests in the host's hands are, see below |
| `PixelsAlwaysIntact` | `HostLinkProofs` | `PixelInv`: what was promised of a call stays true until it is taken, see below |
| `LinkIsBandService` | `HostLinkProofs` | a simulation, step by step: `Call` opens, `HostAnswer` answers, leaving returns, all else stops or stutters |
| `NothingIsLeftBehind` | `IpcRunProofs` | `JobInv`: what is still open at each place of `Host::run`, on every path, `Throw` included |
| `OutcomeAlwaysTrue`, `JobIsRowStream` | `IpcRunProofs` | `IInv`: what the two pipes hold and what the worker then waits for, see below |
| `HostStaysInSlot`, `HostStaysInImage`, `HonestAlwaysServed`, `DoneAlwaysComplete` | `WireProofs` | `MemoryInv` holds whatever is sent; `HonestInv` holds while the worker is honest, and rests on `PartOfTarget`: what an honest worker begins fits the frame or canvas the slots were sized for. Bounds on products and quotients are lemmas of their own |
| `ReadsAlwaysTrue` | `BandCacheProofs` | `IInv`: what a cell and a held slice say of each other, see below |
| `SessionAlwaysLast` | `DirectoryProofs` | a run of `stage` s has written the files of all stages before s except those in `todo` and `open` (`Progress`), and no file is of a run to come (`NoneFromTheFuture`) |
| `FirstRunAllOrNothing` | `DirectoryProofs` | what a blend got from a directory of one run are that run's files (`FirstBlend`) |
| `QuietBlendAlwaysPure` | `DirectoryProofs` | between runs, a directory with a `session.json` is that of the run the file is of (`Settled`), but for a `surfaces.json` that could not be removed (`kept`), so a blend that no run overlaps loads one run (`QuietBlend`) |
| `MappedAlwaysOpened`, `CacheAlwaysClean`, `AlwaysDecodedInTurn` | `DirectoryProofs` | the holder of a process's lock is its one thread on the way through (`LockInv`); a temporary bears the pid of the process that writes it, and living processes have different pids (`TmpInv`, `PidInv`); a file under a key is whole and of the version the key names, unless that key was computed from a replaced path without a checksum (`CacheInv`) |
| `SlotsAlwaysFit` | `PipelineProofs` | `SlotInv`: from the sizing to the session, the slot holds a row of every panel and of every frame the worker may still choose; `PathInv`: panels the user calls registered never take the solved path. Both rest on `DerivedFrame` (whatever is derived has a width) and on the two sizing lemmas `FilesSlot` and `ViewsSlot` |
| `OutputsAlwaysShareTheGrid`, `NothingIsEverClipped`, `CardsAlwaysTellTheTruth` | `PipelineProofs` | `GridInv`: from which panels, on what frame and with which crop every session and output was made; with the geometry of frames, see below |
| `MessagesSurvive` | `WireProofs` | a number is its digits (`NumbersSurvive`), the fields of a frame lie one behind another (`LayoutsArePacked`), a tag names one layout (`TagsDiffer`) |
| `PipeIsChannel` | `WireProofs` | `PipeInv`: the bytes written are the frames begun so far, the last perhaps cut short; a simulation, see below |
| `SinksAlwaysHoldTheCrop` | `BlendProofs` | `IInv`: which rows the sinks hold at each stage, and that they are rows of the mosaic, see below |
| `PixelsAlwaysStayBetween` | `BlendProofs` | `Mapped`: from which step on the maps are there, as planes of numbers; the bases of a pixel cancel, and what is left is a mean of corrected values, see below |
| `GraphAlwaysShared` | `BlendProofs` | `ChamferIsOctile` (two raster passes give the exact octile distance), `GraphIsOverlap` and `ComponentsAreReached` (union-find gives the sets reachable from one another, by their least member) |
| `StarsAlwaysWhole` | `BlendProofs` | the worklist of the flood ends in the least set that is closed (`LeastIsFlood`), which lies within seeds and bright cells, a split is a union of components (`SplitCutsNone`), the onion layers reach every masked cell and stay between the values around (`OnionFill`) |
| `RampsAlwaysFollowOwners` | `BlendProofs` | a cell lies inside what a panel owns or outside, and only that one of the two distances to the border is not 0, so the ramp is on that side of the half, whatever its width (`RampOf`, `OwnersLead`) |
| `OwnersAlwaysHavePixels` | `BlendProofs` | a covered cell has a panel ahead of all others (`OneIsAhead`, `VoronoiCovers`), and no seam of the graph takes a cell to a panel without pixels there (`SeamKeepsCover`) |
| `SeamsAlwaysCheapest` | `BlendProofs` | `SeamIsOptimal`: a column of the table is the least cost of a way to it (`NoneBelow`), and the way back has that cost (`WayBackCosts`) |
| `StarsAlwaysSpared` | `BlendProofs` | two seams compare as their costs do in the columns where they differ (`PartsCompare`); there the cheapest pays for every cell it touches (`TouchedIsPaid`), so the penalty if it touches a star, and the way round pays only plain costs (`SameSides`): if these are below the penalty the cheapest is not the cheapest (`CheapestSpares`) |
| `FlatAlwaysFlat` | `PyramidProofs` | where a mask has weight the data have, so levels are those of the flat plane; and every cell has weight where the collapse needs it, see below |
| `GoodSetsAlwaysAccepted` | `PipelineProofs` | `GoodInv`: a set that is what the user says it is takes the path the user named, in each of the three places that decide it |

**The link.** `SlotNeverShared` needs thought. A cancelled thread gives its
input slot back although the host may still be filling it. The slot is safe not
because nobody can take it, but because nobody who takes it sends. The inductive
invariant says so: a request in the host's hands belongs to a thread that still
waits and holds its slot, unless the link is cancelled (`Owned`); a thread that
is past the check of the flag and has not sent yet holds a slot no such request
names (`SlotUnsent`), and one that acquires a slot later finds the flag raised;
ids of requests in flight differ (`Distinct`), are never those of replies on
their way or of threads about to send (`Fresh`); and a link that shut down has a
host with nothing in its hands (`Closed`).

Pixels are more than slots: a band may be in the right slot and belong to
another call. `PixelInv` says that a call, the thread inside it and its request
id belong together (`CallsApart`, `IdsApart`, `Belongs`), so that a reply on its
way to a thread says what the host decided of that thread's call (`Lettered`,
`Judged`). Once a call is served, no request the host still holds names its slot
(`Alone`), so nothing can overwrite the band before it is copied (`Arrived`); an
output slot keeps its rows from the copy to the send (`Filled`). These facts are
also all that the simulation of `BandService` needs: the answer a thread returns
with is the one the host gave.

**The job.** What a job reports depends on the order of frames in two pipes.
`IInv` of `IpcRunProofs` says: request ids rise along one pipe and their replies
along the other, and every id the pool waits for is in one of them or in the
host's hands (`Queue`, `Pending`); a worker that is at some place has written
what comes before it and nothing that comes later, bands one at a time and Done
last (`Places`, `Finishing`, `Outputs`); bands the host has taken are those from
the first on, and the window appears with Begin (`Handover`, `Windowed`); a
Cancel in the pipe has been asked for (`Asking`), and one asked for before
`run()` is ahead of every acknowledgement (`Early`). It follows that
the host never meets a frame out of place unless something failed, that a Done
which was written wins over a late `cancel()`, and that an early `cancel()`
never ends in a finished mosaic. `JobIsRowStream` maps each host step to a step
of the stream or to none.

**The band cache.** A slice is an index into a buffer that is refilled in
place, so `CellHolds` says of every cell that each index holds the row it stands
for, and `HeldFrom` that a thread's slices point into the present band of its
own cell. `RowsInv` accounts for every row handed out: it waits, is being read,
was seen in full, or an error is latched. `SequentialInv` counts the fetches of
the two sequential stages.

**Jobs and frames.** `SlotsAlwaysFit` shows why the host may size slots before
anyone has read a pixel. What `Size` knows is the headers; what `blend` sends is
a row of the mosaic, and which mosaic that is depends on coverage the host has
not seen. So the invariant says more than the property: the slot holds the
widest of *all* outcomes the later steps can still have, the registered canvas
and the chosen or the imposed frame. The properties about what is in the outputs
rest on geometry: a frame derived over the panels of all groups contains each of
them, all that the kernel reaches of a panel lies in the box that is
reprojected, and that box in the frame. That a common part, a union or a crop
lies where it should is an argument about the smallest and the largest member of
a set of positions. Such a member exists for every finite set that is not empty
(`FiniteHasMaximum`, by well-founded induction over finite sets).

**The blend.** The box of a set of cells holds the set and lies on the grid
(`BoxHolds`), so a pixel that shows something is in the content box of its panel
and that box meets the band: `NoneDropped` says that the panels picked for a
band, cropped or not, are all that matter to its pixels, and `DrawnIsLine`
that a row of the pool is a row of the mosaic. `IInv` then says what was handed
over: both sinks hold exactly the rows above `y0`, until a failure, after which
the first may hold one band more. What a pixel *is* plays no part: the proof
holds for every mode and whatever the maps are.

**The pixel.** `PixelsAlwaysStayBetween` is about the detail a two-band blend
adds to its base: each panel's value minus its own base, plus the blended base.
Where the bases agree, or the base is left out of all of them, they cancel, and a weighted mean of corrected
values remains, whichever of the chains of fall-backs was taken
(`DetailCancels`, `MixedCancels`, `VetoedCancels`). That a mean lies between the
least and the greatest of its values is a bound on two sums over the panels of a
pixel (`SumBounds`), and that a fall-back exists where a panel covers the pixel
is `FallbackIsThere`.

**The grids.** The maps are folds, recursive functions and floods over cells, and
the prover has no induction over data. What it has is the least natural number
with a property (`LeastExists`), and from it three tools for first-order goals: a
fold over a set is the last member of a sequence of partial results
(`FoldDefined`, and `SumIter` for sums); a set that shrinks as long as it is not
empty ends empty (`Peeling`); a set with as many members as a number says is
counted through in that many steps (`Counting`). Each algorithm then becomes a
statement about one step and one about the end. A raster pass settles
the cells in its order (`SweepSettles`, `RasterSettles`): after the forward and
the backward pass nothing is above the octile distance, which is what the
shortest displacement costs, and nothing was ever below. Union-find keeps a
forest whose roots are the smallest of their sets (`ForestIsRooted`,
`ShortcutsKeep`, `UnionMerges`), and joining edge after edge makes its sets those
reachable over the edges so far. A seam's dynamic program is compared with an
arbitrary monotone path column by column; the path read back lies in the band of
the edge (`EdgeBand`, `PathIs`). That sums in a different order agree is never
needed: `AnySummand` takes any one summand first.

**The pyramid.** Levels are functions that climb (`Climbs`, `LevelByLevel`).
Upward, where a mask has weight at a level the validity there is not 0, so the
quotient of data and validity is the flat value, the Laplacian levels there are
0 and the coarsest is the value (`DataAre`, `LevelsBlend`). That is not enough: the
collapse divides by what weights there are, and a cell without any would be 0. A
cell beside a covered one may get its weight from very little. So `PairReached`
follows a cell and its right neighbour upward: if they count at least
`Faintest[l]` out of 16^l, which is 1, then 11, then five times more at each
level, so do the two coarser cells they are drawn from (`PairAbove`,
`ReachedAbove`), and `MASK_SUPPORT_MIN` is not above that. Downward, a cell is
made from coarser cells that all hold the value (`FinerKeeps`, `CollapseKeeps`).

**The pipe.** `PipeInv` says what is in the pipe through the frames begun so far,
with the place each ends at (`StreamInv`): what was read and what is still in the pipe are
together the bytes of those frames (`Framed`, `Flow`), only the last can be
unfinished, and then its writer has the mutex or the process is dead. What the
reader has collected is the start of the first frame it has not delivered. So a
step of the reader either goes on inside a frame, or completes one, which is what
`Deliver` of the channel is, or meets the end, at a border of frames (a clean
end) or inside one (an error). `MessagesSurvive` supplies what the frame decodes
to.

**Assumptions beyond the types.** `FramesAssumption` and `JobsAssumption` say
that numbers are numbers, groups are not empty, a frame of another group needs
that group, and a panel that yields a model has a linear solution;
`CodecAssumption` that integers have at least one digit of a base of two or
more, that the owner of the mutex is told from nobody, and that what is sent
fits its fields; `OverlapAssumption` that an edge needs at least one cell;
`KernelsAssumption` that a task is one the program can meet: coverage lies
between nothing and full, an edge has two panels, and owners cover what they own
(which `OwnersAlwaysHavePixels` shows of the owners the program computes);
`CompositorAssumption` that summaries and pixels of a panel belong together: it
has a pixel wherever its summary calls a cell fully covered. `SupportAssumption`
is about a number of the code: `MASK_SUPPORT_MIN` is not above what one covered
cell is worth at any level; with six levels the code's value leaves a factor of
two. `GoodSetsAlwaysAccepted` has a hypothesis of its own, the condition the
property is true under, and its run takes it: `Showing` (panels are at least as
wide as the kernel and show something; a panel without data is refused by the
code, rightly).

Every part of the inductive invariants of the concurrent modules was checked by
TLC on the instances of section 3, those of the blend and of the pipe on smaller
ones, before it was proved. Those of the tasks of `Kernels` say of each result
that it is what the run compares it with; they were proved directly.

**Model-checked only.** Liveness (`EveryCallReturns`, `RunReturns`,
`OrphanExits`, `StageEnds`, `EndIsNoticed`) is out of the prover's reach.
`LevelsComeTogether`, `FlattenTakesThePlane`, `ScanIsThePanel` and
`PreviewShowsTheImage` also stay with TLC: they rest on elimination over exact
quotients, on least squares, and on divisions of products of data, which the
arithmetic of the prover does not decide.

## 6 Where code and documents differ

One run checks a statement of the repository and TLC finds it violated:

* `pipeline_channels`. reference.rs:152-153 says that channel counts may differ
  across the panels a reference is derived from, "groups are checked for channel
  uniformity individually". For a run over files the module derives it with one
  probe over every file of every group (MmmExecution.cpp:995-1003), and
  `probe_panels` refuses a set whose channel counts differ (analyze.rs:683-690).
  A mono group beside a colour group ends before its first group; `mmm batch`
  accepts the same panels. (PROTOCOL.md:674-678 describes the refusal, for one
  job.)

Found while modelling and kept in the models as the code has it, each seen in a
trace of TLC or by reading, but without a run of its own:

* PROTOCOL.md:584 says that on a handled error the worker sends `Error`; `run()`
  returns an `Err` to `main` (main.rs:298), which exits 1 without a frame.
* mmm_host.h:116 says that a cancelled run does not throw. When the worker has
  acknowledged Cancel and exited while one of its requests is being served, the
  reply meets a broken pipe (mmm_host.cpp:581) and `run()` throws.
* PROTOCOL.md:563-570 says that a cancelled stage unwinds and the worker reports
  `cancelled`. During a blend of aligned panels a failed fetch makes the row
  `None`, and `.expect(...)` (blend.rs:892) aborts the worker. The host ends
  with a fault.
* MmmInterface.cpp:425-426 promises that a second run resumes completed stages.
  Every stage runs again and truncates what was there (analyze.rs:951).
* decoded.rs:16-17 says that a re-saved panel is decoded afresh. The key is
  computed from the path after the panel was mapped (decoded.rs:296); if the
  panel is saved again in between and has no block checksum, old pixels are
  filed under the new key. `MappedIsOpened` excepts this and nothing else.
* analyze.rs:986-987 says that stale surfaces "must not survive an explicit
  `--surface off`" analysis. The result of `remove_file` (989) is dropped; if the
  operating system refuses, the old `surfaces.json` stays, `session.json` is
  written over it, and the next blend applies it. `QuietBlendIsPure` excepts this
  and nothing else.
* seam.rs:412-415 says that the seam crosses star structure "only when the whole
  band is structure". The penalty is finite, `MASK_COST_FACTOR` = 100 medians,
  and seams are sought in bands of 64 cells and more. Take a band of 64 x 5 with
  costs of 1, a thin star along its middle row, and costs of 20 in the two rows
  above its left half and the two below its right half. The median is 1. A seam
  that keeps off the star pays 20 in each column of one half, 640 or more; one
  that crosses pays at most 268, so `edge_seam` cuts the star. `SeamIsCheapest`
  claims what a finite penalty can keep: a star is spared where the way round
  costs less than the penalty.
* The doc of `wcs_cards` (astrometry/mod.rs:804-810) says that the y axis is
  reflected (`H + 1 - y`); the code (818-831) emits the cards unreflected, for
  reasons a comment in it gives.
* MmmExecution.cpp:756-760 says that views are told apart "exactly as the CLI
  and multi-group runs classify them"; views have no coverage rule, the command
  line has.
* protocol.rs:489-494 says that only float-carrying data is validated for
  finiteness; `InitJob.reference` also carries floats and is not looked at.
* blend.rs:949-952 says that a star that crosses a seam is taken whole from one
  panel. Snapping is per cell: `RampsFollowOwners` shows it for a star that
  touches one boundary, not for one that crosses two.
* An aligned reference that was derived over all groups, with input `Auto`: a
  group that covers half of its canvas is sent down the solved path by the
  coverage rule and refused there, because the reference is of the other kind.
* An aligned group whose first panel has no solution gets no WCS cards, although
  the reference it shares may have one.
* The tolerance of registered canvases compares every solution with the first
  panel's only: two others may be twice as far apart.
* `mmm batch` prints "all on the shared grid" also with `--extent union`, where
  the outputs are crops of that grid.
* The doc of `backing_error` (panel_reader.rs) names FITS panels; only the bands
  of a host can fail.

## 7 What is not modelled

* Rounding, projections, distortion polynomials, the weights of the resampling
  kernels, the re-weighted solve for gains, fits of order two: floating point,
  or least squares over data that small integers do not represent. Where such a
  result enters a model it is a parameter (gains) or an exact quotient.
* A second axis of the sky, rotations and flips of canvases: `Frames` has one
  axis.
* Codecs of XISF and FITS (another repository), the text of reports, the GUI and
  the names of groups: sequential I/O or widgets.
* Request ids of 32 bits that wrap, and 64-bit products of image dimensions: out
  of reach of real jobs.
* Page faults on files truncated by another process, which the code rules out by
  its usage note.
* The pipes of `Host::probe_*`: the same spawn, Init and one reply without a
  segment. What they answer is in `Pipeline`.
* The names and system calls of shared memory; the fallback of the decode cache
  into anonymous memory.

## 8 Plan

Modelled so far: everything that has control of its own, and what it promises is
proved except for what section 5 leaves to TLC. What could follow, in this order:

1. Proofs: the parts of `ScanIsThePanel` and `PreviewShowsTheImage` that say
   which row and which cell is meant, apart from their quotients.
2. `Host::probe_frame` and `probe_panels` as one more refinement of a one-shot
   request, with a cancel in between.
3. `Frames` with a second axis, so that flips and rotated canvases can be told
   apart.
4. The gain solve with integer logarithms, and surfaces of order one.

----------------------------- MODULE HostGuard -----------------------------
(***************************************************************************)
(* The numbers behind the pipe: how the module sizes a slot for a job, how *)
(* the worker cuts panels and output into bands, and what Host::run checks *)
(* of every number a worker sends before the number becomes an address in  *)
(* the shared segment or a row of the output image.                        *)
(*                                                                         *)
(* A worker is honest while it sends what BandCache and blend_full compute *)
(* from the Init; at any moment it may start to send anything (version     *)
(* skew, a bug, corrupted memory).  The host has to protect its own memory *)
(* from the second kind without ever getting in the way of the first.      *)
(* Pipes, threads and replies are IpcRun's and HostLink's business.        *)
(***************************************************************************)
EXTENDS Naturals, Sequences, FiniteSets

CONSTANTS
  Jobs,         \* the jobs the module may start
  InputSlots,   \* kInputSlots
  OutputSlots,  \* kOutputSlots
  Wire          \* the numbers a worker that is not honest may send

Geometry == [w : Nat, h : Nat, ch : Nat]

Largest(S) == CHOOSE x \in S : \A y \in S : y <= x

Widths(j) == {j.panels[p].w : p \in DOMAIN j.panels}

\* Where a panel of the job ends up: its own pixels are reprojected onto the
\* frame in a solved job, they already lie on the canvas in an aligned one.
Target(j) == IF j.solved THEN j.frame ELSE [w |-> j.panels[1].w, h |-> j.panels[1].h]

\* A job the module does get as far as starting: one channel count, one size
\* unless the panels are reprojected, a frame whenever they may be.
WellFormed(j) ==
  /\ j.mode \in {"Aligned", "Solved", "Files"}
  /\ j.solved \in BOOLEAN
  /\ j.mode = "Aligned" => ~j.solved
  /\ j.mode = "Solved" => j.solved
  /\ j.panels \in Seq(Geometry)
  /\ Len(j.panels) > 0
  /\ \A p \in DOMAIN j.panels :
       /\ j.panels[p].w > 0 /\ j.panels[p].h > 0 /\ j.panels[p].ch > 0
       /\ j.panels[p].ch = j.panels[1].ch
       /\ ~j.solved => /\ j.panels[p].w = j.panels[1].w
                       /\ j.panels[p].h = j.panels[1].h
  /\ j.frame \in [w : Nat, h : Nat]
  /\ j.solved => j.frame.w > 0 /\ j.frame.h > 0
  /\ j.bandRows \in Nat \ {0}

ASSUME GuardAssumption ==
  /\ InputSlots \in Nat \ {0}
  /\ OutputSlots \in Nat \ {0}
  /\ Wire \subseteq Nat
  /\ \A j \in Jobs : WellFormed(j)

-----------------------------------------------------------------------------
\* Mutant of SlotWidth: sized by the panels alone, as if none were reprojected.
SlotWidthOfPanels(j) == Largest(Widths(j))

\* Slot sizing, per mode: wide enough for an input band of the widest panel
\* and for an output band of the frame or canvas.
SlotWidth(j) ==
  IF j.mode = "Aligned" THEN j.panels[1].w ELSE Largest(Widths(j) \cup {j.frame.w})

SlotBytes(j) == SlotWidth(j) * j.panels[1].ch * j.bandRows * 4

InputOffset(j, i) == SlotBytes(j) * i
OutputOffset(j, i) == SlotBytes(j) * InputSlots + SlotBytes(j) * i
TotalBytes(j) == SlotBytes(j) * (InputSlots + OutputSlots)

\* The canvas the Init announces: unknown before the worker chose the frame.
Canvas(j) ==
  IF j.mode = "Aligned"
    THEN [w |-> j.panels[1].w, h |-> j.panels[1].h, ch |-> j.panels[1].ch]
    ELSE [w |-> 0, h |-> 0, ch |-> j.panels[1].ch]

\* The host numbers panels from 0.
PanelDims(j, id) == j.panels[id + 1]
KnownPanel(j, id) == id < Len(j.panels)

RowBytes(g) == g.w * g.ch * 4

\* Band k of something h rows tall: the last one is shorter.
Band(h, rows, y0) == [y0 |-> y0, y1 |-> IF y0 + rows < h THEN y0 + rows ELSE h]

-----------------------------------------------------------------------------
VARIABLES
  job,      \* what the host was configured with
  phase,    \* serving, killed (HostError) or done
  honest,   \* the worker has sent nothing but what the code computes
  verdict,  \* what became of the last BandRequest
  begun,
  out,      \* out_w_, out_h_, out_ch_
  touched,  \* the bytes of the segment the last frame made the host touch
  painted   \* the rows of the output image that were written

vars == <<job, phase, honest, verdict, begun, out, touched, painted>>

Nowhere == [pool |-> "none", slot |-> 0, from |-> 0, to |-> 0]

Touched == [pool : {"none", "input", "output"}, slot : Nat, from : Nat, to : Nat]

Init ==
  /\ job \in Jobs
  /\ phase = "serving"
  /\ honest = TRUE
  /\ verdict = "none"
  /\ begun = FALSE
  /\ out = [w |-> 0, h |-> 0, ch |-> 0]
  /\ touched = Nowhere
  /\ painted = {}

Kill ==
  /\ phase' = "killed"
  /\ UNCHANGED <<verdict, begun, out, touched, painted>>

-----------------------------------------------------------------------------
\* Mutant of BadInputSlot: off by one.
BadInputSlotByOne(r) == r.slot > InputSlots

\* BandRequest.  First the slot and the size, which protect the mapping.
BadInputSlot(r) == r.slot >= InputSlots

InOrder(r) == KnownPanel(job, r.panel) /\ r.y0 <= r.y1

Oversized(r) ==
  /\ InOrder(r)
  /\ RowBytes(PanelDims(job, r.panel)) # 0
  /\ r.y1 - r.y0 > SlotBytes(job) \div RowBytes(PanelDims(job, r.panel))

\* Then the rows, which the worker only gets an error reply for.
InPanel(r) ==
  /\ InOrder(r)
  /\ RowBytes(PanelDims(job, r.panel)) # 0
  /\ r.y1 <= PanelDims(job, r.panel).h

\* fill_band writes the rows into the slot, or finds the view unreadable.
Fill(r) ==
  /\ verdict' \in {"filled", "unreadable"}
  /\ touched' = [pool |-> "input", slot |-> r.slot, from |-> InputOffset(job, r.slot),
                 to |-> InputOffset(job, r.slot)
                          + (r.y1 - r.y0) * RowBytes(PanelDims(job, r.panel))]
  /\ UNCHANGED <<phase, begun, out, painted>>

Refuse ==
  /\ verdict' = "refused"
  /\ touched' = Nowhere
  /\ UNCHANGED <<phase, begun, out, painted>>

BandRequest(r) ==
  /\ phase = "serving"
  /\ \/ (BadInputSlot(r) \/ Oversized(r)) /\ Kill
     \/ ~BadInputSlot(r) /\ ~Oversized(r) /\ InPanel(r) /\ Fill(r)
     \/ ~BadInputSlot(r) /\ ~Oversized(r) /\ ~InPanel(r) /\ Refuse
  /\ UNCHANGED job

-----------------------------------------------------------------------------
\* Begin: once, not empty, the job's channels, and inside a canvas that is known.
\* (The 2^31 - 1 limit of the collector's int is far beyond these numbers.)
Exceeds(g) ==
  /\ Canvas(job).w # 0 /\ Canvas(job).h # 0
  /\ g.w > Canvas(job).w \/ g.h > Canvas(job).h

BadBegin(g) ==
  \/ begun
  \/ g.w = 0 \/ g.h = 0 \/ g.ch = 0
  \/ g.ch # Canvas(job).ch
  \/ Exceeds(g)

Begin(g) ==
  /\ phase = "serving"
  /\ \/ BadBegin(g) /\ Kill
     \/ /\ ~BadBegin(g)
        /\ begun' = TRUE
        /\ out' = g
        /\ UNCHANGED <<phase, verdict, touched, painted>>
  /\ UNCHANGED job

-----------------------------------------------------------------------------
\* Mutant of PastImage: off by one.
PastImageByOne(b) == b.rows = 0 \/ b.y0 > out.h \/ b.rows > out.h - b.y0 + 1

\* OutputBand: after Begin, a slot of the pool, rows of the image, bytes of the slot.
PastImage(b) == b.rows = 0 \/ b.y0 > out.h \/ b.rows > out.h - b.y0

BadOutput(b) == begun =>
  \/ b.slot >= OutputSlots
  \/ PastImage(b)
  \/ b.rows > SlotBytes(job) \div RowBytes(out)

Paint(b) ==
  /\ touched' = [pool |-> "output", slot |-> b.slot, from |-> OutputOffset(job, b.slot),
                 to |-> OutputOffset(job, b.slot) + b.rows * RowBytes(out)]
  /\ painted' = painted \cup b.y0 .. (b.y0 + b.rows - 1)
  /\ UNCHANGED <<phase, verdict, begun, out>>

OutputBand(b) ==
  /\ phase = "serving"
  /\ \/ BadOutput(b) /\ Kill
     \/ ~BadOutput(b) /\ Paint(b)
  /\ UNCHANGED job

-----------------------------------------------------------------------------
\* What the code of the worker sends.  A reader asks for the bands of the
\* panel it was opened on; a Files job asks for none.
HonestRequest ==
  /\ honest
  /\ job.mode # "Files"
  /\ \E p \in DOMAIN job.panels, s \in 0 .. InputSlots - 1 :
       \E y \in 0 .. job.panels[p].h - 1 :
         LET tile == Band(job.panels[p].h, job.bandRows, (y \div job.bandRows) * job.bandRows)
         IN BandRequest([panel |-> p - 1, slot |-> s, y0 |-> tile.y0, y1 |-> tile.y1])
  /\ UNCHANGED honest

\* The output is the union of the panels' content, or the whole of an imposed
\* frame: in any case a part of the target.
HonestBegin ==
  /\ honest
  /\ ~begun
  /\ \E w \in 1 .. Target(job).w, h \in 1 .. Target(job).h :
       Begin([w |-> w, h |-> h, ch |-> job.panels[1].ch])
  /\ UNCHANGED honest

\* Blending goes down the image band by band; ShmRowSink derives the row count.
NextRow == Cardinality(painted)

HonestOutput ==
  /\ honest
  /\ begun
  /\ NextRow < out.h
  /\ \E s \in 0 .. OutputSlots - 1 :
       LET tile == Band(out.h, job.bandRows, NextRow)
       IN OutputBand([slot |-> s, y0 |-> tile.y0, rows |-> tile.y1 - tile.y0])
  /\ UNCHANGED honest

HonestDone ==
  /\ honest
  /\ begun
  /\ NextRow = out.h
  /\ phase = "serving"
  /\ phase' = "done"
  /\ UNCHANGED <<job, honest, verdict, begun, out, touched, painted>>

\* What any other worker sends.
StrayRequest ==
  /\ honest' = FALSE
  /\ \E p, s, a, b \in Wire : BandRequest([panel |-> p, slot |-> s, y0 |-> a, y1 |-> b])

StrayBegin ==
  /\ honest' = FALSE
  /\ \E w, h, c \in Wire : Begin([w |-> w, h |-> h, ch |-> c])

StrayOutput ==
  /\ honest' = FALSE
  /\ \E s, y, n \in Wire : OutputBand([slot |-> s, y0 |-> y, rows |-> n])

Stray == StrayRequest \/ StrayBegin \/ StrayOutput

Next ==
  \/ HonestRequest \/ HonestBegin \/ HonestOutput \/ HonestDone
  \/ Stray

Spec == Init /\ [][Next]_vars

-----------------------------------------------------------------------------
\* Types, and that an image that was begun is not empty: the division in the
\* check of OutputBand rests on that.
TypeOK ==
  /\ job \in Jobs
  /\ phase \in {"serving", "killed", "done"}
  /\ honest \in BOOLEAN
  /\ verdict \in {"none", "filled", "unreadable", "refused"}
  /\ begun \in BOOLEAN
  /\ out \in Geometry
  /\ begun => out.w > 0 /\ out.h > 0 /\ out.ch > 0
  /\ touched \in Touched
  /\ painted \subseteq Nat

\* Byte ranges of the slots, as the two processes compute them.
SlotStart(pool, i) ==
  IF pool = "input" THEN InputOffset(job, i) ELSE OutputOffset(job, i)

PoolSize(pool) == IF pool = "input" THEN InputSlots ELSE OutputSlots

\* Whatever a worker sends, the bytes the host writes or reads for a frame lie
\* within the one slot the frame names: no other slot, nothing past the mapping.
AccessStaysInSlot ==
  touched.pool # "none" =>
    /\ touched.slot < PoolSize(touched.pool)
    /\ touched.from = SlotStart(touched.pool, touched.slot)
    /\ touched.to <= SlotStart(touched.pool, touched.slot) + SlotBytes(job)
    /\ touched.to <= TotalBytes(job)

\* Whatever a worker sends, the host paints no row its output image does not have.
PaintStaysInImage == \A y \in painted : begun /\ y < out.h

\* An honest worker is never in the way of the checks: the slot the module sized
\* holds every band the worker's code computes, in every mode and for the short
\* last band too, and no request of its is refused or ends the run.
HonestIsServed == honest => phase # "killed" /\ verdict # "refused"

\* When an honest worker says Done every row of the output was painted.
DoneIsComplete == phase = "done" => painted = 0 .. out.h - 1

=============================================================================

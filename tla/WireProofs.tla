----------------------------- MODULE WireProofs -----------------------------
(* What crosses the boundary between worker and host.  For every job, every   *)
(* slot count and every worker: the host touches only the slot a frame names, *)
(* and never refuses an honest worker.  For all threads, messages and widths  *)
(* of integers, and wherever the bytes stop: the frames are a channel.        *)
EXTENDS HostGuard, Codec, FiniteSetTheorems, WellFoundedInduction, TLAPS

-----------------------------------------------------------------------------
(* Arithmetic of slots and bands                                           *)

\* A number within a quotient, times the divisor, is within the dividend.
LEMMA QuotientFits ==
  ASSUME NEW n \in Nat, NEW d \in Nat \ {0}, NEW r \in Nat, r <= n \div d
  PROVE  r * d <= n
<1>1. (n \div d) * d <= n /\ n \div d \in Nat
  BY SMT
<1>2. r * d <= (n \div d) * d
  BY <1>1, SMT
<1>3. r * d \in Nat /\ (n \div d) * d \in Nat
  BY <1>1, SMT
<1>. QED
  BY <1>1, <1>2, <1>3

\* And a number that times the divisor is within the dividend is within the quotient.
LEMMA FitsQuotient ==
  ASSUME NEW n \in Nat, NEW d \in Nat \ {0}, NEW r \in Nat, r * d <= n
  PROVE  r <= n \div d
<1>1. n < (n \div d) * d + d /\ n \div d \in Nat
  BY SMT
<1>2. (n \div d) * d + d = (n \div d + 1) * d
  BY <1>1, SMT
<1>3. SUFFICES ASSUME n \div d + 1 <= r PROVE FALSE
  BY <1>1
<1>4. (n \div d + 1) * d <= r * d
  BY <1>1, <1>3, SMT
<1>5. (n \div d + 1) * d \in Nat /\ r * d \in Nat
  BY <1>1, SMT
<1>. QED
  BY <1>1, <1>2, <1>4, <1>5

\* Slot i ends before slot k begins, whenever i comes before k.
LEMMA SlotsApart ==
  ASSUME NEW s \in Nat, NEW i \in Nat, NEW k \in Nat, i < k
  PROVE  s * i + s <= s * k
<1>1. s * i + s = s * (i + 1)
  BY SMT
<1>2. s * (i + 1) <= s * k
  BY SMT
<1>. QED
  BY <1>1, <1>2

\* The band a row lies in starts at or before the row.
LEMMA BandStart ==
  ASSUME NEW y \in Nat, NEW d \in Nat \ {0}
  PROVE  (y \div d) * d \in Nat /\ (y \div d) * d <= y
BY SMT

-----------------------------------------------------------------------------
(* Largest is defined: a finite set of numbers has a largest one.          *)

\* Every finite set of numbers that is not empty has a largest member.
LEMMA FiniteHasLargest ==
  ASSUME NEW S \in SUBSET Nat, IsFiniteSet(S), S # {}
  PROVE  Largest(S) \in S /\ \A y \in S : y <= Largest(S)
<1> DEFINE Above(x) == {y \in S : x < y}
<1>1. \A x \in S : Above(x) \in FiniteSubsetsOf(Nat)
  <2>1. \A x \in S : Above(x) \subseteq S
    OBVIOUS
  <2>2. \A x \in S : IsFiniteSet(Above(x)) /\ Above(x) \in SUBSET Nat
    BY <2>1, FS_Subset
  <2>. HIDE DEF Above
  <2>. QED
    BY <2>2 DEF FiniteSubsetsOf
<1>2. PICK x \in S : \A y \in S : <<Above(y), Above(x)>> \notin StrictSubsetOrdering(Nat)
  <2>. DEFINE T == {Above(y) : y \in S}
  <2>1. T \subseteq FiniteSubsetsOf(Nat) /\ T # {}
    <3>. HIDE DEF Above
    <3>. QED
      BY <1>1
  <2>. HIDE DEF Above
  <2>2. PICK U \in T : \A V \in T : ~ (<<V, U>> \in StrictSubsetOrdering(Nat))
    <3>. HIDE DEF T
    <3>. QED
      BY <2>1, FS_StrictSubsetOrderingWellFounded, WFMin
  <2>. QED
    BY <2>2
<1>3. ASSUME NEW y \in S, x < y PROVE FALSE
  <2>1. Above(y) \subseteq Above(x) /\ y \in Above(x) /\ y \notin Above(y)
    <3>1. x \in Nat /\ y \in Nat
      OBVIOUS
    <3>2. ASSUME NEW z \in S, y < z PROVE x < z
      <4>1. z \in Nat
        OBVIOUS
      <4>. QED
        BY <1>3, <3>1, <3>2, <4>1
    <3>3. \A z \in Above(y) : z \in Above(x)
      BY <3>2
    <3>4. y \in Above(x)
      BY <1>3
    <3>5. \A z \in Above(y) : z # y
      BY <3>1
    <3>. HIDE DEF Above
    <3>. QED
      BY <3>3, <3>4, <3>5
  <2>2. Above(x) \in SUBSET Nat
    OBVIOUS
  <2>. HIDE DEF Above
  <2>3. <<Above(y), Above(x)>> \in StrictSubsetOrdering(Nat)
    BY <2>1, <2>2 DEF StrictSubsetOrdering
  <2>. QED
    BY <1>2, <2>3
<1>4. \A y \in S : y <= x
  BY <1>3
<1>. QED
  BY <1>4 DEF Largest

-----------------------------------------------------------------------------
(* What a well-formed job means for the sizes                              *)

\* Panels and bands of a job have positive sizes, and the size of a slot is a number.
LEMMA JobSizes ==
  ASSUME NEW j \in Jobs
  PROVE  /\ j.bandRows \in Nat \ {0}
         /\ j.panels[1].w \in Nat \ {0} /\ j.panels[1].h \in Nat \ {0}
         /\ j.panels[1].ch \in Nat \ {0}
         /\ SlotWidth(j) \in Nat
         /\ SlotBytes(j) \in Nat
         /\ \A p \in DOMAIN j.panels :
              /\ j.panels[p].w \in Nat \ {0} /\ j.panels[p].h \in Nat \ {0}
              /\ j.panels[p].ch = j.panels[1].ch
              /\ j.panels[p].w <= SlotWidth(j)
         /\ Target(j).w \in Nat \ {0} /\ Target(j).h \in Nat \ {0}
         /\ Target(j).w <= SlotWidth(j)
<1>1. WellFormed(j)
  BY GuardAssumption
<1>2. /\ j.panels \in Seq(Geometry) /\ Len(j.panels) \in Nat \ {0}
      /\ DOMAIN j.panels = 1 .. Len(j.panels) /\ 1 \in DOMAIN j.panels
  BY <1>1 DEF WellFormed
<1>3. \A p \in DOMAIN j.panels : j.panels[p] \in Geometry
  BY <1>2
<1>4. \A p \in DOMAIN j.panels :
        /\ j.panels[p].w \in Nat \ {0} /\ j.panels[p].h \in Nat \ {0}
        /\ j.panels[p].ch \in Nat \ {0} /\ j.panels[p].ch = j.panels[1].ch
  <2>1. \A p \in DOMAIN j.panels :
          /\ j.panels[p].w > 0 /\ j.panels[p].h > 0 /\ j.panels[p].ch > 0
          /\ j.panels[p].ch = j.panels[1].ch
    BY <1>1 DEF WellFormed
  <2>2. \A p \in DOMAIN j.panels :
          j.panels[p].w \in Nat /\ j.panels[p].h \in Nat /\ j.panels[p].ch \in Nat
    BY <1>3 DEF Geometry
  <2>. QED
    BY <2>1, <2>2
<1>5. /\ j.bandRows \in Nat \ {0} /\ j.frame.w \in Nat /\ j.frame.h \in Nat
      /\ j.solved => j.frame.w > 0 /\ j.frame.h > 0
  BY <1>1 DEF WellFormed
<1>6. Target(j).w \in Nat \ {0} /\ Target(j).h \in Nat \ {0}
  BY <1>2, <1>4, <1>5 DEF Target
<1>7. Widths(j) \in SUBSET Nat /\ IsFiniteSet(Widths(j)) /\ j.panels[1].w \in Widths(j)
  <2>1. Widths(j) \in SUBSET Nat /\ j.panels[1].w \in Widths(j)
    BY <1>2, <1>4 DEF Widths
  <2>2. [p \in DOMAIN j.panels |-> j.panels[p].w] \in Surjection(DOMAIN j.panels, Widths(j))
    BY DEF Widths, Surjection
  <2>3. IsFiniteSet(DOMAIN j.panels)
    BY <1>2, FS_Interval
  <2>. QED
    BY <2>1, <2>2, <2>3, FS_Surjection
<1>8. LET W == Widths(j) \cup {j.frame.w}
      IN  Largest(W) \in W /\ \A y \in W : y <= Largest(W)
  <2>1. Widths(j) \cup {j.frame.w} \in SUBSET Nat
    BY <1>5, <1>7
  <2>2. IsFiniteSet(Widths(j) \cup {j.frame.w})
    BY <1>7, FS_AddElement
  <2>3. Widths(j) \cup {j.frame.w} # {}
    OBVIOUS
  <2>. QED
    BY <2>1, <2>2, <2>3, FiniteHasLargest
<1>9. SlotWidth(j) \in Nat /\ \A p \in DOMAIN j.panels : j.panels[p].w <= SlotWidth(j)
  <2>1. CASE j.mode = "Aligned"
    <3>1. ~j.solved
      BY <1>1, <2>1 DEF WellFormed
    <3>2. \A p \in DOMAIN j.panels : j.panels[p].w = j.panels[1].w
      BY <1>1, <3>1 DEF WellFormed
    <3>. QED
      BY <1>2, <1>4, <2>1, <3>2 DEF SlotWidth
  <2>2. CASE j.mode # "Aligned"
    <3>1. SlotWidth(j) = Largest(Widths(j) \cup {j.frame.w})
      BY <2>2 DEF SlotWidth
    <3>2. Widths(j) \cup {j.frame.w} \in SUBSET Nat
      BY <1>5, <1>7
    <3>3. SlotWidth(j) \in Nat
      BY <1>8, <3>1, <3>2
    <3>4. \A p \in DOMAIN j.panels : j.panels[p].w \in Widths(j)
      BY DEF Widths
    <3>. QED
      BY <1>8, <3>1, <3>3, <3>4
  <2>. QED
    BY <2>1, <2>2
<1>10. Target(j).w <= SlotWidth(j)
  <2>1. CASE j.solved
    <3>1. j.mode # "Aligned"
      BY <1>1, <2>1 DEF WellFormed
    <3>. QED
      BY <1>8, <2>1, <3>1 DEF Target, SlotWidth
  <2>2. CASE ~j.solved
    BY <1>2, <1>9, <2>2 DEF Target
  <2>. QED
    BY <2>1, <2>2
<1>11. SlotBytes(j) \in Nat
  <2>1. SlotWidth(j) * j.panels[1].ch \in Nat
    BY <1>2, <1>4, <1>9, SMT
  <2>2. SlotWidth(j) * j.panels[1].ch * j.bandRows \in Nat
    BY <1>5, <2>1, SMT
  <2>. QED
    BY <2>2, SMT DEF SlotBytes
<1>. QED
  BY <1>2, <1>4, <1>5, <1>6, <1>9, <1>10, <1>11

\* A band of at most bandRows rows, no wider than the slot, fits into a slot.
LEMMA BandFits ==
  ASSUME NEW j \in Jobs, NEW w \in Nat \ {0}, w <= SlotWidth(j),
         NEW n \in Nat, n <= j.bandRows
  PROVE  /\ w * j.panels[1].ch * 4 \in Nat \ {0}
         /\ n <= SlotBytes(j) \div (w * j.panels[1].ch * 4)
<1>. DEFINE ch == j.panels[1].ch
            b == j.bandRows
            W == SlotWidth(j)
<1>1. ch \in Nat \ {0} /\ b \in Nat \ {0} /\ W \in Nat /\ SlotBytes(j) \in Nat
  BY JobSizes
<1>2. SlotBytes(j) = W * ch * b * 4
  BY DEF SlotBytes
<1>. HIDE DEF ch, b, W
<1>3. w * ch \in Nat \ {0} /\ W * ch \in Nat
  BY <1>1, SMT
<1>4. w * ch * 4 \in Nat \ {0}
  BY <1>3, SMT
<1>5. n * (w * ch * 4) <= SlotBytes(j)
  <2>1. w * ch <= W * ch
    BY <1>1, SMT DEF W
  <2>2. n * (w * ch) <= b * (w * ch)
    BY <1>1, <1>3, SMT DEF b
  <2>3. b * (w * ch) <= b * (W * ch)
    BY <1>1, <1>3, <2>1, SMT
  <2>4. n * (w * ch) \in Nat /\ b * (w * ch) \in Nat /\ b * (W * ch) \in Nat
    BY <1>1, <1>3, SMT
  <2>5. n * (w * ch * 4) = (n * (w * ch)) * 4
    BY <1>3, SMT
  <2>6. W * ch * b * 4 = (b * (W * ch)) * 4
    BY <1>1, <1>3, SMT
  <2>. QED
    BY <1>2, <2>2, <2>3, <2>4, <2>5, <2>6
<1>6. n <= SlotBytes(j) \div (w * ch * 4)
  BY <1>1, <1>4, <1>5, FitsQuotient
<1>. QED
  BY <1>4, <1>6 DEF ch

-----------------------------------------------------------------------------
(* The host's memory, against any worker                                   *)

MemoryInv == TypeOK /\ AccessStaysInSlot /\ PaintStaysInImage

Requests == [panel : Nat, slot : Nat, y0 : Nat, y1 : Nat]
Outputs == [slot : Nat, y0 : Nat, rows : Nat]

\* An access of k bytes from the start of a slot of the pool stays in the slot.
LEMMA InSlot ==
  ASSUME NEW j \in Jobs, NEW i \in Nat, NEW k \in Nat, k <= SlotBytes(j)
  PROVE  /\ InputOffset(j, i) \in Nat /\ OutputOffset(j, i) \in Nat
         /\ InputOffset(j, i) + k <= InputOffset(j, i) + SlotBytes(j)
         /\ OutputOffset(j, i) + k <= OutputOffset(j, i) + SlotBytes(j)
         /\ i < InputSlots => InputOffset(j, i) + k <= TotalBytes(j)
         /\ i < OutputSlots => OutputOffset(j, i) + k <= TotalBytes(j)
<1>. DEFINE s == SlotBytes(j)
<1>1. s \in Nat /\ InputSlots \in Nat /\ OutputSlots \in Nat
  BY JobSizes, GuardAssumption
<1>. HIDE DEF s
<1>2. s * i \in Nat /\ s * InputSlots \in Nat /\ s * OutputSlots \in Nat
  BY <1>1, SMT
<1>3. i < InputSlots => s * i + s <= s * InputSlots
  BY <1>1, SlotsApart
<1>4. i < OutputSlots => s * i + s <= s * OutputSlots
  BY <1>1, SlotsApart
<1>5. TotalBytes(j) = s * InputSlots + s * OutputSlots
  BY <1>1, SMT DEF TotalBytes, s
<1>6. InputOffset(j, i) = s * i /\ OutputOffset(j, i) = s * InputSlots + s * i
  BY DEF InputOffset, OutputOffset, s
<1>7. k <= s
  BY DEF s
<1>8. InputOffset(j, i) \in Nat /\ OutputOffset(j, i) \in Nat
  BY <1>2, <1>6
<1>. QED
  BY <1>1, <1>2, <1>3, <1>4, <1>5, <1>6, <1>7, <1>8 DEF s

\* A request the host serves lies in its slot.
LEMMA RequestIsSafe ==
  ASSUME MemoryInv, NEW r \in Requests, BandRequest(r)
  PROVE  AccessStaysInSlot' /\ PaintStaysInImage' /\ touched' \in Touched
         /\ phase' \in {"serving", "killed"}
         /\ verdict' \in {"none", "filled", "unreadable", "refused"}
<1>. USE DEF MemoryInv, TypeOK
<1>1. job' = job /\ begun' = begun /\ out' = out /\ painted' = painted
  BY DEF BandRequest, Kill, Fill, Refuse
<1>2. PaintStaysInImage'
  BY <1>1 DEF PaintStaysInImage
<1>3. CASE Kill
  BY <1>1, <1>2, <1>3
    DEF Kill, AccessStaysInSlot, SlotStart, PoolSize, BandRequest
<1>4. CASE Refuse
  BY <1>1, <1>2, <1>4
    DEF Refuse, AccessStaysInSlot, Nowhere, Touched, BandRequest
<1>5. CASE ~BadInputSlot(r) /\ ~Oversized(r) /\ InPanel(r) /\ Fill(r)
  <2>. DEFINE rows == r.y1 - r.y0
              rb == RowBytes(PanelDims(job, r.panel))
  <2>1. r.slot \in Nat /\ r.slot < InputSlots
    BY <1>5, GuardAssumption DEF BadInputSlot, Requests
  <2>2. rows \in Nat
    BY <1>5 DEF InPanel, InOrder, Requests
  <2>3. rb \in Nat \ {0}
    <3>1. r.panel + 1 \in DOMAIN job.panels
      BY <1>5, GuardAssumption
        DEF InPanel, InOrder, KnownPanel, Requests, WellFormed
    <3>2. PanelDims(job, r.panel) \in Geometry
      BY <3>1, GuardAssumption DEF PanelDims, WellFormed
    <3>3. \A w, c \in Nat : w * c * 4 \in Nat
      BY SMT
    <3>4. rb \in Nat
      BY <3>2, <3>3 DEF RowBytes, Geometry
    <3>. QED
      BY <1>5, <3>4 DEF InPanel
  <2>4. rows <= SlotBytes(job) \div rb
    <3>1. ~ (rows > SlotBytes(job) \div rb)
      BY <1>5, <2>3 DEF Oversized, InPanel
    <3>2. SlotBytes(job) \div rb \in Nat
      BY <2>3, JobSizes, SMT
    <3>. QED
      BY <2>2, <3>1, <3>2
  <2>5. rows * rb \in Nat /\ rows * rb <= SlotBytes(job)
    <3>. HIDE DEF rows, rb
    <3>1. SlotBytes(job) \in Nat
      BY JobSizes
    <3>2. rows * rb <= SlotBytes(job)
      BY <2>2, <2>3, <2>4, <3>1, QuotientFits
    <3>. QED
      BY <2>2, <2>3, <3>2, SMT
  <2>6. touched' = [pool |-> "input", slot |-> r.slot, from |-> InputOffset(job, r.slot),
                    to |-> InputOffset(job, r.slot) + rows * rb]
    BY <1>5 DEF Fill
  <2>. HIDE DEF rows, rb
  <2>7. /\ InputOffset(job, r.slot) \in Nat
        /\ InputOffset(job, r.slot) + rows * rb <= InputOffset(job, r.slot) + SlotBytes(job)
        /\ InputOffset(job, r.slot) + rows * rb <= TotalBytes(job)
    BY <2>1, <2>5, InSlot
  <2>8. touched' \in Touched
    BY <2>1, <2>5, <2>6, <2>7 DEF Touched
  <2>9. AccessStaysInSlot'
    BY <1>1, <2>1, <2>6, <2>7 DEF AccessStaysInSlot, SlotStart, PoolSize
  <2>. QED
    BY <1>2, <1>5, <2>8, <2>9 DEF Fill, BandRequest
<1>. QED
  BY <1>3, <1>4, <1>5 DEF BandRequest

\* Begin makes the host touch nothing, and leaves an image that has a size.
LEMMA BeginIsSafe ==
  ASSUME MemoryInv, NEW g \in Geometry, Begin(g)
  PROVE  AccessStaysInSlot' /\ PaintStaysInImage' /\ out' \in Geometry /\ begun' \in BOOLEAN
         /\ (begun' => out'.w > 0 /\ out'.h > 0 /\ out'.ch > 0)
         /\ phase' \in {"serving", "killed"}
<1>. USE DEF MemoryInv, TypeOK
<1>1. job' = job /\ touched' = touched /\ painted' = painted
  BY DEF Begin, Kill
<1>2. AccessStaysInSlot'
  BY <1>1 DEF AccessStaysInSlot, SlotStart, PoolSize
<1>3. CASE Kill
  BY <1>1, <1>2, <1>3 DEF Kill, PaintStaysInImage
<1>4. CASE ~BadBegin(g) /\ begun' = TRUE /\ out' = g /\ phase' = phase
  <2>1. painted = {}
    BY <1>4 DEF BadBegin, PaintStaysInImage
  <2>2. g.w > 0 /\ g.h > 0 /\ g.ch > 0
    BY <1>4 DEF BadBegin, Geometry
  <2>. QED
    BY <1>1, <1>2, <1>4, <2>1, <2>2 DEF PaintStaysInImage, Begin
<1>. QED
  BY <1>3, <1>4 DEF Begin

\* A band the host paints lies in its slot and in the image.
LEMMA OutputIsSafe ==
  ASSUME MemoryInv, NEW b \in Outputs, OutputBand(b)
  PROVE  AccessStaysInSlot' /\ PaintStaysInImage' /\ touched' \in Touched
         /\ painted' \subseteq Nat
         /\ phase' \in {"serving", "killed"}
<1>. USE DEF MemoryInv, TypeOK
<1>1. job' = job /\ begun' = begun /\ out' = out
  BY DEF OutputBand, Kill, Paint
<1>2. CASE Kill
  BY <1>1, <1>2
    DEF Kill, AccessStaysInSlot, SlotStart, PoolSize, PaintStaysInImage
<1>3. CASE ~BadOutput(b) /\ Paint(b)
  <2>. DEFINE rb == RowBytes(out)
  <2>1. begun /\ b.slot \in Nat /\ b.slot < OutputSlots /\ b.rows \in Nat /\ b.y0 \in Nat
    BY <1>3, GuardAssumption DEF BadOutput, Outputs
  <2>2. rb \in Nat \ {0}
    <3>1. \A w, c \in Nat \ {0} : w * c * 4 \in Nat \ {0}
      <4>1. \A w, c \in Nat \ {0} : w * c \in Nat \ {0}
        BY SMT
      <4>. QED
        BY <4>1, SMT
    <3>2. out.w \in Nat \ {0} /\ out.ch \in Nat \ {0}
      BY <2>1 DEF Geometry
    <3>. QED
      BY <3>1, <3>2 DEF RowBytes
  <2>3. b.rows <= SlotBytes(job) \div rb
    <3>1. ~ (b.rows > SlotBytes(job) \div rb)
      BY <1>3, <2>1 DEF BadOutput
    <3>2. SlotBytes(job) \div rb \in Nat
      BY <2>2, JobSizes, SMT
    <3>. QED
      BY <2>1, <3>1, <3>2
  <2>4. b.rows * rb \in Nat /\ b.rows * rb <= SlotBytes(job)
    <3>. HIDE DEF rb
    <3>1. SlotBytes(job) \in Nat
      BY JobSizes
    <3>2. b.rows * rb <= SlotBytes(job)
      BY <2>1, <2>2, <2>3, <3>1, QuotientFits
    <3>. QED
      BY <2>1, <2>2, <3>2, SMT
  <2>5. /\ touched' = [pool |-> "output", slot |-> b.slot, from |-> OutputOffset(job, b.slot),
                       to |-> OutputOffset(job, b.slot) + b.rows * rb]
        /\ painted' = painted \cup b.y0 .. (b.y0 + b.rows - 1)
        /\ phase' = phase
    BY <1>3 DEF Paint
  <2>6. \A y \in b.y0 .. (b.y0 + b.rows - 1) : y \in Nat /\ y < out.h
    BY <1>3, <2>1 DEF BadOutput, PastImage, Geometry
  <2>7. PaintStaysInImage' /\ painted' \subseteq Nat
    BY <1>1, <2>1, <2>5, <2>6 DEF PaintStaysInImage
  <2>. HIDE DEF rb
  <2>8. /\ OutputOffset(job, b.slot) \in Nat
        /\ OutputOffset(job, b.slot) + b.rows * rb <= OutputOffset(job, b.slot) + SlotBytes(job)
        /\ OutputOffset(job, b.slot) + b.rows * rb <= TotalBytes(job)
    BY <2>1, <2>4, InSlot
  <2>9. touched' \in Touched
    BY <2>1, <2>4, <2>5, <2>8 DEF Touched
  <2>10. AccessStaysInSlot'
    BY <1>1, <2>1, <2>5, <2>8 DEF AccessStaysInSlot, SlotStart, PoolSize
  <2>. QED
    BY <2>5, <2>7, <2>9, <2>10, <1>3 DEF OutputBand
<1>. QED
  BY <1>2, <1>3 DEF OutputBand

-----------------------------------------------------------------------------
(* What an honest worker sends                                             *)

\* A band starts at its row, ends in the panel and is no taller than asked for.
LEMMA TileShape ==
  ASSUME NEW h \in Nat \ {0}, NEW b \in Nat \ {0}, NEW y0 \in Nat, y0 < h
  PROVE  /\ Band(h, b, y0).y0 = y0
         /\ Band(h, b, y0).y1 \in Nat
         /\ y0 < Band(h, b, y0).y1 /\ Band(h, b, y0).y1 <= h
         /\ Band(h, b, y0).y1 - y0 <= b
BY DEF Band

\* The request an honest reader of panel p makes for row y.
Tile(p, s, y) ==
  LET tile == Band(job.panels[p].h, job.bandRows, (y \div job.bandRows) * job.bandRows)
  IN [panel |-> p - 1, slot |-> s, y0 |-> tile.y0, y1 |-> tile.y1]

\* The host serves every band of a cache.
LEMMA TileIsServed ==
  ASSUME job \in Jobs, NEW p \in DOMAIN job.panels, NEW s \in 0 .. InputSlots - 1,
         NEW y \in 0 .. job.panels[p].h - 1
  PROVE  /\ Tile(p, s, y) \in Requests
         /\ ~BadInputSlot(Tile(p, s, y)) /\ ~Oversized(Tile(p, s, y)) /\ InPanel(Tile(p, s, y))
<1>. DEFINE h == job.panels[p].h
            b == job.bandRows
            a == (y \div b) * b
            r == Tile(p, s, y)
<1>1. h \in Nat \ {0} /\ b \in Nat \ {0} /\ y \in Nat /\ y < h
  BY JobSizes
<1>2. a \in Nat /\ a <= y
  BY <1>1, BandStart
<1>3. a < h
  BY <1>1, <1>2
<1>4. /\ r.panel = p - 1 /\ r.slot = s /\ r.y0 = a /\ r.y1 \in Nat
      /\ a < r.y1 /\ r.y1 <= h /\ r.y1 - a <= b
      /\ r = [panel |-> p - 1, slot |-> s, y0 |-> r.y0, y1 |-> r.y1]
  <2>1. r = [panel |-> p - 1, slot |-> s, y0 |-> Band(h, b, a).y0, y1 |-> Band(h, b, a).y1]
    BY DEF Tile
  <2>. HIDE DEF h, b, a, r
  <2>. QED
    BY <1>1, <1>2, <1>3, <2>1, TileShape
<1>5. /\ p \in Nat \ {0} /\ p <= Len(job.panels) /\ Len(job.panels) \in Nat
  BY GuardAssumption DEF WellFormed
<1>6. s \in Nat /\ s < InputSlots
  BY GuardAssumption
<1>. HIDE DEF a, r
<1>7. r \in Requests
  BY <1>2, <1>4, <1>5, <1>6 DEF Requests
<1>8. ~BadInputSlot(r)
  BY <1>4, <1>6, GuardAssumption DEF BadInputSlot
<1>9. InOrder(r) /\ PanelDims(job, r.panel) = job.panels[p]
  BY <1>2, <1>4, <1>5 DEF InOrder, KnownPanel, PanelDims
<1>10. /\ RowBytes(job.panels[p]) \in Nat \ {0}
       /\ r.y1 - r.y0 <= SlotBytes(job) \div RowBytes(job.panels[p])
  <2>1. /\ job.panels[p].w \in Nat \ {0} /\ job.panels[p].w <= SlotWidth(job)
        /\ job.panels[p].ch = job.panels[1].ch
    BY JobSizes
  <2>2. r.y1 - r.y0 \in Nat /\ r.y1 - r.y0 <= job.bandRows
    BY <1>2, <1>4
  <2>3. RowBytes(job.panels[p]) = job.panels[p].w * job.panels[1].ch * 4
    BY <2>1 DEF RowBytes
  <2>. QED
    BY <2>1, <2>2, <2>3, BandFits
<1>11. InPanel(r)
  BY <1>4, <1>9, <1>10 DEF InPanel
<1>12. ~Oversized(r)
  <2>1. SlotBytes(job) \div RowBytes(job.panels[p]) \in Nat /\ r.y1 - r.y0 \in Nat
    BY <1>2, <1>4, <1>10, JobSizes, SMT
  <2>. QED
    BY <1>9, <1>10, <2>1 DEF Oversized
<1>. QED
  BY <1>7, <1>8, <1>11, <1>12 DEF r

\* The output band an honest worker sends when the first n rows are painted.
Strip(s, n) ==
  LET tile == Band(out.h, job.bandRows, n)
  IN [slot |-> s, y0 |-> tile.y0, rows |-> tile.y1 - tile.y0]

\* The image an honest worker began is a part of the target.
PartOfTarget ==
  begun => out.w <= Target(job).w /\ out.h <= Target(job).h /\ out.ch = job.panels[1].ch

\* The host paints every band of an honest blend.
LEMMA StripIsPainted ==
  ASSUME MemoryInv, PartOfTarget, begun, NEW s \in 0 .. OutputSlots - 1, NEW n \in Nat, n < out.h
  PROVE  /\ Strip(s, n) \in Outputs
         /\ ~BadOutput(Strip(s, n))
         /\ Strip(s, n).y0 = n
         /\ n + Strip(s, n).rows <= out.h
<1>. DEFINE r == Strip(s, n)
            t == Band(out.h, job.bandRows, n)
<1>1. /\ out.w \in Nat \ {0} /\ out.h \in Nat \ {0} /\ out.ch \in Nat \ {0}
      /\ job \in Jobs /\ job.bandRows \in Nat \ {0}
  BY JobSizes DEF MemoryInv, TypeOK, Geometry
<1>2. t.y0 = n /\ t.y1 \in Nat /\ n < t.y1 /\ t.y1 <= out.h /\ t.y1 - n <= job.bandRows
  BY <1>1, TileShape
<1>3. r = [slot |-> s, y0 |-> t.y0, rows |-> t.y1 - t.y0]
  BY DEF Strip
<1>. HIDE DEF t, r
<1>4. /\ r.slot = s /\ r.y0 = n /\ r.rows = t.y1 - n /\ r.rows \in Nat \ {0}
      /\ r.rows <= job.bandRows /\ r.rows <= out.h - n
  BY <1>1, <1>2, <1>3
<1>5. r \in Outputs
  BY <1>2, <1>3, <1>4 DEF Outputs
<1>6. s \in Nat /\ s < OutputSlots
  BY GuardAssumption
<1>7. r.rows <= SlotBytes(job) \div RowBytes(out) /\ RowBytes(out) \in Nat \ {0}
  <2>1. out.w <= SlotWidth(job)
    <3>1. Target(job).w \in Nat /\ Target(job).w <= SlotWidth(job) /\ SlotWidth(job) \in Nat
      BY <1>1, JobSizes
    <3>2. out.w <= Target(job).w
      BY DEF PartOfTarget
    <3>. QED
      BY <1>1, <3>1, <3>2
  <2>2. RowBytes(out) = out.w * job.panels[1].ch * 4
    BY DEF RowBytes, PartOfTarget
  <2>. QED
    BY <1>1, <1>4, <2>1, <2>2, BandFits
<1>8. SlotBytes(job) \div RowBytes(out) \in Nat
  BY <1>1, <1>7, JobSizes, SMT
<1>9. ~PastImage(r)
  BY <1>1, <1>4 DEF PastImage
<1>10. ~BadOutput(r)
  BY <1>4, <1>6, <1>7, <1>8, <1>9, GuardAssumption DEF BadOutput
<1>. QED
  BY <1>1, <1>4, <1>5, <1>10 DEF r

-----------------------------------------------------------------------------
(* The inductive invariant                                                 *)

\* While the worker is honest the painted rows are the first rows of the image.
HonestInv ==
  /\ honest => /\ phase # "killed"
               /\ verdict # "refused"
               /\ PartOfTarget
               /\ \E n \in Nat : painted = 0 .. n - 1 /\ (begun => n <= out.h)
  /\ phase = "done" => painted = 0 .. out.h - 1

IInv == MemoryInv /\ HonestInv

\* The invariant holds at the start of a job.
LEMMA Initially == Init => IInv
<1>. SUFFICES ASSUME Init PROVE IInv
  OBVIOUS
<1>1. MemoryInv
  BY
    DEF Init, MemoryInv, TypeOK, AccessStaysInSlot, PaintStaysInImage,
       Touched, Nowhere, Geometry
<1>2. HonestInv
  <2>1. painted = 0 .. 0 - 1
    BY DEF Init
  <2>. QED
    BY <2>1 DEF Init, HonestInv, PartOfTarget
<1>. QED
  BY <1>1, <1>2 DEF IInv

\* An honest request keeps the invariant.
LEMMA HonestRequestStep == IInv /\ HonestRequest => IInv'
<1>. SUFFICES ASSUME IInv, HonestRequest PROVE IInv'
  OBVIOUS
<1>. USE DEF IInv
<1>0. job \in Jobs /\ job' = job
  BY DEF MemoryInv, TypeOK, HonestRequest, BandRequest
<1>1. PICK p \in DOMAIN job.panels, s \in 0 .. InputSlots - 1 :
        \E y \in 0 .. job.panels[p].h - 1 : BandRequest(Tile(p, s, y))
  BY DEF HonestRequest, Tile
<1>2. PICK y \in 0 .. job.panels[p].h - 1 : BandRequest(Tile(p, s, y))
  BY <1>1
<1>3. /\ Tile(p, s, y) \in Requests /\ ~BadInputSlot(Tile(p, s, y))
      /\ ~Oversized(Tile(p, s, y)) /\ InPanel(Tile(p, s, y))
  BY <1>0, TileIsServed
<1>4. Fill(Tile(p, s, y))
  BY <1>2, <1>3 DEF BandRequest
<1>5. /\ phase' = phase /\ begun' = begun /\ out' = out /\ painted' = painted /\ honest' = honest
      /\ verdict' \in {"filled", "unreadable"}
  BY <1>4 DEF Fill, HonestRequest
<1>6. MemoryInv'
  BY <1>0, <1>2, <1>3, <1>5, RequestIsSafe DEF MemoryInv, TypeOK
<1>7. HonestInv'
  BY <1>0, <1>5 DEF HonestInv, PartOfTarget
<1>. QED
  BY <1>6, <1>7

\* An honest Begin keeps the invariant.
LEMMA HonestBeginStep == IInv /\ HonestBegin => IInv'
<1>. SUFFICES ASSUME IInv, HonestBegin PROVE IInv'
  OBVIOUS
<1>. USE DEF IInv
<1>0. job \in Jobs /\ honest' = honest /\ honest /\ ~begun
  BY DEF MemoryInv, TypeOK, HonestBegin
<1>1. PICK w \in 1 .. Target(job).w, h \in 1 .. Target(job).h :
        Begin([w |-> w, h |-> h, ch |-> job.panels[1].ch])
  BY DEF HonestBegin
<1>. DEFINE g == [w |-> w, h |-> h, ch |-> job.panels[1].ch]
<1>2. /\ Target(job).w \in Nat /\ Target(job).h \in Nat /\ job.panels[1].ch \in Nat \ {0}
  BY <1>0, JobSizes
<1>3. g \in Geometry /\ g.w > 0 /\ g.h > 0 /\ g.ch > 0
  BY <1>2 DEF Geometry
<1>4. ~BadBegin(g)
  <2>1. ~Exceeds(g)
    <3>1. CASE job.mode = "Aligned"
      <4>1. Target(job).w = Canvas(job).w /\ Target(job).h = Canvas(job).h
        BY <1>0, <3>1, GuardAssumption DEF Target, Canvas, WellFormed
      <4>. QED
        BY <1>2, <4>1 DEF Exceeds
    <3>2. CASE job.mode # "Aligned"
      BY <3>2 DEF Exceeds, Canvas
    <3>. QED
      BY <3>1, <3>2
  <2>. QED
    BY <1>0, <1>3, <2>1 DEF BadBegin, Canvas
<1>5. /\ begun' = TRUE /\ out' = g /\ phase' = phase /\ verdict' = verdict
      /\ painted' = painted /\ job' = job
  BY <1>1, <1>4 DEF Begin
<1>6. MemoryInv'
  BY <1>0, <1>1, <1>3, <1>5, BeginIsSafe DEF MemoryInv, TypeOK, Begin, Kill
<1>7. painted = {} /\ painted = 0 .. 0 - 1
  BY <1>0 DEF MemoryInv, PaintStaysInImage
<1>8. phase = "serving"
  BY <1>1 DEF Begin
<1>9. HonestInv'
  <2>1. PartOfTarget'
    BY <1>2, <1>5 DEF PartOfTarget, Target
  <2>2. 0 <= out'.h
    BY <1>5
  <2>. QED
    BY <1>0, <1>5, <1>7, <1>8, <2>1, <2>2 DEF HonestInv
<1>. QED
  BY <1>6, <1>9

\* An honest output band keeps the invariant.
LEMMA HonestOutputStep == IInv /\ HonestOutput => IInv'
<1>. SUFFICES ASSUME IInv, HonestOutput PROVE IInv'
  OBVIOUS
<1>. USE DEF IInv
<1>0. /\ job \in Jobs /\ honest' = honest /\ honest /\ begun /\ PartOfTarget
      /\ out.h \in Nat /\ job.bandRows \in Nat
  BY JobSizes DEF MemoryInv, TypeOK, HonestOutput, HonestInv, Geometry
<1>1. PICK n \in Nat : painted = 0 .. n - 1 /\ n <= out.h
  BY <1>0 DEF HonestInv
<1>2. NextRow = n
  BY <1>1, FS_Interval DEF NextRow
<1>3. n < out.h
  BY <1>2 DEF HonestOutput
<1>4. PICK s \in 0 .. OutputSlots - 1 : OutputBand(Strip(s, n))
  BY <1>2 DEF HonestOutput, Strip
<1>. DEFINE b == Strip(s, n)
<1>5. b \in Outputs /\ ~BadOutput(b) /\ b.y0 = n /\ n + b.rows <= out.h
  BY <1>0, <1>3, StripIsPainted
<1>6. Paint(b) /\ job' = job
  BY <1>4, <1>5 DEF OutputBand
<1>. HIDE DEF b
<1>7. /\ painted' = painted \cup b.y0 .. (b.y0 + b.rows - 1)
      /\ phase' = phase /\ verdict' = verdict /\ begun' = begun /\ out' = out
  BY <1>6 DEF Paint
<1>8. MemoryInv'
  BY <1>0, <1>4, <1>5, <1>6, <1>7, OutputIsSafe DEF MemoryInv, TypeOK, b
<1>9. painted' = 0 .. (n + b.rows) - 1 /\ n + b.rows \in Nat
  BY <1>1, <1>5, <1>7 DEF Outputs
<1>10. phase = "serving"
  BY <1>4 DEF OutputBand
<1>11. HonestInv'
  BY <1>0, <1>5, <1>6, <1>7, <1>9, <1>10 DEF HonestInv, PartOfTarget
<1>. QED
  BY <1>8, <1>11

\* An honest Done keeps the invariant.
LEMMA HonestDoneStep == IInv /\ HonestDone => IInv'
<1>. SUFFICES ASSUME IInv, HonestDone PROVE IInv'
  OBVIOUS
<1>. USE DEF IInv
<1>1. honest /\ begun /\ NextRow = out.h /\ phase' = "done"
      /\ UNCHANGED <<job, honest, verdict, begun, out, touched, painted>>
  BY DEF HonestDone
<1>2. MemoryInv'
  BY <1>1
    DEF MemoryInv, TypeOK, AccessStaysInSlot, SlotStart, PoolSize,
       PaintStaysInImage
<1>3. PICK n \in Nat : painted = 0 .. n - 1
  BY <1>1 DEF HonestInv
<1>4. n = out.h
  <2>1. Cardinality(0 .. n - 1) = n
    BY FS_Interval
  <2>. QED
    BY <1>1, <1>3, <2>1 DEF NextRow
<1>5. HonestInv'
  BY <1>1, <1>3, <1>4 DEF HonestInv, PartOfTarget
<1>. QED
  BY <1>2, <1>5

\* Whatever a stray worker sends keeps the invariant.
LEMMA StrayStep == IInv /\ Stray => IInv'
<1>. SUFFICES ASSUME IInv, Stray PROVE IInv'
  OBVIOUS
<1>. USE DEF IInv
<1>1. Wire \subseteq Nat
  BY GuardAssumption
<1>2. honest' = FALSE
  BY DEF Stray, StrayRequest, StrayBegin, StrayOutput
<1>3. MemoryInv' /\ phase' # "done"
  <2>1. CASE StrayRequest
    <3>1. PICK r \in Requests : BandRequest(r)
      BY <1>1, <2>1 DEF StrayRequest, Requests
    <3>2. AccessStaysInSlot' /\ PaintStaysInImage' /\ touched' \in Touched
          /\ phase' \in {"serving", "killed"}
          /\ verdict' \in {"none", "filled", "unreadable", "refused"}
      BY <3>1, RequestIsSafe
    <3>3. job' = job /\ begun' = begun /\ out' = out /\ painted' = painted
      BY <3>1 DEF BandRequest, Kill, Fill, Refuse
    <3>. QED
      BY <1>2, <3>2, <3>3 DEF MemoryInv, TypeOK
  <2>2. CASE StrayBegin
    <3>1. PICK g \in Geometry : Begin(g)
      BY <1>1, <2>2 DEF StrayBegin, Geometry
    <3>. QED
      BY <1>2, <3>1, BeginIsSafe DEF MemoryInv, TypeOK, Begin, Kill
  <2>3. CASE StrayOutput
    <3>1. PICK b \in Outputs : OutputBand(b)
      BY <1>1, <2>3 DEF StrayOutput, Outputs
    <3>2. AccessStaysInSlot' /\ PaintStaysInImage' /\ touched' \in Touched
          /\ painted' \subseteq Nat /\ phase' \in {"serving", "killed"}
      BY <3>1, OutputIsSafe
    <3>3. job' = job /\ begun' = begun /\ out' = out /\ verdict' = verdict
      BY <3>1 DEF OutputBand, Kill, Paint
    <3>. QED
      BY <1>2, <3>2, <3>3 DEF MemoryInv, TypeOK
  <2>. QED
    BY <2>1, <2>2, <2>3 DEF Stray
<1>. QED
  BY <1>2, <1>3 DEF HonestInv

\* The invariant holds throughout a job.
THEOREM GuardInvariant == Spec => []IInv
<1>1. Init => IInv
  BY Initially
<1>2. IInv /\ [Next]_vars => IInv'
  <2>. SUFFICES ASSUME IInv, [Next]_vars PROVE IInv'
    OBVIOUS
  <2>1. CASE UNCHANGED vars
    BY <2>1
      DEF vars, IInv, MemoryInv, TypeOK, AccessStaysInSlot, SlotStart, PoolSize,
                PaintStaysInImage, HonestInv, PartOfTarget
  <2>. QED
    BY <2>1, HonestRequestStep, HonestBeginStep, HonestOutputStep,
       HonestDoneStep, StrayStep DEF Next
<1>. QED
  BY <1>1, <1>2, PTL DEF Spec

\* Whatever a worker sends, the host reads and writes only the slot a frame
\* names (Host::run's checks of BandRequest and OutputBand, and SlotLayout).
THEOREM HostStaysInSlot == Spec => []AccessStaysInSlot
<1>1. IInv => AccessStaysInSlot
  BY DEF IInv, MemoryInv
<1>. QED
  BY <1>1, GuardInvariant, PTL

\* Whatever a worker sends, no row beyond the begun image is painted.
THEOREM HostStaysInImage == Spec => []PaintStaysInImage
<1>1. IInv => PaintStaysInImage
  BY DEF IInv, MemoryInv
<1>. QED
  BY <1>1, GuardInvariant, PTL

\* A slot sized by RunViews or RunFiles holds every band the worker's readers
\* and its blend send, so an honest worker is never refused or killed.
THEOREM HonestAlwaysServed == Spec => []HonestIsServed
<1>1. IInv => HonestIsServed
  BY DEF IInv, HonestInv, HonestIsServed
<1>. QED
  BY <1>1, GuardInvariant, PTL

\* Done comes after the last row of the image.
THEOREM DoneAlwaysComplete == Spec => []DoneIsComplete
<1>1. IInv => DoneIsComplete
  BY DEF IInv, HonestInv, DoneIsComplete
<1>. QED
  BY <1>1, GuardInvariant, PTL

-----------------------------------------------------------------------------
(* Counting, and recursive functions over it.                                 *)

\* Of the members of a set of naturals, one is the smallest.
LEMMA LeastNatural ==
  ASSUME NEW S \in SUBSET Nat, S # {}
  PROVE  \E x \in S : \A y \in S : x <= y
<1> DEFINE Segments == {0 .. x : x \in S}
<1>1. Segments \subseteq FiniteSubsetsOf(Nat) /\ Segments # {}
  <2>1. \A x \in S : IsFiniteSet(0 .. x) /\ 0 .. x \in SUBSET Nat
    BY FS_Interval
  <2>2. \A x \in S : 0 .. x \in FiniteSubsetsOf(Nat)
    BY <2>1 DEF FiniteSubsetsOf
  <2> QED
    BY <2>2
<1>2. PICK x \in S : \A U \in Segments : <<U, 0 .. x>> \notin StrictSubsetOrdering(Nat)
  <2>1. PICK V \in Segments : \A U \in Segments : ~ (<<U, V>> \in StrictSubsetOrdering(Nat))
    <3> HIDE DEF Segments
    <3> QED
      BY <1>1, FS_StrictSubsetOrderingWellFounded, WFMin
  <2> QED
    BY <2>1
<1>3. ASSUME NEW y \in S, y < x PROVE FALSE
  <2>1. 0 .. y \subseteq 0 .. x /\ 0 .. x \subseteq Nat /\ x \in 0 .. x /\ x \notin 0 .. y
    BY <1>3
  <2>2. <<0 .. y, 0 .. x>> \in StrictSubsetOrdering(Nat)
    BY <2>1 DEF StrictSubsetOrdering
  <2>3. 0 .. y \in Segments
    OBVIOUS
  <2> QED
    BY <1>2, <2>2, <2>3
<1>4. \A y \in S : x <= y
  BY <1>3
<1> QED
  BY <1>4

\* What holds at 0 and passes from each number to the next holds of all.
LEMMA Counting ==
  ASSUME NEW B, 0 \in B, \A n \in Nat : n \in B => n + 1 \in B
  PROVE  Nat \subseteq B
<1> SUFFICES ASSUME Nat \ B # {} PROVE FALSE
  OBVIOUS
<1>1. PICK n \in Nat \ B : \A k \in Nat \ B : n <= k
  BY LeastNatural
<1>2. n - 1 \in Nat /\ n - 1 \notin Nat \ B
  BY <1>1
<1> QED
  BY <1>1, <1>2

\* A recursive function over 0 .. w: its value at 0, and each from the one before.
Steps(w, base, st, f) ==
  f = [i \in 0 .. w |-> IF i = 0 THEN base ELSE st[<<i, f[i - 1]>>]]

\* It exists, and has its values where the step has.
LEMMA Stepping ==
  ASSUME NEW w \in Nat, NEW V, NEW base \in V, NEW st \in [(1 .. w) \X V -> V]
  PROVE  \E f \in [0 .. w -> V] : Steps(w, base, st, f)
<1> DEFINE R(n, f) == \A i \in 0 .. n : f[i] = IF i = 0 THEN base ELSE st[<<i, f[i - 1]>>]
           B == {n \in Nat : n <= w => \E f \in [0 .. n -> V] : R(n, f)}
<1>1. 0 \in B
  <2> DEFINE f == [i \in 0 .. 0 |-> base]
  <2>1. f \in [0 .. 0 -> V] /\ R(0, f)
    OBVIOUS
  <2> HIDE DEF f
  <2> QED
    BY <2>1
<1>2. ASSUME NEW n \in Nat, n \in B PROVE n + 1 \in B
  <2> SUFFICES ASSUME n + 1 <= w PROVE \E f \in [0 .. n + 1 -> V] : R(n + 1, f)
    OBVIOUS
  <2>1. PICK g \in [0 .. n -> V] : R(n, g)
    BY <1>2
  <2> DEFINE f == [i \in 0 .. n + 1 |-> IF i = n + 1 THEN st[<<n + 1, g[n]>>] ELSE g[i]]
  <2>2. <<n + 1, g[n]>> \in (1 .. w) \X V
    OBVIOUS
  <2>3. st[<<n + 1, g[n]>>] \in V
    BY <2>2
  <2>4. f \in [0 .. n + 1 -> V]
    BY <2>3
  <2>5. \A i \in 0 .. n : f[i] = g[i]
    OBVIOUS
  <2>6. f[n + 1] = st[<<n + 1, g[n]>>]
    OBVIOUS
  <2> HIDE DEF f
  <2>7. ASSUME NEW i \in 0 .. n + 1
        PROVE  f[i] = IF i = 0 THEN base ELSE st[<<i, f[i - 1]>>]
    <3>1. CASE i = n + 1
      <4>1. f[i - 1] = g[n] /\ i # 0
        BY <3>1, <2>5
      <4> QED
        BY <3>1, <4>1, <2>6
    <3>2. CASE i \in 1 .. n
      <4>1. f[i - 1] = g[i - 1] /\ f[i] = g[i] /\ i # 0
        BY <3>2, <2>5
      <4>2. g[i] = IF i = 0 THEN base ELSE st[<<i, g[i - 1]>>]
        BY <2>1, <3>2
      <4> QED
        BY <4>1, <4>2
    <3>3. CASE i = 0
      <4>1. g[0] = base
        <5>1. 0 \in 0 .. n
          OBVIOUS
        <5> QED
          BY <2>1, <5>1
      <4> QED
        BY <4>1, <3>3, <2>5
    <3> QED
      BY <3>1, <3>2, <3>3
  <2> QED
    BY <2>4, <2>7
<1>3. w \in B
  <2> HIDE DEF B
  <2> QED
    BY <1>1, <1>2, Counting
<1>4. PICK f \in [0 .. w -> V] : R(w, f)
  BY <1>3
<1>5. f = [i \in 0 .. w |-> IF i = 0 THEN base ELSE st[<<i, f[i - 1]>>]]
  BY <1>4
<1> QED
  BY <1>5 DEF Steps

-----------------------------------------------------------------------------
(* Integers and their bytes.                                                  *)

Digits(n, w, r) ==
  r[0] = n /\ \A i \in 1 .. w : r[i] = r[i - 1] \div Base

\* Rest divides again and again.
LEMMA RestDefined ==
  ASSUME NEW n \in Nat, NEW w \in Nat
  PROVE  Rest(n, w) \in [0 .. w -> Nat] /\ Digits(n, w, Rest(n, w))
<1> DEFINE st == [p \in (1 .. w) \X Nat |-> p[2] \div Base]
           P(r) == r = [i \in 0 .. w |-> IF i = 0 THEN n ELSE r[i - 1] \div Base]
<1>1. \A k \in Nat : k \div Base \in Nat
  BY CodecAssumption
<1>2. st \in [(1 .. w) \X Nat -> Nat]
  BY <1>1
<1>3. PICK f \in [0 .. w -> Nat] : Steps(w, n, st, f)
  <2> HIDE DEF st
  <2> QED
    BY <1>2, Stepping
<1>4. P(f)
  <2>1. ASSUME NEW i \in 0 .. w, i # 0
        PROVE  st[<<i, f[i - 1]>>] = f[i - 1] \div Base
    <3>1. <<i, f[i - 1]>> \in (1 .. w) \X Nat
      BY <2>1
    <3> QED
      BY <3>1
  <2> HIDE DEF st
  <2> QED
    BY <1>3, <2>1 DEF Steps
<1>5. Rest(n, w) = CHOOSE r : P(r)
  BY DEF Rest
<1>6. P(Rest(n, w))
  <2> HIDE DEF P
  <2> QED
    BY <1>4, <1>5
<1> DEFINE r == Rest(n, w)
<1>7. r[0] = n /\ \A i \in 1 .. w : r[i] = r[i - 1] \div Base
  <2> HIDE DEF r
  <2>1. P(r)
    BY <1>6 DEF r
  <2>2. \A i \in 0 .. w : r[i] = IF i = 0 THEN n ELSE r[i - 1] \div Base
    BY <2>1
  <2> QED
    BY <2>2
<1>8. r \in [0 .. w -> Nat]
  <2> HIDE DEF r
  <2>1. r = [i \in 0 .. w |-> r[i]]
    <3>1. P(r)
      BY <1>6 DEF r
    <3> QED
      BY <3>1
  <2> DEFINE B == {i \in Nat : i <= w => r[i] \in Nat}
  <2>2. 0 \in B
    BY <1>7
  <2>3. ASSUME NEW i \in Nat, i \in B PROVE i + 1 \in B
    <3> SUFFICES ASSUME i + 1 <= w PROVE r[i + 1] \in Nat
      OBVIOUS
    <3>1. r[i + 1] = r[i] \div Base /\ r[i] \in Nat
      BY <1>7, <2>3
    <3> QED
      BY <3>1, <1>1
  <2>4. Nat \subseteq B
    <3> HIDE DEF B
    <3> QED
      BY <2>2, <2>3, Counting
  <2>5. \A i \in 0 .. w : r[i] \in Nat
    BY <2>4
  <2> QED
    BY <2>1, <2>5
<1> QED
  BY <1>7, <1>8 DEF Digits

\* The bytes of a number are as many as its width, and bytes.
LEMMA BytesOfNumber ==
  ASSUME NEW n \in Nat, NEW w \in Nat
  PROVE  /\ to_le_bytes(n, w) \in Seq(Nat)
         /\ Len(to_le_bytes(n, w)) = w
         /\ \A i \in 1 .. w : to_le_bytes(n, w)[i] = Rest(n, w)[i - 1] % Base
<1>1. \A i \in 1 .. w : Rest(n, w)[i - 1] % Base \in Nat
  <2>1. \A i \in 1 .. w : Rest(n, w)[i - 1] \in Nat
    BY RestDefined
  <2>2. \A k \in Nat : k % Base \in Nat
    BY CodecAssumption
  <2> QED
    BY <2>1, <2>2
<1> QED
  BY <1>1 DEF to_le_bytes

\* Horner's scheme.
Horner(s, v) ==
  v[0] = 0 /\ \A i \in 1 .. Len(s) : v[i] = s[Len(s) + 1 - i] + Base * v[i - 1]

\* from_le_bytes is that scheme.
LEMMA NumberOfBytes ==
  ASSUME NEW s \in Seq(Nat)
  PROVE  \E v \in [0 .. Len(s) -> Nat] : Horner(s, v) /\ from_le_bytes(s) = v[Len(s)]
<1> DEFINE st == [p \in (1 .. Len(s)) \X Nat |-> s[Len(s) + 1 - p[1]] + Base * p[2]]
           P(v) == v = [i \in 0 .. Len(s) |-> IF i = 0 THEN 0 ELSE s[Len(s) + 1 - i] + Base * v[i - 1]]
<1>0. Len(s) \in Nat /\ \A k \in Nat : Base * k \in Nat
  BY CodecAssumption
<1>1. \A i \in 1 .. Len(s) : s[Len(s) + 1 - i] \in Nat
  <2>1. \A i \in 1 .. Len(s) : Len(s) + 1 - i \in 1 .. Len(s)
    BY <1>0
  <2> QED
    BY <2>1
<1>2. st \in [(1 .. Len(s)) \X Nat -> Nat]
  <2>1. \A p \in (1 .. Len(s)) \X Nat : s[Len(s) + 1 - p[1]] \in Nat /\ Base * p[2] \in Nat
    BY <1>0, <1>1
  <2>2. \A p \in (1 .. Len(s)) \X Nat : s[Len(s) + 1 - p[1]] + Base * p[2] \in Nat
    BY <2>1
  <2> QED
    BY <2>2
<1>3. PICK f \in [0 .. Len(s) -> Nat] : Steps(Len(s), 0, st, f)
  <2> HIDE DEF st
  <2> QED
    BY <1>0, <1>2, Stepping
<1>4. P(f)
  <2>1. ASSUME NEW i \in 0 .. Len(s), i # 0
        PROVE  st[<<i, f[i - 1]>>] = s[Len(s) + 1 - i] + Base * f[i - 1]
    <3>0. i \in 1 .. Len(s) /\ i - 1 \in 0 .. Len(s)
      BY <1>0, <2>1
    <3>1. <<i, f[i - 1]>> \in (1 .. Len(s)) \X Nat
      BY <3>0
    <3> QED
      BY <3>1
  <2> HIDE DEF st
  <2> QED
    BY <1>3, <2>1 DEF Steps
<1>5. \E v : P(v)
  BY <1>4
<1> DEFINE k == CHOOSE v : P(v)
<1>6. P(k) /\ from_le_bytes(s) = k[Len(s)]
  <2>1. P(k)
    <3> HIDE DEF P
    <3> QED
      BY <1>5
  <2>2. from_le_bytes(s) = k[Len(s)]
    BY DEF from_le_bytes
  <2> QED
    BY <2>1, <2>2
<1> HIDE DEF k, st
<1>7. Horner(s, k)
  <2>1. \A i \in 0 .. Len(s) : k[i] = IF i = 0 THEN 0 ELSE s[Len(s) + 1 - i] + Base * k[i - 1]
    BY <1>6
  <2>2. 0 \in 0 .. Len(s) /\ \A i \in 1 .. Len(s) : i \in 0 .. Len(s) /\ i # 0
    BY <1>0
  <2>3. k[0] = 0
    BY <2>1, <2>2
  <2>4. \A i \in 1 .. Len(s) : k[i] = s[Len(s) + 1 - i] + Base * k[i - 1]
    BY <2>1, <2>2
  <2> QED
    BY <2>3, <2>4 DEF Horner
<1>8. k \in [0 .. Len(s) -> Nat]
  <2>1. k = [i \in 0 .. Len(s) |-> k[i]]
    BY <1>6
  <2> DEFINE B == {i \in Nat : i <= Len(s) => k[i] \in Nat}
  <2>2. 0 \in B
    BY <1>7 DEF Horner
  <2>3. ASSUME NEW i \in Nat, i \in B PROVE i + 1 \in B
    <3> SUFFICES ASSUME i + 1 <= Len(s) PROVE k[i + 1] \in Nat
      OBVIOUS
    <3>1. k[i + 1] = s[Len(s) + 1 - (i + 1)] + Base * k[i] /\ k[i] \in Nat
      BY <1>0, <1>7, <2>3 DEF Horner
    <3>2. s[Len(s) + 1 - (i + 1)] \in Nat /\ Base * k[i] \in Nat
      <4>1. i + 1 \in 1 .. Len(s)
        BY <1>0
      <4> QED
        BY <1>0, <1>1, <3>1, <4>1
    <3> QED
      BY <3>1, <3>2
  <2>4. Nat \subseteq B
    <3> HIDE DEF B
    <3> QED
      BY <2>2, <2>3, Counting
  <2>5. \A i \in 0 .. Len(s) : k[i] \in Nat
    BY <2>4, <1>0
  <2> QED
    BY <2>1, <2>5
<1> QED
  BY <1>6, <1>7, <1>8

\* read_u32 and read_u64 read what to_le_bytes wrote, if it fits.
THEOREM NumbersSurvive ==
  ASSUME NEW n \in Nat, NEW w \in Nat, Fits(n, w)
  PROVE  from_le_bytes(to_le_bytes(n, w)) = n
<1> DEFINE s == to_le_bytes(n, w)
           r == Rest(n, w)
<1>1. s \in Seq(Nat) /\ Len(s) = w /\ \A i \in 1 .. w : s[i] = r[i - 1] % Base
  BY BytesOfNumber
<1>2. r \in [0 .. w -> Nat] /\ Digits(n, w, r) /\ r[w] = 0
  BY RestDefined DEF Fits
<1> HIDE DEF s, r
<1>3. PICK v \in [0 .. Len(s) -> Nat] : Horner(s, v) /\ from_le_bytes(s) = v[Len(s)]
  BY <1>1, NumberOfBytes
<1>4. \A k \in Nat : k = (k % Base) + Base * (k \div Base)
  BY CodecAssumption
<1> DEFINE B == {i \in Nat : i <= w => v[i] = r[w - i]}
<1>5. 0 \in B
  BY <1>2, <1>3 DEF Horner
<1>6. ASSUME NEW i \in Nat, i \in B PROVE i + 1 \in B
  <2> SUFFICES ASSUME i + 1 <= w PROVE v[i + 1] = r[w - (i + 1)]
    OBVIOUS
  <2> DEFINE j == w - (i + 1)
  <2>1. v[i + 1] = s[j + 1] + Base * v[i]
    <3>1. i + 1 \in 1 .. Len(s) /\ (i + 1) - 1 = i /\ Len(s) + 1 - (i + 1) = j + 1
      BY <1>1
    <3> QED
      BY <3>1, <1>3 DEF Horner
  <2>2. v[i] = r[j + 1]
    <3>1. w - i = j + 1 /\ i <= w
      OBVIOUS
    <3> QED
      BY <1>6, <3>1
  <2>3. s[j + 1] = r[j] % Base
    BY <1>1
  <2>4. r[j + 1] = r[j] \div Base
    BY <1>2 DEF Digits
  <2>5. r[j] \in Nat
    BY <1>2
  <2> HIDE DEF j
  <2>6. r[j] = (r[j] % Base) + Base * (r[j] \div Base)
    BY <2>5, <1>4
  <2> QED
    BY <2>1, <2>2, <2>3, <2>4, <2>6 DEF j
<1>7. w \in B
  <2> HIDE DEF B
  <2> QED
    BY <1>5, <1>6, Counting
<1> QED
  <2>1. v[w] = r[0] /\ r[0] = n
    BY <1>7, <1>2 DEF Digits
  <2> QED
    BY <2>1, <1>1, <1>3 DEF s

-----------------------------------------------------------------------------
(* Messages and their bytes.                                                  *)

\* Tags are numbers, and tell the kinds apart.
LEMMA TagsDiffer ==
  /\ Kinds = {"BandRequest", "Progress", "Begin", "OutputBand", "Done", "Error",
              "Init", "BandReply", "OutputAck", "Cancel"}
  /\ \A k \in Kinds : Tags[k] \in Nat
  /\ \A k, l \in Kinds : Tags[k] = Tags[l] => k = l
  /\ Binary \subseteq Kinds /\ "none" \notin Kinds
<1>1. Kinds = {"BandRequest", "Progress", "Begin", "OutputBand", "Done", "Error",
               "Init", "BandReply", "OutputAck", "Cancel"}
  BY DEF Kinds, Tags
<1>2. /\ Tags["BandRequest"] = 1 /\ Tags["Progress"] = 2 /\ Tags["Begin"] = 3
      /\ Tags["OutputBand"] = 4 /\ Tags["Done"] = 5 /\ Tags["Error"] = 6
      /\ Tags["Init"] = 128 /\ Tags["BandReply"] = 129 /\ Tags["OutputAck"] = 130
      /\ Tags["Cancel"] = 131
  BY DEF Tags
<1> QED
  BY <1>1, <1>2 DEF Binary

\* The fields of a layout follow one another, from the first byte to the last.
Packed(kind, layout, offset) ==
  /\ layout \in Seq(Nat) /\ Len(layout) # 0 /\ offset \in [1 .. Len(layout) -> Nat]
  /\ offset[1] = 0
  /\ \A i \in 1 .. Len(layout) - 1 : offset[i + 1] = offset[i] + layout[i]
  /\ WIRE_LEN(kind) = offset[Len(layout)] + layout[Len(layout)]

\* So do the three binary kinds.
LEMMA LayoutsArePacked ==
  ASSUME NEW kind \in Binary
  PROVE  Packed(kind, Layout(kind), Offset(kind))
<1>0. W32 \in Nat /\ W64 \in Nat
  BY CodecAssumption
<1>1. CASE kind = "BandRequest"
  <2> DEFINE l == <<W32, W32, W64, W64, W32>>
             o == <<0, W32, 2 * W32, 2 * W32 + W64, 2 * W32 + 2 * W64>>
  <2>1. Layout(kind) = l /\ Offset(kind) = o /\ WIRE_LEN(kind) = 3 * W32 + 2 * W64
    BY <1>1 DEF Layout, Offset, WIRE_LEN
  <2>2. l \in Seq(Nat) /\ Len(l) = 5 /\ o \in [1 .. 5 -> Nat]
    BY <1>0
  <2>3. /\ l[1] = W32 /\ l[2] = W32 /\ l[3] = W64 /\ l[4] = W64 /\ l[5] = W32
        /\ o[1] = 0 /\ o[2] = W32 /\ o[3] = 2 * W32 /\ o[4] = 2 * W32 + W64
        /\ o[5] = 2 * W32 + 2 * W64
    OBVIOUS
  <2> HIDE DEF l, o
  <2>4. \A i \in 1 .. 4 : o[i + 1] = o[i] + l[i]
    <3>1. \A i \in 1 .. 4 : i = 1 \/ i = 2 \/ i = 3 \/ i = 4
      OBVIOUS
    <3>2. o[2] = o[1] + l[1] /\ o[3] = o[2] + l[2] /\ o[4] = o[3] + l[3] /\ o[5] = o[4] + l[4]
      BY <1>0, <2>3
    <3> QED
      BY <3>1, <3>2
  <2>5. 3 * W32 + 2 * W64 = o[5] + l[5]
    BY <1>0, <2>3
  <2> QED
    BY <2>1, <2>2, <2>3, <2>4, <2>5 DEF Packed
<1>2. CASE kind = "BandReply"
  <2> DEFINE l == <<W32, W32, 1>>
             o == <<0, W32, 2 * W32>>
  <2>1. Layout(kind) = l /\ Offset(kind) = o /\ WIRE_LEN(kind) = 2 * W32 + 1
    BY <1>2 DEF Layout, Offset, WIRE_LEN
  <2>2. l \in Seq(Nat) /\ Len(l) = 3 /\ o \in [1 .. 3 -> Nat]
    BY <1>0
  <2>3. /\ l[1] = W32 /\ l[2] = W32 /\ l[3] = 1
        /\ o[1] = 0 /\ o[2] = W32 /\ o[3] = 2 * W32
    OBVIOUS
  <2> HIDE DEF l, o
  <2>4. \A i \in 1 .. 2 : o[i + 1] = o[i] + l[i]
    <3>1. \A i \in 1 .. 2 : i = 1 \/ i = 2
      OBVIOUS
    <3>2. o[2] = o[1] + l[1] /\ o[3] = o[2] + l[2]
      BY <1>0, <2>3
    <3> QED
      BY <3>1, <3>2
  <2>5. 2 * W32 + 1 = o[3] + l[3]
    BY <1>0, <2>3
  <2> QED
    BY <2>1, <2>2, <2>3, <2>4, <2>5 DEF Packed
<1>3. CASE kind = "OutputBand"
  <2> DEFINE l == <<W32, W64, W64, W32>>
             o == <<0, W32, W32 + W64, W32 + 2 * W64>>
  <2>1. Layout(kind) = l /\ Offset(kind) = o /\ WIRE_LEN(kind) = 2 * W32 + 2 * W64
    BY <1>3 DEF Layout, Offset, WIRE_LEN
  <2>2. l \in Seq(Nat) /\ Len(l) = 4 /\ o \in [1 .. 4 -> Nat]
    BY <1>0
  <2>3. /\ l[1] = W32 /\ l[2] = W64 /\ l[3] = W64 /\ l[4] = W32
        /\ o[1] = 0 /\ o[2] = W32 /\ o[3] = W32 + W64 /\ o[4] = W32 + 2 * W64
    OBVIOUS
  <2> HIDE DEF l, o
  <2>4. \A i \in 1 .. 3 : o[i + 1] = o[i] + l[i]
    <3>1. \A i \in 1 .. 3 : i = 1 \/ i = 2 \/ i = 3
      OBVIOUS
    <3>2. o[2] = o[1] + l[1] /\ o[3] = o[2] + l[2] /\ o[4] = o[3] + l[3]
      BY <1>0, <2>3
    <3> QED
      BY <3>1, <3>2
  <2>5. 2 * W32 + 2 * W64 = o[4] + l[4]
    BY <1>0, <2>3
  <2> QED
    BY <2>1, <2>2, <2>3, <2>4, <2>5 DEF Packed
<1> QED
  BY <1>1, <1>2, <1>3 DEF Binary

\* Every field lies where its offset says.
Placed(buf, fields, layout, offset, n) ==
  /\ buf \in Seq(Nat)
  /\ Len(buf) = IF n = 0 THEN 0 ELSE offset[n] + layout[n]
  /\ \A j \in 1 .. n : \A k \in 1 .. layout[j] :
        buf[offset[j] + k] = to_le_bytes(fields[j], layout[j])[k]

\* One more field is put behind the others.
LEMMA PlacedNext ==
  ASSUME NEW kind, NEW layout, NEW offset, Packed(kind, layout, offset),
         NEW fields \in Seq(Nat), Len(fields) = Len(layout),
         NEW n \in 0 .. Len(layout) - 1, NEW buf, Placed(buf, fields, layout, offset, n)
  PROVE  Placed(buf \o to_le_bytes(fields[n + 1], layout[n + 1]), fields, layout, offset, n + 1)
<1> DEFINE w == layout[n + 1]
           le == to_le_bytes(fields[n + 1], w)
           new == buf \o le
<1>1. Len(layout) \in Nat /\ \A i \in 1 .. Len(layout) : layout[i] \in Nat /\ offset[i] \in Nat /\ fields[i] \in Nat
  <2>1. layout \in Seq(Nat) /\ offset \in [1 .. Len(layout) -> Nat]
    BY DEF Packed
  <2>2. \A i \in 1 .. Len(fields) : fields[i] \in Nat
    OBVIOUS
  <2>3. \A i \in 1 .. Len(layout) : fields[i] \in Nat
    BY <2>2
  <2>4. Len(layout) \in Nat /\ \A i \in 1 .. Len(layout) : layout[i] \in Nat
    BY <2>1
  <2>5. \A i \in 1 .. Len(layout) : offset[i] \in Nat
    BY <2>1
  <2> QED
    BY <2>3, <2>4, <2>5
<1>2. n + 1 \in 1 .. Len(layout) /\ w \in Nat /\ fields[n + 1] \in Nat
  BY <1>1
<1>3. le \in Seq(Nat) /\ Len(le) = w
  BY <1>2, BytesOfNumber
<1>4. Len(buf) = offset[n + 1] /\ buf \in Seq(Nat)
  <2>1. CASE n = 0
    BY <2>1 DEF Packed, Placed
  <2>2. CASE n # 0
    <3>1. n \in 1 .. Len(layout) - 1
      BY <2>2, <1>1
    <3>2. offset[n + 1] = offset[n] + layout[n]
      BY <3>1 DEF Packed
    <3> QED
      BY <2>2, <3>2 DEF Placed
  <2> QED
    BY <2>1, <2>2
<1> HIDE DEF le, w
<1>5. new \in Seq(Nat) /\ Len(new) = offset[n + 1] + w
  <2>0. buf \in Seq(Nat) /\ le \in Seq(Nat)
    BY <1>3, <1>4
  <2>1. new \in Seq(Nat)
    BY <2>0
  <2>2. Len(new) = Len(buf) + Len(le)
    BY <2>0
  <2> QED
    BY <2>1, <2>2, <1>3, <1>4
<1>6. \A i \in 1 .. Len(buf) : new[i] = buf[i]
  BY <1>3, <1>4
<1>7. \A i \in 1 .. w : new[offset[n + 1] + i] = le[i]
  <2>0. buf \in Seq(Nat) /\ le \in Seq(Nat)
    BY <1>3, <1>4
  <2>1. \A i \in 1 .. Len(le) : new[Len(buf) + i] = le[i]
    <3>1. ASSUME NEW i \in 1 .. Len(le) PROVE new[Len(buf) + i] = le[i]
      <4>1. Len(buf) \in Nat /\ Len(le) \in Nat
        BY <2>0
      <4>2. Len(buf) + i \in 1 .. Len(buf) + Len(le) /\ Len(buf) + i > Len(buf) /\ (Len(buf) + i) - Len(buf) = i
        BY <4>1
      <4> QED
        BY <2>0, <4>1, <4>2
    <3> QED
      BY <3>1
  <2> QED
    BY <1>3, <1>4, <2>1
<1> HIDE DEF new
<1>8. ASSUME NEW j \in 1 .. n + 1, NEW k \in 1 .. layout[j]
      PROVE  new[offset[j] + k] = to_le_bytes(fields[j], layout[j])[k]
  <2>1. CASE j = n + 1
    BY <2>1, <1>7 DEF le, w
  <2>2. CASE j \in 1 .. n
    <3>1. new[offset[j] + k] = buf[offset[j] + k]
      <4>1. offset[j] + layout[j] <= Len(buf)
        <5> DEFINE B == {i \in Nat : j + i <= n => offset[j] + layout[j] <= offset[j + i] + layout[j + i]}
        <5>1. 0 \in B
          BY <1>1, <2>2
        <5>2. ASSUME NEW i \in Nat, i \in B PROVE i + 1 \in B
          <6> SUFFICES ASSUME j + (i + 1) <= n
                       PROVE  offset[j] + layout[j] <= offset[j + (i + 1)] + layout[j + (i + 1)]
            OBVIOUS
          <6> DEFINE q == j + i
          <6>1. q \in 1 .. Len(layout) - 1 /\ q \in Nat /\ j + (i + 1) = q + 1 /\ q <= n
            BY <1>1, <2>2
          <6>2. offset[q + 1] = offset[q] + layout[q]
            BY <6>1 DEF Packed
          <6>3. offset[j] + layout[j] <= offset[q] + layout[q]
            BY <5>2, <6>1
          <6>4. layout[q] \in Nat /\ layout[q + 1] \in Nat /\ offset[q] \in Nat /\ offset[q + 1] \in Nat
                /\ offset[j] \in Nat /\ layout[j] \in Nat
            <7>1. q \in 1 .. Len(layout) /\ q + 1 \in 1 .. Len(layout) /\ j \in 1 .. Len(layout)
              BY <6>1, <1>1, <2>2
            <7> QED
              BY <7>1, <1>1
          <6>5. offset[j + (i + 1)] = offset[q + 1] /\ layout[j + (i + 1)] = layout[q + 1]
            BY <6>1
          <6> HIDE DEF q
          <6>6. offset[j] + layout[j] <= offset[q + 1] + layout[q + 1]
            <7> DEFINE o0 == offset[j]
                       l0 == layout[j]
                       o1 == offset[q]
                       l1 == layout[q]
                       o2 == offset[q + 1]
                       l2 == layout[q + 1]
            <7>1. o2 = o1 + l1 /\ o0 + l0 <= o1 + l1 /\ l2 \in Nat /\ o2 \in Nat /\ o0 \in Nat /\ l0 \in Nat
              BY <6>2, <6>3, <6>4
            <7>2. o1 \in Nat /\ l1 \in Nat
              BY <6>4
            <7> HIDE DEF o0, l0, o1, l1, o2, l2
            <7>3. o0 + l0 <= o2 + l2
              BY <7>1, <7>2
            <7> QED
              BY <7>3 DEF o0, l0, o2, l2
          <6> QED
            BY <6>5, <6>6
        <5>3. n - j \in B
          <6> HIDE DEF B
          <6>1. n - j \in Nat
            BY <2>2
          <6> QED
            BY <5>1, <5>2, <6>1, Counting
        <5>4. offset[j] + layout[j] <= offset[n] + layout[n]
          <6>1. j + (n - j) = n /\ n <= n
            BY <2>2
          <6> QED
            BY <5>3, <6>1
        <5>5. n # 0
          BY <2>2
        <5> QED
          BY <5>4, <5>5 DEF Placed
      <4>2. offset[j] \in Nat /\ layout[j] \in Nat
        BY <1>1, <2>2
      <4>3. offset[j] + k \in 1 .. Len(buf)
        <5> DEFINE o == offset[j]
                   l == layout[j]
                   n0 == Len(buf)
        <5>1. n0 \in Nat /\ k \in Nat /\ 1 <= k /\ k <= l /\ o \in Nat /\ l \in Nat /\ o + l <= n0
          BY <4>1, <4>2, <1>4
        <5> HIDE DEF o, l, n0
        <5>2. o + k \in 1 .. n0
          BY <5>1
        <5> QED
          BY <5>2 DEF o, n0
      <4> QED
        BY <4>3, <1>6
    <3> QED
      BY <3>1, <2>2 DEF Placed
  <2> QED
    BY <2>1, <2>2
<1>9. Placed(new, fields, layout, offset, n + 1)
  <2>1. n + 1 # 0
    OBVIOUS
  <2> QED
    BY <1>5, <1>8, <2>1 DEF Placed, w
<1> QED
  BY <1>9 DEF new, le, w

\* to_bytes of a binary message: its length, and where its fields are.
LEMMA BytesOfMessage ==
  ASSUME NEW m, IsMessage(m), m.kind \in Binary
  PROVE  Placed(to_bytes(m), m.fields, Layout(m.kind), Offset(m.kind), Len(m.fields))
<1> DEFINE fields == m.fields
           layout == Layout(m.kind)
           offset == Offset(m.kind)
           n == Len(fields)
           P(b) == b = [i \in 0 .. n |-> IF i = 0 THEN <<>>
                                         ELSE b[i - 1] \o to_le_bytes(fields[i], layout[i])]
<1>1. Packed(m.kind, layout, offset)
  BY LayoutsArePacked
<1>2. fields \in Seq(Nat) /\ n = Len(layout) /\ n \in Nat
  BY DEF IsMessage
<1>3. to_bytes(m) = (CHOOSE b : P(b))[n]
  BY DEF to_bytes
<1> HIDE DEF fields, layout, offset
<1>4. \A i \in 1 .. n : fields[i] \in Nat /\ layout[i] \in Nat
  BY <1>1, <1>2 DEF Packed
<1> DEFINE st == [p \in (1 .. n) \X Seq(Nat) |-> p[2] \o to_le_bytes(fields[p[1]], layout[p[1]])]
<1>5. st \in [(1 .. n) \X Seq(Nat) -> Seq(Nat)]
  <2>1. ASSUME NEW p \in (1 .. n) \X Seq(Nat)
        PROVE  p[2] \o to_le_bytes(fields[p[1]], layout[p[1]]) \in Seq(Nat)
    <3>1. p[1] \in 1 .. n /\ p[2] \in Seq(Nat)
      OBVIOUS
    <3>2. to_le_bytes(fields[p[1]], layout[p[1]]) \in Seq(Nat)
      BY <3>1, <1>4, BytesOfNumber
    <3> QED
      BY <3>1, <3>2
  <2> QED
    BY <2>1
<1>6. PICK f \in [0 .. n -> Seq(Nat)] : Steps(n, <<>>, st, f)
  <2> HIDE DEF st
  <2>1. <<>> \in Seq(Nat)
    OBVIOUS
  <2> QED
    BY <1>2, <1>5, <2>1, Stepping
<1>7. P(f)
  <2>1. ASSUME NEW i \in 0 .. n, i # 0
        PROVE  st[<<i, f[i - 1]>>] = f[i - 1] \o to_le_bytes(fields[i], layout[i])
    <3>0. i \in 1 .. n /\ i - 1 \in 0 .. n
      BY <1>2, <2>1
    <3>1. <<i, f[i - 1]>> \in (1 .. n) \X Seq(Nat)
      BY <3>0
    <3> QED
      BY <3>1
  <2> HIDE DEF st
  <2> QED
    BY <1>6, <2>1 DEF Steps
<1> DEFINE b == CHOOSE g : P(g)
<1>8. P(b)
  <2> HIDE DEF P
  <2> QED
    BY <1>7
<1>9. b[0] = <<>> /\ \A i \in 1 .. n : b[i] = b[i - 1] \o to_le_bytes(fields[i], layout[i])
  <2> HIDE DEF b
  <2>1. \A i \in 0 .. n : b[i] = IF i = 0 THEN <<>> ELSE b[i - 1] \o to_le_bytes(fields[i], layout[i])
    BY <1>8
  <2>2. 0 \in 0 .. n /\ \A i \in 1 .. n : i \in 0 .. n /\ i # 0
    BY <1>2
  <2> QED
    BY <2>1, <2>2
<1> HIDE DEF b, st, n
<1> DEFINE B == {i \in Nat : i <= n => Placed(b[i], fields, layout, offset, i)}
<1>10. 0 \in B
  <2>1. Placed(<<>>, fields, layout, offset, 0)
    BY DEF Placed
  <2> QED
    BY <1>9, <2>1
<1>11. ASSUME NEW i \in Nat, i \in B PROVE i + 1 \in B
  <2> SUFFICES ASSUME i + 1 <= n PROVE Placed(b[i + 1], fields, layout, offset, i + 1)
    OBVIOUS
  <2>1. Placed(b[i], fields, layout, offset, i)
    BY <1>2, <1>11
  <2>2. b[i + 1] = b[i] \o to_le_bytes(fields[i + 1], layout[i + 1])
    <3>1. i + 1 \in 1 .. n /\ (i + 1) - 1 = i
      BY <1>2
    <3> QED
      BY <3>1, <1>9
  <2>3. i \in 0 .. Len(layout) - 1 /\ Len(fields) = Len(layout)
    BY <1>2 DEF n
  <2> QED
    BY <1>1, <1>2, <2>1, <2>2, <2>3, PlacedNext
<1>12. n \in B
  <2> HIDE DEF B
  <2> QED
    BY <1>2, <1>10, <1>11, Counting
<1>13. Placed(b[n], fields, layout, offset, n)
  BY <1>2, <1>12
<1> QED
  BY <1>3, <1>13 DEF b, fields, layout, offset, n

\* encode gives bytes.
LEMMA EncodedIsBytes ==
  ASSUME NEW m, IsMessage(m)
  PROVE  encode(m) \in Seq(Nat)
<1>1. CASE m.kind \in Binary
  <2>1. to_bytes(m) \in Seq(Nat)
    BY <1>1, BytesOfMessage DEF Placed
  <2> QED
    BY <1>1, <2>1 DEF encode
<1>2. CASE m.kind \notin Binary
  <2>1. Tags[m.kind] \in Nat /\ m.fields \in Seq(Nat)
    BY TagsDiffer DEF IsMessage
  <2>2. <<Tags[m.kind]>> \o m.fields \in Seq(Nat)
    BY <2>1
  <2> QED
    BY <1>2, <2>2 DEF encode, json_payload
<1> QED
  BY <1>1, <1>2

\* A field of a binary payload is read as it was written.
LEMMA FieldIsRead ==
  ASSUME NEW buf, NEW fields \in Seq(Nat), NEW kind, NEW layout, NEW offset,
         Packed(kind, layout, offset), Len(fields) = Len(layout),
         Placed(buf, fields, layout, offset, Len(layout)),
         \A i \in 1 .. Len(layout) : offset[i] + layout[i] <= Len(buf),
         NEW i \in 1 .. Len(layout), Fits(fields[i], layout[i])
  PROVE  read(buf, offset[i], layout[i]) = fields[i]
<1> DEFINE w == layout[i]
           a == offset[i]
           part == SubSeq(buf, a + 1, a + w)
           le == to_le_bytes(fields[i], w)
<1>1. w \in Nat /\ a \in Nat /\ fields[i] \in Nat
  <2>1. layout \in Seq(Nat) /\ offset \in [1 .. Len(layout) -> Nat]
    BY DEF Packed
  <2>2. layout[i] \in Nat
    BY <2>1
  <2>3. offset[i] \in Nat
    BY <2>1
  <2>4. fields[i] \in Nat
    <3>1. i \in 1 .. Len(fields)
      OBVIOUS
    <3> QED
      BY <3>1
  <2> QED
    BY <2>2, <2>3, <2>4
<1>2. buf \in Seq(Nat) /\ a + w <= Len(buf) /\ Len(buf) \in Nat
  BY DEF Placed
<1>3. le \in Seq(Nat) /\ Len(le) = w
  BY <1>1, BytesOfNumber
<1>4. \A k \in 1 .. w : buf[a + k] = le[k]
  BY DEF Placed
<1> HIDE DEF le, a, w
<1>5. part \in Seq(Nat) /\ Len(part) = w /\ \A k \in 1 .. w : part[k] = buf[a + k]
  BY <1>1, <1>2
<1> HIDE DEF part
<1>6. part = le
  <2>1. part = [k \in 1 .. w |-> part[k]] /\ le = [k \in 1 .. w |-> le[k]]
    BY <1>3, <1>5
  <2>2. \A k \in 1 .. w : part[k] = le[k]
    BY <1>4, <1>5
  <2> QED
    BY <2>1, <2>2
<1>7. from_le_bytes(le) = fields[i]
  BY <1>1, NumbersSurvive DEF le, w
<1> QED
  BY <1>6, <1>7 DEF read, part, a, w

\* The last field ends where the payload does, and no field later.
LEMMA FieldsLieInside ==
  ASSUME NEW kind, NEW layout, NEW offset, Packed(kind, layout, offset)
  PROVE  \A i \in 1 .. Len(layout) : offset[i] + layout[i] <= WIRE_LEN(kind)
<1> DEFINE n == Len(layout)
           B == {i \in Nat : i < n => offset[n - i] + layout[n - i] <= WIRE_LEN(kind)}
<1>1. n \in Nat /\ \A i \in 1 .. n : layout[i] \in Nat /\ offset[i] \in Nat
  BY DEF Packed
<1>2. 0 \in B
  <2>1. n \in 1 .. n
    BY <1>1 DEF Packed
  <2>2. WIRE_LEN(kind) = offset[n] + layout[n] /\ n - 0 = n
    BY <1>1 DEF Packed
  <2> QED
    BY <1>1, <2>1, <2>2
<1>3. ASSUME NEW i \in Nat, i \in B PROVE i + 1 \in B
  <2> SUFFICES ASSUME i + 1 < n PROVE offset[n - (i + 1)] + layout[n - (i + 1)] <= WIRE_LEN(kind)
    OBVIOUS
  <2> DEFINE q == n - (i + 1)
  <2>1. q \in 1 .. n - 1 /\ n - i = q + 1 /\ i < n
    BY <1>1
  <2>2. offset[q + 1] = offset[q] + layout[q]
    BY <2>1 DEF Packed
  <2>3. offset[q + 1] + layout[q + 1] <= WIRE_LEN(kind)
    BY <1>3, <2>1
  <2>4. q \in 1 .. n /\ q + 1 \in 1 .. n /\ WIRE_LEN(kind) \in Nat
    <3>1. WIRE_LEN(kind) = offset[n] + layout[n] /\ n \in 1 .. n
      BY <1>1 DEF Packed
    <3> QED
      BY <1>1, <2>1, <3>1
  <2> HIDE DEF q
  <2> QED
    BY <1>1, <2>2, <2>3, <2>4 DEF q
<1>4. Nat \subseteq B
  <2> HIDE DEF B
  <2> QED
    BY <1>2, <1>3, Counting
<1>5. ASSUME NEW i \in 1 .. n PROVE offset[i] + layout[i] <= WIRE_LEN(kind)
  <2>1. n - i \in B /\ n - i < n /\ n - (n - i) = i
    BY <1>1, <1>4
  <2> QED
    BY <2>1
<1> QED
  BY <1>5

\* What one side encodes the other side decodes, and never takes for garbled.
THEOREM MessagesSurvive ==
  ASSUME NEW m, IsMessage(m)
  PROVE  decode(Tags[m.kind], encode(m)) = m /\ m # Garbled
<1>0. m \in [kind : Kinds, fields : Seq(Nat)]
  BY DEF IsMessage
<1>1. m.kind \in Kinds /\ m.fields \in Seq(Nat) /\ m = [kind |-> m.kind, fields |-> m.fields]
  BY <1>0
<1>2. m # Garbled
  <2>1. Garbled.kind = "none"
    BY DEF Garbled
  <2>2. m.kind # "none"
    BY <1>1, TagsDiffer
  <2> QED
    BY <2>1, <2>2
<1>3. (CHOOSE k \in Kinds : Tags[k] = Tags[m.kind]) = m.kind
  BY <1>1, TagsDiffer
<1>4. CASE m.kind \in Binary
  <2> DEFINE layout == Layout(m.kind)
             offset == Offset(m.kind)
             buf == to_bytes(m)
             all == [i \in DOMAIN layout |-> read(buf, offset[i], layout[i])]
  <2>1. decode(Tags[m.kind], encode(m)) = from_bytes(m.kind, buf)
    BY <1>1, <1>3, <1>4 DEF decode, encode
  <2>2. Packed(m.kind, layout, offset)
    BY <1>4, LayoutsArePacked
  <2>3. Len(m.fields) = Len(layout) /\ \A i \in DOMAIN m.fields : Fits(m.fields[i], layout[i])
    BY <1>4 DEF IsMessage
  <2>4. Placed(buf, m.fields, layout, offset, Len(layout))
    BY <1>4, <2>3, BytesOfMessage
  <2>5. Len(buf) = WIRE_LEN(m.kind)
    BY <2>2, <2>4 DEF Packed, Placed
  <2>6. from_bytes(m.kind, buf) = [kind |-> m.kind, fields |-> all]
    BY <2>5 DEF from_bytes
  <2> HIDE DEF buf, offset, layout
  <2>7. DOMAIN layout = 1 .. Len(layout) /\ DOMAIN m.fields = 1 .. Len(layout)
    BY <1>1, <2>2, <2>3 DEF Packed
  <2>8. \A i \in 1 .. Len(layout) : offset[i] + layout[i] <= Len(buf)
    BY <2>2, <2>5, FieldsLieInside
  <2>9. \A i \in 1 .. Len(layout) : all[i] = m.fields[i]
    <3>1. ASSUME NEW i \in 1 .. Len(layout) PROVE read(buf, offset[i], layout[i]) = m.fields[i]
      <4> DEFINE fields == m.fields
                 kind == m.kind
      <4>1. Fits(fields[i], layout[i])
        BY <2>3, <2>7
      <4>2. /\ fields \in Seq(Nat) /\ Packed(kind, layout, offset)
            /\ Len(fields) = Len(layout) /\ Placed(buf, fields, layout, offset, Len(layout))
        BY <1>1, <2>2, <2>3, <2>4
      <4> HIDE DEF fields, kind
      <4>3. read(buf, offset[i], layout[i]) = fields[i]
        BY <2>8, <4>1, <4>2, FieldIsRead
      <4> QED
        BY <4>3 DEF fields
    <3> QED
      BY <2>7, <3>1
  <2>10. all = m.fields
    <3>1. m.fields = [i \in 1 .. Len(layout) |-> m.fields[i]]
      BY <1>1, <2>3
    <3>2. all = [i \in 1 .. Len(layout) |-> all[i]]
      BY <2>7
    <3> HIDE DEF all
    <3> QED
      BY <2>9, <3>1, <3>2
  <2> QED
    BY <1>1, <1>2, <2>1, <2>6, <2>10
<1>5. CASE m.kind \notin Binary
  <2> DEFINE buf == <<Tags[m.kind]>> \o m.fields
  <2>1. decode(Tags[m.kind], encode(m)) = from_slice(buf)
    BY <1>1, <1>3, <1>5 DEF decode, encode, json_payload
  <2>2. Tags[m.kind] \in Nat
    BY <1>1, TagsDiffer
  <2>3. buf \in Seq(Nat) /\ buf # <<>> /\ buf[1] = Tags[m.kind] /\ Tail(buf) = m.fields
    <3>1. buf \in Seq(Nat) /\ Len(buf) = Len(m.fields) + 1 /\ buf[1] = Tags[m.kind]
      BY <1>1, <2>2
    <3>2. Tail(buf) = m.fields
      BY <1>1, <2>2
    <3>3. buf # <<>>
      BY <1>1, <3>1
    <3> QED
      BY <3>1, <3>2, <3>3
  <2>4. (CHOOSE k \in Kinds \ Binary : Tags[k] = buf[1]) = m.kind
    BY <1>1, <1>5, <2>3, TagsDiffer
  <2> HIDE DEF buf
  <2>5. from_slice(buf) = [kind |-> m.kind, fields |-> m.fields]
    <3>1. ~(buf = <<>> \/ ~\E k \in Kinds \ Binary : Tags[k] = buf[1])
      BY <1>1, <1>5, <2>3
    <3> QED
      BY <2>3, <2>4, <3>1 DEF from_slice
  <2> QED
    BY <1>1, <1>2, <2>1, <2>5
<1> QED
  BY <1>4, <1>5

-----------------------------------------------------------------------------
(* Frames.                                                                    *)

\* A frame is a tag, the length of the payload, and the payload.
FrameOf(m, f) ==
  /\ f \in Seq(Nat)
  /\ Len(f) = 1 + W32 + Len(encode(m))
  /\ f[1] = Tags[m.kind]
  /\ \A i \in 1 .. W32 : f[1 + i] = to_le_bytes(Len(encode(m)), W32)[i]
  /\ \A i \in 1 .. Len(encode(m)) : f[1 + W32 + i] = encode(m)[i]

\* Bytes put behind others are found behind them.
LEMMA Joined ==
  ASSUME NEW s \in Seq(Nat), NEW u \in Seq(Nat)
  PROVE  /\ s \o u \in Seq(Nat)
         /\ Len(s \o u) = Len(s) + Len(u)
         /\ \A i \in 1 .. Len(s) : (s \o u)[i] = s[i]
         /\ \A i \in 1 .. Len(u) : (s \o u)[Len(s) + i] = u[i]
<1>1. s \o u \in Seq(Nat)
  OBVIOUS
<1>2. Len(s \o u) = Len(s) + Len(u)
  OBVIOUS
<1>3. \A i \in 1 .. Len(s) : (s \o u)[i] = s[i]
  OBVIOUS
<1>4. ASSUME NEW i \in 1 .. Len(u) PROVE (s \o u)[Len(s) + i] = u[i]
  <2>1. Len(s) \in Nat /\ Len(u) \in Nat
    OBVIOUS
  <2>2. Len(s) + i \in 1 .. Len(s) + Len(u) /\ Len(s) + i > Len(s) /\ (Len(s) + i) - Len(s) = i
    BY <2>1
  <2> QED
    BY <2>1, <2>2
<1> QED
  BY <1>1, <1>2, <1>3, <1>4

\* What write_frame gives is a frame whose length fits, or nothing.
LEMMA FrameIsWhole ==
  ASSUME NEW m, IsMessage(m), write_frame(m) # <<>>
  PROVE  FrameOf(m, write_frame(m)) /\ Fits(Len(encode(m)), W32)
<1> DEFINE payload == encode(m)
           n == Len(payload)
           le == to_le_bytes(n, W32)
           tag == <<Tags[m.kind]>>
           head == tag \o le
           f == write_frame(m)
<1>1. payload \in Seq(Nat) /\ n \in Nat /\ W32 \in Nat
  BY EncodedIsBytes, CodecAssumption
<1>2. Fits(n, W32) /\ f = (tag \o le) \o payload
  BY DEF write_frame
<1>3. le \in Seq(Nat) /\ Len(le) = W32
  BY <1>1, BytesOfNumber
<1>4. tag \in Seq(Nat) /\ Len(tag) = 1 /\ tag[1] = Tags[m.kind]
  <2>1. Tags[m.kind] \in Nat
    BY TagsDiffer DEF IsMessage
  <2> QED
    BY <2>1
<1> HIDE DEF tag, le, payload, f
<1>5. /\ head \in Seq(Nat) /\ Len(head) = 1 + W32 /\ head[1] = tag[1]
      /\ \A i \in 1 .. W32 : head[1 + i] = le[i]
  <2>1. /\ head \in Seq(Nat) /\ Len(head) = Len(tag) + Len(le)
        /\ \A i \in 1 .. Len(tag) : head[i] = tag[i]
        /\ \A i \in 1 .. Len(le) : head[Len(tag) + i] = le[i]
    BY <1>3, <1>4, Joined
  <2> HIDE DEF head
  <2>2. 1 \in 1 .. Len(tag)
    BY <1>4
  <2> QED
    BY <2>1, <2>2, <1>3, <1>4
<1>6. f = head \o payload
  BY <1>2
<1> HIDE DEF head
<1>7. /\ f \in Seq(Nat) /\ Len(f) = 1 + W32 + n
      /\ \A i \in 1 .. 1 + W32 : f[i] = head[i]
      /\ \A i \in 1 .. n : f[1 + W32 + i] = payload[i]
  <2>1. /\ f \in Seq(Nat) /\ Len(f) = Len(head) + Len(payload)
        /\ \A i \in 1 .. Len(head) : f[i] = head[i]
        /\ \A i \in 1 .. Len(payload) : f[Len(head) + i] = payload[i]
    BY <1>1, <1>5, <1>6, Joined
  <2> QED
    BY <2>1, <1>1, <1>5
<1>8. f[1] = Tags[m.kind]
  <2>1. 1 \in 1 .. 1 + W32
    BY <1>1
  <2> QED
    BY <2>1, <1>4, <1>5, <1>7
<1>9. \A i \in 1 .. W32 : f[1 + i] = le[i]
  <2>1. \A i \in 1 .. W32 : 1 + i \in 1 .. 1 + W32
    BY <1>1
  <2> QED
    BY <2>1, <1>5, <1>7
<1> QED
  BY <1>2, <1>7, <1>8, <1>9 DEF FrameOf, payload, le, f

\* The length of a frame that is written is read back.
LEMMA LengthSurvives ==
  ASSUME NEW m, IsMessage(m), write_frame(m) # <<>>
  PROVE  from_le_bytes(to_le_bytes(Len(encode(m)), W32)) = Len(encode(m))
<1>1. encode(m) \in Seq(Nat)
  BY EncodedIsBytes
<1>2. Len(encode(m)) \in Nat /\ W32 \in Nat
  BY <1>1, CodecAssumption
<1> QED
  BY <1>2, FrameIsWhole, NumbersSurvive

-----------------------------------------------------------------------------
(* The stream: all frames whose first byte was written, one after another.    *)

Written(msgs) == \A k \in 1 .. Len(msgs) : IsMessage(msgs[k]) /\ write_frame(msgs[k]) # <<>>

\* Frame k occupies the bytes behind ends[k - 1] up to ends[k].
Framed(stream, ends, msgs) ==
  /\ stream \in Seq(Nat) /\ ends \in [0 .. Len(msgs) -> Nat]
  /\ ends[0] = 0 /\ ends[Len(msgs)] = Len(stream)
  /\ \A k \in 1 .. Len(msgs) :
        /\ ends[k] = ends[k - 1] + Len(write_frame(msgs[k]))
        /\ \A i \in 1 .. Len(write_frame(msgs[k])) :
              stream[ends[k - 1] + i] = write_frame(msgs[k])[i]
  /\ \A k, l \in 0 .. Len(msgs) : k < l => ends[k] < ends[l]

\* What is in the pipe and what a thread has still to put there, from pos on.
Flow(stream, pos, p, q) ==
  /\ pos \in Nat /\ p \in Seq(Nat) /\ q \in Seq(Nat)
  /\ pos + Len(p) + Len(q) = Len(stream)
  /\ \A i \in 1 .. Len(p) : p[i] = stream[pos + i]
  /\ \A i \in 1 .. Len(q) : q[i] = stream[pos + Len(p) + i]

\* A sequence that is not empty is its head and its tail.
LEMMA TailOfBytes ==
  ASSUME NEW s \in Seq(Nat), s # <<>>
  PROVE  /\ Head(s) = s[1] /\ Head(s) \in Nat /\ Tail(s) \in Seq(Nat)
         /\ Len(s) \in Nat /\ Len(s) > 0 /\ Len(Tail(s)) = Len(s) - 1
         /\ \A i \in 1 .. Len(s) - 1 : Tail(s)[i] = s[i + 1]
<1>1. Len(s) \in Nat /\ Len(s) > 0
  OBVIOUS
<1>2. Tail(s) \in Seq(Nat) /\ Len(Tail(s)) = Len(s) - 1
  OBVIOUS
<1>3. \A i \in 1 .. Len(s) - 1 : Tail(s)[i] = s[i + 1]
  OBVIOUS
<1>4. Head(s) = s[1] /\ s[1] \in Nat
  BY <1>1
<1> QED
  BY <1>1, <1>2, <1>3, <1>4

\* What Append adds is behind what was there.
LEMMA AppendOfBytes ==
  ASSUME NEW V, NEW s \in Seq(V), NEW x \in V
  PROVE  /\ Append(s, x) \in Seq(V) /\ Len(s) \in Nat /\ Len(Append(s, x)) = Len(s) + 1
         /\ \A i \in 1 .. Len(s) : Append(s, x)[i] = s[i]
         /\ Append(s, x)[Len(s) + 1] = x
OBVIOUS

\* A byte goes into the pipe.
LEMMA PutByte ==
  ASSUME NEW stream \in Seq(Nat), NEW pos, NEW p, NEW q, Flow(stream, pos, p, q), q # <<>>
  PROVE  Flow(stream, pos, Append(p, Head(q)), Tail(q))
<1> DEFINE x == Head(q)
           r == Append(p, x)
           z == Tail(q)
<1>1. pos \in Nat /\ p \in Seq(Nat) /\ q \in Seq(Nat) /\ pos + Len(p) + Len(q) = Len(stream)
  BY DEF Flow
<1>2. /\ x = q[1] /\ x \in Nat /\ z \in Seq(Nat) /\ Len(q) \in Nat /\ Len(q) > 0
      /\ Len(z) = Len(q) - 1 /\ \A i \in 1 .. Len(q) - 1 : z[i] = q[i + 1]
  BY <1>1, TailOfBytes
<1>3. /\ r \in Seq(Nat) /\ Len(p) \in Nat /\ Len(r) = Len(p) + 1
      /\ \A i \in 1 .. Len(p) : r[i] = p[i]
      /\ r[Len(p) + 1] = x
  BY <1>1, <1>2, AppendOfBytes
<1> HIDE DEF x, r, z
<1>4. pos + Len(r) + Len(z) = Len(stream)
  <2> DEFINE a == Len(p)
             b == Len(q)
             c == Len(stream)
             d == Len(r)
             e == Len(z)
  <2>1. pos \in Nat /\ a \in Nat /\ b \in Nat /\ pos + a + b = c /\ d = a + 1 /\ e = b - 1
    BY <1>1, <1>2, <1>3
  <2> HIDE DEF a, b, c, d, e
  <2>2. pos + d + e = c
    BY <2>1
  <2> QED
    BY <2>2 DEF c, d, e
<1>5. ASSUME NEW i \in 1 .. Len(r) PROVE r[i] = stream[pos + i]
  <2>1. CASE i = Len(p) + 1
    <3>1. 1 \in 1 .. Len(q) /\ pos + Len(p) + 1 = pos + i
      BY <1>1, <1>2, <1>3, <2>1
    <3>2. q[1] = stream[pos + Len(p) + 1]
      BY <3>1 DEF Flow
    <3> QED
      BY <3>1, <3>2, <2>1, <1>2, <1>3
  <2>2. CASE i \in 1 .. Len(p)
    BY <2>2, <1>3 DEF Flow
  <2> QED
    BY <1>3, <2>1, <2>2
<1>6. ASSUME NEW i \in 1 .. Len(z) PROVE z[i] = stream[pos + Len(r) + i]
  <2>1. i \in 1 .. Len(q) - 1 /\ i + 1 \in 1 .. Len(q) /\ pos + Len(p) + (i + 1) = pos + Len(r) + i
    BY <1>1, <1>2, <1>3
  <2>2. q[i + 1] = stream[pos + Len(p) + (i + 1)]
    BY <2>1 DEF Flow
  <2> QED
    BY <2>1, <2>2, <1>2
<1>7. Flow(stream, pos, r, z)
  BY <1>1, <1>2, <1>3, <1>4, <1>5, <1>6 DEF Flow
<1> QED
  BY <1>7 DEF r, z, x

\* A byte comes out of the pipe: the next of the stream.
LEMMA TakeByte ==
  ASSUME NEW stream \in Seq(Nat), NEW pos, NEW p, NEW q, Flow(stream, pos, p, q), p # <<>>
  PROVE  Flow(stream, pos + 1, Tail(p), q) /\ Head(p) = stream[pos + 1] /\ Head(p) \in Nat
         /\ pos < Len(stream)
<1> DEFINE z == Tail(p)
<1>1. pos \in Nat /\ p \in Seq(Nat) /\ q \in Seq(Nat) /\ pos + Len(p) + Len(q) = Len(stream)
  BY DEF Flow
<1>2. /\ Head(p) = p[1] /\ Head(p) \in Nat /\ z \in Seq(Nat) /\ Len(p) \in Nat /\ Len(p) > 0
      /\ Len(z) = Len(p) - 1 /\ \A i \in 1 .. Len(p) - 1 : z[i] = p[i + 1]
  BY <1>1, TailOfBytes
<1>3. Len(q) \in Nat
  BY <1>1
<1> HIDE DEF z
<1>4. (pos + 1) + Len(z) + Len(q) = Len(stream) /\ pos < Len(stream)
  <2> DEFINE a == Len(p)
             b == Len(q)
             c == Len(stream)
             e == Len(z)
  <2>1. pos \in Nat /\ a \in Nat /\ a > 0 /\ b \in Nat /\ pos + a + b = c /\ e = a - 1
    BY <1>1, <1>2, <1>3
  <2> HIDE DEF a, b, c, e
  <2>2. (pos + 1) + e + b = c /\ pos < c
    BY <2>1
  <2> QED
    BY <2>2 DEF b, c, e
<1>5. ASSUME NEW i \in 1 .. Len(z) PROVE z[i] = stream[(pos + 1) + i]
  <2>1. i \in 1 .. Len(p) - 1 /\ i + 1 \in 1 .. Len(p) /\ pos + (i + 1) = (pos + 1) + i
    BY <1>1, <1>2
  <2>2. p[i + 1] = stream[pos + (i + 1)]
    BY <2>1 DEF Flow
  <2> QED
    BY <2>1, <2>2, <1>2
<1>6. ASSUME NEW i \in 1 .. Len(q) PROVE q[i] = stream[(pos + 1) + Len(z) + i]
  <2>1. pos + Len(p) + i = (pos + 1) + Len(z) + i
    BY <1>1, <1>2, <1>3
  <2>2. q[i] = stream[pos + Len(p) + i]
    BY DEF Flow
  <2> QED
    BY <2>1, <2>2
<1>7. Head(p) = stream[pos + 1]
  <2>1. 1 \in 1 .. Len(p)
    BY <1>2
  <2> QED
    BY <2>1, <1>2 DEF Flow
<1>8. Flow(stream, pos + 1, z, q)
  BY <1>1, <1>2, <1>4, <1>5, <1>6 DEF Flow
<1> QED
  BY <1>2, <1>4, <1>7, <1>8 DEF z

\* A new frame is put behind the stream.
LEMMA FlowNext ==
  ASSUME NEW stream \in Seq(Nat), NEW pos, NEW p, Flow(stream, pos, p, <<>>), NEW f \in Seq(Nat)
  PROVE  Flow(stream \o f, pos, p, f)
<1> DEFINE new == stream \o f
<1>1. pos \in Nat /\ p \in Seq(Nat) /\ pos + Len(p) + Len(<<>>) = Len(stream)
  BY DEF Flow
<1>2. Len(p) \in Nat /\ Len(stream) \in Nat /\ Len(f) \in Nat /\ Len(<<>>) = 0
  BY <1>1
<1>3. pos + Len(p) = Len(stream)
  BY <1>1, <1>2
<1>4. /\ Len(new) = Len(stream) + Len(f)
      /\ \A i \in 1 .. Len(stream) : new[i] = stream[i]
      /\ \A i \in 1 .. Len(f) : new[Len(stream) + i] = f[i]
  BY Joined
<1> HIDE DEF new
<1>5. pos + Len(p) + Len(f) = Len(new)
  BY <1>2, <1>3, <1>4
<1>6. ASSUME NEW i \in 1 .. Len(p) PROVE p[i] = new[pos + i]
  <2>1. pos + i \in 1 .. Len(stream)
    BY <1>1, <1>2, <1>3
  <2>2. p[i] = stream[pos + i]
    BY DEF Flow
  <2> QED
    BY <2>1, <2>2, <1>4
<1>7. \A i \in 1 .. Len(f) : f[i] = new[pos + Len(p) + i]
  BY <1>3, <1>4
<1> QED
  BY <1>1, <1>5, <1>6, <1>7 DEF Flow, new

\* A new frame is one more of the stream.
LEMMA FramedNext ==
  ASSUME NEW stream, NEW ends, NEW V, NEW msgs \in Seq(V),
         Written(msgs), Framed(stream, ends, msgs),
         NEW m \in V, IsMessage(m), write_frame(m) # <<>>
  PROVE  \E new \in [0 .. Len(msgs) + 1 -> Nat] :
            /\ Framed(stream \o write_frame(m), new, Append(msgs, m))
            /\ \A k \in 0 .. Len(msgs) : new[k] = ends[k]
<1> DEFINE f == write_frame(m)
           n == Len(msgs)
           long == stream \o f
           more == Append(msgs, m)
           new == [k \in 0 .. n + 1 |-> IF k = n + 1 THEN ends[n] + Len(f) ELSE ends[k]]
<1>1. /\ stream \in Seq(Nat) /\ ends \in [0 .. n -> Nat] /\ ends[0] = 0 /\ ends[n] = Len(stream)
      /\ \A k, l \in 0 .. n : k < l => ends[k] < ends[l]
  BY DEF Framed
<1>2. n \in Nat /\ Len(stream) \in Nat
  BY <1>1
<1>3. f \in Seq(Nat) /\ Len(f) \in Nat /\ Len(f) > 0
  <2>1. f \in Seq(Nat)
    BY FrameIsWhole DEF FrameOf
  <2> QED
    BY <2>1, TailOfBytes
<1>4. /\ more \in Seq(V) /\ Len(more) = n + 1
      /\ \A k \in 1 .. n : more[k] = msgs[k] /\ more[n + 1] = m
  <2>1. more \in Seq(V) /\ Len(more) = n + 1 /\ more[n + 1] = m
    BY AppendOfBytes
  <2>2. \A k \in 1 .. n : more[k] = msgs[k]
    BY AppendOfBytes
  <2> QED
    BY <2>1, <2>2
<1>4a. more[n + 1] = m
  BY AppendOfBytes
<1> HIDE DEF f
<1>5. /\ long \in Seq(Nat) /\ Len(long) = Len(stream) + Len(f)
      /\ \A i \in 1 .. Len(stream) : long[i] = stream[i]
      /\ \A i \in 1 .. Len(f) : long[Len(stream) + i] = f[i]
  BY <1>1, <1>3, Joined
<1>6. new \in [0 .. n + 1 -> Nat]
  <2>1. ASSUME NEW k \in 0 .. n + 1 PROVE (IF k = n + 1 THEN ends[n] + Len(f) ELSE ends[k]) \in Nat
    <3>1. CASE k = n + 1
      <4>1. ends[n] \in Nat
        BY <1>1, <1>2
      <4> QED
        BY <3>1, <4>1, <1>3
    <3>2. CASE k \in 0 .. n
      <4>1. k # n + 1 /\ ends[k] \in Nat
        BY <3>2, <1>1, <1>2
      <4> QED
        BY <4>1
    <3> QED
      BY <3>1, <3>2, <1>2
  <2> QED
    BY <2>1
<1>7. new[n + 1] = ends[n] + Len(f) /\ \A k \in 0 .. n : new[k] = ends[k]
  <2>1. n + 1 \in 0 .. n + 1 /\ \A k \in 0 .. n : k \in 0 .. n + 1 /\ k # n + 1
    BY <1>2
  <2> QED
    BY <2>1
<1> HIDE DEF new, n, long, more
<1>8. \A k \in 0 .. n : ends[k] \in Nat /\ ends[k] <= ends[n]
  <2>1. ASSUME NEW k \in 0 .. n PROVE ends[k] \in Nat /\ ends[k] <= ends[n]
    <3>1. ends[k] \in Nat /\ ends[n] \in Nat /\ n \in 0 .. n
      BY <1>1, <1>2
    <3>2. CASE k = n
      BY <3>1, <3>2
    <3>3. CASE k < n
      BY <3>1, <3>3, <1>1
    <3> QED
      BY <3>2, <3>3, <1>2
  <2> QED
    BY <2>1
<1>9. new[0] = 0 /\ new[n + 1] = Len(long)
  <2>1. 0 \in 0 .. n
    BY <1>2
  <2> QED
    BY <2>1, <1>1, <1>5, <1>7
<1>10. ASSUME NEW k \in 1 .. n + 1
       PROVE  /\ new[k] = new[k - 1] + Len(write_frame(more[k]))
              /\ \A i \in 1 .. Len(write_frame(more[k])) :
                    long[new[k - 1] + i] = write_frame(more[k])[i]
  <2>1. CASE k = n + 1
    <3>1. k - 1 = n /\ n \in 0 .. n /\ write_frame(more[k]) = f
      BY <2>1, <1>2, <1>4a DEF f
    <3>2. new[k - 1] = Len(stream) /\ new[k] = Len(stream) + Len(f)
      BY <3>1, <2>1, <1>1, <1>7
    <3> QED
      BY <3>1, <3>2, <1>5
  <2>2. CASE k \in 1 .. n
    <3> DEFINE g == write_frame(more[k])
    <3>1. k \in 0 .. n /\ k - 1 \in 0 .. n /\ more[k] = msgs[k]
      BY <2>2, <1>2, <1>4
    <3>2. new[k] = ends[k] /\ new[k - 1] = ends[k - 1]
      BY <3>1, <1>7
    <3>3. ends[k] = ends[k - 1] + Len(g) /\ \A i \in 1 .. Len(g) : stream[ends[k - 1] + i] = g[i]
      BY <2>2, <3>1 DEF Framed, n
    <3>5. g \in Seq(Nat) /\ Len(g) \in Nat
      <4>1. IsMessage(msgs[k]) /\ write_frame(msgs[k]) # <<>>
        BY <2>2 DEF Written, n
      <4>2. g \in Seq(Nat)
        BY <4>1, <3>1, FrameIsWhole DEF FrameOf
      <4> QED
        BY <4>2
    <3> HIDE DEF g
    <3>4. ASSUME NEW i \in 1 .. Len(g) PROVE long[ends[k - 1] + i] = g[i]
      <4>1. ends[k - 1] \in Nat /\ ends[k] \in Nat /\ ends[k] <= Len(stream)
        BY <3>1, <1>1, <1>8
      <4>2. ends[k - 1] + i \in 1 .. Len(stream)
        <5> DEFINE a == ends[k - 1]
                   e == ends[k]
                   c == Len(g)
        <5>1. a \in Nat /\ e \in Nat /\ e <= Len(stream) /\ e = a + c /\ 1 <= i /\ i <= c /\ i \in Int
          BY <4>1, <3>3
        <5> HIDE DEF a, e, c
        <5>2. c \in Nat
          BY <3>5 DEF c
        <5>3. a + i <= e
          BY <5>1, <5>2
        <5> QED
          BY <5>1, <5>3, <1>2 DEF a
      <4> QED
        BY <4>2, <3>3, <1>5
    <3> QED
      BY <3>2, <3>3, <3>4 DEF g
  <2> QED
    BY <2>1, <2>2, <1>2
<1>11. ASSUME NEW k \in 0 .. n + 1, NEW l \in 0 .. n + 1, k < l PROVE new[k] < new[l]
  <2>1. k \in 0 .. n /\ new[k] = ends[k] /\ ends[k] \in Nat /\ ends[k] <= ends[n] /\ ends[n] \in Nat
    <3>1. k \in 0 .. n /\ n \in 0 .. n
      BY <1>2, <1>11
    <3> QED
      BY <3>1, <1>7, <1>8
  <2>2. CASE l = n + 1
    BY <2>1, <2>2, <1>3, <1>7
  <2>3. CASE l \in 0 .. n
    BY <2>1, <2>3, <1>1, <1>7, <1>11
  <2> QED
    BY <2>2, <2>3, <1>2
<1>12. Framed(long, new, more)
  BY <1>4, <1>5, <1>6, <1>9, <1>10, <1>11 DEF Framed
<1> QED
  BY <1>6, <1>7, <1>12 DEF long, more, f, n

-----------------------------------------------------------------------------
(* The pipe.                                                                  *)

PipeType ==
  /\ todo \in [Threads -> Seq(Planned)] /\ lock \in Threads \cup {"free"}
  /\ frame \in [Threads -> Seq(Nat)] /\ pipe \in Seq(Nat)
  /\ rd \in [at : {"tag", "len", "payload"}, tag : Nat, len : Nat, buf : Seq(Nat)]
  /\ sent \in Seq(Planned) /\ got \in Seq(Planned) /\ end \in {"open", "eof", "cut"}

\* Bytes are left over only in the hands of the thread that has the mutex.
WriterInv ==
  /\ \A t \in Threads : frame[t] # <<>> => lock = t
  /\ lock # "free" => /\ todo[lock] # <<>>
                      /\ Len(frame[lock]) <= Len(write_frame(Head(todo[lock])))

\* What was read is what was written, from the first on.
OrderInv ==
  /\ Written(sent) /\ Len(got) <= Len(sent)
  /\ \A i \in 1 .. Len(got) : got[i] = sent[i]

\* What the reader has of the frame it is in.
ReaderInv ==
  rd.at # "tag" =>
    LET m == sent[Len(got) + 1]
    IN  /\ Len(got) < Len(sent)
        /\ rd.tag = Tags[m.kind]
        /\ rd.at = "len" =>
              /\ Len(rd.buf) <= W32
              /\ \A i \in 1 .. Len(rd.buf) : rd.buf[i] = to_le_bytes(Len(encode(m)), W32)[i]
        /\ rd.at = "payload" =>
              /\ rd.len = Len(encode(m)) /\ Len(rd.buf) <= rd.len
              /\ \A i \in 1 .. Len(rd.buf) : rd.buf[i] = encode(m)[i]

\* The bytes of that frame the reader has taken, and those still to be written
\* of a frame that was begun.
Consumed ==
  IF rd.at = "tag" THEN 0 ELSE IF rd.at = "len" THEN 1 + Len(rd.buf) ELSE 1 + W32 + Len(rd.buf)
Pending == IF lock # "free" /\ Started(lock) THEN frame[lock] ELSE <<>>

\* Only the last frame can be unfinished.
Carries(stream, ends, msgs, pos, p, q) ==
  /\ Framed(stream, ends, msgs) /\ Flow(stream, pos, p, q)
  /\ q # <<>> => Len(msgs) > 0 /\ ends[Len(msgs) - 1] < pos + Len(p)

StreamInv ==
  \E stream, ends : Carries(stream, ends, sent, ends[Len(got)] + Consumed, pipe, Pending)

PipeInv == PipeType /\ WriterInv /\ OrderInv /\ ReaderInv /\ StreamInv

\* A frame is bytes.
LEMMA FrameType ==
  ASSUME NEW m, IsMessage(m)
  PROVE  write_frame(m) \in Seq(Nat)
<1>1. CASE write_frame(m) = <<>>
  BY <1>1
<1>2. CASE write_frame(m) # <<>>
  BY <1>2, FrameIsWhole DEF FrameOf
<1> QED
  BY <1>1, <1>2

\* What a thread has still to send are messages.
LEMMA PlannedAreMessages ==
  ASSUME NEW t \in Threads, NEW plans \in [Threads -> Seq(Planned)], plans[t] # <<>>
  PROVE  /\ Head(plans[t]) \in Planned /\ IsMessage(Head(plans[t]))
         /\ Tail(plans[t]) \in Seq(Planned)
<1>1. plans[t] \in Seq(Planned)
  OBVIOUS
<1>2. Head(plans[t]) \in Planned /\ Tail(plans[t]) \in Seq(Planned)
  BY <1>1
<1> QED
  BY <1>2, CodecAssumption

\* Where the frame of the next message lies in the stream.
LEMMA NextFrame ==
  ASSUME NEW stream, NEW ends, NEW msgs \in Seq(Planned), Framed(stream, ends, msgs),
         Written(msgs), NEW g \in Nat, g < Len(msgs)
  PROVE  /\ IsMessage(msgs[g + 1]) /\ write_frame(msgs[g + 1]) # <<>>
         /\ FrameOf(msgs[g + 1], write_frame(msgs[g + 1]))
         /\ ends[g] \in Nat /\ ends[g + 1] \in Nat
         /\ ends[g + 1] = ends[g] + Len(write_frame(msgs[g + 1]))
         /\ \A i \in 1 .. Len(write_frame(msgs[g + 1])) :
               stream[ends[g] + i] = write_frame(msgs[g + 1])[i]
<1>1. Len(msgs) \in Nat
  OBVIOUS
<1>2. g + 1 \in 1 .. Len(msgs) /\ (g + 1) - 1 = g /\ g \in 0 .. Len(msgs) /\ g + 1 \in 0 .. Len(msgs)
  BY <1>1
<1>3. IsMessage(msgs[g + 1]) /\ write_frame(msgs[g + 1]) # <<>>
  BY <1>2 DEF Written
<1>4. FrameOf(msgs[g + 1], write_frame(msgs[g + 1]))
  BY <1>3, FrameIsWhole
<1>5. ends[g] \in Nat /\ ends[g + 1] \in Nat
  BY <1>2 DEF Framed
<1>6. /\ ends[g + 1] = ends[(g + 1) - 1] + Len(write_frame(msgs[g + 1]))
      /\ \A i \in 1 .. Len(write_frame(msgs[g + 1])) :
            stream[ends[(g + 1) - 1] + i] = write_frame(msgs[g + 1])[i]
  BY <1>2 DEF Framed
<1> QED
  BY <1>2, <1>3, <1>4, <1>5, <1>6

\* The invariant holds before anything was sent.
LEMMA PipeInitOk == PipeInit => PipeInv
<1> SUFFICES ASSUME PipeInit PROVE PipeInv
  OBVIOUS
<1>1. PipeType
  <2>1. todo \in [Threads -> Seq(Planned)]
    BY CodecAssumption DEF PipeInit
  <2>2. <<>> \in Seq(Nat) /\ <<>> \in Seq(Planned)
    OBVIOUS
  <2>3. frame \in [Threads -> Seq(Nat)]
    BY <2>2 DEF PipeInit
  <2>4. rd \in [at : {"tag", "len", "payload"}, tag : Nat, len : Nat, buf : Seq(Nat)]
    BY <2>2 DEF PipeInit
  <2> QED
    BY <2>1, <2>2, <2>3, <2>4 DEF PipeInit, PipeType
<1>2. WriterInv
  BY DEF PipeInit, WriterInv
<1>3. OrderInv
  BY DEF PipeInit, OrderInv, Written
<1>4. ReaderInv
  BY DEF PipeInit, ReaderInv
<1>5. StreamInv
  <2> DEFINE ends == [k \in 0 .. 0 |-> 0]
  <2>0. Len(sent) = 0 /\ Len(got) = 0 /\ pipe = <<>> /\ Pending = <<>> /\ Consumed = 0
    BY DEF PipeInit, Pending, Consumed
  <2>1. ends[0] = 0 /\ ends \in [0 .. 0 -> Nat]
    OBVIOUS
  <2>2. <<>> \in Seq(Nat) /\ Len(<<>>) = 0
    OBVIOUS
  <2> HIDE DEF ends
  <2>3. Framed(<<>>, ends, sent)
    <3>1. ends \in [0 .. Len(sent) -> Nat] /\ ends[Len(sent)] = Len(<<>>)
      BY <2>0, <2>1, <2>2
    <3>2. \A k \in 1 .. Len(sent) : FALSE
      BY <2>0
    <3>3. \A k, l \in 0 .. Len(sent) : ~ k < l
      BY <2>0
    <3> QED
      BY <3>1, <3>2, <3>3, <2>1, <2>2 DEF Framed
  <2>4. Flow(<<>>, ends[Len(got)] + Consumed, pipe, Pending)
    <3>1. ends[Len(got)] + Consumed = 0
      BY <2>0, <2>1
    <3>2. Flow(<<>>, 0, <<>>, <<>>)
      BY <2>2 DEF Flow
    <3> QED
      BY <3>1, <3>2, <2>0
  <2>5. Carries(<<>>, ends, sent, ends[Len(got)] + Consumed, pipe, Pending)
    BY <2>0, <2>3, <2>4 DEF Carries
  <2> QED
    BY <2>5 DEF StreamInv
<1> QED
  BY <1>1, <1>2, <1>3, <1>4, <1>5 DEF PipeInv

\* A step of the channel, or none.
ChannelStep == [Channel!Send \/ Channel!Deliver \/ Channel!End]_<<sent, got, end>>

\* A thread takes the mutex: nothing of its frame is in the stream yet.
LEMMA LockOk ==
  ASSUME PipeInv, NEW t \in Threads, Lock(t)
  PROVE  PipeInv' /\ ChannelStep
<1> USE DEF PipeInv
<1> DEFINE m == Head(todo[t])
           f == write_frame(m)
<1>1. IsMessage(m) /\ f \in Seq(Nat) /\ todo[t] # <<>>
  <2>1. todo[t] # <<>>
    BY DEF Lock
  <2> QED
    BY <2>1, PlannedAreMessages, FrameType DEF PipeType
<1>2. lock = "free" /\ lock' = t /\ frame' = [frame EXCEPT ![t] = f]
      /\ UNCHANGED <<todo, pipe, open, rd, sent, got, end>>
  BY DEF Lock, Mutex
<1> HIDE DEF f
<1>3. frame'[t] = f /\ \A u \in Threads \ {t} : frame'[u] = frame[u]
  BY <1>2 DEF PipeType
<1>4. "free" \notin Threads
  BY CodecAssumption
<1>5. PipeType'
  <2>1. frame' \in [Threads -> Seq(Nat)]
    BY <1>1, <1>2 DEF PipeType
  <2> QED
    BY <2>1, <1>2 DEF PipeType
<1>6. WriterInv'
  <2>1. \A u \in Threads : frame[u] = <<>>
    BY <1>2, <1>4 DEF WriterInv
  <2>2. Len(f) <= Len(f)
    BY <1>1
  <2> QED
    BY <2>1, <2>2, <1>1, <1>2, <1>3 DEF WriterInv, f
<1>7. OrderInv' /\ ReaderInv'
  BY <1>2 DEF OrderInv, ReaderInv
<1>8. StreamInv'
  <2>1. Pending = <<>>
    BY <1>2 DEF Pending
  <2>2. Pending' = <<>>
    <3>1. ~Started(t)'
      BY <1>2, <1>3 DEF Started, f
    <3> QED
      BY <1>2, <3>1 DEF Pending, Started
  <2>3. Consumed' = Consumed
    BY <1>2 DEF Consumed
  <2> QED
    BY <1>2, <2>1, <2>2, <2>3 DEF StreamInv
<1> QED
  BY <1>2, <1>5, <1>6, <1>7, <1>8 DEF ChannelStep

\* It gives the mutex back: nothing of its frame is left.
LEMMA UnlockOk ==
  ASSUME PipeInv, NEW t \in Threads, Unlock(t)
  PROVE  PipeInv' /\ ChannelStep
<1> USE DEF PipeInv
<1>1. lock = t /\ frame[t] = <<>> /\ lock' = "free" /\ todo' = [todo EXCEPT ![t] = Tail(todo[t])]
      /\ UNCHANGED <<frame, pipe, open, rd, sent, got, end>>
  BY DEF Unlock
<1>2. "free" \notin Threads
  BY CodecAssumption
<1>3. PipeType'
  <2>1. Tail(todo[t]) \in Seq(Planned)
    <3>1. todo[t] # <<>>
      BY <1>1, <1>2 DEF WriterInv
    <3> QED
      BY <3>1, PlannedAreMessages DEF PipeType
  <2>2. todo' \in [Threads -> Seq(Planned)]
    BY <1>1, <2>1 DEF PipeType
  <2> QED
    BY <1>1, <2>2 DEF PipeType
<1>4. WriterInv'
  BY <1>1 DEF WriterInv
<1>5. OrderInv' /\ ReaderInv'
  BY <1>1 DEF OrderInv, ReaderInv
<1>6. StreamInv'
  <2>1. Pending = <<>> /\ Pending' = <<>> /\ Consumed' = Consumed
    BY <1>1 DEF Pending, Consumed
  <2> QED
    BY <1>1, <2>1 DEF StreamInv
<1> QED
  BY <1>1, <1>3, <1>4, <1>5, <1>6 DEF ChannelStep

\* The first byte of a frame: its message is sent.
LEMMA FirstByteOk ==
  ASSUME PipeInv, NEW t \in Threads, WriteByte(t), ~Started(t)
  PROVE  PipeInv' /\ ChannelStep
<1> USE DEF PipeInv
<1> DEFINE m == Head(todo[t])
           f == write_frame(m)
<1>0. "free" \notin Threads
  BY CodecAssumption
<1>1. lock = t /\ frame[t] # <<>> /\ todo[t] # <<>> /\ frame[t] = f
  BY <1>0 DEF WriteByte, WriterInv, Started
<1>2. m \in Planned /\ IsMessage(m) /\ f \in Seq(Nat) /\ f # <<>>
  BY <1>1, PlannedAreMessages, FrameType DEF PipeType
<1>3. /\ pipe' = Append(pipe, Head(f)) /\ frame' = [frame EXCEPT ![t] = Tail(f)]
      /\ sent' = Append(sent, m)
      /\ UNCHANGED <<todo, lock, open, rd, got, end>>
  BY <1>1 DEF WriteByte
<1> HIDE DEF m, f
<1>4. /\ Head(f) = f[1] /\ Head(f) \in Nat /\ Tail(f) \in Seq(Nat)
      /\ Len(f) \in Nat /\ Len(f) > 0 /\ Len(Tail(f)) = Len(f) - 1
  BY <1>2, TailOfBytes
<1>5. frame'[t] = Tail(f) /\ \A u \in Threads \ {t} : frame'[u] = frame[u]
  BY <1>3 DEF PipeType
<1>6. Tail(f) # f
  <2> SUFFICES ASSUME Tail(f) = f PROVE FALSE
    OBVIOUS
  <2>1. Len(Tail(f)) = Len(f)
    OBVIOUS
  <2> DEFINE a == Len(f)
             b == Len(Tail(f))
  <2>2. a \in Nat /\ b = a - 1 /\ b = a
    BY <2>1, <1>4
  <2> HIDE DEF a, b
  <2> QED
    BY <2>2
<1>7. /\ sent' \in Seq(Planned) /\ Len(sent) \in Nat /\ Len(sent') = Len(sent) + 1
      /\ \A i \in 1 .. Len(sent) : sent'[i] = sent[i]
      /\ sent'[Len(sent) + 1] = m
  <2>1. sent \in Seq(Planned)
    BY DEF PipeType
  <2> QED
    BY <1>2, <1>3, <2>1, AppendOfBytes
<1>8. PipeType'
  <2>1. frame' \in [Threads -> Seq(Nat)]
    BY <1>3, <1>4 DEF PipeType
  <2>2. pipe' \in Seq(Nat)
    BY <1>3, <1>4 DEF PipeType
  <2> QED
    BY <2>1, <2>2, <1>3, <1>7 DEF PipeType
<1>9. WriterInv'
  <2>1. \A u \in Threads : frame'[u] # <<>> => lock' = u
    BY <1>1, <1>3, <1>5 DEF WriterInv
  <2>2. Len(frame'[t]) <= Len(f)
    BY <1>4, <1>5
  <2> QED
    BY <2>1, <2>2, <1>1, <1>3 DEF WriterInv, f, m
<1>10. OrderInv'
  <2>1. Written(sent')
    <3>1. ASSUME NEW k \in 1 .. Len(sent') PROVE IsMessage(sent'[k]) /\ write_frame(sent'[k]) # <<>>
      <4>1. CASE k = Len(sent) + 1
        BY <4>1, <1>2, <1>7 DEF f
      <4>2. CASE k \in 1 .. Len(sent)
        BY <4>2, <1>7 DEF OrderInv, Written
      <4> QED
        BY <4>1, <4>2, <1>7
    <3> QED
      BY <3>1 DEF Written
  <2>2. Len(got) \in Nat
    BY DEF PipeType
  <2>3. Len(got') <= Len(sent')
    BY <2>2, <1>3, <1>7 DEF OrderInv
  <2>4. ASSUME NEW i \in 1 .. Len(got') PROVE got'[i] = sent'[i]
    <3>1. i \in 1 .. Len(got) /\ i \in 1 .. Len(sent)
      BY <2>2, <1>3, <1>7 DEF OrderInv
    <3> QED
      BY <3>1, <1>3, <1>7 DEF OrderInv
  <2> QED
    BY <2>1, <2>3, <2>4 DEF OrderInv
<1>11. ReaderInv'
  <2>0. Len(got) \in Nat /\ rd' = rd /\ got' = got
    BY <1>3 DEF PipeType
  <2> SUFFICES ASSUME rd.at # "tag" PROVE ReaderInv'
    BY <2>0 DEF ReaderInv
  <2>1. Len(got) < Len(sent)
    BY DEF ReaderInv
  <2>2. sent'[Len(got) + 1] = sent[Len(got) + 1] /\ Len(got) < Len(sent')
    <3>1. Len(got) + 1 \in 1 .. Len(sent)
      BY <2>0, <2>1, <1>7
    <3> QED
      BY <3>1, <2>0, <2>1, <1>7
  <2> QED
    BY <2>0, <2>2 DEF ReaderInv
<1>12. StreamInv'
  <2>1. PICK stream, ends : Carries(stream, ends, sent, ends[Len(got)] + Consumed, pipe, Pending)
    BY DEF StreamInv
  <2>2. Pending = <<>>
    BY <1>1 DEF Pending
  <2>3. Pending' = Tail(f) /\ Consumed' = Consumed
    <3>1. Started(t)'
      BY <1>3, <1>5, <1>6 DEF Started, f, m
    <3>2. lock' = t /\ lock' # "free"
      BY <1>0, <1>1, <1>3
    <3>3. Pending' = frame'[t]
      BY <3>1, <3>2 DEF Pending, Started
    <3> QED
      BY <3>3, <1>3, <1>5 DEF Consumed
  <2> DEFINE pos == ends[Len(got)] + Consumed
             long == stream \o f
  <2>4. Framed(stream, ends, sent) /\ Flow(stream, pos, pipe, <<>>)
    BY <2>1, <2>2 DEF Carries
  <2>5. PICK new \in [0 .. Len(sent) + 1 -> Nat] :
          /\ Framed(long, new, sent')
          /\ \A k \in 0 .. Len(sent) : new[k] = ends[k]
    <3>1. sent \in Seq(Planned) /\ Written(sent)
      BY DEF PipeType, OrderInv
    <3> QED
      BY <3>1, <2>4, <1>2, <1>3, FramedNext DEF f
  <2>6. stream \in Seq(Nat) /\ ends[Len(sent)] = Len(stream)
    BY <2>4 DEF Framed
  <2>7. new[Len(got')] + Consumed' = pos
    <3>1. Len(got) \in 0 .. Len(sent)
      BY <1>7 DEF PipeType, OrderInv
    <3> QED
      BY <3>1, <2>3, <2>5, <1>3
  <2> HIDE DEF pos, long
  <2>8. Flow(long, pos, pipe, f)
    BY <2>4, <2>6, <1>2, FlowNext DEF long
  <2>9. long \in Seq(Nat)
    BY <2>6, <1>2 DEF long
  <2>10. Flow(long, pos, pipe', Tail(f))
    BY <2>8, <2>9, <1>2, <1>3, PutByte
  <2>11. Len(sent') > 0 /\ new[Len(sent') - 1] < pos + Len(pipe')
    <3>1. Len(sent') - 1 = Len(sent) /\ Len(sent) \in 0 .. Len(sent) /\ Len(sent') > 0
      BY <1>7
    <3>2. new[Len(sent') - 1] = Len(stream)
      BY <3>1, <2>5, <2>6
    <3>3. pipe \in Seq(Nat) /\ Len(pipe) \in Nat /\ Len(pipe') = Len(pipe) + 1
      <4>1. pipe \in Seq(Nat)
        BY DEF PipeType
      <4> QED
        BY <4>1, <1>3, <1>4, AppendOfBytes
    <3>4. pos \in Nat /\ pos + Len(pipe) + Len(<<>>) = Len(stream) /\ Len(<<>>) = 0
      BY <2>4 DEF Flow
    <3>5. Len(stream) < pos + Len(pipe')
      <4> DEFINE a == Len(pipe)
                 b == Len(pipe')
                 c == Len(stream)
                 d == Len(<<>>)
      <4>1. pos \in Nat /\ a \in Nat /\ b = a + 1 /\ pos + a + d = c /\ d = 0
        BY <3>3, <3>4
      <4> HIDE DEF a, b, c, d
      <4>2. c < pos + b
        BY <4>1
      <4> QED
        BY <4>2 DEF b, c
    <3> QED
      BY <3>1, <3>2, <3>5
  <2>12. Carries(long, new, sent', new[Len(got')] + Consumed', pipe', Pending')
    BY <2>3, <2>5, <2>7, <2>10, <2>11 DEF Carries
  <2> QED
    BY <2>12 DEF StreamInv
<1>13. Channel!Send
  BY <1>2, <1>3 DEF Channel!Send
<1> QED
  BY <1>8, <1>9, <1>10, <1>11, <1>12, <1>13 DEF ChannelStep

\* Any other byte of a frame: nothing happens to the channel.
LEMMA LaterByteOk ==
  ASSUME PipeInv, NEW t \in Threads, WriteByte(t), Started(t)
  PROVE  PipeInv' /\ ChannelStep
<1> USE DEF PipeInv
<1> DEFINE f == frame[t]
           m == Head(todo[t])
<1>0. "free" \notin Threads
  BY CodecAssumption
<1>1. lock = t /\ f # <<>> /\ todo[t] # <<>> /\ f \in Seq(Nat) /\ Len(f) <= Len(write_frame(m))
  BY <1>0 DEF WriteByte, WriterInv, PipeType
<1>2. /\ pipe' = Append(pipe, Head(f)) /\ frame' = [frame EXCEPT ![t] = Tail(f)]
      /\ UNCHANGED <<todo, lock, open, rd, sent, got, end>>
  BY DEF WriteByte
<1>3. write_frame(m) \in Seq(Nat)
  BY <1>1, PlannedAreMessages, FrameType DEF PipeType
<1>a. PICK stream, ends : Carries(stream, ends, sent, ends[Len(got)] + Consumed, pipe, Pending)
  BY DEF StreamInv
<1>b. Pending = f
  BY <1>0, <1>1 DEF Pending
<1> HIDE DEF m, f
<1>4. /\ Head(f) \in Nat /\ Tail(f) \in Seq(Nat)
      /\ Len(f) \in Nat /\ Len(f) > 0 /\ Len(Tail(f)) = Len(f) - 1
  BY <1>1, TailOfBytes
<1>5. frame'[t] = Tail(f) /\ \A u \in Threads \ {t} : frame'[u] = frame[u]
  BY <1>2 DEF PipeType
<1>6. Len(Tail(f)) < Len(write_frame(m)) /\ Len(write_frame(m)) \in Nat
  BY <1>1, <1>3, <1>4
<1>7. PipeType'
  <2>1. frame' \in [Threads -> Seq(Nat)]
    BY <1>2, <1>4 DEF PipeType
  <2>2. pipe' \in Seq(Nat)
    BY <1>2, <1>4 DEF PipeType
  <2> QED
    BY <2>1, <2>2, <1>2 DEF PipeType
<1>8. WriterInv'
  <2>1. \A u \in Threads : frame'[u] # <<>> => lock' = u
    BY <1>1, <1>2, <1>5 DEF WriterInv
  <2>2. Len(frame'[t]) <= Len(write_frame(m))
    BY <1>4, <1>5, <1>6
  <2> QED
    BY <2>1, <2>2, <1>1, <1>2 DEF WriterInv, m
<1>9. OrderInv' /\ ReaderInv'
  BY <1>2 DEF OrderInv, ReaderInv
<1>10. StreamInv'
  <2>1. Pending' = Tail(f) /\ Consumed' = Consumed
    <3>1. Started(t)'
      <4>1. Tail(f) # write_frame(m)
        <5> SUFFICES ASSUME Tail(f) = write_frame(m) PROVE FALSE
          OBVIOUS
        <5>1. Len(Tail(f)) = Len(write_frame(m))
          OBVIOUS
        <5> DEFINE a == Len(write_frame(m))
                   b == Len(Tail(f))
        <5>2. a \in Nat /\ b < a /\ b = a
          BY <5>1, <1>6
        <5> HIDE DEF a, b
        <5> QED
          BY <5>2
      <4> QED
        BY <4>1, <1>2, <1>5 DEF Started, m
    <3>2. lock' = t /\ lock' # "free"
      BY <1>0, <1>1, <1>2
    <3>3. Pending' = frame'[t]
      BY <3>1, <3>2 DEF Pending, Started
    <3> QED
      BY <3>3, <1>2, <1>5 DEF Consumed
  <2> DEFINE pos == ends[Len(got)] + Consumed
  <2>2. /\ Framed(stream, ends, sent) /\ Flow(stream, pos, pipe, f)
        /\ Len(sent) > 0 /\ ends[Len(sent) - 1] < pos + Len(pipe)
    BY <1>a, <1>b, <1>1 DEF Carries
  <2>3. stream \in Seq(Nat) /\ ends \in [0 .. Len(sent) -> Nat]
    BY <2>2 DEF Framed
  <2>4. ends[Len(got')] + Consumed' = pos
    BY <2>1, <1>2
  <2> HIDE DEF pos
  <2>5. Flow(stream, pos, pipe', Tail(f))
    BY <2>2, <2>3, <1>1, <1>2, PutByte
  <2>6. ends[Len(sent') - 1] < pos + Len(pipe')
    <3>1. pipe \in Seq(Nat)
      BY DEF PipeType
    <3>2. Len(pipe) \in Nat /\ Len(pipe') = Len(pipe) + 1
      BY <3>1, <1>2, <1>4, AppendOfBytes
    <3>3. pos \in Nat
      BY <2>2 DEF Flow
    <3>4. ends[Len(sent) - 1] \in Nat
      <4>1. Len(sent) \in Nat
        BY DEF PipeType
      <4>2. Len(sent) - 1 \in 0 .. Len(sent)
        BY <4>1, <2>2
      <4> QED
        BY <4>2, <2>3
    <3>5. sent' = sent
      BY <1>2
    <3> QED
      BY <2>2, <3>2, <3>3, <3>4, <3>5
  <2>7. Carries(stream, ends, sent', ends[Len(got')] + Consumed', pipe', Pending')
    BY <2>1, <2>2, <2>4, <2>5, <2>6, <1>2 DEF Carries
  <2> QED
    BY <2>7 DEF StreamInv
<1> QED
  BY <1>2, <1>7, <1>8, <1>9, <1>10 DEF ChannelStep

\* What the reader does is no matter to the writers.
LEMMA WritersUntouched ==
  ASSUME PipeInv, UNCHANGED <<todo, lock, frame>>
  PROVE  WriterInv' /\ Pending' = Pending
BY DEF PipeInv, WriterInv, Pending, Started

\* The writing process stops: the stream stays as it is.
LEMMA StopOk ==
  ASSUME PipeInv, Exit \/ Die
  PROVE  PipeInv' /\ ChannelStep
<1>1. UNCHANGED <<todo, lock, frame, pipe, rd, sent, got, end>>
  BY DEF Exit, Die
<1>2. WriterInv' /\ Pending' = Pending
  BY <1>1, WritersUntouched
<1>3. Consumed' = Consumed
  BY <1>1 DEF Consumed
<1>4. PipeType' /\ OrderInv' /\ ReaderInv'
  BY <1>1 DEF PipeInv, PipeType, OrderInv, ReaderInv
<1>5. StreamInv'
  BY <1>1, <1>2, <1>3 DEF PipeInv, StreamInv
<1> QED
  BY <1>1, <1>2, <1>4, <1>5 DEF PipeInv, ChannelStep

\* The reader is somewhere in the stream, and knows where.
LEMMA ReaderFacts ==
  ASSUME PipeInv
  PROVE  /\ Len(got) \in Nat /\ Len(sent) \in Nat /\ Len(got) <= Len(sent)
         /\ Len(rd.buf) \in Nat /\ rd.buf \in Seq(Nat) /\ Consumed \in Nat
         /\ W32 \in Nat /\ W32 > 0
<1>1. got \in Seq(Planned) /\ sent \in Seq(Planned) /\ rd.buf \in Seq(Nat)
  BY DEF PipeInv, PipeType
<1>2. Len(got) \in Nat /\ Len(sent) \in Nat /\ Len(rd.buf) \in Nat
  BY <1>1
<1>3. Len(got) <= Len(sent)
  BY DEF PipeInv, OrderInv
<1>4. W32 \in Nat /\ W32 > 0
  BY CodecAssumption
<1>5. Consumed \in Nat
  <2> DEFINE k == Len(rd.buf)
  <2>0. k \in Nat /\ W32 \in Nat
    BY <1>2, <1>4
  <2> HIDE DEF k
  <2>1. 1 + k \in Nat /\ 1 + W32 + k \in Nat
    BY <2>0
  <2> USE DEF k
  <2> QED
    BY <2>1 DEF Consumed
<1> QED
  BY <1>1, <1>2, <1>3, <1>4, <1>5

\* The first byte of a frame is the tag of the next message.
LEMMA ReadTagOk ==
  ASSUME PipeInv, read_tag, pipe # <<>>
  PROVE  PipeInv' /\ ChannelStep
<1>1. rd.at = "tag" /\ end = "open"
  BY DEF read_tag
<1>2. /\ rd' = [rd EXCEPT !.at = "len", !.tag = Head(pipe), !.buf = <<>>]
      /\ pipe' = Tail(pipe)
      /\ UNCHANGED <<todo, lock, frame, open, sent, got, end>>
  BY DEF read_tag, AtEof
<1>3. PICK stream, ends : Carries(stream, ends, sent, ends[Len(got)] + Consumed, pipe, Pending)
  BY DEF PipeInv, StreamInv
<1>4. Consumed = 0 /\ Consumed' = 1 /\ rd' = [at |-> "len", tag |-> Head(pipe), len |-> rd.len, buf |-> <<>>]
  <2>1. rd \in [at : {"tag", "len", "payload"}, tag : Nat, len : Nat, buf : Seq(Nat)]
    BY DEF PipeInv, PipeType
  <2>2. rd' = [at |-> "len", tag |-> Head(pipe), len |-> rd.len, buf |-> <<>>]
    BY <1>2, <2>1
  <2>3. rd'.at = "len" /\ Len(rd'.buf) = 0
    BY <2>2
  <2> QED
    BY <1>1, <2>2, <2>3 DEF Consumed
<1>5. Framed(stream, ends, sent) /\ Flow(stream, ends[Len(got)] + Consumed, pipe, Pending) /\ stream \in Seq(Nat)
  BY <1>3 DEF Carries, Framed
<1> DEFINE g == Len(got)
           m == sent[g + 1]
           pos == ends[g]
<1>6. g \in Nat /\ Len(sent) \in Nat /\ g <= Len(sent) /\ pos \in Nat /\ ends[Len(sent)] = Len(stream)
  <2>1. g \in Nat /\ Len(sent) \in Nat /\ g <= Len(sent)
    BY ReaderFacts
  <2>2. g \in 0 .. Len(sent)
    BY <2>1
  <2> QED
    BY <2>1, <2>2, <1>5 DEF Framed
<1>7. Flow(stream, pos, pipe, Pending)
  <2>1. pos + Consumed = pos
    BY <1>4, <1>6
  <2> QED
    BY <1>5, <2>1
<1>8. /\ Flow(stream, pos + 1, pipe', Pending) /\ Head(pipe) = stream[pos + 1] /\ Head(pipe) \in Nat
      /\ pos < Len(stream)
  BY <1>2, <1>5, <1>7, TakeByte
<1>9. g < Len(sent)
  <2> SUFFICES ASSUME g = Len(sent) PROVE FALSE
    BY <1>6
  <2>1. pos = Len(stream)
    BY <1>6
  <2> QED
    BY <2>1, <1>6, <1>8
<1>10. /\ IsMessage(m) /\ FrameOf(m, write_frame(m))
       /\ \A i \in 1 .. Len(write_frame(m)) : stream[ends[g] + i] = write_frame(m)[i]
  <2>1. sent \in Seq(Planned) /\ Written(sent)
    BY DEF PipeInv, PipeType, OrderInv
  <2> QED
    BY <2>1, <1>5, <1>6, <1>9, NextFrame
<1>11. Head(pipe) = Tags[m.kind]
  <2>1. 1 \in 1 .. Len(write_frame(m)) /\ write_frame(m)[1] = Tags[m.kind]
    <3>1. encode(m) \in Seq(Nat)
      BY <1>10, EncodedIsBytes
    <3>2. Len(encode(m)) \in Nat /\ W32 \in Nat
      BY <3>1, ReaderFacts
    <3>3. Len(write_frame(m)) = 1 + W32 + Len(encode(m)) /\ write_frame(m)[1] = Tags[m.kind]
      BY <1>10 DEF FrameOf
    <3> QED
      BY <3>2, <3>3
  <2>2. stream[ends[g] + 1] = write_frame(m)[1]
    BY <2>1, <1>10
  <2> QED
    BY <2>1, <2>2, <1>8
<1>12. PipeType'
  <2>1. <<>> \in Seq(Nat) /\ rd.len \in Nat
    BY DEF PipeInv, PipeType
  <2>2. pipe' \in Seq(Nat)
    BY <1>8 DEF Flow
  <2>3. rd' \in [at : {"tag", "len", "payload"}, tag : Nat, len : Nat, buf : Seq(Nat)]
    BY <2>1, <1>4, <1>8
  <2> QED
    BY <2>2, <2>3, <1>2 DEF PipeInv, PipeType
<1>13. WriterInv' /\ Pending' = Pending
  BY <1>2, WritersUntouched
<1>14. OrderInv'
  BY <1>2 DEF PipeInv, OrderInv
<1>15. ReaderInv'
  <2>1. rd'.at = "len" /\ rd'.tag = Tags[m.kind] /\ Len(rd'.buf) = 0
    BY <1>4, <1>11
  <2>2. W32 \in Nat /\ \A i \in 1 .. Len(rd'.buf) : FALSE
    BY <2>1, ReaderFacts
  <2>3. got' = got /\ sent' = sent
    BY <1>2
  <2> QED
    BY <1>9, <2>1, <2>2, <2>3 DEF ReaderInv
<1>16. StreamInv'
  <2>1. Pending # <<>> => Len(sent) > 0 /\ ends[Len(sent) - 1] < pos + 1 + Len(pipe')
    <3> SUFFICES ASSUME Pending # <<>>
                 PROVE  Len(sent) > 0 /\ ends[Len(sent) - 1] < pos + 1 + Len(pipe')
      OBVIOUS
    <3>1. Len(sent) > 0 /\ ends[Len(sent) - 1] < pos + Consumed + Len(pipe)
      BY <1>3 DEF Carries
    <3>2. pipe \in Seq(Nat)
      BY DEF PipeInv, PipeType
    <3>3. Len(pipe') = Len(pipe) - 1 /\ Len(pipe) \in Nat
      BY <3>2, <1>2, TailOfBytes, pipe # <<>>
    <3>4. pos + Consumed + Len(pipe) = pos + 1 + Len(pipe')
      BY <3>3, <1>4, <1>6
    <3> QED
      BY <3>1, <3>4
  <2>2. ends'[Len(got')] + Consumed' = pos + 1 /\ got' = got /\ sent' = sent
    BY <1>2, <1>4
  <2> HIDE DEF pos
  <2>3. Carries(stream, ends, sent', pos + 1, pipe', Pending')
    BY <2>1, <1>2, <1>5, <1>8, <1>13 DEF Carries
  <2>4. ends[Len(got')] + Consumed' = pos + 1
    BY <1>2, <1>4 DEF pos
  <2> QED
    BY <2>3, <2>4 DEF StreamInv
<1> QED
  BY <1>2, <1>12, <1>13, <1>14, <1>15, <1>16 DEF PipeInv, ChannelStep

\* A byte of the length, or of the payload.
LEMMA ReadByteOk ==
  ASSUME PipeInv, read_exact, pipe # <<>>
  PROVE  PipeInv' /\ ChannelStep
<1> DEFINE b == rd.buf
           x == Head(pipe)
           off == IF rd.at = "len" THEN 1 ELSE 1 + W32
           g == Len(got)
           m == sent[g + 1]
           f == write_frame(m)
<1>1. rd.at # "tag" /\ Len(b) < Need /\ end = "open"
  BY DEF read_exact
<1>2. /\ rd' = [rd EXCEPT !.buf = Append(b, x)] /\ pipe' = Tail(pipe)
      /\ UNCHANGED <<todo, lock, frame, open, sent, got, end>>
  BY DEF read_exact, AtEof
<1>3. PICK stream, ends : Carries(stream, ends, sent, ends[Len(got)] + Consumed, pipe, Pending)
  BY DEF PipeInv, StreamInv
<1>4. /\ rd \in [at : {"tag", "len", "payload"}, tag : Nat, len : Nat, buf : Seq(Nat)]
      /\ rd' = [at |-> rd.at, tag |-> rd.tag, len |-> rd.len, buf |-> Append(b, x)]
  <2>1. rd \in [at : {"tag", "len", "payload"}, tag : Nat, len : Nat, buf : Seq(Nat)]
    BY DEF PipeInv, PipeType
  <2> QED
    BY <1>2, <2>1
<1>5. Framed(stream, ends, sent) /\ Flow(stream, ends[Len(got)] + Consumed, pipe, Pending) /\ stream \in Seq(Nat)
  BY <1>3 DEF Carries, Framed
<1>6. g \in Nat /\ Len(sent) \in Nat /\ g < Len(sent) /\ Len(b) \in Nat /\ W32 \in Nat /\ b \in Seq(Nat)
  BY <1>1, ReaderFacts DEF PipeInv, ReaderInv
<1>7. /\ IsMessage(m) /\ FrameOf(m, f) /\ ends[g] \in Nat
      /\ \A i \in 1 .. Len(f) : stream[ends[g] + i] = f[i]
  <2>1. sent \in Seq(Planned) /\ Written(sent)
    BY DEF PipeInv, PipeType, OrderInv
  <2> QED
    BY <2>1, <1>5, <1>6, NextFrame
<1>8. /\ Consumed = off + Len(b) /\ Consumed \in Nat /\ off \in Nat /\ off > 0
      /\ rd.at = "len" => off = 1
      /\ rd.at = "payload" => off = 1 + W32
  <2>1. Consumed \in Nat
    BY ReaderFacts
  <2>2. CASE rd.at = "len"
    <3>1. off = 1 /\ Consumed = 1 + Len(b)
      BY <2>2 DEF Consumed
    <3> QED
      BY <2>1, <2>2, <3>1
  <2>3. CASE rd.at = "payload"
    <3>1. off = 1 + W32 /\ Consumed = 1 + W32 + Len(b)
      BY <2>3 DEF Consumed
    <3>2. 1 + W32 \in Nat /\ 1 + W32 > 0
      BY <1>6
    <3> HIDE DEF off
    <3> QED
      BY <2>1, <2>3, <3>1, <3>2
  <2> QED
    BY <2>2, <2>3, <1>1, <1>4
<1> HIDE DEF off
<1> DEFINE pos == ends[g] + Consumed
<1>9. /\ Flow(stream, pos + 1, pipe', Pending) /\ x = stream[pos + 1] /\ x \in Nat
      /\ pos < Len(stream)
  <2> HIDE DEF pos
  <2>1. Flow(stream, pos, pipe, Pending)
    BY <1>5 DEF pos
  <2> QED
    BY <2>1, <1>2, <1>5, TakeByte
<1>10. encode(m) \in Seq(Nat) /\ Len(encode(m)) \in Nat /\ Len(f) = 1 + W32 + Len(encode(m))
  BY <1>7, EncodedIsBytes DEF FrameOf
<1>11. rd'.at = rd.at /\ rd'.tag = rd.tag /\ rd'.len = rd.len /\ rd'.buf = Append(b, x)
  BY <1>4
<1>12. /\ Append(b, x) \in Seq(Nat) /\ Len(Append(b, x)) = Len(b) + 1
       /\ \A i \in 1 .. Len(b) : Append(b, x)[i] = b[i]
       /\ Append(b, x)[Len(b) + 1] = x
  BY <1>6, <1>9, AppendOfBytes
<1>13. PipeType'
  <2>1. pipe' \in Seq(Nat)
    BY <1>9 DEF Flow
  <2>2. rd' \in [at : {"tag", "len", "payload"}, tag : Nat, len : Nat, buf : Seq(Nat)]
    BY <1>4, <1>12
  <2> QED
    BY <2>1, <2>2, <1>2 DEF PipeInv, PipeType
<1>14. WriterInv' /\ Pending' = Pending
  BY <1>2, WritersUntouched
<1>15. OrderInv'
  BY <1>2 DEF PipeInv, OrderInv
<1>16. off + Len(b) + 1 \in 1 .. Len(f) => x = f[off + Len(b) + 1]
  <2> SUFFICES ASSUME off + Len(b) + 1 \in 1 .. Len(f) PROVE x = f[off + Len(b) + 1]
    OBVIOUS
  <2>1. stream[ends[g] + (off + Len(b) + 1)] = f[off + Len(b) + 1]
    BY <1>7
  <2>2. pos + 1 = ends[g] + (off + Len(b) + 1)
    <3> DEFINE k == Len(b)
               a == ends[g]
    <3>1. k \in Nat /\ a \in Nat /\ off \in Nat /\ Consumed = off + k /\ pos = a + Consumed
      BY <1>6, <1>7, <1>8
    <3> HIDE DEF k, a, pos
    <3>2. pos + 1 = a + (off + k + 1)
      BY <3>1
    <3> QED
      BY <3>2 DEF k, a
  <2> QED
    BY <2>1, <2>2, <1>9
<1>17. ReaderInv'
  <2>0. got' = got /\ sent' = sent
    BY <1>2
  <2>1. CASE rd.at = "len"
    <3> DEFINE le == to_le_bytes(Len(encode(m)), W32)
    <3>1. Len(b) < W32 /\ off = 1
      BY <1>1, <1>8, <2>1 DEF Need
    <3>2. off + Len(b) + 1 \in 1 .. Len(f) /\ Len(b) + 1 \in 1 .. W32
      <4> DEFINE k == Len(b)
                 n == Len(encode(m))
      <4>1. k \in Nat /\ n \in Nat /\ k < W32 /\ off = 1 /\ W32 \in Nat /\ Len(f) = 1 + W32 + n
        BY <1>6, <1>10, <3>1
      <4> HIDE DEF k, n
      <4>2. off + k + 1 \in 1 .. Len(f) /\ k + 1 \in 1 .. W32
        BY <4>1
      <4> QED
        BY <4>2 DEF k, n
    <3>3. f[off + Len(b) + 1] = le[Len(b) + 1]
      <4>1. f[1 + (Len(b) + 1)] = le[Len(b) + 1]
        BY <1>7, <3>2 DEF FrameOf
      <4>2. 1 + (Len(b) + 1) = off + Len(b) + 1
        <5> DEFINE k == Len(b)
        <5>1. k \in Nat /\ off = 1
          BY <3>1, <1>6
        <5> HIDE DEF k
        <5>2. 1 + (k + 1) = off + k + 1
          BY <5>1
        <5> QED
          BY <5>2 DEF k
      <4> QED
        BY <4>1, <4>2
    <3>4. x = le[Len(b) + 1]
      BY <3>2, <3>3, <1>16
    <3>5. \A i \in 1 .. Len(b) : b[i] = le[i]
      BY <1>1, <2>1 DEF PipeInv, ReaderInv
    <3>5a. rd.tag = Tags[m.kind]
      BY <1>1 DEF PipeInv, ReaderInv
    <3> HIDE DEF le, x, b, m
    <3>6. \A i \in 1 .. Len(Append(b, x)) : Append(b, x)[i] = le[i]
      <4>1. ASSUME NEW i \in 1 .. Len(b) + 1 PROVE Append(b, x)[i] = le[i]
        <5>1. CASE i = Len(b) + 1
          BY <5>1, <3>4, <1>12
        <5>2. CASE i \in 1 .. Len(b)
          BY <5>2, <3>5, <1>12
        <5> QED
          BY <5>1, <5>2, <1>6
      <4> QED
        BY <4>1, <1>12
    <3>7. Len(Append(b, x)) <= W32
      BY <3>1, <1>6, <1>12
    <3> QED
      BY <2>0, <2>1, <1>6, <1>11, <3>5a, <3>6, <3>7 DEF ReaderInv, le, m
  <2>2. CASE rd.at = "payload"
    <3> DEFINE e == encode(m)
    <3>0. rd.len = Len(e) /\ rd.tag = Tags[m.kind] /\ \A i \in 1 .. Len(b) : b[i] = e[i]
      BY <1>1, <2>2 DEF PipeInv, ReaderInv
    <3>1. Len(b) < Len(e) /\ off = 1 + W32
      BY <1>1, <1>8, <2>2, <3>0 DEF Need
    <3>2. off + Len(b) + 1 \in 1 .. Len(f) /\ Len(b) + 1 \in 1 .. Len(e)
      <4> DEFINE k == Len(b)
                 n == Len(e)
      <4>1. k \in Nat /\ n \in Nat /\ k < n /\ off = 1 + W32 /\ W32 \in Nat /\ Len(f) = 1 + W32 + n
        BY <1>6, <1>10, <3>1
      <4> HIDE DEF k, n
      <4>2. off + k + 1 \in 1 .. Len(f) /\ k + 1 \in 1 .. n
        BY <4>1
      <4> QED
        BY <4>2 DEF k, n
    <3>3. f[off + Len(b) + 1] = e[Len(b) + 1]
      <4>1. f[1 + W32 + (Len(b) + 1)] = e[Len(b) + 1]
        BY <1>7, <3>2 DEF FrameOf
      <4>2. 1 + W32 + (Len(b) + 1) = off + Len(b) + 1
        <5> DEFINE k == Len(b)
        <5>1. k \in Nat /\ off = 1 + W32 /\ W32 \in Nat
          BY <3>1, <1>6
        <5> HIDE DEF k
        <5>2. 1 + W32 + (k + 1) = off + k + 1
          BY <5>1
        <5> QED
          BY <5>2 DEF k
      <4> QED
        BY <4>1, <4>2
    <3>4. x = e[Len(b) + 1]
      BY <3>2, <3>3, <1>16
    <3> HIDE DEF e, x, b, m
    <3>6. \A i \in 1 .. Len(Append(b, x)) : Append(b, x)[i] = e[i]
      <4>1. ASSUME NEW i \in 1 .. Len(b) + 1 PROVE Append(b, x)[i] = e[i]
        <5>1. CASE i = Len(b) + 1
          BY <5>1, <3>4, <1>12
        <5>2. CASE i \in 1 .. Len(b)
          BY <5>2, <3>0, <1>12
        <5> QED
          BY <5>1, <5>2, <1>6
      <4> QED
        BY <4>1, <1>12
    <3>7. Len(Append(b, x)) <= rd.len
      <4>1. Len(e) \in Nat
        BY <1>10 DEF e
      <4> QED
        BY <4>1, <3>0, <3>1, <1>6, <1>12
    <3> QED
      BY <2>0, <2>2, <1>6, <1>11, <3>0, <3>6, <3>7 DEF ReaderInv, e, m
  <2> QED
    BY <2>1, <2>2, <1>1, <1>4
<1>18. StreamInv'
  <2>1. Consumed' = Consumed + 1
    <3>1. Consumed' = off + Len(Append(b, x))
      BY <1>1, <1>11 DEF Consumed, off
    <3> DEFINE k == Len(b)
               l == Len(Append(b, x))
    <3>2. k \in Nat /\ off \in Nat /\ l = k + 1 /\ Consumed = off + k /\ Consumed' = off + l
      BY <3>1, <1>6, <1>8, <1>12
    <3> HIDE DEF k, l
    <3> QED
      BY <3>2
  <2>2. ends[Len(got')] + Consumed' = pos + 1
    <3>1. ends[Len(got')] = ends[g]
      BY <1>2
    <3> DEFINE a == ends[g]
    <3>2. a \in Nat /\ ends[Len(got')] = a /\ pos = a + Consumed
      BY <3>1, <1>7
    <3> HIDE DEF a, pos
    <3> QED
      BY <3>2, <2>1, <1>8
  <2>3. Pending # <<>> => Len(sent) > 0 /\ ends[Len(sent) - 1] < pos + 1 + Len(pipe')
    <3> SUFFICES ASSUME Pending # <<>>
                 PROVE  Len(sent) > 0 /\ ends[Len(sent) - 1] < pos + 1 + Len(pipe')
      OBVIOUS
    <3>1. Len(sent) > 0 /\ ends[Len(sent) - 1] < pos + Len(pipe)
      BY <1>3 DEF Carries
    <3>2. pipe \in Seq(Nat)
      BY DEF PipeInv, PipeType
    <3>3. Len(pipe') = Len(pipe) - 1 /\ Len(pipe) \in Nat
      BY <3>2, <1>2, TailOfBytes, pipe # <<>>
    <3>4. pos + Len(pipe) = pos + 1 + Len(pipe')
      <4> DEFINE k == Len(pipe)
                 l == Len(pipe')
      <4>1. pos \in Nat /\ k \in Nat /\ l = k - 1
        BY <3>3, <1>7, <1>8
      <4> HIDE DEF k, l, pos
      <4>2. pos + k = pos + 1 + l
        BY <4>1
      <4> QED
        BY <4>2 DEF k, l
    <3> QED
      BY <3>1, <3>4
  <2> HIDE DEF pos
  <2>4. Carries(stream, ends, sent', pos + 1, pipe', Pending')
    BY <2>3, <1>2, <1>5, <1>9, <1>14 DEF Carries
  <2> QED
    BY <2>2, <2>4 DEF StreamInv
<1> QED
  BY <1>2, <1>13, <1>14, <1>15, <1>17, <1>18 DEF PipeInv, ChannelStep

\* The length is complete: it is that of the payload.
LEMMA ReadLengthOk ==
  ASSUME PipeInv, read_payload
  PROVE  PipeInv' /\ ChannelStep
<1> DEFINE b == rd.buf
           m == sent[Len(got) + 1]
           e == encode(m)
           le == to_le_bytes(Len(e), W32)
<1>1. rd.at = "len" /\ Len(b) = W32
  BY DEF read_payload
<1>2. /\ rd' = [rd EXCEPT !.at = "payload", !.len = from_le_bytes(b), !.buf = <<>>]
      /\ UNCHANGED <<todo, lock, frame, pipe, open, sent, got, end>>
  BY DEF read_payload
<1>3. rd \in [at : {"tag", "len", "payload"}, tag : Nat, len : Nat, buf : Seq(Nat)]
  BY DEF PipeInv, PipeType
<1>4. rd' = [at |-> "payload", tag |-> rd.tag, len |-> from_le_bytes(b), buf |-> <<>>]
  BY <1>2, <1>3
<1>5. /\ Len(got) < Len(sent) /\ rd.tag = Tags[m.kind]
      /\ \A i \in 1 .. Len(b) : b[i] = le[i]
  BY <1>1 DEF PipeInv, ReaderInv
<1>6. Len(got) \in Nat /\ Len(sent) \in Nat /\ W32 \in Nat /\ b \in Seq(Nat)
  BY ReaderFacts
<1>7. IsMessage(m) /\ write_frame(m) # <<>>
  <2>1. Len(got) + 1 \in 1 .. Len(sent)
    BY <1>5, <1>6
  <2> QED
    BY <2>1 DEF PipeInv, OrderInv, Written
<1>8. e \in Seq(Nat) /\ Len(e) \in Nat
  BY <1>7, EncodedIsBytes
<1>9. from_le_bytes(b) = Len(e)
  <2>1. le \in Seq(Nat) /\ Len(le) = W32
    BY <1>6, <1>8, BytesOfNumber
  <2>2. from_le_bytes(le) = Len(e)
    BY <1>7, LengthSurvives
  <2> HIDE DEF le, b
  <2>3. b = [i \in 1 .. W32 |-> b[i]] /\ le = [i \in 1 .. W32 |-> le[i]]
    BY <1>1, <1>6, <2>1
  <2>4. \A i \in 1 .. W32 : b[i] = le[i]
    BY <1>1, <1>5
  <2>5. b = le
    BY <2>3, <2>4
  <2> QED
    BY <2>2, <2>5
<1>10. rd'.at = "payload" /\ rd'.tag = rd.tag /\ rd'.len = Len(e) /\ rd'.buf = <<>> /\ Len(rd'.buf) = 0
  BY <1>4, <1>9
<1>11. PipeType'
  <2>1. <<>> \in Seq(Nat) /\ rd.tag \in Nat
    BY <1>3
  <2>2. rd' \in [at : {"tag", "len", "payload"}, tag : Nat, len : Nat, buf : Seq(Nat)]
    BY <2>1, <1>4, <1>8, <1>9
  <2> QED
    BY <2>2, <1>2 DEF PipeInv, PipeType
<1>12. WriterInv' /\ Pending' = Pending
  BY <1>2, WritersUntouched
<1>13. OrderInv'
  BY <1>2 DEF PipeInv, OrderInv
<1>14. ReaderInv'
  <2>1. got' = got /\ sent' = sent
    BY <1>2
  <2>2. 0 <= Len(e) /\ \A i \in 1 .. Len(rd'.buf) : FALSE
    BY <1>8, <1>10
  <2> QED
    BY <2>1, <2>2, <1>5, <1>10 DEF ReaderInv
<1>15. Consumed' = Consumed
  BY <1>1, <1>6, <1>10 DEF Consumed
<1>16. StreamInv'
  BY <1>2, <1>12, <1>15 DEF PipeInv, StreamInv
<1> QED
  BY <1>2, <1>11, <1>12, <1>13, <1>14, <1>16 DEF PipeInv, ChannelStep

\* The payload is complete: it decodes to the message that was sent.
LEMMA ReadMessageOk ==
  ASSUME PipeInv, read_message
  PROVE  PipeInv' /\ ChannelStep
<1> DEFINE b == rd.buf
           g == Len(got)
           m == sent[g + 1]
           e == encode(m)
<1>1. rd.at = "payload" /\ Len(b) = rd.len /\ end = "open"
  BY DEF read_message
<1>2. rd \in [at : {"tag", "len", "payload"}, tag : Nat, len : Nat, buf : Seq(Nat)]
  BY DEF PipeInv, PipeType
<1>3. /\ g < Len(sent) /\ rd.tag = Tags[m.kind] /\ rd.len = Len(e)
      /\ \A i \in 1 .. Len(b) : b[i] = e[i]
  BY <1>1 DEF PipeInv, ReaderInv
<1>4. g \in Nat /\ Len(sent) \in Nat /\ W32 \in Nat /\ b \in Seq(Nat)
  BY ReaderFacts
<1>5. sent \in Seq(Planned) /\ Written(sent) /\ got \in Seq(Planned)
  BY DEF PipeInv, PipeType, OrderInv
<1>6. g + 1 \in 1 .. Len(sent)
  BY <1>3, <1>4
<1>7. IsMessage(m) /\ write_frame(m) # <<>> /\ m \in Planned
  BY <1>5, <1>6 DEF Written
<1>8. e \in Seq(Nat) /\ Len(e) \in Nat
  BY <1>7, EncodedIsBytes
<1>9. b = e
  <2> HIDE DEF b, e
  <2>1. b = [i \in 1 .. Len(e) |-> b[i]] /\ e = [i \in 1 .. Len(e) |-> e[i]]
    BY <1>1, <1>3, <1>4, <1>8
  <2>2. \A i \in 1 .. Len(e) : b[i] = e[i]
    BY <1>1, <1>3
  <2> QED
    BY <2>1, <2>2
<1>10. decode(rd.tag, b) = m /\ m # Garbled
  BY <1>3, <1>7, <1>9, MessagesSurvive
<1>11. /\ got' = Append(got, m) /\ rd' = [rd EXCEPT !.at = "tag"]
       /\ UNCHANGED <<todo, lock, frame, pipe, open, sent, end>>
  BY <1>10 DEF read_message
<1>12. rd' = [at |-> "tag", tag |-> rd.tag, len |-> rd.len, buf |-> b]
  BY <1>2, <1>11
<1>13. /\ got' \in Seq(Planned) /\ Len(got') = g + 1
       /\ \A i \in 1 .. g : got'[i] = got[i]
       /\ got'[g + 1] = m
  BY <1>5, <1>7, <1>11, AppendOfBytes
<1>14. PipeType'
  <2>1. rd' \in [at : {"tag", "len", "payload"}, tag : Nat, len : Nat, buf : Seq(Nat)]
    BY <1>2, <1>12
  <2> QED
    BY <2>1, <1>11, <1>13 DEF PipeInv, PipeType
<1>15. WriterInv' /\ Pending' = Pending
  BY <1>11, WritersUntouched
<1>16. OrderInv'
  <2>1. Len(got') <= Len(sent)
    BY <1>3, <1>4, <1>13
  <2>2. ASSUME NEW i \in 1 .. Len(got') PROVE got'[i] = sent[i]
    <3>1. CASE i = g + 1
      BY <3>1, <1>13
    <3>2. CASE i \in 1 .. g
      BY <3>2, <1>13 DEF PipeInv, OrderInv
    <3> QED
      BY <3>1, <3>2, <1>4, <1>13
  <2>3. sent' = sent
    BY <1>11
  <2> QED
    BY <2>1, <2>2, <2>3, <1>5 DEF OrderInv
<1>17. ReaderInv' /\ Consumed' = 0
  <2>1. rd'.at = "tag"
    BY <1>12
  <2> QED
    BY <2>1 DEF ReaderInv, Consumed
<1>18. StreamInv'
  <2>1. PICK stream, ends : Carries(stream, ends, sent, ends[g] + Consumed, pipe, Pending)
    BY DEF PipeInv, StreamInv
  <2>2. Framed(stream, ends, sent)
    BY <2>1 DEF Carries
  <2>3. /\ FrameOf(m, write_frame(m)) /\ ends[g] \in Nat /\ ends[g + 1] \in Nat
        /\ ends[g + 1] = ends[g] + Len(write_frame(m))
    BY <2>2, <1>3, <1>4, <1>5, NextFrame
  <2>4. Consumed = 1 + W32 + Len(e)
    BY <1>1, <1>3 DEF Consumed
  <2>5. Len(write_frame(m)) = 1 + W32 + Len(e)
    BY <2>3 DEF FrameOf
  <2>6. ends[g] + Consumed = ends[g + 1]
    BY <2>3, <2>4, <2>5
  <2>7. ends[Len(got')] + Consumed' = ends[g] + Consumed
    BY <2>3, <2>6, <1>13, <1>17
  <2>8. Carries(stream, ends, sent', ends[Len(got')] + Consumed', pipe', Pending')
    BY <2>1, <2>7, <1>11, <1>15
  <2> QED
    BY <2>8 DEF StreamInv
<1>19. Channel!Deliver
  BY <1>1, <1>3, <1>11 DEF Channel!Deliver
<1> QED
  BY <1>14, <1>15, <1>16, <1>17, <1>18, <1>19 DEF PipeInv, ChannelStep

\* A reader that still needs bytes of a frame is before the end of that frame.
LEMMA InsideFrame ==
  ASSUME PipeInv, rd.at # "tag", Len(rd.buf) < Need,
         NEW stream, NEW ends, Framed(stream, ends, sent)
  PROVE  Len(got) < Len(sent) /\ ends[Len(got)] + Consumed < ends[Len(got) + 1]
<1> DEFINE g == Len(got)
           m == sent[g + 1]
<1>1. /\ g < Len(sent) /\ g \in Nat /\ Len(rd.buf) \in Nat /\ W32 \in Nat
      /\ rd.at = "payload" => rd.len = Len(encode(m))
  BY ReaderFacts DEF PipeInv, ReaderInv
<1>2. /\ IsMessage(m) /\ FrameOf(m, write_frame(m)) /\ ends[g] \in Nat /\ ends[g + 1] \in Nat
      /\ ends[g + 1] = ends[g] + Len(write_frame(m))
  <2>1. sent \in Seq(Planned) /\ Written(sent)
    BY DEF PipeInv, PipeType, OrderInv
  <2> QED
    BY <2>1, <1>1, NextFrame
<1>3. Len(write_frame(m)) = 1 + W32 + Len(encode(m)) /\ Len(encode(m)) \in Nat
  <2>1. encode(m) \in Seq(Nat)
    BY <1>2, EncodedIsBytes
  <2> QED
    BY <2>1, <1>2 DEF FrameOf
<1>4. Consumed \in Nat /\ Consumed < 1 + W32 + Len(encode(m))
  <2>1. CASE rd.at = "len"
    BY <2>1, <1>1, <1>3 DEF Consumed, Need
  <2>2. CASE rd.at = "payload"
    <3> DEFINE k == Len(rd.buf)
               n == Len(encode(m))
    <3>1. k \in Nat /\ n \in Nat /\ k < n /\ W32 \in Nat /\ Consumed = 1 + W32 + k
      BY <2>2, <1>1, <1>3 DEF Consumed, Need
    <3> HIDE DEF k, n
    <3>2. Consumed \in Nat /\ Consumed < 1 + W32 + n
      BY <3>1
    <3> QED
      BY <3>2 DEF n
  <2>3. rd.at \in {"tag", "len", "payload"}
    BY DEF PipeInv, PipeType
  <2> QED
    BY <2>1, <2>2, <2>3
<1> QED
  BY <1>1, <1>2, <1>3, <1>4

\* At the end of the stream nothing is left, or the last message is cut.
LEMMA EofOk ==
  ASSUME PipeInv, read_tag \/ read_exact, pipe = <<>>
  PROVE  PipeInv' /\ ChannelStep
<1> DEFINE g == Len(got)
           n == Len(sent)
<1>1. /\ end = "open" /\ end' = IF rd.at = "tag" THEN "eof" ELSE "cut"
      /\ rd.at = "tag" \/ Len(rd.buf) < Need
      /\ UNCHANGED <<todo, lock, frame, open, rd, pipe, sent, got>>
  BY DEF read_tag, read_exact
<1>2. WriterInv' /\ Pending' = Pending
  BY <1>1, WritersUntouched
<1>3. Consumed' = Consumed
  BY <1>1 DEF Consumed
<1>4. PipeType' /\ OrderInv' /\ ReaderInv'
  BY <1>1 DEF PipeInv, PipeType, OrderInv, ReaderInv
<1>5. StreamInv'
  BY <1>1, <1>2, <1>3 DEF PipeInv, StreamInv
<1>6. g \in Nat /\ n \in Nat /\ g <= n /\ Consumed \in Nat /\ W32 \in Nat
  BY ReaderFacts
<1>7. PICK stream, ends : Carries(stream, ends, sent, ends[g] + Consumed, pipe, Pending)
  BY DEF PipeInv, StreamInv
<1>8. /\ Framed(stream, ends, sent) /\ Flow(stream, ends[g] + Consumed, <<>>, Pending)
      /\ Pending # <<>> => n > 0 /\ ends[n - 1] < ends[g] + Consumed + Len(<<>>)
  BY <1>7, pipe = <<>> DEF Carries
<1>9. /\ \A k \in 0 .. n : ends[k] \in Nat
      /\ \A k, l \in 0 .. n : k < l => ends[k] < ends[l]
      /\ ends[n] = Len(stream)
  BY <1>8 DEF Framed
<1>10. ends[g] + Consumed + Len(Pending) = ends[n] /\ Len(Pending) \in Nat /\ Len(<<>>) = 0
  <2>1. /\ Pending \in Seq(Nat) /\ ends[g] + Consumed + Len(<<>>) + Len(Pending) = Len(stream)
        /\ ends[g] \in Nat /\ Len(<<>>) = 0
    <3>1. g \in 0 .. n
      BY <1>6
    <3> QED
      BY <3>1, <1>8, <1>9 DEF Flow
  <2>2. Len(Pending) \in Nat
    BY <2>1
  <2> QED
    BY <2>1, <2>2, <1>6, <1>9
<1>11. g \in 0 .. n /\ n \in 0 .. n /\ ends[g] \in Nat /\ ends[n] \in Nat
  BY <1>6, <1>9
<1> HIDE DEF g, n
<1>12. n <= g + 1
  <2> SUFFICES ASSUME g + 1 < n PROVE FALSE
    BY <1>6
  <2>1. g + 1 \in 0 .. n /\ n - 1 \in 0 .. n /\ g + 1 <= n - 1
    BY <1>6
  <2>2. ends[g + 1] <= ends[n - 1] /\ ends[g + 1] \in Nat /\ ends[n - 1] \in Nat /\ ends[n - 1] < ends[n]
    <3>1. ends[g + 1] \in Nat /\ ends[n - 1] \in Nat
      BY <2>1, <1>9
    <3>2. n - 1 < n
      BY <1>6
    <3>3. ends[n - 1] < ends[n]
      BY <2>1, <3>2, <1>9, <1>11
    <3>4. CASE g + 1 = n - 1
      BY <3>1, <3>3, <3>4
    <3>5. CASE g + 1 < n - 1
      BY <3>1, <3>3, <3>5, <2>1, <1>9
    <3> QED
      BY <3>4, <3>5, <2>1, <1>6
  <2>3. ends[g] + Consumed <= ends[g + 1]
    <3>1. CASE rd.at = "tag"
      <4>1. Consumed = 0 /\ g < g + 1
        BY <3>1, <1>6 DEF Consumed
      <4>2. ends[g] < ends[g + 1]
        BY <4>1, <2>1, <1>9, <1>11
      <4> QED
        BY <4>1, <4>2, <1>11, <2>2
    <3>2. CASE rd.at # "tag"
      <4>1. ends[g] + Consumed < ends[g + 1]
        BY <3>2, <1>1, <1>8, InsideFrame DEF g
      <4> QED
        BY <4>1, <1>6, <1>11, <2>2
    <3> QED
      BY <3>1, <3>2
  <2>4. CASE Pending = <<>>
    <3>1. ends[g] + Consumed = ends[n]
      BY <2>4, <1>10, <1>11, <1>6
    <3> QED
      BY <3>1, <2>2, <2>3, <1>6, <1>11
  <2>5. CASE Pending # <<>>
    <3>1. ends[n - 1] < ends[g] + Consumed
      BY <2>5, <1>8, <1>10, <1>11, <1>6 DEF n, g
    <3> QED
      BY <3>1, <2>2, <2>3, <1>6, <1>11
  <2> QED
    BY <2>4, <2>5
<1>13. CASE rd.at = "tag"
  <2>1. Consumed = 0
    BY <1>13 DEF Consumed
  <2>2. ~ g < n
    <3> SUFFICES ASSUME g < n PROVE FALSE
      OBVIOUS
    <3>1. g = n - 1 /\ n > 0
      BY <1>6, <1>12
    <3>2. ends[g] < ends[n]
      BY <1>9, <1>11
    <3>3. CASE Pending = <<>>
      <4>1. ends[g] = ends[n]
        BY <3>3, <2>1, <1>10, <1>11
      <4> QED
        BY <4>1, <3>2, <1>11
    <3>4. CASE Pending # <<>>
      <4>1. ends[n - 1] < ends[g]
        BY <3>4, <2>1, <1>8, <1>10, <1>11 DEF n, g
      <4> QED
        BY <4>1, <3>1, <1>11
    <3> QED
      BY <3>3, <3>4
  <2>3. g = n
    BY <2>2, <1>6
  <2>4. got = sent
    <3>1. got \in Seq(Planned) /\ sent \in Seq(Planned)
      BY DEF PipeInv, PipeType
    <3>2. got = [i \in 1 .. n |-> got[i]] /\ sent = [i \in 1 .. n |-> sent[i]]
      BY <3>1, <2>3 DEF g, n
    <3>3. \A i \in 1 .. n : got[i] = sent[i]
      BY <2>3 DEF PipeInv, OrderInv, g
    <3> QED
      BY <3>2, <3>3
  <2>5. end' = "eof" /\ sent' = sent /\ got' = got
    BY <1>1, <1>13
  <2>6. Len(got) + 1 >= Len(sent)
    BY <1>6, <1>12 DEF g, n
  <2>7. Channel!End
    BY <2>4, <2>5, <2>6, <1>1 DEF Channel!End
  <2> QED
    BY <2>7, <1>2, <1>4, <1>5 DEF PipeInv, ChannelStep
<1>14. CASE rd.at # "tag"
  <2>1. g < n
    BY <1>14, <1>1, <1>8, InsideFrame DEF g, n
  <2>2. got # sent
    BY <2>1, <1>6 DEF g, n
  <2>3. end' = "cut" /\ sent' = sent /\ got' = got
    BY <1>1, <1>14
  <2>4. Len(got) + 1 >= Len(sent)
    BY <1>6, <1>12 DEF g, n
  <2>5. Channel!End
    BY <2>2, <2>3, <2>4, <1>1 DEF Channel!End
  <2> QED
    BY <2>5, <1>2, <1>4, <1>5 DEF PipeInv, ChannelStep
<1> QED
  BY <1>13, <1>14

\* Every step keeps the invariant, and is one of the channel or none.
LEMMA PipeStep == PipeInv /\ [PipeNext]_pipeVars => PipeInv' /\ ChannelStep
<1> SUFFICES ASSUME PipeInv, [PipeNext]_pipeVars PROVE PipeInv' /\ ChannelStep
  OBVIOUS
<1>1. CASE Writer
  <2>1. PICK t \in Threads : Lock(t) \/ WriteByte(t) \/ Unlock(t)
    BY <1>1 DEF Writer
  <2>2. CASE Lock(t)
    BY <2>2, LockOk
  <2>3. CASE WriteByte(t)
    BY <2>3, FirstByteOk, LaterByteOk
  <2>4. CASE Unlock(t)
    BY <2>4, UnlockOk
  <2> QED
    BY <2>1, <2>2, <2>3, <2>4
<1>2. CASE Reader
  <2>1. CASE read_tag
    BY <2>1, ReadTagOk, EofOk
  <2>2. CASE read_exact
    BY <2>2, ReadByteOk, EofOk
  <2>3. CASE read_payload
    BY <2>3, ReadLengthOk
  <2>4. CASE read_message
    BY <2>4, ReadMessageOk
  <2> QED
    BY <1>2, <2>1, <2>2, <2>3, <2>4 DEF Reader
<1>3. CASE Exit \/ Die
  BY <1>3, StopOk
<1>4. CASE UNCHANGED pipeVars
  <2>1. UNCHANGED <<todo, lock, frame, pipe, open, rd, sent, got, end>>
    BY <1>4 DEF pipeVars
  <2>2. WriterInv' /\ Pending' = Pending
    BY <2>1, WritersUntouched
  <2>3. Consumed' = Consumed
    BY <2>1 DEF Consumed
  <2>4. PipeType' /\ OrderInv' /\ ReaderInv'
    BY <2>1 DEF PipeInv, PipeType, OrderInv, ReaderInv
  <2>5. StreamInv'
    BY <2>1, <2>2, <2>3 DEF PipeInv, StreamInv
  <2> QED
    BY <2>1, <2>2, <2>4, <2>5 DEF PipeInv, ChannelStep
<1> QED
  BY <1>1, <1>2, <1>3, <1>4 DEF PipeNext

\* The frames are a channel of messages, for every base and width of the
\* integers, all threads and messages, and any room in the pipe: none is garbled,
\* mixed with another thread's, altered, repeated or skipped, and one that was cut
\* is never taken for the end.
THEOREM PipeIsChannel == PipeSpec => ChannelSpec
<1>1. PipeInit => Channel!Init
  BY DEF PipeInit, Channel!Init
<1>2. PipeInv /\ [PipeNext]_pipeVars => ChannelStep
  BY PipeStep
<1>3. PipeInv /\ [PipeNext]_pipeVars => PipeInv'
  BY PipeStep
<1> QED
  BY <1>1, <1>2, <1>3, PipeInitOk, PTL
    DEF PipeSpec, ChannelSpec, Channel!ChannelSpec, ChannelStep
=============================================================================

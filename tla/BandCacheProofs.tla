--------------------------- MODULE BandCacheProofs ---------------------------
(* A stage reads the panel and nothing else, for panels of any height and     *)
(* channel count, bands of any height, any number of threads and failures.    *)
EXTENDS BandCache, SequenceTheorems, TLAPS

-----------------------------------------------------------------------------
(* Where a row lies in its band.                                              *)

LEMMA BandStart ==
  ASSUME NEW y \in Nat, NEW b \in Nat \ {0}
  PROVE  LET s == (y \div b) * b IN s \in Nat /\ s <= y /\ y < s + b
BY SMT

LEMMA SameBand ==
  ASSUME NEW y \in Nat, NEW b \in Nat \ {0}, NEW q \in Nat, q * b <= y, y < q * b + b
  PROVE  y \div b = q
<1>. DEFINE p == y \div b
<1>1. p \in Nat /\ p * b <= y /\ y < p * b + b
  BY SMT
<1>. HIDE DEF p
<1>2. p * b + b = (p + 1) * b /\ q * b + b = (q + 1) * b
  BY <1>1, SMT
<1>3. ~ (p + 1 <= q)
  <2>1. p + 1 <= q => (p + 1) * b <= q * b
    BY <1>1, SMT
  <2>2. (p + 1) * b \in Nat /\ q * b \in Nat
    BY <1>1, SMT
  <2>. QED
    BY <1>1, <1>2, <2>1, <2>2
<1>4. ~ (q + 1 <= p)
  <2>1. q + 1 <= p => (q + 1) * b <= p * b
    BY <1>1, SMT
  <2>2. (q + 1) * b \in Nat /\ p * b \in Nat
    BY <1>1, SMT
  <2>. QED
    BY <1>1, <1>2, <2>1, <2>2
<1>. QED
  BY <1>1, <1>3, <1>4 DEF p

\* The rows of a plane of height h lie one plane after the other.
LEMMA PlaneRow ==
  ASSUME NEW c \in Nat, NEW h \in Nat \ {0}, NEW r \in 0 .. h - 1
  PROVE  (c * h + r) \div h = c /\ (c * h + r) % h = r
<1>1. c * h + r \in Nat /\ c * h <= c * h + r /\ c * h + r < c * h + h
  BY SMT
<1>2. (c * h + r) \div h = c
  BY <1>1, SameBand
<1>. DEFINE n == c * h + r
<1>3. n \in Nat /\ n \div h = c /\ c * h \in Nat
  BY <1>1, <1>2, SMT
<1>. HIDE DEF n
<1>4. n = (n \div h) * h + (n % h) /\ n % h \in Nat
  BY <1>3, SMT
<1>. QED
  BY <1>3, <1>4 DEF n

LEMMA PlaneFits ==
  ASSUME NEW n \in Nat \ {0}, NEW c \in 0 .. n - 1, NEW h \in Nat, NEW r \in 0 .. h - 1,
         NEW b \in Nat, h <= b
  PROVE  c * h + r \in Nat /\ c * h + r < n * h /\ n * h <= n * b /\ n * h \in Nat /\ n * b \in Nat
<1>1. c * h + h = (c + 1) * h
  BY SMT
<1>2. (c + 1) * h <= n * h
  <2>1. c + 1 \in Nat /\ c + 1 <= n
    OBVIOUS
  <2>. QED
    BY <2>1, SMT
<1>3. n * h <= n * b
  BY SMT
<1>4. c * h \in Nat /\ n * h \in Nat /\ n * b \in Nat
  BY SMT
<1>. QED
  BY <1>1, <1>2, <1>3, <1>4

LEMMA Bands ==
  ASSUME NEW y \in Rows
  PROVE  /\ BandOf(y) \in Rows /\ BandOf(y) <= y /\ y < BandEnd(BandOf(y))
         /\ BandHeight(BandOf(y)) \in Nat \ {0} /\ BandHeight(BandOf(y)) <= BandRows
         /\ BandEnd(BandOf(y)) = BandOf(y) + BandHeight(BandOf(y))
         /\ BandEnd(BandOf(y)) <= Height
         /\ \A z \in BandOf(y) .. BandEnd(BandOf(y)) - 1 : BandOf(z) = BandOf(y)
<1>. DEFINE q == y \div BandRows
            s == q * BandRows
<1>0. y \in Nat /\ BandRows \in Nat \ {0} /\ Height \in Nat \ {0} /\ y < Height
  BY CacheAssumption DEF Rows
<1>1. q \in Nat /\ s \in Nat /\ s <= y /\ y < s + BandRows
  <2>1. q \in Nat
    BY <1>0, SMT
  <2>. QED
    BY <1>0, <2>1, BandStart
<1>2. BandOf(y) = s
  BY DEF BandOf
<1>3. \A z \in s .. s + BandRows - 1 : BandOf(z) = s
  <2>. TAKE z \in s .. s + BandRows - 1
  <2>. HIDE DEF q
  <2>1. z \in Nat /\ q * BandRows <= z /\ z < q * BandRows + BandRows
    BY <1>0, <1>1
  <2>2. z \div BandRows = q
    BY <1>0, <1>1, <2>1, SameBand
  <2>. QED
    BY <2>2 DEF BandOf
<1>. HIDE DEF s, q
<1>4. BandEnd(s) = (IF s + BandRows < Height THEN s + BandRows ELSE Height)
  BY DEF BandEnd, Lower
<1>5. /\ BandEnd(s) \in Nat /\ y < BandEnd(s) /\ BandEnd(s) <= s + BandRows /\ BandEnd(s) <= Height
      /\ BandHeight(s) = BandEnd(s) - s
  BY <1>0, <1>1, <1>4 DEF BandHeight
<1>. QED
  BY <1>0, <1>1, <1>2, <1>3, <1>5 DEF Rows

\* A row starts a band just when the row before it lies in another one.
LEMMA BandTurns ==
  ASSUME NEW y \in Rows, y > 0
  PROVE  y - 1 \in Rows /\ (BandOf(y) = BandOf(y - 1) <=> y # BandOf(y))
<1>1. y - 1 \in Rows /\ y \in Nat /\ Height \in Nat
  BY CacheAssumption DEF Rows
<1>2. CASE y < BandEnd(BandOf(y - 1))
  <2>1. BandOf(y - 1) <= y - 1 /\ BandOf(y - 1) \in Nat
    BY <1>1, Bands DEF Rows
  <2>2. BandOf(y) = BandOf(y - 1)
    BY <1>1, <1>2, <2>1, Bands DEF Rows
  <2>. QED
    BY <1>1, <2>1, <2>2
<1>3. CASE y >= BandEnd(BandOf(y - 1))
  <2>1. BandEnd(BandOf(y - 1)) = y
    BY <1>1, <1>3, Bands DEF Rows
  <2>2. y = BandOf(y - 1) + BandRows
    BY <1>1, <2>1, Bands, CacheAssumption DEF BandEnd, Lower, Rows
  <2>3. BandOf(y) = y
    <3>. DEFINE q == (y - 1) \div BandRows
    <3>1. q \in Nat /\ BandRows \in Nat \ {0}
      BY <1>1, CacheAssumption, SMT DEF Rows
    <3>2. BandOf(y - 1) = q * BandRows
      BY DEF BandOf
    <3>. HIDE DEF q
    <3>3. y = (q + 1) * BandRows
      BY <2>2, <3>1, <3>2, SMT
    <3>4. y \div BandRows = q + 1
      BY <1>1, <3>1, <3>3, SameBand
    <3>. QED
      BY <3>3, <3>4 DEF BandOf
  <2>4. BandOf(y - 1) <= y - 1 /\ BandOf(y - 1) \in Nat
    BY <1>1, Bands DEF Rows
  <2>. QED
    BY <1>1, <2>3, <2>4
<1>4. BandEnd(BandOf(y - 1)) \in Nat
  BY <1>1, Bands DEF Rows
<1>. QED
  BY <1>1, <1>2, <1>3, <1>4

-----------------------------------------------------------------------------
(* The invariant.                                                             *)

Cell == [y0 : Rows, valid : BOOLEAN, buf : [0 .. Cap - 1 -> Vals]]
Doings == {"idle", "asking", "fetching", "holding"}
Reader == [doing : Doings, row : Rows \cup {NoRow}, held : Seq(0 .. Cap - 1)]

Typed ==
  /\ stage \in Stages /\ first \in Rows
  /\ cells \in [Threads -> Cell] /\ at \in [Threads -> Reader]
  /\ error \in Rows \cup {NoRow}
  /\ todo \subseteq first .. next - 1 /\ next \in first .. Height
  /\ outcome \in {"running", "ok", "error", "panic"}
  /\ seen \in [Rows -> Seq(Vals)] /\ fetched \in [Rows -> Nat] /\ fails \in Nat

\* A cell that is valid holds the band it says, every channel in its place.
CellHolds(cell) ==
  cell.valid =>
    /\ cell.y0 = BandOf(cell.y0)
    /\ \A c \in Chans : \A y \in cell.y0 .. BandEnd(cell.y0) - 1 :
         cell.buf[RowStart(c, y, cell.y0)] = <<c, y>>

CellInv == \A t \in Threads : CellHolds(cells[t])

\* A thread holds slices only of the cell's present band, and none of them
\* while the cell is being refilled.
HeldFrom(a, cell) ==
  a.held # <<>> =>
    /\ cell.valid /\ cell.y0 = BandOf(a.row)
    /\ Len(a.held) <= Channels
    /\ \A i \in 1 .. Len(a.held) : a.held[i] = RowStart(i - 1, a.row, cell.y0)

ReaderInv ==
  \A t \in Threads :
    /\ at[t].doing = "idle" => at[t] = Idle
    /\ at[t].doing # "idle" => t \in Crew /\ at[t].row \in first .. next - 1
    /\ at[t].doing \in {"fetching", "holding"} => at[t].held = <<>>
    /\ at[t].doing = "holding" => error # NoRow
    /\ HeldFrom(at[t], cells[t])

\* Every row handed out is waiting, in work, or done; a row that was lost on
\* the way has left an error behind.
Full(y) == [i \in 1 .. Channels |-> <<i - 1, y>>]

RowsInv ==
  \A y \in first .. next - 1 :
    \/ y \in todo
    \/ \E t \in Threads : at[t].row = y
    \/ seen[y] = Full(y)
    \/ error # NoRow

OutcomeInv ==
  /\ error # NoRow /\ stage = "blend" => outcome = "panic"
  /\ outcome = "ok" => /\ AllIdle /\ todo = {} /\ next >= Height
                       /\ error = NoRow

\* A sequential stage without an error: it works on its latest row only, it has
\* asked for the bands of the rows it decided on, each once, and its cell holds
\* the band of the last of them.
Decided == IF todo # {} \/ (at[Scanner].doing = "asking" /\ at[Scanner].held = <<>>)
           THEN next - 1 ELSE next

SequentialInv ==
  stage # "blend" /\ error = NoRow =>
    /\ first = 0
    /\ todo \subseteq {next - 1}
    /\ at[Scanner].doing # "idle" => at[Scanner].row = next - 1 /\ todo = {}
    /\ \A y \in Rows : fetched[y] = IF y = BandOf(y) /\ y < Decided THEN 1 ELSE 0
    /\ at[Scanner].doing = "fetching" =>
         next - 1 = BandOf(next - 1)
    /\ at[Scanner].doing # "fetching" /\ Decided > 0 =>
         cells[Scanner].valid /\ cells[Scanner].y0 = BandOf(Decided - 1)
    /\ at[Scanner].doing # "fetching" /\ Decided = 0 => ~cells[Scanner].valid

IInv == Typed /\ CellInv /\ ReaderInv /\ RowsInv /\ OutcomeInv /\ SequentialInv

-----------------------------------------------------------------------------
(* What a fetch leaves in the cell.                                           *)

LEMMA BandOfBand ==
  ASSUME NEW y \in Rows
  PROVE  BandOf(BandOf(y)) = BandOf(y)
<1>1. BandOf(y) \in BandOf(y) .. BandEnd(BandOf(y)) - 1
  BY Bands, CacheAssumption DEF Rows
<1>. QED
  BY <1>1, Bands

LEMMA InBand ==
  ASSUME NEW y \in Rows
  PROVE  y \in BandOf(y) .. BandEnd(BandOf(y)) - 1
BY Bands, CacheAssumption DEF Rows

LEMMA RowInCell ==
  ASSUME NEW y \in Rows, NEW c \in Chans, NEW z \in BandOf(y) .. BandEnd(BandOf(y)) - 1
  PROVE  /\ RowStart(c, z, BandOf(y)) \in 0 .. Cap - 1
         /\ RowStart(c, z, BandOf(y)) < Channels * BandHeight(BandOf(y))
         /\ RowStart(c, z, BandOf(y)) \div BandHeight(BandOf(y)) = c
         /\ RowStart(c, z, BandOf(y)) % BandHeight(BandOf(y)) = z - BandOf(y)
<1>. DEFINE h == BandHeight(BandOf(y))
            r == z - BandOf(y)
<1>1. h \in Nat \ {0} /\ h <= BandRows /\ r \in 0 .. h - 1 /\ c \in Nat
  BY Bands, CacheAssumption DEF Rows, Chans
<1>2. Channels \in Nat \ {0} /\ c \in 0 .. Channels - 1 /\ BandRows \in Nat
  BY CacheAssumption DEF Chans
<1>3. RowStart(c, z, BandOf(y)) = c * h + r
  BY DEF RowStart
<1>. HIDE DEF h, r
<1>4. c * h + r \in Nat /\ c * h + r < Channels * h /\ Channels * h <= Channels * BandRows
      /\ Channels * h \in Nat /\ Channels * BandRows \in Nat
  BY <1>1, <1>2, PlaneFits
<1>5. (c * h + r) \div h = c /\ (c * h + r) % h = r
  BY <1>1, PlaneRow
<1>6. c * h + r \in 0 .. Channels * BandRows - 1
  BY <1>4
<1>. QED
  BY <1>3, <1>4, <1>5, <1>6 DEF h, r, Cap

LEMMA FilledCell ==
  ASSUME NEW y \in Rows, NEW buf \in [0 .. Cap - 1 -> Vals]
  PROVE  /\ Filled(buf, BandOf(y)) \in [0 .. Cap - 1 -> Vals]
         /\ \A c \in Chans : \A z \in BandOf(y) .. BandEnd(BandOf(y)) - 1 :
              Filled(buf, BandOf(y))[RowStart(c, z, BandOf(y))] = <<c, z>>
<1>. DEFINE s == BandOf(y)
            h == BandHeight(s)
<1>1. s \in Rows /\ h \in Nat \ {0} /\ s + h <= Height /\ Channels \in Nat \ {0}
  BY Bands, CacheAssumption
<1>2. ASSUME NEW i \in 0 .. Cap - 1, i < Channels * h
      PROVE  <<i \div h, s + (i % h)>> \in Vals
  <2>1. i \in Nat /\ i \div h \in Nat /\ i % h \in 0 .. h - 1
    <3>. HIDE DEF h
    <3>. QED
      BY <1>1, SMT
  <2>2. (i \div h) * h <= i
    <3>. HIDE DEF h
    <3>. QED
      BY <1>1, <2>1, BandStart
  <2>3. i \div h < Channels
    <3>. DEFINE d == i \div h
    <3>0. d \in Nat /\ d * h <= i
      BY <2>1, <2>2
    <3>. HIDE DEF d, h
    <3>1. Channels <= d => Channels * h <= d * h
      BY <1>1, <3>0, SMT
    <3>2. Channels * h \in Nat /\ d * h \in Nat
      BY <1>1, <3>0, SMT
    <3>. QED
      BY <1>1, <1>2, <2>1, <3>0, <3>1, <3>2 DEF d
  <2>4. s + (i % h) \in Rows
    <3>. HIDE DEF s, h
    <3>. QED
      BY <1>1, <2>1, CacheAssumption DEF Rows
  <2>5. i \div h \in Chans
    BY <1>1, <2>1, <2>3 DEF Chans
  <2>. QED
    BY <2>4, <2>5 DEF Vals
<1>3. Filled(buf, s) \in [0 .. Cap - 1 -> Vals]
  <2>. HIDE DEF s
  <2>. QED
    BY <1>2 DEF Filled
<1>4. ASSUME NEW c \in Chans, NEW z \in s .. BandEnd(s) - 1
      PROVE  Filled(buf, s)[RowStart(c, z, s)] = <<c, z>>
  <2>1. /\ RowStart(c, z, s) \in 0 .. Cap - 1 /\ RowStart(c, z, s) < Channels * h
        /\ RowStart(c, z, s) \div h = c /\ RowStart(c, z, s) % h = z - s
    BY <1>4, RowInCell
  <2>2. s + (z - s) = z
    BY <1>1, <1>4, Bands, CacheAssumption DEF Rows
  <2>. HIDE DEF s
  <2>. QED
    BY <2>1, <2>2 DEF Filled
<1>. QED
  BY <1>3, <1>4

-----------------------------------------------------------------------------
(* The invariant holds at first, and every step keeps it.                     *)

LEMMA InitIInv == Init => IInv
<1>. SUFFICES ASSUME Init PROVE IInv
  OBVIOUS
<1>. USE CacheAssumption
<1>1. first \in Rows /\ 0 \in Rows /\ stage \in Stages
  BY DEF Init, Rows
<1>2. cells \in [Threads -> Cell]
  BY <1>1 DEF Init, Cell, Vals
<1>3. at \in [Threads -> Reader] /\ \A t \in Threads : at[t] = Idle
  BY DEF Init, Reader, Idle, Doings
<1>4. Typed
  <2>1. seen \in [Rows -> Seq(Vals)] /\ fetched \in [Rows -> Nat]
    BY DEF Init
  <2>2. next \in first .. Height
    BY <1>1 DEF Init, Rows
  <2>. QED
    BY <1>1, <1>2, <1>3, <2>1, <2>2 DEF Init, Typed
<1>5. CellInv
  BY DEF Init, CellInv, CellHolds
<1>6. ReaderInv
  <2>1. Idle.doing = "idle" /\ Idle.held = <<>>
    BY DEF Idle
  <2>. QED
    BY <1>3, <2>1 DEF ReaderInv, HeldFrom
<1>7. RowsInv /\ OutcomeInv
  BY <1>1 DEF Init, RowsInv, OutcomeInv, Rows
<1>8. SequentialInv
  <2>. SUFFICES ASSUME stage # "blend" PROVE SequentialInv
    BY DEF SequentialInv
  <2>1. first = 0 /\ next = 0 /\ todo = {} /\ at[Scanner] = Idle /\ cells[Scanner].valid = FALSE
    BY <1>3 DEF Init
  <2>2. Decided = 0
    BY <2>1 DEF Decided, Idle
  <2>3. \A y \in Rows : fetched[y] = IF y = BandOf(y) /\ y < 0 THEN 1 ELSE 0
    BY DEF Init, Rows
  <2>. QED
    BY <2>1, <2>2, <2>3 DEF SequentialInv, Idle
<1>. QED
  BY <1>4, <1>5, <1>6, <1>7, <1>8 DEF IInv

\* The batch that starts at a row lies behind it and in the panel.
LEMMA BatchEnds ==
  ASSUME stage \in Stages, NEW y \in Rows
  PROVE  BatchEnd(y) \in y + 1 .. Height /\ (stage # "blend" => BatchEnd(y) = y + 1)
BY CacheAssumption DEF BatchEnd, Lower, Rows

\* What the thread that takes a step becomes; the others stay as they are.
LEMMA AtTake ==
  ASSUME Typed, NEW t \in Threads, Take(t)
  PROVE  \E y \in todo :
           /\ todo' = todo \ {y}
           /\ at' = [at EXCEPT ![t] = [doing |-> "asking", row |-> y, held |-> <<>>]]
           /\ at'[t] = [doing |-> "asking", row |-> y, held |-> <<>>]
           /\ y \in first .. next - 1 /\ y \in Rows
<1>1. PICK y \in todo : /\ todo' = todo \ {y}
                        /\ at' = [at EXCEPT ![t] = [doing |-> "asking", row |-> y, held |-> <<>>]]
  BY DEF Take
<1>2. at'[t] = [doing |-> "asking", row |-> y, held |-> <<>>]
  BY <1>1 DEF Typed
<1>3. y \in first .. next - 1 /\ y \in Rows
  BY CacheAssumption DEF Typed, Rows
<1>. QED
  BY <1>1, <1>2, <1>3

\* A thread that works has a row, and the slice it is handed lies in its cell.
LEMMA WorksOnRow ==
  ASSUME Typed, ReaderInv, NEW t \in Threads, at[t].doing # "idle"
  PROVE  /\ t \in Crew /\ at[t].row \in first .. next - 1 /\ at[t].row \in Rows
         /\ BandOf(at[t].row) \in Rows
         /\ at[t] \in Reader /\ Len(at[t].held) \in Nat
<1>1. t \in Crew /\ at[t].row \in first .. next - 1
  BY DEF ReaderInv
<1>2. at[t].row \in Rows
  BY <1>1, CacheAssumption DEF Typed, Rows
<1>. QED
  BY <1>1, <1>2, Bands DEF Typed, Reader

LEMMA SliceInCell ==
  ASSUME NEW y \in Rows, NEW c \in Chans
  PROVE  RowStart(c, y, BandOf(y)) \in 0 .. Cap - 1
<1>. QED
  BY InBand, RowInCell

LEMMA TypedStep ==
  ASSUME Typed, ReaderInv, OutcomeInv, [Next]_vars
  PROVE  Typed'
<1>1. CASE NextBatch
  <2>1. next \in Rows /\ first \in Rows /\ next \in first .. Height /\ stage \in Stages
    BY <1>1, CacheAssumption DEF NextBatch, Typed, Rows
  <2>2. BatchEnd(next) \in next + 1 .. Height
    BY <2>1, BatchEnds
  <2>3. next .. BatchEnd(next) - 1 \subseteq first .. BatchEnd(next) - 1
        /\ BatchEnd(next) \in first .. Height
    BY <2>1, <2>2, CacheAssumption DEF Rows
  <2>. QED
    BY <1>1, <2>3 DEF NextBatch, Typed
<1>2. CASE Finish
  BY <1>2 DEF Finish, Typed, Verdict
<1>3. ASSUME NEW t \in Threads, Take(t) PROVE Typed'
  <2>1. PICK y \in todo : todo' = todo \ {y}
          /\ at' = [at EXCEPT ![t] = [doing |-> "asking", row |-> y, held |-> <<>>]] /\ y \in Rows
    BY <1>3, AtTake
  <2>2. at' \in [Threads -> Reader]
    BY <2>1 DEF Typed, Reader, Doings
  <2>. QED
    BY <1>3, <2>1, <2>2 DEF Take, Typed
<1>4. ASSUME NEW t \in Threads, Hit(t) PROVE Typed'
  <2>1. at[t].doing # "idle" /\ Len(at[t].held) < Channels
    BY <1>4 DEF Hit, Asking
  <2>2. at[t].row \in Rows /\ Len(at[t].held) \in Chans /\ at[t] \in Reader
    BY <2>1, WorksOnRow, CacheAssumption DEF Chans
  <2>3. cells[t].y0 = BandOf(at[t].row)
    BY <1>4 DEF Hit, NeedFetch
  <2>4. Hand(t, cells[t].y0) \in Seq(0 .. Cap - 1)
    BY <2>2, <2>3, SliceInCell DEF Hand, Reader
  <2>5. at' \in [Threads -> Reader]
    BY <1>4, <2>4 DEF Hit, Typed, Reader
  <2>. QED
    BY <1>4, <2>5 DEF Hit, Typed
<1>5. ASSUME NEW t \in Threads, Miss(t) PROVE Typed'
  <2>1. at' \in [Threads -> Reader]
    BY <1>5 DEF Miss, Typed, Reader, Doings
  <2>2. fetched' \in [Rows -> Nat]
    <3>1. at[t].doing # "idle"
      BY <1>5 DEF Miss, Asking
    <3>2. fetched[BandOf(at[t].row)] + 1 \in Nat
      BY <3>1, WorksOnRow DEF Typed
    <3>3. fetched' = [fetched EXCEPT ![BandOf(at[t].row)] = fetched[BandOf(at[t].row)] + 1]
      BY <1>5 DEF Miss
    <3>. QED
      BY <3>2, <3>3 DEF Typed
  <2>. QED
    BY <1>5, <2>1, <2>2 DEF Miss, Typed
<1>6. ASSUME NEW t \in Threads, FetchOk(t) PROVE Typed'
  <2>1. at[t].doing = "fetching"
    BY <1>6 DEF FetchOk
  <2>2. at[t].row \in Rows /\ BandOf(at[t].row) \in Rows /\ at[t] \in Reader
    BY <2>1, WorksOnRow
  <2>3. at[t].held = <<>> /\ 0 \in Chans
    BY <2>1, CacheAssumption DEF ReaderInv, Chans
  <2>4. Hand(t, BandOf(at[t].row)) \in Seq(0 .. Cap - 1)
    BY <2>2, <2>3, SliceInCell DEF Hand
  <2>5. at' \in [Threads -> Reader]
    BY <1>6, <2>4 DEF FetchOk, Typed, Reader, Doings
  <2>6. cells[t].buf \in [0 .. Cap - 1 -> Vals]
    BY DEF Typed, Cell
  <2>7. Filled(cells[t].buf, BandOf(at[t].row)) \in [0 .. Cap - 1 -> Vals]
    BY <2>2, <2>6, FilledCell
  <2>8. cells' \in [Threads -> Cell]
    BY <1>6, <2>2, <2>7 DEF FetchOk, Typed, Cell
  <2>. QED
    BY <1>6, <2>5, <2>8 DEF FetchOk, Typed
<1>7. ASSUME NEW t \in Threads, FetchFail(t) PROVE Typed'
  <2>1. at[t].doing = "fetching"
    BY <1>7 DEF FetchFail
  <2>2. BandOf(at[t].row) \in Rows
    BY <2>1, WorksOnRow
  <2>3. error' \in Rows \cup {NoRow}
    BY <1>7, <2>2 DEF FetchFail, Latched, Typed
  <2>4. at' \in [Threads -> Reader]
    BY <1>7 DEF FetchFail, Typed, Reader, Doings
  <2>5. cells' \in [Threads -> Cell]
    BY <1>7 DEF FetchFail, Typed, Cell
  <2>6. stage \in {"scan", "reproject", "blend"}
    BY CacheAssumption DEF Typed
  <2>7. outcome' \in {"running", "ok", "error", "panic"}
    BY <1>7, <2>6 DEF FetchFail
  <2>8. fails' = fails + 1 /\ UNCHANGED <<stage, first, todo, next, seen, fetched>>
    BY <1>7 DEF FetchFail
  <2>. QED
    BY <2>3, <2>4, <2>5, <2>7, <2>8 DEF Typed
<1>8. ASSUME NEW t \in Threads, Use(t) PROVE Typed'
  <2>1. at' \in [Threads -> Reader]
    BY <1>8 DEF Use, Typed, Reader, Idle, Doings
  <2>2. at[t].held \in Seq(0 .. Cap - 1) /\ cells[t].buf \in [0 .. Cap - 1 -> Vals]
        /\ Len(at[t].held) \in Nat
    BY DEF Typed, Reader, Cell
  <2>3. [i \in 1 .. Len(at[t].held) |-> cells[t].buf[at[t].held[i]]] \in Seq(Vals)
    <3>1. \A i \in 1 .. Len(at[t].held) : at[t].held[i] \in 0 .. Cap - 1
      BY <2>2, ElementOfSeq
    <3>2. [i \in 1 .. Len(at[t].held) |-> cells[t].buf[at[t].held[i]]]
            \in [1 .. Len(at[t].held) -> Vals]
      BY <2>2, <3>1
    <3>. QED
      BY <2>2, <3>2, SeqDef
  <2>4. seen' \in [Rows -> Seq(Vals)]
    BY <1>8, <2>3 DEF Use, Typed
  <2>. QED
    BY <1>8, <2>1, <2>4 DEF Use, Typed
<1>9. CASE UNCHANGED vars
  BY <1>9 DEF vars, Typed
<1>. QED
  BY <1>1, <1>2, <1>3, <1>4, <1>5, <1>6, <1>7, <1>8, <1>9 DEF Next

\* The cells: a fetch puts a whole band into one of them or spoils it.
LEMMA CellStep ==
  ASSUME Typed, ReaderInv, CellInv, [Next]_vars
  PROVE  CellInv'
<1>1. ASSUME NEW t \in Threads, FetchOk(t) PROVE CellInv'
  <2>. DEFINE y0  == BandOf(at[t].row)
              new == [y0 |-> y0, valid |-> TRUE, buf |-> Filled(cells[t].buf, y0)]
  <2>1. at[t].doing # "idle"
    BY <1>1 DEF FetchOk
  <2>2. at[t].row \in Rows /\ cells[t].buf \in [0 .. Cap - 1 -> Vals]
    BY <2>1, WorksOnRow DEF Typed, Cell
  <2>3. \A c \in Chans : \A z \in y0 .. BandEnd(y0) - 1 :
          Filled(cells[t].buf, y0)[RowStart(c, z, y0)] = <<c, z>>
    BY <2>2, FilledCell
  <2>4. y0 = BandOf(y0)
    BY <2>2, BandOfBand
  <2>5. cells' = [cells EXCEPT ![t] = new]
    BY <1>1 DEF FetchOk
  <2>. HIDE DEF y0
  <2>6. CellHolds(new)
    BY <2>3, <2>4 DEF CellHolds
  <2>. HIDE DEF new
  <2>7. \A u \in Threads : cells'[u] = IF u = t THEN new ELSE cells[u]
    BY <2>5 DEF Typed
  <2>. QED
    BY <2>6, <2>7 DEF CellInv
<1>2. ASSUME NEW t \in Threads, FetchFail(t) PROVE CellInv'
  <2>1. \A u \in Threads : cells'[u] = cells[u] \/ ~cells'[u].valid
    BY <1>2 DEF FetchFail, Typed, Cell
  <2>2. ASSUME NEW u \in Threads PROVE CellHolds(cells'[u])
    <3>1. CASE cells'[u] = cells[u]
      BY <3>1 DEF CellInv
    <3>2. CASE ~cells'[u].valid
      BY <3>2 DEF CellHolds
    <3>. QED
      BY <2>1, <3>1, <3>2
  <2>. QED
    BY <2>2 DEF CellInv
<1>3. CASE UNCHANGED cells
  BY <1>3 DEF CellInv
<1>. QED
  BY <1>1, <1>2, <1>3 DEF Next, NextBatch, Finish, Take, Hit, Miss, Use, vars

\* What a thread holds shows the row it works on.
LEMMA HeldShows ==
  ASSUME Typed, ReaderInv, CellInv, NEW t \in Threads, NEW i \in 1 .. Len(at[t].held)
  PROVE  cells[t].buf[at[t].held[i]] = <<i - 1, at[t].row>>
<1>1. at[t].held # <<>> /\ at[t].held \in Seq(0 .. Cap - 1) /\ Len(at[t].held) \in Nat
  BY DEF Typed, Reader
<1>2. at[t].doing # "idle"
  BY <1>1 DEF ReaderInv, Idle
<1>3. at[t].row \in Rows
  BY <1>2, WorksOnRow
<1>4. /\ cells[t].valid /\ cells[t].y0 = BandOf(at[t].row) /\ Len(at[t].held) <= Channels
      /\ at[t].held[i] = RowStart(i - 1, at[t].row, cells[t].y0)
  BY <1>1 DEF ReaderInv, HeldFrom
<1>5. i - 1 \in Chans
  BY <1>1, <1>4, CacheAssumption DEF Chans
<1>6. at[t].row \in BandOf(at[t].row) .. BandEnd(BandOf(at[t].row)) - 1
  BY <1>3, InBand
<1>7. \A c \in Chans : \A y \in cells[t].y0 .. BandEnd(cells[t].y0) - 1 :
        cells[t].buf[RowStart(c, y, cells[t].y0)] = <<c, y>>
  BY <1>4 DEF CellInv, CellHolds
<1>8. cells[t].buf[RowStart(i - 1, at[t].row, cells[t].y0)] = <<i - 1, at[t].row>>
  BY <1>4, <1>5, <1>6, <1>7
<1>. QED
  BY <1>4, <1>8

LEMMA ReaderStep ==
  ASSUME Typed, ReaderInv, [Next]_vars
  PROVE  ReaderInv'
<1>. DEFINE Ok(u) ==
       /\ at'[u].doing = "idle" => at'[u] = Idle
       /\ at'[u].doing # "idle" => u \in Crew /\ at'[u].row \in first .. next' - 1
       /\ at'[u].doing \in {"fetching", "holding"} => at'[u].held = <<>>
       /\ at'[u].doing = "holding" => error' # NoRow
       /\ HeldFrom(at'[u], cells'[u])
<1>1. ASSUME stage' = stage, first' = first, \A u \in Threads : Ok(u)
      PROVE  ReaderInv'
  BY <1>1 DEF ReaderInv, Crew, HeldFrom
<1>2. ASSUME NEW u \in Threads, at'[u] = at[u], cells'[u] = cells[u],
             next' \in next .. Height, error # NoRow => error' # NoRow
      PROVE  Ok(u)
  <2>1. at[u].row \in first .. next - 1 => at[u].row \in first .. next' - 1
    <3>1. next \in Nat /\ Height \in Nat
      BY CacheAssumption DEF Typed, Rows
    <3>. QED
      BY <1>2, <3>1
  <2>. QED
    BY <1>2, <2>1 DEF ReaderInv
<1>3. next \in next .. Height
  BY CacheAssumption DEF Typed, Rows
<1>. HIDE DEF Ok
<1>4. CASE NextBatch
  <2>1. next \in Rows /\ stage \in Stages
    BY <1>4, CacheAssumption DEF NextBatch, Typed, Rows
  <2>2. next' \in next .. Height
    BY <1>4, <2>1, BatchEnds, CacheAssumption DEF NextBatch, Rows
  <2>. QED
    BY <1>1, <1>2, <1>4, <2>2 DEF NextBatch
<1>5. CASE Finish
  BY <1>1, <1>2, <1>3, <1>5 DEF Finish
<1>6. ASSUME NEW t \in Threads, Take(t) PROVE ReaderInv'
  <2>1. PICK y \in todo :
          /\ at' = [at EXCEPT ![t] = [doing |-> "asking", row |-> y, held |-> <<>>]]
          /\ at'[t] = [doing |-> "asking", row |-> y, held |-> <<>>]
          /\ y \in first .. next - 1
    BY <1>6, AtTake
  <2>2. t \in Crew /\ next' = next
    BY <1>6 DEF Take
  <2>3. Ok(t)
    BY <2>1, <2>2 DEF Ok, HeldFrom
  <2>4. \A u \in Threads \ {t} : at'[u] = at[u]
    BY <2>1 DEF Typed
  <2>. QED
    BY <1>1, <1>2, <1>3, <1>6, <2>3, <2>4 DEF Take
<1>7. ASSUME NEW t \in Threads, Hit(t) PROVE ReaderInv'
  <2>1. at[t].doing = "asking" /\ Len(at[t].held) < Channels
    BY <1>7 DEF Hit, Asking
  <2>2. /\ t \in Crew /\ at[t].row \in first .. next - 1 /\ at[t].row \in Rows
        /\ at[t] \in Reader /\ Len(at[t].held) \in Nat
    BY <2>1, WorksOnRow
  <2>3. cells[t].valid /\ cells[t].y0 = BandOf(at[t].row)
    BY <1>7 DEF Hit, NeedFetch, Typed, Cell
  <2>4. \A i \in 1 .. Len(at[t].held) : at[t].held[i] = RowStart(i - 1, at[t].row, cells[t].y0)
    BY <2>1, <2>2 DEF ReaderInv, HeldFrom
  <2>. DEFINE new == Hand(t, cells[t].y0)
  <2>5. /\ Len(new) = Len(at[t].held) + 1
        /\ \A i \in 1 .. Len(new) : new[i] = RowStart(i - 1, at[t].row, cells[t].y0)
    <3>. DEFINE held == at[t].held
                slice == RowStart(Len(held), at[t].row, cells[t].y0)
    <3>1. held \in Seq(0 .. Cap - 1) /\ slice \in 0 .. Cap - 1
      <4>1. Len(held) \in Chans
        BY <2>1, <2>2, CacheAssumption DEF Chans
      <4>. QED
        BY <2>2, <2>3, <4>1, SliceInCell DEF Reader
    <3>2. new = Append(held, slice)
      BY DEF Hand
    <3>. HIDE DEF new, slice
    <3>3. /\ Len(new) = Len(held) + 1 /\ new[Len(held) + 1] = slice
          /\ \A i \in 1 .. Len(held) : new[i] = held[i]
      <4>. HIDE DEF held
      <4>. QED
        BY <3>1, <3>2, AppendProperties
    <3>4. Len(held) \in Nat /\ (Len(held) + 1) - 1 = Len(held)
      BY <2>2
    <3>5. ASSUME NEW i \in 1 .. Len(new)
          PROVE  new[i] = RowStart(i - 1, at[t].row, cells[t].y0)
      <4>1. CASE i = Len(held) + 1
        BY <3>3, <3>4, <4>1 DEF slice
      <4>2. CASE i \in 1 .. Len(held)
        BY <2>4, <3>3, <4>2
      <4>. QED
        BY <3>3, <3>4, <4>1, <4>2
    <3>. QED
      BY <3>3, <3>5
  <2>6. at'[t] = [at[t] EXCEPT !.held = new]
    BY <1>7 DEF Hit, Typed
  <2>. HIDE DEF new
  <2>7. at'[t].doing = "asking" /\ at'[t].row = at[t].row /\ at'[t].held = new
    BY <2>1, <2>2, <2>6 DEF Reader
  <2>8. cells'[t] = cells[t] /\ next' = next
    BY <1>7 DEF Hit
  <2>9. Len(new) <= Channels
    BY <2>1, <2>2, <2>5, CacheAssumption
  <2>10. HeldFrom(at'[t], cells'[t])
    BY <2>3, <2>5, <2>7, <2>8, <2>9 DEF HeldFrom
  <2>11. Ok(t)
    BY <2>2, <2>7, <2>8, <2>10 DEF Ok
  <2>12. \A u \in Threads \ {t} : at'[u] = at[u]
    BY <1>7 DEF Hit, Typed
  <2>. QED
    BY <1>1, <1>2, <1>3, <1>7, <2>11, <2>12 DEF Hit
<1>8. ASSUME NEW t \in Threads, Miss(t) PROVE ReaderInv'
  <2>1. at[t].doing = "asking"
    BY <1>8 DEF Miss, Asking
  <2>2. t \in Crew /\ at[t].row \in first .. next - 1 /\ at[t] \in Reader
    BY <2>1, WorksOnRow
  <2>3. at[t].held = <<>>
    BY <1>8 DEF Miss, NeedFetch, ReaderInv, HeldFrom
  <2>4. at'[t] = [at[t] EXCEPT !.doing = "fetching"] /\ next' = next
    BY <1>8 DEF Miss, Typed
  <2>5. at'[t].doing = "fetching" /\ at'[t].row = at[t].row /\ at'[t].held = <<>>
    BY <2>2, <2>3, <2>4 DEF Reader
  <2>6. Ok(t)
    BY <2>2, <2>4, <2>5 DEF Ok, HeldFrom
  <2>7. \A u \in Threads \ {t} : at'[u] = at[u]
    BY <1>8 DEF Miss, Typed
  <2>. QED
    BY <1>1, <1>2, <1>3, <1>8, <2>6, <2>7 DEF Miss
<1>9. ASSUME NEW t \in Threads, FetchOk(t) PROVE ReaderInv'
  <2>. DEFINE y0 == BandOf(at[t].row)
              new == Hand(t, y0)
  <2>1. at[t].doing = "fetching"
    BY <1>9 DEF FetchOk
  <2>2. t \in Crew /\ at[t].row \in first .. next - 1 /\ at[t].row \in Rows /\ at[t] \in Reader
    BY <2>1, WorksOnRow
  <2>3. at[t].held = <<>>
    BY <2>1 DEF ReaderInv
  <2>4. Len(new) = 1 /\ new[1] = RowStart(0, at[t].row, y0)
    BY <2>3 DEF Hand
  <2>5. at'[t] = [at[t] EXCEPT !.doing = "asking", !.held = new] /\ next' = next
    BY <1>9 DEF FetchOk, Typed
  <2>6. cells'[t].valid /\ cells'[t].y0 = y0
    BY <1>9 DEF FetchOk, Typed
  <2>. HIDE DEF new, y0
  <2>7. at'[t].doing = "asking" /\ at'[t].row = at[t].row /\ at'[t].held = new
    BY <2>2, <2>5 DEF Reader
  <2>8. \A i \in 1 .. Len(new) : new[i] = RowStart(i - 1, at[t].row, y0)
    BY <2>4
  <2>9. HeldFrom(at'[t], cells'[t])
    <3>1. y0 = BandOf(at[t].row) /\ Len(new) <= Channels
      BY <2>4, CacheAssumption DEF y0
    <3>. QED
      BY <2>6, <2>7, <2>8, <3>1 DEF HeldFrom
  <2>10. Ok(t)
    BY <2>2, <2>5, <2>7, <2>9 DEF Ok
  <2>11. \A u \in Threads \ {t} : at'[u] = at[u] /\ cells'[u] = cells[u]
    BY <1>9 DEF FetchOk, Typed
  <2>. QED
    BY <1>1, <1>2, <1>3, <1>9, <2>10, <2>11 DEF FetchOk
<1>10. ASSUME NEW t \in Threads, FetchFail(t) PROVE ReaderInv'
  <2>1. at[t].doing = "fetching"
    BY <1>10 DEF FetchFail
  <2>2. /\ t \in Crew /\ at[t].row \in first .. next - 1 /\ at[t] \in Reader
        /\ BandOf(at[t].row) \in Rows
    BY <2>1, WorksOnRow
  <2>3. at[t].held = <<>>
    BY <2>1 DEF ReaderInv
  <2>4. error' # NoRow
    BY <1>10, <2>2, CacheAssumption DEF FetchFail, Latched, Rows, NoRow
  <2>5. at'[t] = [at[t] EXCEPT !.doing = "holding"] /\ next' = next
    BY <1>10 DEF FetchFail, Typed
  <2>6. at'[t].doing = "holding" /\ at'[t].row = at[t].row /\ at'[t].held = <<>>
    BY <2>2, <2>3, <2>5 DEF Reader
  <2>7. Ok(t)
    BY <2>2, <2>4, <2>5, <2>6 DEF Ok, HeldFrom
  <2>8. \A u \in Threads \ {t} : at'[u] = at[u] /\ cells'[u] = cells[u]
    BY <1>10 DEF FetchFail, Typed
  <2>9. stage' = stage /\ first' = first
    BY <1>10 DEF FetchFail
  <2>. QED
    BY <1>1, <1>2, <1>3, <2>4, <2>5, <2>7, <2>8, <2>9
<1>11. ASSUME NEW t \in Threads, Use(t) PROVE ReaderInv'
  <2>1. at'[t] = Idle
    BY <1>11 DEF Use, Typed
  <2>2. Idle.doing = "idle" /\ Idle.held = <<>>
    BY DEF Idle
  <2>3. Ok(t)
    BY <2>1, <2>2 DEF Ok, HeldFrom
  <2>4. \A u \in Threads \ {t} : at'[u] = at[u]
    BY <1>11 DEF Use, Typed
  <2>. QED
    BY <1>1, <1>2, <1>3, <1>11, <2>3, <2>4 DEF Use
<1>12. CASE UNCHANGED vars
  BY <1>1, <1>2, <1>3, <1>12 DEF vars
<1>. QED
  BY <1>4, <1>5, <1>6, <1>7, <1>8, <1>9, <1>10, <1>11, <1>12 DEF Next

\* The rows: one that is used without an error is whole.
LEMMA RowsStep ==
  ASSUME Typed, ReaderInv, CellInv, RowsInv, [Next]_vars
  PROVE  RowsInv'
<1>. DEFINE Ok(y) ==
       \/ y \in todo'
       \/ \E u \in Threads : at'[u].row = y
       \/ seen'[y] = Full(y)
       \/ error' # NoRow
<1>1. ASSUME first' = first, \A y \in first .. next' - 1 : Ok(y)
      PROVE  RowsInv'
  BY <1>1 DEF RowsInv, Full
<1>2. \A y \in first .. next - 1 : \/ y \in todo \/ seen[y] = Full(y) \/ error # NoRow
                                   \/ \E u \in Threads : at[u].row = y
  BY DEF RowsInv
<1>. DEFINE AtWork == \E u \in Threads : at[u].doing # "idle"
<1>3. ASSUME NEW y \in first .. next - 1, NEW u \in Threads, at[u].row = y
      PROVE  at[u].doing # "idle"
  <2>1. y \in Nat
    BY CacheAssumption DEF Typed, Rows
  <2>2. Idle.row \notin Nat
    BY DEF Idle, NoRow
  <2>. QED
    BY <1>3, <2>1, <2>2 DEF ReaderInv
<1>. HIDE DEF Ok
<1>4. ASSUME NEW y \in first .. next - 1, todo \subseteq todo', seen' = seen, error' = error,
             \A u \in Threads : at[u].doing # "idle" => at'[u].row = at[u].row
      PROVE  Ok(y)
  BY <1>2, <1>3, <1>4 DEF Ok
<1>5. CASE NextBatch
  <2>1. ASSUME NEW y \in first .. next' - 1 PROVE Ok(y)
    <3>1. y \in next .. next' - 1 => y \in todo'
      BY <1>5 DEF NextBatch
    <3>2. y \in first .. next - 1 => Ok(y)
      BY <1>4, <1>5 DEF NextBatch
    <3>3. y \in first .. next - 1 \/ y \in next .. next' - 1
      BY CacheAssumption DEF Typed, Rows
    <3>. QED
      BY <3>1, <3>2, <3>3 DEF Ok
  <2>. QED
    BY <1>1, <1>5, <2>1 DEF NextBatch
<1>6. CASE Finish
  BY <1>1, <1>4, <1>6 DEF Finish
<1>7. ASSUME NEW t \in Threads, Take(t) PROVE RowsInv'
  <2>1. PICK x \in todo :
          /\ todo' = todo \ {x}
          /\ at' = [at EXCEPT ![t] = [doing |-> "asking", row |-> x, held |-> <<>>]]
          /\ at'[t] = [doing |-> "asking", row |-> x, held |-> <<>>]
    BY <1>7, AtTake
  <2>2. at[t].doing = "idle" /\ seen' = seen /\ error' = error /\ next' = next /\ first' = first
    BY <1>7 DEF Take
  <2>3. \A u \in Threads \ {t} : at'[u] = at[u]
    BY <2>1 DEF Typed
  <2>4. ASSUME NEW y \in first .. next - 1 PROVE Ok(y)
    <3>1. y = x => at'[t].row = y
      BY <2>1
    <3>2. ASSUME NEW u \in Threads, at[u].row = y PROVE at'[u].row = y
      BY <1>3, <2>2, <2>3, <3>2
    <3>. QED
      BY <1>2, <2>1, <2>2, <3>1, <3>2 DEF Ok
  <2>. QED
    BY <1>1, <2>2, <2>4
<1>8. ASSUME NEW t \in Threads, Hit(t) \/ Miss(t) \/ FetchOk(t) PROVE RowsInv'
  <2>1. \A u \in Threads : at'[u].row = at[u].row
    <3>1. \A u \in Threads \ {t} : at'[u] = at[u]
      BY <1>8 DEF Hit, Miss, FetchOk, Typed
    <3>2. \/ at'[t] = [at[t] EXCEPT !.held = Hand(t, cells[t].y0)]
          \/ at'[t] = [at[t] EXCEPT !.doing = "fetching"]
          \/ at'[t] = [at[t] EXCEPT !.doing = "asking", !.held = Hand(t, BandOf(at[t].row))]
      BY <1>8 DEF Hit, Miss, FetchOk, Typed
    <3>3. at'[t].row = at[t].row
      BY <3>2 DEF Typed, Reader
    <3>. QED
      BY <3>1, <3>3
  <2>2. UNCHANGED <<todo, seen, error, next, first>>
    BY <1>8 DEF Hit, Miss, FetchOk
  <2>. QED
    BY <1>1, <1>4, <2>1, <2>2
<1>9. ASSUME NEW t \in Threads, FetchFail(t) PROVE RowsInv'
  <2>1. at[t].doing # "idle"
    BY <1>9 DEF FetchFail
  <2>2. BandOf(at[t].row) \in Rows
    BY <2>1, WorksOnRow
  <2>3. error' # NoRow /\ first' = first
    BY <1>9, <2>2, CacheAssumption DEF FetchFail, Latched, Rows, NoRow
  <2>. QED
    BY <1>1, <2>3 DEF Ok
<1>10. ASSUME NEW t \in Threads, Use(t) PROVE RowsInv'
  <2>1. at[t].doing # "idle" /\ UNCHANGED <<todo, error, next, first>>
    BY <1>10 DEF Use
  <2>2. at[t].row \in Rows /\ Len(at[t].held) \in Nat
    BY <2>1, WorksOnRow
  <2>3. \A u \in Threads \ {t} : at'[u] = at[u]
    BY <1>10 DEF Use, Typed
  <2>4. \A y \in Rows \ {at[t].row} : seen'[y] = seen[y]
    BY <1>10 DEF Use, Typed
  <2>5. Ok(at[t].row)
    <3>1. CASE at[t].doing = "holding"
      BY <2>1, <3>1 DEF ReaderInv, Ok
    <3>2. CASE at[t].doing = "asking" /\ Len(at[t].held) = Channels
      <4>1. \A i \in 1 .. Channels : cells[t].buf[at[t].held[i]] = <<i - 1, at[t].row>>
        BY <3>2, HeldShows
      <4>2. seen'[at[t].row] = [i \in 1 .. Channels |-> cells[t].buf[at[t].held[i]]]
        BY <1>10, <2>2, <3>2 DEF Use, Typed
      <4>3. seen'[at[t].row] = Full(at[t].row)
        BY <4>1, <4>2 DEF Full
      <4>. QED
        BY <4>3 DEF Ok
    <3>. QED
      BY <1>10, <3>1, <3>2 DEF Use
  <2>6. ASSUME NEW y \in first .. next - 1, y # at[t].row PROVE Ok(y)
    <3>1. y \in Rows
      BY CacheAssumption DEF Typed, Rows
    <3>2. \A u \in Threads : at[u].row = y => at'[u].row = y
      BY <2>3, <2>6
    <3>. QED
      BY <1>2, <2>1, <2>4, <2>6, <3>1, <3>2 DEF Ok
  <2>. QED
    BY <1>1, <2>1, <2>5, <2>6
<1>11. CASE UNCHANGED vars
  BY <1>1, <1>4, <1>11 DEF vars
<1>. QED
  BY <1>5, <1>6, <1>7, <1>8, <1>9, <1>10, <1>11 DEF Next

LEMMA OutcomeStep ==
  ASSUME Typed, ReaderInv, OutcomeInv, [Next]_vars
  PROVE  OutcomeInv'
<1>1. CASE Finish
  BY <1>1 DEF Finish, OutcomeInv, Verdict, AllIdle
<1>2. ASSUME NEW t \in Threads, FetchFail(t) PROVE OutcomeInv'
  <2>1. stage \in {"scan", "reproject", "blend"} /\ stage' = stage
    BY <1>2, CacheAssumption DEF Typed, FetchFail
  <2>2. outcome' = CASE stage = "scan"      -> "running"
                     [] stage = "reproject" -> "error"
                     [] stage = "blend"     -> "panic"
    BY <1>2 DEF FetchFail
  <2>3. outcome' # "ok" /\ (stage = "blend" => outcome' = "panic")
    BY <2>1, <2>2
  <2>. QED
    BY <2>1, <2>3 DEF OutcomeInv
<1>3. ASSUME outcome = "running", UNCHANGED <<stage, error, outcome>> PROVE OutcomeInv'
  BY <1>3 DEF OutcomeInv
<1>4. CASE UNCHANGED vars
  BY <1>4 DEF vars, OutcomeInv, AllIdle
<1>. QED
  BY <1>1, <1>2, <1>3, <1>4 DEF Next, NextBatch, Take, Hit, Miss, FetchOk, Use, Asking

\* The sequential stages.  While no error is latched a step is one of the only
\* reader's.
LEMMA SequentialStep ==
  ASSUME IInv, [Next]_vars
  PROVE  SequentialInv'
<1>. USE DEF IInv
<1>. SUFFICES ASSUME stage' # "blend", error' = NoRow PROVE SequentialInv'
  BY DEF SequentialInv
<1>. DEFINE s  == Scanner
            D  == IF todo' # {} \/ (at'[s].doing = "asking" /\ at'[s].held = <<>>)
                  THEN next' - 1 ELSE next'
            Turn(y, d) == IF y = BandOf(y) /\ y < d THEN 1 ELSE 0
<1>1. ASSUME first' = 0, todo' \subseteq {next' - 1},
             at'[s].doing # "idle" => at'[s].row = next' - 1 /\ todo' = {},
             \A y \in Rows : fetched'[y] = Turn(y, D),
             at'[s].doing = "fetching" => next' - 1 = BandOf(next' - 1),
             at'[s].doing # "fetching" /\ D > 0 =>
               cells'[s].valid /\ cells'[s].y0 = BandOf(D - 1),
             at'[s].doing # "fetching" /\ D = 0 => ~cells'[s].valid
      PROVE  SequentialInv'
  BY <1>1 DEF SequentialInv, Decided
<1>2. ASSUME NEW t \in Threads, FetchFail(t) PROVE error' # NoRow
  <2>1. at[t].doing # "idle"
    BY <1>2 DEF FetchFail
  <2>2. BandOf(at[t].row) \in Rows
    BY <2>1, WorksOnRow
  <2>. QED
    BY <1>2, <2>2, CacheAssumption DEF FetchFail, Latched, Rows, NoRow
<1>3. stage' = stage /\ error = NoRow /\ first' = first
  BY <1>2 DEF Next, vars, NextBatch, Finish, Take, Hit, Miss, FetchOk, Use
<1>4. /\ first = 0 /\ todo \subseteq {next - 1}
      /\ at[s].doing # "idle" => at[s].row = next - 1 /\ todo = {}
      /\ \A y \in Rows : fetched[y] = Turn(y, Decided)
      /\ at[s].doing = "fetching" => next - 1 = BandOf(next - 1)
      /\ at[s].doing # "fetching" /\ Decided > 0 =>
           cells[s].valid /\ cells[s].y0 = BandOf(Decided - 1)
      /\ at[s].doing # "fetching" /\ Decided = 0 => ~cells[s].valid
  BY <1>3 DEF SequentialInv
<1>5. Crew = {s} /\ s \in Threads
  BY <1>3, CacheAssumption DEF Crew
<1>6. ASSUME NEW t \in Threads, at[t].doing # "idle" PROVE t = s
  BY <1>5, <1>6 DEF ReaderInv
<1>7. next \in Nat /\ Height \in Nat
  BY CacheAssumption DEF Typed, Rows
<1>. HIDE DEF Turn
<1>8. ASSUME at' = at, cells' = cells, fetched' = fetched, todo' = todo, next' = next
      PROVE  SequentialInv'
  BY <1>1, <1>3, <1>4, <1>8 DEF Decided
<1>9. CASE NextBatch
  <2>1. at[s].doing = "idle" /\ todo = {} /\ next \in Rows /\ stage \in Stages
    BY <1>5, <1>7, <1>9 DEF NextBatch, AllIdle, Typed, Rows
  <2>2. next' = next + 1 /\ todo' = next .. next
    BY <1>3, <1>7, <1>9, <2>1, BatchEnds DEF NextBatch
  <2>3. next' - 1 = next /\ todo' = {next}
    BY <1>7, <2>2
  <2>4. D = Decided /\ at' = at /\ cells' = cells /\ fetched' = fetched
    BY <1>9, <2>1, <2>3 DEF NextBatch, Decided
  <2>. QED
    BY <1>1, <1>3, <1>4, <2>1, <2>3, <2>4
<1>10. CASE Finish
  BY <1>8, <1>10 DEF Finish
<1>11. ASSUME NEW t \in Threads, Take(t) PROVE SequentialInv'
  <2>1. t = s /\ at[s].doing = "idle" /\ next' = next /\ cells' = cells /\ fetched' = fetched
    BY <1>5, <1>11 DEF Take
  <2>2. PICK y \in todo :
          /\ todo' = todo \ {y}
          /\ at'[s] = [doing |-> "asking", row |-> y, held |-> <<>>]
    BY <1>11, <2>1, AtTake
  <2>3. y = next - 1 /\ todo' = {}
    BY <1>4, <2>2
  <2>4. D = Decided
    BY <2>1, <2>2, <2>3 DEF Decided
  <2>5. at'[s].doing = "asking" /\ at'[s].row = next - 1
    BY <2>2, <2>3
  <2>. HIDE DEF D
  <2>. QED
    BY <1>1, <1>3, <1>4, <2>1, <2>3, <2>4, <2>5
<1>12. ASSUME NEW t \in Threads, Hit(t) PROVE SequentialInv'
  <2>1. t = s /\ at[s].doing = "asking"
    BY <1>6, <1>12 DEF Hit, Asking
  <2>2. at[s].row = next - 1 /\ todo = {} /\ next - 1 \in Rows /\ at[s] \in Reader
    BY <1>4, <1>5, <2>1, WorksOnRow
  <2>3. UNCHANGED <<cells, todo, next, fetched>>
    BY <1>12 DEF Hit
  <2>4. at'[s] = [at[s] EXCEPT !.held = Hand(s, cells[s].y0)]
    BY <1>5, <1>12, <2>1 DEF Hit, Typed
  <2>5. at'[s].doing = "asking" /\ at'[s].row = next - 1 /\ at'[s].held # <<>>
    <3>1. Hand(s, cells[s].y0) # <<>>
      BY <2>2 DEF Hand, Reader
    <3>. QED
      BY <2>1, <2>2, <2>4, <3>1 DEF Reader
  <2>6. D = next
    BY <2>2, <2>3, <2>5
  <2>7. cells[s].valid /\ cells[s].y0 = BandOf(next - 1)
    BY <1>5, <1>12, <2>1, <2>2 DEF Hit, NeedFetch, Typed, Cell
  <2>8. \A y \in Rows : Turn(y, next) = Turn(y, Decided)
    <3>1. CASE at[s].held # <<>>
      BY <2>2, <3>1 DEF Decided
    <3>2. CASE at[s].held = <<>>
      <4>1. Decided = next - 1
        BY <2>1, <3>2 DEF Decided
      <4>2. next - 1 > 0
        BY <1>4, <1>7, <2>1, <2>2, <2>7, <4>1 DEF Rows
      <4>3. BandOf(next - 1) = BandOf((next - 1) - 1)
        BY <1>4, <2>1, <2>7, <4>1, <4>2
      <4>4. next - 1 # BandOf(next - 1)
        BY <2>2, <4>2, <4>3, BandTurns
      <4>5. \A y \in Rows : y < next /\ y # next - 1 => y < next - 1
        BY <1>7, CacheAssumption DEF Rows
      <4>6. \A y \in Rows : y < next - 1 => y < next
        BY <1>7, CacheAssumption DEF Rows
      <4>. QED
        BY <4>1, <4>4, <4>5, <4>6 DEF Turn
    <3>. QED
      BY <3>1, <3>2
  <2>. QED
    BY <1>1, <1>3, <1>4, <2>2, <2>3, <2>5, <2>6, <2>7, <2>8, CacheAssumption DEF Rows
<1>13. ASSUME NEW t \in Threads, Miss(t) PROVE SequentialInv'
  <2>1. t = s /\ at[s].doing = "asking"
    BY <1>6, <1>13 DEF Miss, Asking
  <2>2. at[s].row = next - 1 /\ todo = {} /\ next - 1 \in Rows /\ at[s] \in Reader
    BY <1>4, <1>5, <2>1, WorksOnRow
  <2>3. at[s].held = <<>>
    BY <1>13, <2>1 DEF Miss, NeedFetch, ReaderInv, HeldFrom
  <2>4. UNCHANGED <<cells, todo, next>>
    BY <1>13 DEF Miss
  <2>5. at'[s] = [at[s] EXCEPT !.doing = "fetching"]
    BY <1>5, <1>13, <2>1 DEF Miss, Typed
  <2>6. at'[s].doing = "fetching" /\ at'[s].row = next - 1
    BY <2>2, <2>5 DEF Reader
  <2>7. D = next /\ Decided = next - 1
    BY <2>1, <2>2, <2>3, <2>4, <2>6 DEF Decided
  <2>8. next - 1 = BandOf(next - 1)
    <3>1. CASE next - 1 = 0
      BY <2>2, <3>1, Bands DEF Rows
    <3>2. CASE next - 1 > 0
      <4>1. cells[s].valid /\ cells[s].y0 = BandOf((next - 1) - 1)
        BY <1>4, <2>1, <2>7, <3>2
      <4>2. BandOf(next - 1) # BandOf((next - 1) - 1)
        BY <1>13, <2>1, <2>2, <4>1 DEF Miss, NeedFetch
      <4>. QED
        BY <2>2, <3>2, <4>2, BandTurns
    <3>3. next - 1 \in Nat
      BY <2>2, CacheAssumption DEF Rows
    <3>. QED
      BY <1>7, <3>1, <3>2, <3>3
  <2>9. ASSUME NEW y \in Rows PROVE fetched'[y] = Turn(y, next)
    <3>1. fetched' = [fetched EXCEPT ![next - 1] = fetched[next - 1] + 1]
      BY <1>13, <2>1, <2>2, <2>8 DEF Miss
    <3>2. CASE y = next - 1
      <4>1. fetched[y] = 0
        BY <1>4, <1>7, <2>7, <3>2 DEF Turn
      <4>2. fetched'[y] = 1
        BY <2>2, <3>1, <3>2, <4>1 DEF Typed
      <4>. QED
        BY <1>7, <2>8, <3>2, <4>2 DEF Turn
    <3>3. CASE y # next - 1
      <4>1. fetched'[y] = Turn(y, next - 1)
        BY <1>4, <2>7, <3>1, <3>3 DEF Typed
      <4>2. y < next <=> y < next - 1
        BY <1>7, <3>3, CacheAssumption DEF Rows
      <4>. QED
        BY <4>1, <4>2 DEF Turn
    <3>. QED
      BY <3>2, <3>3
  <2>. QED
    BY <1>1, <1>3, <1>4, <2>2, <2>4, <2>6, <2>7, <2>8, <2>9
<1>14. ASSUME NEW t \in Threads, FetchOk(t) PROVE SequentialInv'
  <2>1. t = s /\ at[s].doing = "fetching"
    BY <1>6, <1>14 DEF FetchOk
  <2>2. at[s].row = next - 1 /\ todo = {} /\ next - 1 \in Rows /\ at[s] \in Reader
    BY <1>4, <1>5, <2>1, WorksOnRow
  <2>3. at[s].held = <<>>
    BY <1>5, <2>1 DEF ReaderInv
  <2>4. UNCHANGED <<todo, next, fetched>>
    BY <1>14 DEF FetchOk
  <2>. DEFINE new == Hand(s, BandOf(next - 1))
  <2>5. new # <<>>
    BY <2>3 DEF Hand
  <2>6. at'[s] = [at[s] EXCEPT !.doing = "asking", !.held = new]
    BY <1>5, <1>14, <2>1, <2>2 DEF FetchOk, Typed
  <2>. HIDE DEF new
  <2>7. at'[s].doing = "asking" /\ at'[s].row = next - 1 /\ at'[s].held # <<>>
    BY <2>2, <2>5, <2>6 DEF Reader
  <2>8. D = next /\ Decided = next
    BY <2>1, <2>2, <2>4, <2>7 DEF Decided
  <2>9. cells'[s].valid /\ cells'[s].y0 = BandOf(next - 1)
    BY <1>5, <1>14, <2>1, <2>2 DEF FetchOk, Typed
  <2>10. next > 0
    BY <1>7, <2>2, CacheAssumption DEF Rows
  <2>. QED
    BY <1>1, <1>3, <1>4, <2>2, <2>4, <2>7, <2>8, <2>9, <2>10
<1>15. ASSUME NEW t \in Threads, Use(t) PROVE SequentialInv'
  <2>1. t = s /\ at[s].doing # "idle"
    BY <1>6, <1>15 DEF Use
  <2>2. at[s].doing = "asking" /\ at[s].held # <<>>
    BY <1>3, <1>5, <1>15, <2>1, CacheAssumption DEF Use, ReaderInv
  <2>3. UNCHANGED <<cells, todo, next, fetched>> /\ todo = {}
    BY <1>4, <1>15, <2>1 DEF Use
  <2>4. at'[s].doing = "idle"
    BY <1>5, <1>15, <2>1 DEF Use, Typed, Idle
  <2>5. D = Decided
    BY <2>2, <2>3, <2>4 DEF Decided
  <2>. QED
    BY <1>1, <1>3, <1>4, <2>2, <2>3, <2>4, <2>5
<1>16. CASE UNCHANGED vars
  BY <1>8, <1>16 DEF vars
<1>. QED
  BY <1>2, <1>9, <1>10, <1>11, <1>12, <1>13, <1>14, <1>15, <1>16 DEF Next

-----------------------------------------------------------------------------
LEMMA Inductive == Spec => []IInv
<1>1. IInv /\ [Next]_vars => IInv'
  BY TypedStep, CellStep, ReaderStep, RowsStep, OutcomeStep, SequentialStep DEF IInv
<1>. QED
  BY InitIInv, <1>1, PTL DEF Spec

LEMMA TrueReads == IInv => ReadsAreTrue
<1>. SUFFICES ASSUME IInv PROVE ReadsAreTrue
  OBVIOUS
<1>. USE DEF IInv
<1>1. TypeOK
  <2>1. first \in Rows /\ todo \subseteq Rows /\ next \in 0 .. Height
    BY CacheAssumption DEF Typed, Rows
  <2>. QED
    BY <2>1 DEF Typed, TypeOK, Cell, Reader, Doings
<1>2. HeldRowsIntact
  BY HeldShows DEF HeldRowsIntact
<1>3. OkMeansRead
  <2>. SUFFICES ASSUME outcome = "ok", NEW y \in first .. Height - 1
                PROVE  seen[y] = Full(y)
    BY DEF OkMeansRead, Full
  <2>1. AllIdle /\ todo = {} /\ error = NoRow /\ y \in first .. next - 1 /\ y \in Nat
    BY CacheAssumption DEF OutcomeInv, Typed, Rows
  <2>2. \A t \in Threads : at[t].row = NoRow
    <3>1. Idle.row = NoRow
      BY DEF Idle
    <3>. QED
      BY <2>1, <3>1 DEF AllIdle, ReaderInv
  <2>3. y # NoRow
    BY <2>1 DEF NoRow
  <2>. QED
    BY <2>1, <2>2, <2>3 DEF RowsInv
<1>4. OneFetchPerBand
  <2>. SUFFICES ASSUME stage # "blend", outcome = "ok", NEW y \in Rows
                PROVE  fetched[y] = IF y = BandOf(y) THEN 1 ELSE 0
    BY DEF OneFetchPerBand
  <2>1. AllIdle /\ todo = {} /\ error = NoRow /\ y < next
    BY CacheAssumption DEF OutcomeInv, Typed, Rows
  <2>2. Decided = next
    BY <2>1, CacheAssumption DEF Decided, AllIdle
  <2>. QED
    BY <2>1, <2>2 DEF SequentialInv
<1>. QED
  BY <1>1, <1>2, <1>3, <1>4 DEF ReadsAreTrue

(* Whatever the height, the channels, the bands, the threads and the failures *)
(* of the producer: slices stay intact while a cell is refilled, success      *)
(* means every row was read, and a sequential stage asks once per band.       *)
THEOREM ReadsAlwaysTrue == Spec => []ReadsAreTrue
BY Inductive, TrueReads, PTL
=============================================================================

------------------------------ MODULE BandCache ------------------------------
(* The per-thread band cache (band_cache.rs) and the three stages that read   *)
(* a panel through it: the analyze scan and the reprojection, each on one     *)
(* thread, and the blend, on every thread of the pool.  A row of one channel  *)
(* is one element of a cell's buffer: widths play no part in what a row is    *)
(* mistaken for.  The producer (a round trip over the link) may fail up to    *)
(* MaxFailures times, and then leaves the buffer as it was.                   *)
EXTENDS Integers, Sequences

CONSTANTS Threads,      \* the workers of the rayon pool
          Scanner,      \* the one that runs a sequential stage
          Height, Channels, BandRows,
          Stages,       \* the stages a behaviour may run
          MaxFailures   \* bound: failed fetches in one behaviour

ASSUME CacheAssumption ==
    /\ Height \in Nat \ {0} /\ Channels \in Nat \ {0} /\ BandRows \in Nat \ {0}
    /\ Scanner \in Threads
    /\ Stages \subseteq {"scan", "reproject", "blend"}
    /\ MaxFailures \in Nat

Rows  == 0 .. Height - 1
Chans == 0 .. Channels - 1
Blank == <<>>                       \* what a buffer is resized with
NoRow == -1
Cap   == Channels * BandRows

VARIABLES
    stage,    \* the stage that reads the panel
    first,    \* the first row it reads
    cells,    \* one cached band per thread
    error,    \* the latched error: the band whose fetch failed, or NoRow
    todo,     \* rows of the current batch that no thread has taken
    next,     \* first row of the next batch
    at,       \* what each thread is doing
    seen,     \* per row, the channel rows the stage worked with
    outcome,  \* "running", "ok", "error" or "panic"
    fetched,  \* per band, how often it was asked for
    fails     \* how many fetches failed

vars == <<stage, first, cells, error, todo, next, at, seen, outcome, fetched, fails>>

-----------------------------------------------------------------------------
(* Where a row lies.  The planes of a band are as tall as the band is, and    *)
(* the last band of a panel is shorter than BandRows when BandRows does not   *)
(* divide Height.                                                             *)

Lower(a, b) == IF a < b THEN a ELSE b

BandOf(y)   == (y \div BandRows) * BandRows
BandEnd(y0) == Lower(y0 + BandRows, Height)
BandHeight(y0) == BandEnd(y0) - y0

RowStartFullBand(c, y, y0) == c * BandRows + (y - y0)       \* mutant
RowStart(c, y, y0) == c * BandHeight(y0) + (y - y0)

Filled(buf, y0) ==
    [i \in 0 .. Cap - 1 |->
        IF i < Channels * BandHeight(y0)
        THEN <<i \div BandHeight(y0), y0 + (i % BandHeight(y0))>>
        ELSE buf[i]]

NeedFetch(cell, y) == ~cell.valid \/ cell.y0 # BandOf(y)

Latched(e) == IF error = NoRow THEN e ELSE error

-----------------------------------------------------------------------------
(* The readers.                                                               *)

Crew == IF stage = "blend" THEN Threads ELSE {Scanner}

(* A sequential stage walks the rows one by one; the blend hands out the rows *)
(* of one output band at a time and waits for all of them.                    *)
BatchEnd(y) == IF stage = "blend" THEN Lower(y + BandRows, Height) ELSE y + 1

Idle == [doing |-> "idle", row |-> NoRow, held |-> <<>>]

Init ==
    /\ stage \in Stages
    /\ first \in IF stage = "blend" THEN Rows ELSE {0}    \* the output bbox's top
    /\ next = first
    /\ cells = [t \in Threads |-> [y0 |-> 0, valid |-> FALSE,
                                   buf |-> [i \in 0 .. Cap - 1 |-> Blank]]]
    /\ error = NoRow
    /\ todo = {}
    /\ at = [t \in Threads |-> Idle]
    /\ seen = [y \in Rows |-> <<>>]
    /\ outcome = "running"
    /\ fetched = [y \in Rows |-> 0]
    /\ fails = 0

AllIdle == \A t \in Threads : at[t].doing = "idle"

NextBatch ==
    /\ outcome = "running" /\ AllIdle /\ todo = {} /\ next < Height
    /\ todo' = next .. BatchEnd(next) - 1
    /\ next' = BatchEnd(next)
    /\ UNCHANGED <<stage, first, cells, error, at, seen, outcome, fetched, fails>>

Take(t) ==
    /\ outcome = "running" /\ t \in Crew /\ at[t].doing = "idle"
    /\ \E y \in todo :
        /\ todo' = todo \ {y}
        /\ at' = [at EXCEPT ![t] = [doing |-> "asking", row |-> y, held |-> <<>>]]
    /\ UNCHANGED <<stage, first, cells, error, next, seen, outcome, fetched, fails>>

AskingOneShort(t) ==                                        \* mutant
    /\ outcome = "running" /\ at[t].doing = "asking" /\ Len(at[t].held) < Channels - 1
Asking(t) ==
    /\ outcome = "running" /\ at[t].doing = "asking" /\ Len(at[t].held) < Channels

(* The slice row() answers with, for the next channel of the thread's row.    *)
Hand(t, y0) ==
    Append(at[t].held, RowStart(Len(at[t].held), at[t].row, y0))

Hit(t) ==
    /\ Asking(t) /\ ~NeedFetch(cells[t], at[t].row)
    /\ at' = [at EXCEPT ![t].held = Hand(t, cells[t].y0)]
    /\ UNCHANGED <<stage, first, cells, error, todo, next, seen, outcome, fetched, fails>>

Miss(t) ==
    /\ Asking(t) /\ NeedFetch(cells[t], at[t].row)
    /\ at' = [at EXCEPT ![t].doing = "fetching"]
    /\ fetched' = [fetched EXCEPT ![BandOf(at[t].row)] = @ + 1]
    /\ UNCHANGED <<stage, first, cells, error, todo, next, seen, outcome, fails>>

FetchOk(t) ==
    LET y0 == BandOf(at[t].row) IN
    /\ outcome = "running" /\ at[t].doing = "fetching"
    /\ cells' = [cells EXCEPT ![t] = [y0 |-> y0, valid |-> TRUE,
                                      buf |-> Filled(@.buf, y0)]]
    /\ at' = [at EXCEPT ![t].doing = "asking", ![t].held = Hand(t, y0)]
    /\ UNCHANGED <<stage, first, error, todo, next, seen, outcome, fetched, fails>>

(* row() answers None.  The scan breaks out of the channel loop and carries   *)
(* on with the next row, the reprojection leaves both loops and reports, and  *)
(* the blend panics, which aborts the process.                                *)
FetchFail(t) ==
    LET y0 == BandOf(at[t].row) IN
    /\ outcome = "running" /\ at[t].doing = "fetching"
    /\ fails < MaxFailures
    /\ fails' = fails + 1
    /\ error' = Latched(y0)
    /\ cells' = [cells EXCEPT ![t].valid = FALSE]
    /\ at' = [at EXCEPT ![t].doing = "holding"]
    /\ outcome' = CASE stage = "scan"      -> "running"
                    [] stage = "reproject" -> "error"
                    [] stage = "blend"     -> "panic"
    /\ UNCHANGED <<stage, first, todo, next, seen, fetched>>

(* The stage works through the rows it holds and drops them.                  *)
Use(t) ==
    /\ outcome = "running"
    /\ \/ at[t].doing = "holding"
       \/ at[t].doing = "asking" /\ Len(at[t].held) = Channels
    /\ seen' = [seen EXCEPT ![at[t].row] =
                    [i \in 1 .. Len(at[t].held) |-> cells[t].buf[at[t].held[i]]]]
    /\ at' = [at EXCEPT ![t] = Idle]
    /\ UNCHANGED <<stage, first, cells, error, todo, next, outcome, fetched, fails>>

(* The check behind the loop: scan_reader and reproject_from_reader ask for   *)
(* the latched error, the blend does not.                                     *)
Verdict == IF stage # "blend" /\ error # NoRow THEN "error" ELSE "ok"

Finish ==
    /\ outcome = "running" /\ AllIdle /\ todo = {} /\ next >= Height
    /\ outcome' = Verdict
    /\ UNCHANGED <<stage, first, cells, error, todo, next, at, seen, fetched, fails>>

Next ==
    \/ NextBatch \/ Finish
    \/ \E t \in Threads : Take(t) \/ Hit(t) \/ Miss(t) \/ FetchOk(t) \/ FetchFail(t) \/ Use(t)

(* The producer answers or fails, and a thread that has work does it: nothing *)
(* in the stage waits for anything else.                                      *)
Spec == Init /\ [][Next]_vars /\ WF_vars(Next)

-----------------------------------------------------------------------------
Vals == (Chans \X Rows) \cup {Blank}

TypeOK ==
    /\ stage \in Stages /\ first \in Rows
    /\ \A t \in Threads :
        /\ cells[t].y0 \in Rows /\ cells[t].valid \in BOOLEAN
        /\ cells[t].buf \in [0 .. Cap - 1 -> Vals]
        /\ at[t].doing \in {"idle", "asking", "fetching", "holding"}
        /\ at[t].row \in Rows \cup {NoRow}
        /\ at[t].held \in Seq(0 .. Cap - 1)
    /\ error \in Rows \cup {NoRow}
    /\ todo \subseteq Rows /\ next \in 0 .. Height
    /\ outcome \in {"running", "ok", "error", "panic"}

(* Every slice a stage still holds shows the channel and the canvas row it    *)
(* was asked for, although all channels of a row are held at once and the     *)
(* cell below them is refilled in place for the next band.                    *)
HeldRowsIntact ==
    \A t \in Threads : \A i \in 1 .. Len(at[t].held) :
        cells[t].buf[at[t].held[i]] = <<i - 1, at[t].row>>

(* A stage that reports success worked with every channel of every row of     *)
(* its extent, each from its own place in the panel: a failed fetch is never  *)
(* summarised as an empty row.                                                *)
OkMeansRead ==
    outcome = "ok" =>
        \A y \in first .. Height - 1 : seen[y] = [i \in 1 .. Channels |-> <<i - 1, y>>]

(* A sequential stage that ran without a failure asked for each band exactly  *)
(* once: one round trip per band, whatever the channel count.                 *)
OneFetchPerBand ==
    stage # "blend" /\ outcome = "ok" =>
        \A y \in Rows : fetched[y] = IF y = BandOf(y) THEN 1 ELSE 0

(* A stage reads the panel and nothing else: while it works, when it reports  *)
(* success, and with no more round trips than the panel has bands.            *)
ReadsAreTrue == TypeOK /\ HeldRowsIntact /\ OkMeansRead /\ OneFetchPerBand

(* Every stage comes to an end, failures included.                            *)
StageEnds == <>(outcome # "running")
=============================================================================

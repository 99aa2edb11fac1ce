---------------------------- MODULE MCHostGuard ----------------------------
(* Jobs of every mode: panels of one size, panels of two sizes with a frame *)
(* wider or narrower than both, bands that divide the height and that do    *)
(* not, one row per band and more rows per band than the panel has.         *)
EXTENDS HostGuard

Pan(w, h) == [w |-> w, h |-> h, ch |-> 2]

SmallJobs ==
  {[mode |-> "Aligned", solved |-> FALSE, panels |-> <<Pan(2, 3), Pan(2, 3)>>,
    frame |-> [w |-> 0, h |-> 0], bandRows |-> r] : r \in {1, 2, 5}}
  \cup
  {[mode |-> "Solved", solved |-> TRUE, panels |-> <<Pan(2, 3), Pan(3, 2)>>,
    frame |-> f, bandRows |-> 2] : f \in {[w |-> 4, h |-> 3], [w |-> 1, h |-> 2]}}
  \cup
  {[mode |-> "Files", solved |-> s, panels |-> <<Pan(2, 3), Pan(2, 3)>>,
    frame |-> [w |-> 3, h |-> 3], bandRows |-> 2] : s \in BOOLEAN}

SmallWire == {0, 1, 2, 6}
=============================================================================

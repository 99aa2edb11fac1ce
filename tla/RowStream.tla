----------------------------- MODULE RowStream -----------------------------
(***************************************************************************)
(* What one blend job promises the PixInsight user: the bands of the       *)
(* mosaic arrive in order, and the job ends in exactly one of three ways:  *)
(* the finished window is shown, and then it has every band; the user's    *)
(* abort is honoured; or an error is raised. Processes, pipes, shared      *)
(* memory and requests are hidden.                                         *)
(***************************************************************************)
EXTENDS Naturals, Sequences

CONSTANT Bands  \* how many bands make the mosaic

VARIABLES
  rows,    \* the bands in the output image, in the order they were written
  asked,   \* the user asked for an abort
  ending   \* how the job ended, "none" while it runs

vars == <<rows, asked, ending>>

Init == rows = <<>> /\ asked = FALSE /\ ending = "none"

\* The next band reaches the output image.
Deliver ==
  /\ ending = "none" /\ Len(rows) < Bands
  /\ rows' = Append(rows, Len(rows) + 1)
  /\ UNCHANGED <<asked, ending>>

\* The user presses abort; nothing is too late to be pressed.
Ask == asked' = TRUE /\ UNCHANGED <<rows, ending>>

End(e) == ending = "none" /\ ending' = e /\ UNCHANGED <<rows, asked>>

Show == Len(rows) = Bands /\ End("shown")
Abort == asked /\ End("aborted")
Fail == End("error")

Next == Deliver \/ Ask \/ Show \/ Abort \/ Fail

Spec == Init /\ [][Next]_vars
=============================================================================

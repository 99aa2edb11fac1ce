----------------------------- MODULE MCBandCache -----------------------------
(* A panel of seven rows and three channels in bands of three, so that the    *)
(* last band is short, read by two threads.                                   *)
EXTENDS BandCache

CONSTANTS w1, w2

MCThreads == {w1, w2}
=============================================================================

------------------------------ MODULE MCIpcRun ------------------------------
(***************************************************************************)
(* Instances of IpcRun for TLC: what the environment does in each run.     *)
(***************************************************************************)
EXTENDS IpcRun

EveryMode == {"Aligned", "Solved", "Files"}
EveryFault == {"shm", "spawn", "collector", "refuse", "hostDies", "mismatch",
               "attach", "analyze", "blend", "reports", "crash"}
=============================================================================

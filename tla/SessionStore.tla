---------------------------- MODULE SessionStore ----------------------------
(* The session directory (session.rs): what an analyze run leaves in it, file *)
(* by file (analyze.rs, finish_session), and what a blend picks up from it    *)
(* later (the blend command of the CLI).  A file holds the run that wrote it, *)
(* nothing (Absent), or a truncated beginning (Torn): every artifact is       *)
(* created in place by truncating the old file and writing the new one.       *)
(* One analyze runs at a time and may fail or be killed between any two       *)
(* steps; a blend may run beside it.                                          *)
EXTENDS Integers

CONSTANTS MaxRuns,       \* bound: analyze runs on this directory
          MaxPanels      \* bound: panels of one run

ASSUME StoreAssumption ==
    /\ MaxRuns \in Nat \ {0} /\ MaxPanels \in Nat \ {0}

Runs   == 1 .. MaxRuns
Panels == 0 .. MaxPanels - 1
Absent == 0
Torn   == -1
Content == Runs \cup {Absent, Torn}

Aligned(p) == <<"aligned", p>>      \* panels/<p>/aligned.bin
Summary(p) == <<"summary", p>>      \* panels/<p>/summary.bin
Graph      == <<"graph", 0>>        \* analysis/overlap_graph.json
Photometry == <<"photometry", 0>>   \* analysis/photometry.json
Surfaces   == <<"surfaces", 0>>     \* analysis/surfaces.json
Session    == <<"session", 0>>      \* session.json
Files == {Aligned(p) : p \in Panels} \cup {Summary(p) : p \in Panels}
             \cup {Graph, Photometry, Surfaces, Session}

(* What a run was asked for: how many panels, whether they are reprojected    *)
(* (solved input), and whether residual surfaces are fitted.                  *)
Asks == [panels : 1 .. MaxPanels, solved : BOOLEAN, surfaces : BOOLEAN]
NoAsk == [panels |-> 0, solved |-> FALSE, surfaces |-> FALSE]

VARIABLES
    dir,     \* [Files -> Content]
    ask,     \* what each run was asked for
    fate,    \* "none", "going", "ok" or "failed" (an Err or a kill), per run
    run,     \* the latest run, 0 before the first
    stage,   \* the stage the going run is in
    todo,    \* files of the stage it has not started to write
    open,    \* files it has truncated and not yet written
    kept,    \* history: the latest run's remove_file was refused
    blend    \* the blend: [doing, got, quiet]

vars == <<dir, ask, fate, run, stage, todo, open, kept, blend>>

-----------------------------------------------------------------------------
(* The stages of a run, the files each one writes, and the order they come    *)
(* in.  The panels are reprojected one after the other; the summaries are     *)
(* written in parallel and the stage waits for all of them.                   *)

StageNames == {"align", "summary", "graph", "photometry", "surfaces", "session"}

PanelsOf(a)        == 0 .. a.panels - 1
Written(a)         == PanelsOf(a)

StageFiles(a, s) ==
    CASE s = "align"      -> {Aligned(p) : p \in IF a.solved THEN Written(a) ELSE {}}
      [] s = "summary"    -> {Summary(p) : p \in Written(a)}
      [] s = "graph"      -> {Graph}
      [] s = "photometry" -> {Photometry}
      [] s = "surfaces"   -> IF a.surfaces THEN {Surfaces} ELSE {}
      [] s = "session"    -> {Session}
      [] s = "end"        -> {}

AfterSessionEarly(s) ==                                                  \* mutant
    CASE s = "align"      -> "summary"
      [] s = "summary"    -> "graph"
      [] s = "graph"      -> "session"
      [] s = "session"    -> "photometry"
      [] s = "photometry" -> "surfaces"
      [] s = "surfaces"   -> "end"
After(s) ==
    CASE s = "align"      -> "summary"
      [] s = "summary"    -> "graph"
      [] s = "graph"      -> "photometry"
      [] s = "photometry" -> "surfaces"
      [] s = "surfaces"   -> "session"
      [] s = "session"    -> "end"

(* Everything a run writes.                                                   *)
Artifacts(a) == UNION {StageFiles(a, s) : s \in StageNames}

Mine   == ask[run]
Going  == run # 0 /\ fate[run] = "going"

NoBlend == [doing |-> "none", got |-> [f \in Files |-> Absent], quiet |-> FALSE]

Init ==
    /\ dir = [f \in Files |-> Absent]
    /\ ask = [r \in Runs |-> NoAsk]
    /\ fate = [r \in Runs |-> "none"]
    /\ run = 0
    /\ stage = "end" /\ todo = {} /\ open = {} /\ kept = FALSE
    /\ blend = NoBlend

-----------------------------------------------------------------------------
(* The analyze run.                                                           *)

StartAnalyze(a) ==
    /\ ~Going /\ run < MaxRuns
    /\ run' = run + 1
    /\ ask' = [ask EXCEPT ![run + 1] = a]
    /\ fate' = [fate EXCEPT ![run + 1] = "going"]
    /\ stage' = "align"
    /\ todo' = StageFiles(a, "align")
    /\ open' = {}
    /\ kept' = FALSE
    /\ blend' = [blend EXCEPT !.quiet = FALSE]
    /\ UNCHANGED dir

Truncate(f) ==
    /\ Going /\ f \in todo
    /\ stage = "align" => open = {} /\ \A g \in todo : f[2] <= g[2]
    /\ dir' = [dir EXCEPT ![f] = Torn]
    /\ todo' = todo \ {f}
    /\ open' = open \cup {f}
    /\ UNCHANGED <<ask, fate, run, stage, kept, blend>>

Complete(f) ==
    /\ Going /\ f \in open
    /\ dir' = [dir EXCEPT ![f] = run]
    /\ open' = open \ {f}
    /\ UNCHANGED <<ask, fate, run, stage, todo, kept, blend>>

(* The step behind the photometry: with surfaces switched off the old file is *)
(* removed, and when the system refuses that, the error is thrown away.       *)
Removing == stage = "surfaces" /\ ~Mine.surfaces

SurfacesAfterKept(refused) == dir[Surfaces]                              \* mutant
SurfacesAfter(refused) == IF Removing /\ ~refused THEN Absent ELSE dir[Surfaces]

NextStage ==
    /\ Going /\ todo = {} /\ open = {} /\ stage # "end"
    /\ stage' = After(stage)
    /\ todo' = StageFiles(Mine, stage')
    /\ \E refused \in IF Removing THEN BOOLEAN ELSE {FALSE} :
        /\ dir' = [dir EXCEPT ![Surfaces] = SurfacesAfter(refused)]
        /\ kept' = (kept \/ refused)
    /\ fate' = IF stage' = "end" THEN [fate EXCEPT ![run] = "ok"] ELSE fate
    /\ UNCHANGED <<ask, run, open, blend>>

(* A write fails and the run returns its error, or the process is killed:     *)
(* files under way stay torn, the rest stays as it was.                       *)
StopAnalyze ==
    /\ Going
    /\ fate' = [fate EXCEPT ![run] = "failed"]
    /\ todo' = {} /\ open' = {} /\ stage' = "end"
    /\ UNCHANGED <<dir, ask, run, kept, blend>>

-----------------------------------------------------------------------------
(* The blend of a later process: session.json first, then the graph, the      *)
(* photometry, the surfaces when the file is there, the summaries the session *)
(* names, and the panels' pixels.  A file that is missing or torn is refused. *)

Readable(f) == dir[f] \in Runs
Got(f) == blend.got[f]
Named  == ask[Got(Session)]          \* what session.json says

StartBlend ==
    /\ blend.doing = "none"
    /\ blend' = [NoBlend EXCEPT !.doing = "session", !.quiet = ~Going]
    /\ UNCHANGED <<dir, ask, fate, run, stage, todo, open, kept>>

Load(now, f, then) ==
    /\ blend.doing = now
    /\ blend' = IF Readable(f)
                THEN [blend EXCEPT !.doing = then, !.got[f] = dir[f]]
                ELSE [blend EXCEPT !.doing = "refused"]
    /\ UNCHANGED <<dir, ask, fate, run, stage, todo, open, kept>>

LoadSurfaces ==
    IF dir[Surfaces] = Absent
    THEN /\ blend.doing = "surfaces"
         /\ blend' = [blend EXCEPT !.doing = "summaries"]
         /\ UNCHANGED <<dir, ask, fate, run, stage, todo, open, kept>>
    ELSE Load("surfaces", Surfaces, "summaries")

LoadAll(now, files, then) ==
    /\ blend.doing = now
    /\ blend' = IF \A f \in files : Readable(f)
                THEN [blend EXCEPT !.doing = then,
                        !.got = [f \in Files |-> IF f \in files THEN dir[f] ELSE @[f]]]
                ELSE [blend EXCEPT !.doing = "refused"]
    /\ UNCHANGED <<dir, ask, fate, run, stage, todo, open, kept>>

LoadSummaries ==
    LoadAll("summaries", {Summary(p) : p \in PanelsOf(Named)}, "pixels")

(* A reprojected panel is refused when its size is not that of the bbox the   *)
(* session gives it; another run's cache may or may not have that size.       *)
LoadPixels ==
    LET files == {Aligned(p) : p \in IF Named.solved THEN PanelsOf(Named) ELSE {}} IN
    \/ LoadAll("pixels", files, "loaded")
    \/ /\ blend.doing = "pixels"
       /\ \E f \in files : dir[f] # Got(Session)
       /\ blend' = [blend EXCEPT !.doing = "refused"]
       /\ UNCHANGED <<dir, ask, fate, run, stage, todo, open, kept>>

EndBlend ==
    /\ blend.doing \in {"loaded", "refused"}
    /\ blend' = NoBlend
    /\ UNCHANGED <<dir, ask, fate, run, stage, todo, open, kept>>

Next ==
    \/ \E a \in Asks : StartAnalyze(a)
    \/ \E f \in Files : Truncate(f) \/ Complete(f)
    \/ NextStage \/ StopAnalyze
    \/ StartBlend
    \/ Load("session", Session, "graph")
    \/ Load("graph", Graph, "photometry")
    \/ Load("photometry", Photometry, "surfaces")
    \/ LoadSurfaces \/ LoadSummaries \/ LoadPixels \/ EndBlend

Spec == Init /\ [][Next]_vars

-----------------------------------------------------------------------------
TypeOK ==
    /\ dir \in [Files -> Content]
    /\ ask \in [Runs -> Asks \cup {NoAsk}]
    /\ fate \in [Runs -> {"none", "going", "ok", "failed"}]
    /\ run \in 0 .. MaxRuns
    /\ stage \in StageNames \cup {"end"}
    /\ todo \subseteq Files /\ open \subseteq Files
    /\ blend.doing \in {"none", "session", "graph", "photometry", "surfaces",
                        "summaries", "pixels", "loaded", "refused"}
    /\ blend.got \in [Files -> Content] /\ blend.quiet \in BOOLEAN
    /\ kept \in BOOLEAN

(* session.json is the last file a run writes: while no later run has begun,  *)
(* a session.json of run r means that every artifact of r is there and whole. *)
SessionIsLast ==
    run # 0 /\ dir[Session] = run => \A f \in Artifacts(ask[run]) : dir[f] = run

(* A directory that has seen one run only is either refused or loaded whole,  *)
(* wherever that run was stopped and even while it is still writing.          *)
FirstRunIsAllOrNothing ==
    run = 1 /\ blend.doing = "loaded" =>
        \A f \in Artifacts(ask[1]) : Got(f) = 1

(* A blend that started when the last run had returned Ok, with none starting *)
(* meanwhile, uses that run's artifacts and nothing that an earlier, perhaps  *)
(* interrupted or larger, run left in the directory.  The one exception is an *)
(* old surfaces.json, when that run was refused its removal.                  *)
QuietBlendIsPure ==
    blend.doing = "loaded" /\ blend.quiet /\ run # 0 /\ fate[run] = "ok" =>
        /\ \A f \in Artifacts(ask[run]) : Got(f) = run
        /\ \A f \in Files : Got(f) \in {run, Absent} \/ (f = Surfaces /\ kept)
=============================================================================

------------------------------ MODULE Pipeline ------------------------------
(* A whole job, from panels to mosaics: a shared frame over several groups,    *)
(* then analyze and blend of each of them.  Four ways to run one:              *)
(*   "batch"   mmm batch (main.rs): derive, analyze every group, blend every   *)
(*             group;                                                          *)
(*   "framed"  mmm frame over the second group, mmm analyze --frame and        *)
(*             mmm blend of the first;                                         *)
(*   "files", "views"  the host (MmmExecution.cpp): it asks the worker for the *)
(*             frame if there are several groups, and for each group sizes the *)
(*             slots, then has the worker analyze and blend.                   *)
(* What the headers say (Frames) decides most of it, but the host decides from *)
(* a probe, before the worker reads the panels and decides again.              *)
EXTENDS Frames

CONSTANT Jobs    \* [how, input, groups, extent, skewed]: extent one of "auto",
                 \* "union", "canvas"; skewed if the worker is of another version

(* Every group has panels, one or two groups make a job (two if the frame is   *)
(* that of another), a panel that yields a model has a linear solution, and    *)
(* what a panel shows lies in its columns.                                     *)
PanelSet ==
    {p \in [w : Nat \ {0}, ch : Nat \ {0}, at : Seq(Int), solved : BOOLEAN,
            opens : BOOLEAN, content : SUBSET Nat] :
       (p.solved => p.at # <<>>) /\ p.content \subseteq 0 .. p.w - 1}
ASSUME JobsAssumption ==
    \A j \in Jobs :
      /\ j.how \in {"batch", "framed", "files", "views"}
      /\ j.input \in {"Auto", "Aligned", "Solved"}
      /\ j.groups \in Seq(Seq(PanelSet)) /\ Len(j.groups) \in 1 .. 2
      /\ j.how = "framed" => Len(j.groups) = 2
      /\ \A i \in 1 .. Len(j.groups) : j.groups[i] # <<>>

VARIABLES job,       \* the job: never changes
          stage,     \* the step to take, or how the job ended
          g,         \* the group it is taken for
          reference, \* the shared frame, or none
          mode,      \* "Aligned", "Solved" or "Files": what the worker is told
          slot,      \* values in a row of a slot, or none
          sessions, outputs   \* one per group that got this far

vars == <<job, stage, g, reference, mode, slot, sessions, outputs>>

Ended  == {"done", "refused", "stopped"}
Hosted == job.how \in {"files", "views"}
Todo   == IF job.how = "framed" THEN 1 ELSE Len(job.groups)
Panels == job.groups[g]
Imposed == reference # None

Init ==
    /\ job \in Jobs
    /\ stage = IF job.how \in {"files", "views"} /\ Len(job.groups) = 1 THEN "size" ELSE "derive"
    /\ g = 1 /\ reference = None /\ mode = "Files" /\ slot = None
    /\ sessions = <<>> /\ outputs = <<>>

(* An error of the checks ends the job.  What is made before it stays.         *)
Refuse ==
    stage' = "refused" /\ UNCHANGED <<job, g, reference, mode, slot, sessions, outputs>>

(* A read or a write fails, or the user stops the job: it can be at any step.  *)
Stop ==
    /\ stage \notin Ended
    /\ stage' = "stopped" /\ UNCHANGED <<job, g, reference, mode, slot, sessions, outputs>>

-----------------------------------------------------------------------------
(* The shared frame.  What a host learns of it comes from the worker's probes; *)
(* a worker of another version answers none of them.                           *)

Reply(answer) == IF job.skewed THEN None ELSE answer

All == IF Len(job.groups) = 1 THEN job.groups[1] ELSE job.groups[1] \o job.groups[2]

(* The worker's probe of files: [panels, frame, reference] or none.            *)
probe_panels(ps, input) ==
    LET frame == IF input = "Aligned" THEN None ELSE frame_from_models(ps)
        ref   == derive(ps, input)
    IN  IF /\ \A i \in DOMAIN ps : ps[i].opens
           /\ check_uniform_channels(ps)
           /\ input = "Solved" => frame # None /\ ref # None
        THEN Some([frame |-> frame, reference |-> ref])
        ELSE None

worker_probe_panels(ps, input) == Reply(probe_panels(ps, input))
probe_reference(ps, input)     == Reply(derive_from_descs(ps, input))
probe_frame(ps) == Reply(IF ps = <<>> THEN None ELSE frame_from_models(ps))

DeriveReferenceFromFiles(ps, input) ==
    LET probe == worker_probe_panels(ps, input)
    IN  IF probe = None THEN None ELSE probe[1].reference

DerivedReference ==
    CASE job.how = "batch"  -> derive(All, job.input)
      [] job.how = "framed" -> derive(job.groups[2], job.input)
      [] job.how = "files"  -> DeriveReferenceFromFiles(All, job.input)
      [] job.how = "views"  -> probe_reference(All, job.input)

Derive ==
    /\ stage = "derive"
    /\ \/ /\ DerivedReference # None
          /\ reference' = DerivedReference
          /\ stage' = IF Hosted THEN "size" ELSE "analyze"
          /\ UNCHANGED <<job, g, mode, slot, sessions, outputs>>
       \/ DerivedReference = None /\ Refuse

-----------------------------------------------------------------------------
(* The host: the mode of the job, and slots wide enough for the rows of the    *)
(* panels and of the mosaic.                                                   *)

Widest == Max({Panels[i].w : i \in DOMAIN Panels})
Wider(a, b) == IF b > a THEN b ELSE a

uniform == \A i \in DOMAIN Panels : Panels[i].w = Panels[1].w /\ Panels[i].ch = Panels[1].ch

(* The reference decides for every group; else the user; else geometry and     *)
(* the worker's reading of the solutions.                                      *)
ViewsAreSolved ==
    CASE Imposed                            -> reference[1].kind = "solved"
      [] ~Imposed /\ job.input = "Aligned"  -> FALSE
      [] ~Imposed /\ job.input = "Solved"   -> TRUE
      [] ~Imposed /\ job.input = "Auto"     ->
             ~uniform \/ probe_reference(Panels, "Auto")[1].kind = "solved"

ProbeFails ==
    ~Imposed /\ job.input = "Auto" /\ uniform /\ probe_reference(Panels, "Auto") = None

(* The width of a slot of RunViews, or none: the job is refused.               *)
ViewsWidth ==
    IF ProbeFails \/ \E i \in DOMAIN Panels : Panels[i].ch # Panels[1].ch THEN None
    ELSE IF ~ViewsAreSolved THEN IF uniform THEN Some(Panels[1].w) ELSE None
    ELSE LET frame == IF Imposed THEN reference ELSE probe_frame(Panels)
         IN  IF Solved(Panels) /\ frame # None THEN Some(Wider(Widest, frame[1].w)) ELSE None

(* The same of RunFiles.  The worker chooses the mode when it reads the files. *)
FilesWidthOfInputs ==
    IF worker_probe_panels(Panels, job.input) = None THEN None
    ELSE IF Imposed THEN Some(Wider(Widest, reference[1].w)) ELSE Some(Widest)

FilesWidth ==
    LET probe == worker_probe_panels(Panels, job.input)
    IN  IF probe = None THEN None
        ELSE IF Imposed THEN Some(Wider(Widest, reference[1].w))
        ELSE IF probe[1].frame # None THEN Some(Wider(Widest, probe[1].frame[1].w))
        ELSE Some(Widest)

Size ==
    /\ stage = "size"
    /\ LET width == IF job.how = "views" THEN ViewsWidth ELSE FilesWidth
       IN  \/ /\ width # None
              /\ slot' = Some(width[1] * Panels[1].ch)
              /\ mode' = IF job.how = "files" THEN "Files"
                         ELSE IF ViewsAreSolved THEN "Solved" ELSE "Aligned"
              /\ stage' = "analyze"
              /\ UNCHANGED <<job, g, reference, sessions, outputs>>
           \/ width = None /\ Refuse

-----------------------------------------------------------------------------
(* Analyze.  First what analyze_full knows from the headers.                   *)

Geometries(p) == <<p.w, p.ch>>
readable == \A i \in DOMAIN Panels : Panels[i].opens

auto_reads_aligned ==
    /\ job.input = "Auto" /\ same_geometry(Panels)
    /\ IF Len(Panels) >= 2
       THEN same_geometry_reads_aligned(Solutions(Panels))
       ELSE Imposed /\ reference[1].kind = "aligned" /\ Panels[1].w = reference[1].w

(* A check of the reference that needs no pixels.                              *)
HeadersFit ==
    LET reads_aligned == job.input = "Aligned" \/ auto_reads_aligned
    IN  Imposed =>
          /\ (reference[1].kind = "aligned" /\ reads_aligned) => Panels[1].w = reference[1].w
          /\ ~(reference[1].kind = "solved" /\ job.input = "Aligned")

(* A worker of another version refuses the job that Init brings.               *)
RefuseInit == stage = "analyze" /\ Hosted /\ job.skewed /\ Refuse

(* Which path the panels take: analyze_full for the command line and for the   *)
(* files of a host.                                                            *)
analyze_full ==
    /\ stage = "analyze" /\ mode = "Files" /\ (Hosted => ~job.skewed)
    /\ \/ /\ readable /\ check_uniform_channels(Panels) /\ HeadersFit
          /\ stage' = IF job.input = "Aligned" \/ auto_reads_aligned THEN "scan" ELSE "reproject"
          /\ UNCHANGED <<job, g, reference, mode, slot, sessions, outputs>>
       \/ ~(readable /\ check_uniform_channels(Panels) /\ HeadersFit) /\ Refuse

(* finish_session: the session of the group is whole.  The command line goes   *)
(* on to the next group, and blends when all have been analyzed.               *)
finish_session(session) ==
    /\ sessions' = Append(sessions, session)
    /\ IF Hosted \/ g = Todo
       THEN stage' = "blend" /\ g' = (IF Hosted THEN g ELSE 1)
       ELSE stage' = "analyze" /\ g' = g + 1
    /\ UNCHANGED <<job, reference, mode, slot, outputs>>

nonzero_frac_at_least_half(p) == 2 * Cardinality(p.content) >= p.w

MatchesReference ==
    Imposed => /\ reference[1].kind = "aligned"
               /\ check_aligned(Panels[1].w, Panels[1].at, reference[1].w, reference[1].at)

(* The aligned path.  The pixels decide again: panels that cover half of the   *)
(* canvas are raw panels, unless the user said otherwise.                      *)
AlignedSession ==
    [kind |-> "aligned", frame |-> None, imposed |-> Imposed,
     w |-> Panels[1].w, ch |-> Panels[1].ch,
     data |-> [i \in DOMAIN Panels |-> Panels[i].content]]

one_canvas == \A i \in DOMAIN Panels : Geometries(Panels[i]) = Geometries(Panels[1])

analyze_aligned ==
    LET covers == \E i \in DOMAIN Panels : nonzero_frac_at_least_half(Panels[i])
        raw    == job.input = "Auto" /\ covers
    IN  /\ stage = "scan"
        /\ \/ /\ one_canvas /\ raw
              /\ stage' = "reproject"
              /\ UNCHANGED <<job, g, reference, mode, slot, sessions, outputs>>
           \/ one_canvas /\ ~raw /\ MatchesReference /\ finish_session(AlignedSession)
           \/ ~(one_canvas /\ (raw \/ MatchesReference)) /\ Refuse

(* The solved path: the frame of the set or the reference, then every panel    *)
(* reprojected onto it.  None if that is refused.                              *)
SolvedSession ==
    LET own   == frame_from_models(Panels)
        fits  == Imposed => /\ reference[1].kind = "solved"
                            /\ check_footprints(Panels, reference[1])
        frame == IF Imposed THEN reference[1] ELSE own[1]
    IN  IF own # None /\ fits /\ \A i \in DOMAIN Panels : ~Misses(Panels[i], frame)
        THEN Some([kind |-> "solved", frame |-> Some(frame), imposed |-> Imposed,
                   w |-> frame.w, ch |-> Panels[1].ch,
                   data |-> [i \in DOMAIN Panels |-> reproject(Panels[i], frame)]])
        ELSE None

analyze_solved ==
    /\ stage = "reproject"
    /\ \/ SolvedSession # None /\ finish_session(SolvedSession[1])
       \/ SolvedSession = None /\ Refuse

(* Views, in the mode the host chose.  Their checks come before any pixel is   *)
(* asked for, and the coverage does not decide again.                          *)
analyze_ipc_aligned ==
    /\ stage = "analyze" /\ mode = "Aligned" /\ ~job.skewed
    /\ \/ one_canvas /\ MatchesReference /\ finish_session(AlignedSession)
       \/ ~(one_canvas /\ MatchesReference) /\ Refuse

analyze_ipc_solved ==
    /\ stage = "analyze" /\ mode = "Solved" /\ ~job.skewed
    /\ \/ SolvedSession # None /\ finish_session(SolvedSession[1])
       \/ SolvedSession = None /\ Refuse

-----------------------------------------------------------------------------
(* Blend.                                                                      *)

union_bbox(data) ==
    LET filled == UNION {data[i] : i \in DOMAIN data}
    IN  IF filled = {} THEN None ELSE Some(<<Min(filled), Max(filled) + 1>>)

output_bbox(session, extent) ==
    IF extent = "union" \/ (extent = "auto" /\ ~session.imposed)
    THEN union_bbox(session.data)
    ELSE Some(<<0, session.w>>)

(* The position the cards give to index 0 of the output: the solution of the   *)
(* frame, or of the first panel, moved by the crop.  A host's windows carry    *)
(* none.                                                                       *)
wcs_cardsUncropped(wcs, crop) == wcs

wcs_cards(wcs, crop) == IF wcs = None THEN None ELSE Some(wcs[1] + crop * Sub)

CardsOf(session, bbox) ==
    IF Hosted THEN None
    ELSE wcs_cards(IF session.frame # None THEN session.frame[1].at ELSE Panels[1].at, bbox[1])

blend ==
    LET session == sessions[g]
        bbox    == output_bbox(session, job.extent)
    IN  /\ stage = "blend"
        /\ \/ /\ bbox # None
              /\ outputs' = Append(outputs,
                     [bbox |-> bbox[1], ch |-> session.ch, cards |-> CardsOf(session, bbox[1]),
                      data |-> [i \in DOMAIN session.data |->
                                  session.data[i] \cap bbox[1][1] .. bbox[1][2] - 1]])
              /\ IF g = Todo
                 THEN stage' = "done" /\ g' = g
                 ELSE stage' = (IF Hosted THEN "size" ELSE "blend") /\ g' = g + 1
              /\ UNCHANGED <<job, reference, mode, slot, sessions>>
           \/ bbox = None /\ Refuse

Next ==
    \/ Derive \/ Size \/ RefuseInit \/ analyze_full \/ analyze_aligned \/ analyze_solved
    \/ analyze_ipc_aligned \/ analyze_ipc_solved \/ blend \/ Stop

Spec == Init /\ [][Next]_vars

-----------------------------------------------------------------------------
(* The outputs of a job that a frame was imposed on share one grid: all of     *)
(* them are as wide as the frame (unless the user crops them), and what their  *)
(* cards say of the sky agrees with the frame's solution within the tolerance. *)
OutputsShareTheGrid ==
    (stage = "done" /\ Imposed) =>
      \A i \in 1 .. Len(outputs) :
        /\ sessions[i].w = reference[1].w
        /\ job.extent # "union" => outputs[i].bbox = <<0, reference[1].w>>
        /\ (outputs[i].cards # None /\ reference[1].at # None) =>
             Abs(outputs[i].cards[1] - outputs[i].bbox[1] * Sub - reference[1].at[1]) <= Tol

(* The cards of an output do not lie about any of its panels.  The data of a   *)
(* reprojected panel lie where the cards say the sky they show is; registered  *)
(* canvases that the program itself took for registered agree with the cards   *)
(* within the tolerance, if they have solutions.                               *)
Centre(p, k) == p.at[1] + k * Sub + Sub \div 2

CardsTellTheTruth ==
    \A i \in 1 .. Len(outputs) : outputs[i].cards # None =>
      \A n \in DOMAIN outputs[i].data :
        LET p   == job.groups[i][n]
            sky == [x \in outputs[i].data[n] |->
                      outputs[i].cards[1] + (x - outputs[i].bbox[1]) * Sub]
        IN  /\ sessions[i].kind = "solved" =>
                 \A x \in outputs[i].data[n] :
                    \E k \in p.content : Abs(Centre(p, k) - sky[x]) <= Taps * Sub
            /\ /\ sessions[i].kind = "aligned" /\ job.input = "Auto"
               /\ \A m \in DOMAIN job.groups[i] : job.groups[i][m].at # None
               => Abs(p.at[1] + outputs[i].bbox[1] * Sub - outputs[i].cards[1]) <= Tol

(* Nothing a panel shows is lost on the way: its session holds every pixel the *)
(* kernel can reach, not only those of a canvas it happens to stick out of,    *)
(* with the channels of the panel, and the output holds what the session does. *)
Everywhere(p, frame) ==
    LET from == Floor(Ends(p)[1] - frame.at[1])
        to   == Ceil(Ends(p)[2] - frame.at[1])
    IN  {x \in from - Taps .. to + Taps :
           HasSupport(p, frame, x) /\ Tapped(p, frame, x) \cap p.content # {}}

NothingIsClipped ==
    /\ \A i \in 1 .. Len(sessions) : \A n \in DOMAIN sessions[i].data :
         LET p == job.groups[i][n]
         IN  /\ p.ch = sessions[i].ch
             /\ sessions[i].data[n] \subseteq 0 .. sessions[i].w - 1
             /\ sessions[i].data[n] = IF sessions[i].kind = "aligned" THEN p.content
                                      ELSE Everywhere(p, sessions[i].frame[1])
    /\ \A i \in 1 .. Len(outputs) : outputs[i].data = sessions[i].data

(* The slots the host made before the worker read anything are wide enough for *)
(* what the worker sends through them: a row of the mosaic, and of a view.     *)
SlotsFitTheMosaic ==
    (Hosted /\ stage = "blend") =>
      /\ sessions[g].w * sessions[g].ch <= slot[1]
      /\ mode # "Files" => \A i \in DOMAIN Panels : Panels[i].w * Panels[i].ch <= slot[1]

(* A set that is what the user says it is makes it to the end: the frame       *)
(* derived over all of it is never one that a group of it is refused for.  A   *)
(* group has one count of channels; two groups may differ in it.               *)
Uniform(ps) == \A i \in DOMAIN ps : ps[i].ch = ps[1].ch

Registered(ps) ==
    \A i \in DOMAIN ps : /\ ps[i].w = ps[1].w
                         /\ (ps[i].at # None /\ ps[1].at # None)
                              => Abs(ps[i].at[1] - ps[1].at[1]) <= Tol

AsTheUserSays ==
    /\ ~job.skewed /\ \A i \in DOMAIN All : All[i].opens
    /\ \A i \in DOMAIN job.groups : Uniform(job.groups[i])
    /\ \/ job.input = "Solved" /\ Solved(All)
       \/ job.input = "Aligned" /\ Registered(All)

GoodSetsAreAccepted ==
    (job.how \in {"batch", "views"} \/ (job.how = "files" /\ Uniform(All))) =>
      ~(AsTheUserSays /\ stage = "refused")

(* The same without the last condition, which reference.rs promises: "Channel  *)
(* counts may differ across paths; groups are checked individually".           *)
ChannelsMayDiffer ==
    job.how \in {"batch", "views", "files"} => ~(AsTheUserSays /\ stage = "refused")
=============================================================================

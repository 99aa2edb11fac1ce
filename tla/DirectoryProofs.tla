-------------------------- MODULE DirectoryProofs --------------------------
(* The session directory, for any number of runs and panels: the artifacts of *)
(* analyze, and the decode cache beside them, for any number of processes and *)
(* threads, and any number of saves, kills and failed decodes.                *)
EXTENDS SessionStore, DecodedCache, FiniteSetTheorems, TLAPS

-----------------------------------------------------------------------------
(* The artifacts of analyze.                                                 *)

Doings == {"none", "session", "graph", "photometry", "surfaces",
           "summaries", "pixels", "loaded", "refused"}

Rank(s) == CASE s = "align"      -> 1
             [] s = "summary"    -> 2
             [] s = "graph"      -> 3
             [] s = "photometry" -> 4
             [] s = "surfaces"   -> 5
             [] s = "session"    -> 6
             [] s = "end"        -> 7

(* Types, and that no file is of a run yet to come.                           *)
Typed ==
    /\ dir \in [Files -> Content]
    /\ ask \in [Runs -> Asks \cup {NoAsk}]
    /\ fate \in [Runs -> {"none", "going", "ok", "failed"}]
    /\ run \in 0 .. MaxRuns
    /\ blend \in [doing : Doings, got : [Files -> Content], quiet : BOOLEAN]

NoneFromTheFuture == \A f \in Files : dir[f] <= run

(* A going run has completed what belongs to the stages behind it, and of its *)
(* own stage all but the files it has still to write.                         *)
Progress ==
    Going =>
        /\ stage \in StageNames
        /\ todo \cup open \subseteq StageFiles(Mine, stage)
        /\ todo \cap open = {}
        /\ \A s \in StageNames : Rank(s) <= Rank(stage) =>
              \A f \in StageFiles(Mine, s) : f \in todo \cup open \/ dir[f] = run
        /\ dir[Session] = run => stage = "session" /\ todo = {} /\ open = {}

IInv == Typed /\ NoneFromTheFuture /\ Progress /\ SessionIsLast

-----------------------------------------------------------------------------
(* The files of the stages: they are files, no two stages share one, and      *)
(* session.json belongs to the last stage alone.                              *)
LEMMA StageFilesAreFiles ==
    ASSUME NEW a \in Asks, NEW s \in StageNames
    PROVE  StageFiles(a, s) \subseteq Files
<1>1. PanelsOf(a) \subseteq Panels
    BY StoreAssumption DEF PanelsOf, Panels, Asks
<1>2. QED
    BY <1>1 DEF StageFiles, Files, StageNames, Written, Aligned, Summary, Graph, Photometry,
                Surfaces, Session

LEMMA SessionStage ==
    ASSUME NEW a \in Asks, NEW s \in StageNames
    PROVE  /\ Session \in StageFiles(a, s) <=> s = "session"
           /\ StageFiles(a, "session") = {Session}
           /\ Surfaces \in StageFiles(a, s) => s = "surfaces" /\ a.surfaces
    BY DEF StageFiles, StageNames, Written, Aligned, Summary, Graph, Photometry, Surfaces, Session

LEMMA StageSteps ==
    ASSUME NEW s \in StageNames
    PROVE  /\ s # "session" => After(s) \in StageNames /\ Rank(After(s)) = Rank(s) + 1
           /\ After("session") = "end"
           /\ Rank(s) \in 1 .. 6
           /\ s # "session" <=> After(s) # "end"
    BY DEF After, Rank, StageNames

LEMMA SessionRank ==
    ASSUME NEW s \in StageNames
    PROVE  Rank(s) <= Rank("session")
    BY DEF Rank, StageNames

LEMMA RankOrder ==
    ASSUME NEW s \in StageNames, NEW r \in StageNames
    PROVE  /\ Rank(s) = Rank(r) => s = r
           /\ Rank(s) \in Nat
    BY DEF Rank, StageNames

-----------------------------------------------------------------------------
LEMMA InitHolds == Init => IInv
<1> SUFFICES ASSUME Init PROVE IInv
    OBVIOUS
<1>1. Typed
    BY StoreAssumption DEF Init, Typed, Content, Absent, NoBlend, Doings, Runs
<1>2. NoneFromTheFuture
    BY DEF Init, NoneFromTheFuture, Absent
<1>3. Progress /\ SessionIsLast
    BY DEF Init, Progress, Going, SessionIsLast
<1> QED
    BY <1>1, <1>2, <1>3 DEF IInv

(* A run that has begun has been asked for something.                         *)
AskedFor == run # 0 => Mine \in Asks

LEMMA StartKeeps ==
    ASSUME IInv, NEW a \in Asks, StartAnalyze(a)
    PROVE  IInv' /\ Mine' = a
<1>1. run \in 0 .. MaxRuns /\ run + 1 \in Runs /\ run' = run + 1 /\ dir' = dir
    BY StoreAssumption DEF IInv, Typed, StartAnalyze, Runs
<1>2. Mine' = a /\ Mine' \in Asks
    BY <1>1 DEF StartAnalyze, Mine, IInv, Typed
<1>3. Typed'
    <2>1. ask' \in [Runs -> Asks \cup {NoAsk}]
        BY <1>1 DEF IInv, Typed, StartAnalyze
    <2>2. fate' \in [Runs -> {"none", "going", "ok", "failed"}]
        BY <1>1 DEF IInv, Typed, StartAnalyze
    <2>3. blend' \in [doing : Doings, got : [Files -> Content], quiet : BOOLEAN]
        BY DEF IInv, Typed, StartAnalyze
    <2>4. run' \in 0 .. MaxRuns
        BY <1>1, StoreAssumption DEF Runs
    <2> QED
        BY <1>1, <2>1, <2>2, <2>3, <2>4 DEF IInv, Typed
<1>4. NoneFromTheFuture'
    BY <1>1, StoreAssumption
    DEF IInv, Typed, NoneFromTheFuture, Content, Runs, Absent, Torn
<1>5. dir'[Session] # run'
    <2>1. Session \in Files
        BY DEF Files
    <2>2. dir[Session] \in Int /\ dir[Session] <= run
        BY <2>1, StoreAssumption DEF IInv, Typed, NoneFromTheFuture, Content, Runs, Absent, Torn
    <2> QED
        BY <1>1, <2>2
<1>6. Progress'
    <2>1. stage' = "align" /\ todo' = StageFiles(a, "align") /\ open' = {}
        BY DEF StartAnalyze
    <2>2. \A s \in StageNames : Rank(s) <= Rank("align") => s = "align"
        BY DEF StageNames, Rank
    <2>3. "align" \in StageNames
        BY DEF StageNames
    <2> QED
        BY <1>2, <1>5, <2>1, <2>2, <2>3 DEF Progress
<1>7. SessionIsLast'
    BY <1>5 DEF SessionIsLast
<1> QED
    BY <1>2, <1>3, <1>4, <1>6, <1>7 DEF IInv

LEMMA TruncateKeeps ==
    ASSUME IInv, AskedFor, NEW f \in Files, Truncate(f)
    PROVE  IInv' /\ dir[Session] # run /\ dir'[Session] # run
<1>1. /\ Going /\ Going' /\ run' = run /\ Mine' = Mine /\ stage' = stage
      /\ f \in todo /\ todo' = todo \ {f} /\ open' = open \cup {f}
      /\ dir' = [dir EXCEPT ![f] = Torn]
    BY DEF Truncate, Going, Mine
<1>2. run \in Runs /\ Mine \in Asks /\ dir \in [Files -> Content]
    BY <1>1, StoreAssumption DEF IInv, Typed, Going, Runs, AskedFor, Mine
<1>3. Typed'
    BY <1>1, <1>2 DEF IInv, Typed, Truncate, Content
<1>4. NoneFromTheFuture'
    BY <1>1, <1>2, StoreAssumption
    DEF IInv, NoneFromTheFuture, Torn, Content, Runs, Absent
<1>5. dir[Session] # run
    BY <1>1 DEF IInv, Progress
<1>6. dir'[Session] # run
    BY <1>1, <1>2, <1>5 DEF Torn, Runs, Files
<1>7. Progress'
    <2>1. stage \in StageNames /\ todo \cup open \subseteq StageFiles(Mine, stage)
          /\ todo \cap open = {}
        BY <1>1 DEF IInv, Progress
    <2>2. ASSUME NEW s \in StageNames, Rank(s) <= Rank(stage), NEW g \in StageFiles(Mine, s)
          PROVE  g \in todo' \cup open' \/ dir'[g] = run
        <3>1. g \in Files
            BY <1>2, StageFilesAreFiles
        <3>2. g \in todo \cup open \/ dir[g] = run
            BY <1>1, <2>2 DEF IInv, Progress
        <3> QED
            BY <1>1, <1>2, <3>1, <3>2
    <2> QED
        BY <1>1, <1>6, <2>1, <2>2 DEF Progress
<1>8. SessionIsLast'
    BY <1>1, <1>6 DEF SessionIsLast
<1> QED
    BY <1>3, <1>4, <1>5, <1>6, <1>7, <1>8 DEF IInv

LEMMA CompleteKeeps ==
    ASSUME IInv, AskedFor, NEW f \in Files, Complete(f)
    PROVE  IInv' /\ dir[Session] # run
<1>1. /\ Going /\ Going' /\ run' = run /\ Mine' = Mine /\ stage' = stage /\ ask' = ask
      /\ f \in open /\ todo' = todo /\ open' = open \ {f}
      /\ dir' = [dir EXCEPT ![f] = run]
    BY DEF Complete, Going, Mine
<1>2. run \in Runs /\ Mine \in Asks /\ dir \in [Files -> Content]
    BY <1>1, StoreAssumption DEF IInv, Typed, Going, Runs, AskedFor, Mine
<1>3. Typed'
    BY <1>1, <1>2 DEF IInv, Typed, Complete, Content
<1>4. NoneFromTheFuture'
    BY <1>1, <1>2 DEF IInv, NoneFromTheFuture, Runs
<1>5. dir[Session] # run
    BY <1>1 DEF IInv, Progress
<1>6. stage \in StageNames /\ todo \cup open \subseteq StageFiles(Mine, stage)
      /\ todo \cap open = {}
    BY <1>1 DEF IInv, Progress
<1>7. ASSUME NEW s \in StageNames, Rank(s) <= Rank(stage), NEW g \in StageFiles(Mine, s)
      PROVE  g \in todo' \cup open' \/ dir'[g] = run
    <2>1. g \in Files
        BY <1>2, StageFilesAreFiles
    <2>2. g \in todo \cup open \/ dir[g] = run
        BY <1>1, <1>7 DEF IInv, Progress
    <2> QED
        BY <1>1, <1>2, <2>1, <2>2
<1>8. dir'[Session] = run => stage = "session" /\ todo' = {} /\ open' = {}
    <2> SUFFICES ASSUME dir'[Session] = run
                 PROVE  stage = "session" /\ todo' = {} /\ open' = {}
        OBVIOUS
    <2>1. f = Session
        BY <1>1, <1>2, <1>5 DEF Files
    <2>2. stage = "session" /\ todo \cup open \subseteq {Session}
        BY <1>1, <1>2, <1>6, <2>1, SessionStage
    <2> QED
        BY <1>1, <1>6, <2>1, <2>2
<1>9. Progress'
    BY <1>1, <1>6, <1>7, <1>8 DEF Progress
<1>10. SessionIsLast'
    <2> SUFFICES ASSUME dir'[Session] = run, NEW g \in Artifacts(Mine)
                 PROVE  dir'[g] = run
        BY <1>1 DEF SessionIsLast, Mine
    <2>1. PICK s \in StageNames : g \in StageFiles(Mine, s)
        BY DEF Artifacts
    <2>2. Rank(s) <= Rank(stage)
        BY <1>8, SessionRank
    <2> QED
        BY <1>7, <1>8, <2>1, <2>2
<1> QED
    BY <1>3, <1>4, <1>5, <1>9, <1>10 DEF IInv

LEMMA NextStageKeeps ==
    ASSUME IInv, AskedFor, NextStage
    PROVE  /\ IInv'
           /\ \A f \in Files : f # Surfaces \/ Mine.surfaces => dir'[f] = dir[f]
<1>1. /\ Going /\ todo = {} /\ open = {} /\ stage # "end" /\ open' = {}
      /\ stage' = After(stage) /\ todo' = StageFiles(Mine, stage')
      /\ run' = run /\ ask' = ask /\ Mine' = Mine /\ blend' = blend
    BY DEF NextStage, Mine
<1>2. run \in Runs /\ Mine \in Asks /\ dir \in [Files -> Content] /\ Surfaces \in Files
    BY <1>1, StoreAssumption DEF IInv, Typed, Going, Runs, AskedFor, Mine, Files
<1>3. PICK refused \in BOOLEAN : dir' = [dir EXCEPT ![Surfaces] = SurfacesAfter(refused)]
    BY DEF NextStage
<1> DEFINE c == SurfacesAfter(refused)
<1>4. c = dir[Surfaces] \/ (c = Absent /\ ~Mine.surfaces)
    BY DEF SurfacesAfter, Removing
<1>4a. dir' = [dir EXCEPT ![Surfaces] = c]
    BY <1>3
<1> HIDE DEF c
<1>5. \A f \in Files : f # Surfaces \/ Mine.surfaces => dir'[f] = dir[f]
    BY <1>2, <1>4, <1>4a
<1>6. stage \in StageNames
    BY <1>1 DEF IInv, Progress
<1>7. Typed'
    <2>1. c \in Content
        BY <1>2, <1>4 DEF Content
    <2>2. fate' \in [Runs -> {"none", "going", "ok", "failed"}]
        BY DEF IInv, Typed, NextStage
    <2> QED
        BY <1>1, <1>2, <1>4a, <2>1, <2>2 DEF IInv, Typed
<1>8. NoneFromTheFuture'
    <2>1. run >= 0
        BY <1>2 DEF Runs
    <2> QED
        BY <1>1, <1>2, <1>4, <1>4a, <2>1 DEF IInv, NoneFromTheFuture, Absent
<1>9. dir'[Session] = dir[Session]
    BY <1>5 DEF Files, Session, Surfaces
<1>10. ASSUME NEW s \in StageNames, Rank(s) <= Rank(stage), NEW g \in StageFiles(Mine, s)
       PROVE  dir'[g] = run
    <2>1. g \in Files
        BY <1>2, StageFilesAreFiles
    <2>2. dir[g] = run
        BY <1>1, <1>10 DEF IInv, Progress
    <2>3. g # Surfaces \/ Mine.surfaces
        BY <1>2, <1>10, SessionStage
    <2> QED
        BY <1>5, <2>1, <2>2, <2>3
<1>11. Progress'
    <2>1. CASE stage = "session"
        <3>1. stage' = "end"
            BY <1>1, <2>1, StageSteps DEF StageNames
        <3>2. fate' = [fate EXCEPT ![run] = "ok"]
            BY <3>1 DEF NextStage
        <3>3. ~Going'
            BY <1>1, <1>2, <3>2 DEF Going, IInv, Typed
        <3> QED
            BY <3>3 DEF Progress
    <2>2. CASE stage # "session"
        <3>1. stage' \in StageNames /\ Rank(stage') = Rank(stage) + 1
            BY <1>1, <1>6, <2>2, StageSteps
        <3>2. dir[Session] # run
            BY <1>1, <2>2 DEF IInv, Progress
        <3>3. ASSUME NEW s \in StageNames, Rank(s) <= Rank(stage'), NEW g \in StageFiles(Mine, s)
              PROVE  g \in todo' \cup open' \/ dir'[g] = run
            <4>1. Rank(s) <= Rank(stage) \/ s = stage'
                BY <1>6, <3>1, <3>3, RankOrder
            <4> QED
                BY <1>1, <1>10, <3>3, <4>1
        <3> QED
            BY <1>1, <1>9, <3>1, <3>2, <3>3 DEF Progress
    <2> QED
        BY <2>1, <2>2
<1>12. SessionIsLast'
    <2> SUFFICES ASSUME dir'[Session] = run, NEW g \in Artifacts(Mine)
                 PROVE  dir'[g] = run
        BY <1>1 DEF SessionIsLast, Mine
    <2>1. stage = "session"
        BY <1>1, <1>9 DEF IInv, Progress
    <2>2. PICK s \in StageNames : g \in StageFiles(Mine, s)
        BY DEF Artifacts
    <2>3. Rank(s) <= Rank(stage)
        BY <2>1, SessionRank
    <2> QED
        BY <1>10, <2>2, <2>3
<1> QED
    BY <1>5, <1>7, <1>8, <1>11, <1>12 DEF IInv

LEMMA StopKeeps ==
    ASSUME IInv, StopAnalyze
    PROVE  IInv'
<1>1. run' = run /\ dir' = dir /\ ask' = ask /\ blend' = blend
      /\ fate' = [fate EXCEPT ![run] = "failed"]
    BY DEF StopAnalyze
<1>2. run \in Runs
    BY StoreAssumption DEF IInv, Typed, StopAnalyze, Going, Runs
<1>3. ~Going'
    BY <1>1, <1>2 DEF Going, IInv, Typed
<1> QED
    BY <1>1, <1>2, <1>3 DEF IInv, Typed, NoneFromTheFuture, Progress, SessionIsLast

(* The blend only reads the directory.                                        *)
BlendStep ==
    \/ StartBlend
    \/ Load("session", Session, "graph")
    \/ Load("graph", Graph, "photometry")
    \/ Load("photometry", Photometry, "surfaces")
    \/ LoadSurfaces \/ LoadSummaries \/ LoadPixels \/ EndBlend

LEMMA LoadTyped ==
    ASSUME Typed, NEW now, NEW f \in Files, NEW then \in Doings, Load(now, f, then)
    PROVE  blend' \in [doing : Doings, got : [Files -> Content], quiet : BOOLEAN]
    BY DEF Typed, Load, Doings

LEMMA LoadAllTyped ==
    ASSUME Typed, NEW now, NEW files, NEW then \in Doings, LoadAll(now, files, then)
    PROVE  blend' \in [doing : Doings, got : [Files -> Content], quiet : BOOLEAN]
    BY DEF Typed, LoadAll, Doings

LEMMA BlendKeeps ==
    ASSUME IInv, BlendStep
    PROVE  IInv' /\ UNCHANGED <<dir, ask, fate, run, stage, todo, open, kept>>
<1>1. UNCHANGED <<dir, ask, fate, run, stage, todo, open, kept>>
    BY DEF BlendStep, StartBlend, Load, LoadSurfaces, LoadSummaries, LoadPixels, LoadAll, EndBlend
<1>2. blend' \in [doing : Doings, got : [Files -> Content], quiet : BOOLEAN]
    <2> USE DEF IInv
    <2>0. NoBlend \in [doing : Doings, got : [Files -> Content], quiet : BOOLEAN]
        BY DEF NoBlend, Doings, Content, Absent
    <2>1. CASE StartBlend
        BY <2>0, <2>1 DEF StartBlend, Doings, Going
    <2>2. CASE Load("session", Session, "graph")
        BY <2>2, LoadTyped DEF Files, Doings
    <2>3. CASE Load("graph", Graph, "photometry")
        BY <2>3, LoadTyped DEF Files, Doings
    <2>4. CASE Load("photometry", Photometry, "surfaces")
        BY <2>4, LoadTyped DEF Files, Doings
    <2>5. CASE LoadSurfaces
        <3>1. CASE dir[Surfaces] = Absent
            BY <2>5, <3>1 DEF LoadSurfaces, Typed, Doings
        <3>2. CASE dir[Surfaces] # Absent
            BY <2>5, <3>2, LoadTyped DEF LoadSurfaces, Files, Doings
        <3> QED
            BY <3>1, <3>2
    <2>6. CASE LoadSummaries
        BY <2>6, LoadAllTyped DEF LoadSummaries, Doings
    <2>7. CASE LoadPixels
        <3>1. CASE blend' = [blend EXCEPT !.doing = "refused"]
            BY <3>1 DEF Typed, Doings
        <3>2. CASE blend' # [blend EXCEPT !.doing = "refused"]
            BY <2>7, <3>2, LoadAllTyped DEF LoadPixels, Doings
        <3> QED
            BY <3>1, <3>2
    <2>8. CASE EndBlend
        BY <2>0, <2>8 DEF EndBlend
    <2> QED
        BY <2>1, <2>2, <2>3, <2>4, <2>5, <2>6, <2>7, <2>8 DEF BlendStep
<1>3. Typed'
    BY <1>1, <1>2 DEF IInv, Typed
<1> QED
    BY <1>1, <1>3 DEF IInv, NoneFromTheFuture, Progress, SessionIsLast, Going, Mine

LEMMA StepKeeps ==
    ASSUME IInv, AskedFor, [Next]_vars
    PROVE  IInv' /\ AskedFor'
<1>1. ASSUME NEW a \in Asks, StartAnalyze(a) PROVE IInv' /\ AskedFor'
    BY <1>1, StartKeeps DEF AskedFor
<1>2. ASSUME NEW f \in Files, Truncate(f) PROVE IInv' /\ AskedFor'
    BY <1>2, TruncateKeeps DEF AskedFor, Mine, Truncate
<1>3. ASSUME NEW f \in Files, Complete(f) PROVE IInv' /\ AskedFor'
    BY <1>3, CompleteKeeps DEF AskedFor, Mine, Complete
<1>4. CASE NextStage
    BY <1>4, NextStageKeeps DEF AskedFor, Mine, NextStage
<1>5. CASE StopAnalyze
    BY <1>5, StopKeeps DEF AskedFor, Mine, StopAnalyze
<1>6. CASE BlendStep
    BY <1>6, BlendKeeps DEF AskedFor, Mine
<1>7. CASE UNCHANGED vars
    BY <1>7 DEF vars, IInv, Typed, NoneFromTheFuture, Progress, SessionIsLast, Going, Mine, AskedFor
<1> QED
    BY <1>1, <1>2, <1>3, <1>4, <1>5, <1>6, <1>7 DEF Next, BlendStep

LEMMA InitAsked == Init => AskedFor
    BY DEF Init, AskedFor

THEOREM StoreInvariant == Spec => [](IInv /\ AskedFor)
<1>1. Init => IInv /\ AskedFor
    BY InitHolds, InitAsked
<1>2. IInv /\ AskedFor /\ [Next]_vars => IInv' /\ AskedFor'
    BY StepKeeps
<1> QED
    BY <1>1, <1>2, PTL DEF Spec

(* session.json stands for a complete run: while no later run has begun, a    *)
(* session.json of the latest run means that all its artifacts are whole.     *)
THEOREM SessionAlwaysLast == Spec => []SessionIsLast
<1>1. IInv => SessionIsLast
    BY DEF IInv
<1> QED
    BY <1>1, StoreInvariant, PTL

-----------------------------------------------------------------------------
(* What a blend loads of the last run of a directory.                         *)

Behind(d) == CASE d = "graph"      -> {"graph", "photometry", "surfaces", "summaries", "pixels", "loaded"}
               [] d = "photometry" -> {"photometry", "surfaces", "summaries", "pixels", "loaded"}
               [] d = "surfaces"   -> {"surfaces", "summaries", "pixels", "loaded"}
               [] d = "summaries"  -> {"summaries", "pixels", "loaded"}
               [] d = "pixels"     -> {"pixels", "loaded"}
               [] d = "loaded"     -> {"loaded"}

(* What the blend has loaded is of the last run, step by step, and that run's *)
(* session.json is still there.                                               *)
Loaded ==
    /\ blend.doing \in Behind("graph") => dir[Session] = run /\ Got(Session) = run
    /\ blend.doing \in Behind("photometry") => Got(Graph) = run
    /\ blend.doing \in Behind("surfaces") => Got(Photometry) = run
    /\ blend.doing \in Behind("summaries") =>
          \A f \in StageFiles(Mine, "surfaces") : Got(f) = run
    /\ blend.doing \in Behind("pixels") =>
          \A f \in StageFiles(Mine, "summary") : Got(f) = run
    /\ blend.doing \in Behind("loaded") =>
          \A f \in StageFiles(Mine, "align") : Got(f) = run

LEMMA BehindSets ==
    /\ Behind("graph") = {"graph", "photometry", "surfaces", "summaries", "pixels", "loaded"}
    /\ Behind("photometry") = {"photometry", "surfaces", "summaries", "pixels", "loaded"}
    /\ Behind("surfaces") = {"surfaces", "summaries", "pixels", "loaded"}
    /\ Behind("summaries") = {"summaries", "pixels", "loaded"}
    /\ Behind("pixels") = {"pixels", "loaded"}
    /\ Behind("loaded") = {"loaded"}
    BY DEF Behind

LEMMA LoadedIsWhole ==
    ASSUME Loaded, blend.doing = "loaded", NEW f \in Artifacts(Mine)
    PROVE  Got(f) = run
<1>1. PICK s \in StageNames : f \in StageFiles(Mine, s)
    BY DEF Artifacts
<1>2. \A d \in {"graph", "photometry", "surfaces", "summaries", "pixels", "loaded"} :
        "loaded" \in Behind(d)
    BY DEF Behind
<1>3. StageFiles(Mine, "graph") = {Graph} /\ StageFiles(Mine, "photometry") = {Photometry}
      /\ StageFiles(Mine, "session") = {Session}
    BY DEF StageFiles
<1> QED
    BY <1>1, <1>2, <1>3 DEF Loaded, StageNames

(* What the directory offers once the last run's session.json is there.       *)
LEMMA LastRunWhole ==
    ASSUME IInv, run # 0, dir[Session] = run, NEW s \in StageNames, NEW f \in StageFiles(Mine, s)
    PROVE  dir[f] = run
    BY DEF IInv, SessionIsLast, Artifacts, Mine

LEMMA BlendEnds ==
    /\ StartBlend => blend'.doing = "session"
    /\ EndBlend => blend'.doing = "none"
<1>1. NoBlend \in [doing : {"none"}, got : [Files -> Content], quiet : BOOLEAN]
    BY DEF NoBlend, Content, Absent
<1> QED
    BY <1>1 DEF StartBlend, EndBlend, Going

LEMMA BlendLoads ==
    ASSUME IInv, AskedFor, run # 0, Readable(Session) => dir[Session] = run, Loaded, BlendStep
    PROVE  Loaded'
<1>1. UNCHANGED <<dir, ask, fate, run, stage, todo, open, kept>> /\ Mine' = Mine
    BY BlendKeeps DEF Mine
<1>2. blend \in [doing : Doings, got : [Files -> Content], quiet : BOOLEAN]
    BY DEF IInv, Typed
<1> SUFFICES ASSUME blend'.doing \notin {"none", "session", "refused"}
             PROVE  Loaded'
    BY <1>1, BehindSets DEF Loaded
<1>3. ~StartBlend /\ ~EndBlend
    BY BlendEnds
<1>4. CASE Load("session", Session, "graph")
    <2>1. Readable(Session) /\ blend' = [blend EXCEPT !.doing = "graph", !.got[Session] = dir[Session]]
        BY <1>2, <1>4 DEF Load
    <2>2. dir[Session] = run /\ Session \in Files
        BY <2>1 DEF Files
    <2>3. blend'.doing = "graph" /\ blend'.got[Session] = run
        BY <1>2, <2>1, <2>2
    <2> QED
        BY <1>1, <2>2, <2>3, BehindSets DEF Loaded, Got
<1>5. CASE Load("graph", Graph, "photometry")
    <2>1. blend' = [blend EXCEPT !.doing = "photometry", !.got[Graph] = dir[Graph]]
        BY <1>2, <1>5 DEF Load
    <2>2. blend.doing = "graph" /\ dir[Session] = run /\ Got(Session) = run
        BY <1>5, BehindSets DEF Load, Loaded
    <2>3. dir[Graph] = run
        BY <2>2, LastRunWhole DEF StageFiles, StageNames
    <2>4. blend'.doing = "photometry" /\ blend'.got[Graph] = run /\ blend'.got[Session] = run
        BY <1>2, <2>1, <2>2, <2>3 DEF Got, Files, Graph, Session
    <2> QED
        BY <1>1, <2>2, <2>4, BehindSets DEF Loaded, Got
<1>6. CASE Load("photometry", Photometry, "surfaces")
    <2>1. blend' = [blend EXCEPT !.doing = "surfaces", !.got[Photometry] = dir[Photometry]]
        BY <1>2, <1>6 DEF Load
    <2>2. blend.doing = "photometry" /\ dir[Session] = run /\ Got(Session) = run /\ Got(Graph) = run
        BY <1>6, BehindSets DEF Load, Loaded
    <2>3. dir[Photometry] = run
        BY <2>2, LastRunWhole DEF StageFiles, StageNames
    <2>4. blend'.doing = "surfaces" /\ blend'.got[Photometry] = run /\ blend'.got[Session] = run
          /\ blend'.got[Graph] = run
        BY <1>2, <2>1, <2>2, <2>3 DEF Got, Files, Graph, Session, Photometry
    <2> QED
        BY <1>1, <2>2, <2>4, BehindSets DEF Loaded, Got
<1>7. CASE LoadSurfaces
    <2>1. blend.doing = "surfaces"
        BY <1>7 DEF LoadSurfaces, Load
    <2>2. dir[Session] = run /\ Got(Session) = run /\ Got(Graph) = run /\ Got(Photometry) = run
        BY <2>1, BehindSets DEF Loaded
    <2>3. \A f \in StageFiles(Mine, "surfaces") : dir[f] = run /\ f = Surfaces
        BY <2>2, LastRunWhole DEF StageFiles, StageNames
    <2>4. blend' = IF dir[Surfaces] = Absent
                   THEN [blend EXCEPT !.doing = "summaries"]
                   ELSE [blend EXCEPT !.doing = "summaries", !.got[Surfaces] = dir[Surfaces]]
        BY <1>2, <1>7 DEF LoadSurfaces, Load
    <2>5. blend'.doing = "summaries" /\ blend'.got[Session] = run /\ blend'.got[Graph] = run
          /\ blend'.got[Photometry] = run
        BY <1>2, <2>2, <2>4 DEF Got, Files, Graph, Session, Photometry, Surfaces
    <2>6. \A f \in StageFiles(Mine, "surfaces") : blend'.got[f] = run
        BY <1>2, <2>3, <2>4 DEF Files, Absent
    <2> QED
        BY <1>1, <2>2, <2>5, <2>6, BehindSets DEF Loaded, Got
<1>8. CASE LoadSummaries
    <2> DEFINE files == {Summary(p) : p \in PanelsOf(Named)}
    <2>1. blend.doing = "summaries"
        BY <1>8 DEF LoadSummaries, LoadAll
    <2>2. /\ dir[Session] = run /\ Got(Session) = run /\ Got(Graph) = run /\ Got(Photometry) = run
          /\ \A f \in StageFiles(Mine, "surfaces") : Got(f) = run
        BY <2>1, BehindSets DEF Loaded
    <2>3. files = StageFiles(Mine, "summary")
        BY <2>2 DEF Named, Mine, StageFiles, Written
    <2>4. \A f \in files : dir[f] = run
        BY <2>2, <2>3, LastRunWhole DEF StageNames
    <2>5. blend' = [blend EXCEPT !.doing = "pixels",
                        !.got = [f \in Files |-> IF f \in files THEN dir[f] ELSE @[f]]]
        BY <1>2, <1>8 DEF LoadSummaries, LoadAll
    <2>6. \A f \in Files : blend'.got[f] = IF f \in files THEN run ELSE Got(f)
        BY <1>2, <2>4, <2>5 DEF Got
    <2>7. Mine \in Asks
        BY DEF AskedFor
    <2>8. \A s \in StageNames : StageFiles(Mine, s) \subseteq Files
        BY <2>7, StageFilesAreFiles
    <2>9. blend'.doing = "pixels"
        BY <1>2, <2>5
    <2>10. Session \in Files /\ Graph \in Files /\ Photometry \in Files
        BY DEF Files
    <2>11. \A f \in StageFiles(Mine, "surfaces") \cup StageFiles(Mine, "summary") :
              blend'.got[f] = run
        BY <2>2, <2>3, <2>6, <2>8 DEF StageNames
    <2>12. blend'.got[Session] = run /\ blend'.got[Graph] = run /\ blend'.got[Photometry] = run
        BY <2>2, <2>6, <2>10
    <2> QED
        BY <1>1, <2>2, <2>9, <2>11, <2>12, BehindSets DEF Loaded, Got
<1>9. CASE LoadPixels
    <2> DEFINE files == {Aligned(p) : p \in IF Named.solved THEN PanelsOf(Named) ELSE {}}
    <2>1. blend.doing = "pixels"
        BY <1>9 DEF LoadPixels, LoadAll
    <2>2. /\ dir[Session] = run /\ Got(Session) = run /\ Got(Graph) = run /\ Got(Photometry) = run
          /\ \A f \in StageFiles(Mine, "surfaces") : Got(f) = run
          /\ \A f \in StageFiles(Mine, "summary") : Got(f) = run
        BY <2>1, BehindSets DEF Loaded
    <2>3. files = StageFiles(Mine, "align")
        BY <2>2 DEF Named, Mine, StageFiles, Written
    <2>4. \A f \in files : dir[f] = run
        BY <2>2, <2>3, LastRunWhole DEF StageNames
    <2>5. blend' = [blend EXCEPT !.doing = "loaded",
                        !.got = [f \in Files |-> IF f \in files THEN dir[f] ELSE @[f]]]
        BY <1>2, <1>9 DEF LoadPixels, LoadAll
    <2>6. \A f \in Files : blend'.got[f] = IF f \in files THEN run ELSE Got(f)
        BY <1>2, <2>4, <2>5 DEF Got
    <2>7. Mine \in Asks
        BY DEF AskedFor
    <2>8. \A s \in StageNames : StageFiles(Mine, s) \subseteq Files
        BY <2>7, StageFilesAreFiles
    <2>9. blend'.doing = "loaded"
        BY <1>2, <2>5
    <2>10. Session \in Files /\ Graph \in Files /\ Photometry \in Files
        BY DEF Files
    <2>11. \A f \in StageFiles(Mine, "surfaces") \cup StageFiles(Mine, "summary")
                        \cup StageFiles(Mine, "align") : blend'.got[f] = run
        BY <2>2, <2>3, <2>6, <2>8 DEF StageNames
    <2>12. blend'.got[Session] = run /\ blend'.got[Graph] = run /\ blend'.got[Photometry] = run
        BY <2>2, <2>6, <2>10
    <2> QED
        BY <1>1, <2>2, <2>9, <2>11, <2>12, BehindSets DEF Loaded, Got
<1> QED
    BY <1>3, <1>4, <1>5, <1>6, <1>7, <1>8, <1>9 DEF BlendStep

-----------------------------------------------------------------------------
(* A blend of a directory that has seen one run.                              *)

FirstBlend ==
    /\ run = 0 => blend.doing \in {"none", "session", "refused"}
    /\ run = 1 => Loaded

LEMMA FirstBlendAnalyze ==
    ASSUME IInv, AskedFor, FirstBlend,
           \/ \E a \in Asks : StartAnalyze(a)
           \/ \E f \in Files : Truncate(f) \/ Complete(f)
           \/ NextStage \/ StopAnalyze
    PROVE  FirstBlend'
<1>1. ASSUME NEW a \in Asks, StartAnalyze(a) PROVE FirstBlend'
    <2>1. run' = run + 1 /\ run \in Nat /\ blend'.doing = blend.doing
        BY <1>1, StoreAssumption DEF StartAnalyze, IInv, Typed
    <2>2. run' = 1 => blend'.doing \in {"none", "session", "refused"}
        BY <2>1 DEF FirstBlend
    <2> QED
        BY <2>1, <2>2, BehindSets DEF FirstBlend, Loaded
<1>2. ASSUME blend' = blend, run' = run, ask' = ask,
             run = 1 /\ dir[Session] = 1 => dir'[Session] = 1
      PROVE  FirstBlend'
    BY <1>2, BehindSets DEF FirstBlend, Loaded, Got, Mine
<1>3. ASSUME NEW f \in Files, Truncate(f) PROVE FirstBlend'
    BY <1>2, <1>3, TruncateKeeps DEF Truncate
<1>4. ASSUME NEW f \in Files, Complete(f) PROVE FirstBlend'
    BY <1>2, <1>4, CompleteKeeps DEF Complete
<1>5. CASE NextStage
    <2>1. dir'[Session] = dir[Session]
        BY <1>5, NextStageKeeps DEF Files, Session, Surfaces
    <2> QED
        BY <1>2, <1>5, <2>1 DEF NextStage
<1>6. CASE StopAnalyze
    BY <1>2, <1>6 DEF StopAnalyze
<1> QED
    BY <1>1, <1>3, <1>4, <1>5, <1>6

LEMMA NothingBeforeFirst ==
    ASSUME IInv, run = 0, NEW f \in Files
    PROVE  ~Readable(f)
    BY StoreAssumption DEF IInv, Typed, NoneFromTheFuture, Readable, Runs, Content, Absent, Torn

LEMMA FirstBlendBlend ==
    ASSUME IInv, AskedFor, FirstBlend, BlendStep
    PROVE  FirstBlend'
<1>1. UNCHANGED <<dir, ask, fate, run, stage, todo, open, kept>>
    BY BlendKeeps
<1>2. blend \in [doing : Doings, got : [Files -> Content], quiet : BOOLEAN]
    BY DEF IInv, Typed
<1>3. CASE run = 0
    <2>1. blend.doing \in {"none", "session", "refused"} /\ Session \in Files /\ ~Readable(Session)
        BY <1>3, NothingBeforeFirst DEF FirstBlend, Files
    <2>2. blend'.doing \in {"none", "session", "refused"}
        <3>1. StartBlend \/ EndBlend \/ Load("session", Session, "graph")
            BY <2>1 DEF BlendStep, Load, LoadSurfaces, LoadSummaries, LoadPixels, LoadAll
        <3>2. Load("session", Session, "graph") => blend'.doing = "refused"
            BY <1>2, <2>1 DEF Load
        <3> QED
            BY <3>1, <3>2, BlendEnds
    <2> QED
        BY <1>1, <1>3, <2>2 DEF FirstBlend
<1>4. CASE run = 1
    <2>1. Readable(Session) => dir[Session] = run
        BY <1>4 DEF Readable, Runs, IInv, NoneFromTheFuture, Files
    <2> QED
        BY <1>1, <1>4, <2>1, BlendLoads DEF FirstBlend
<1>5. CASE run \notin {0, 1}
    BY <1>1, <1>5 DEF FirstBlend
<1> QED
    BY <1>3, <1>4, <1>5

(* A directory that has seen one run is loaded whole or refused, wherever the *)
(* run was stopped: the blend never works on part of what it wrote.           *)
THEOREM FirstRunAllOrNothing == Spec => []FirstRunIsAllOrNothing
<1>1. Init => FirstBlend
    BY DEF Init, FirstBlend, NoBlend
<1>2. IInv /\ AskedFor /\ FirstBlend /\ [Next]_vars => FirstBlend'
    <2> SUFFICES ASSUME IInv, AskedFor, FirstBlend, [Next]_vars
                 PROVE  FirstBlend'
        OBVIOUS
    <2>1. CASE UNCHANGED vars
        BY <2>1 DEF vars, FirstBlend, Loaded, Got, Mine
    <2>2. CASE Next
        BY <2>2, FirstBlendAnalyze, FirstBlendBlend DEF Next, BlendStep
    <2> QED
        BY <2>1, <2>2
<1>3. IInv /\ AskedFor /\ FirstBlend => FirstRunIsAllOrNothing
    BY LoadedIsWhole DEF FirstBlend, FirstRunIsAllOrNothing, Mine
<1> QED
    BY <1>1, <1>2, <1>3, StoreInvariant, PTL DEF Spec

-----------------------------------------------------------------------------
(* A blend of a directory in which no analyze is going.                       *)

(* Once a run without surfaces is past them there is no surfaces.json, unless *)
(* its removal was refused, and a run that returned Ok has left session.json. *)
NoneLeft == ~Mine.surfaces => dir[Surfaces] = Absent \/ kept

Settled ==
    /\ Going /\ stage = "session" => NoneLeft
    /\ run # 0 /\ fate[run] = "ok" => dir[Session] = run /\ NoneLeft

\* What a blend of the latest run may hold as this file.
Pure(f, v) == v \in {run, Absent} \/ (f = Surfaces /\ kept)

QuietBlend ==
    blend.quiet =>
        /\ ~Going
        /\ run # 0 /\ fate[run] = "ok" =>
              Loaded /\ \A f \in Files : Pure(f, Got(f))

LEMMA SettledStep ==
    ASSUME IInv, AskedFor, Settled, [Next]_vars
    PROVE  Settled'
<1>1. ASSUME NEW a \in Asks, StartAnalyze(a) PROVE Settled'
    <2>1. run' = run + 1 /\ run + 1 \in Runs /\ fate' = [fate EXCEPT ![run + 1] = "going"]
          /\ stage' = "align"
        BY <1>1, StoreAssumption DEF StartAnalyze, IInv, Typed, Runs
    <2>2. fate'[run'] = "going"
        BY <2>1 DEF IInv, Typed
    <2> QED
        BY <2>1, <2>2 DEF Settled, NoneLeft
<1>2. ASSUME NEW f \in Files, Truncate(f) \/ Complete(f) PROVE Settled'
    <2>1. Going /\ f \in todo \cup open /\ UNCHANGED <<run, stage, fate, kept>> /\ Mine' = Mine
          /\ \E c : dir' = [dir EXCEPT ![f] = c]
        BY <1>2 DEF Truncate, Complete, Mine
    <2>2. Mine \in Asks /\ dir \in [Files -> Content] /\ Surfaces \in Files
        BY <2>1 DEF IInv, Typed, AskedFor, Going, Files
    <2>3. stage = "session" => f = Session
        BY <2>1, <2>2, SessionStage DEF IInv, Progress, StageNames
    <2>4. stage = "session" => dir'[Surfaces] = dir[Surfaces]
        BY <2>1, <2>2, <2>3 DEF Session, Surfaces
    <2> QED
        BY <2>1, <2>4 DEF Settled, NoneLeft, Going
<1>3. CASE NextStage
    <2>1. /\ Going /\ todo = {} /\ open = {} /\ stage' = After(stage)
          /\ run' = run /\ ask' = ask /\ Mine' = Mine
        BY <1>3 DEF NextStage, Mine
    <2>2. run \in Runs /\ Mine \in Asks /\ stage \in StageNames
        BY <2>1, StoreAssumption DEF IInv, Typed, Going, Runs, AskedFor, Mine, Progress
    <2>3. PICK refused \in BOOLEAN :
              dir' = [dir EXCEPT ![Surfaces] = SurfacesAfter(refused)] /\ kept' = (kept \/ refused)
        BY <1>3 DEF NextStage
    <2> DEFINE c == SurfacesAfter(refused)
    <2>4. dir \in [Files -> Content] /\ Surfaces \in Files /\ Session \in Files /\ Session # Surfaces
        BY DEF IInv, Typed, Files, Session, Surfaces
    <2>5. dir'[Surfaces] = c /\ dir'[Session] = dir[Session]
        BY <2>3, <2>4
    <2>6. CASE stage = "session"
        <3>1. fate' = [fate EXCEPT ![run] = "ok"] /\ stage' = "end"
            BY <1>3, <2>1, <2>6, StageSteps DEF NextStage, StageNames
        <3>2. fate'[run] = "ok"
            BY <2>2, <3>1 DEF IInv, Typed
        <3>3. dir[Session] = run
            BY <2>1, <2>2, <2>6, SessionStage, SessionRank DEF IInv, Progress
        <3>4. c = dir[Surfaces] /\ (kept => kept')
            BY <2>3, <2>6 DEF SurfacesAfter, Removing
        <3> QED
            BY <2>1, <2>5, <2>6, <3>1, <3>2, <3>3, <3>4 DEF Settled, NoneLeft, Going
    <2>7. CASE stage # "session"
        <3>1. stage' # "end" /\ fate' = fate
            BY <1>3, <2>1, <2>2, <2>7, StageSteps DEF NextStage
        <3>2. stage' = "session" => stage = "surfaces"
            BY <2>1, <2>2, <2>7 DEF After, StageNames
        <3>3. stage = "surfaces" /\ ~Mine.surfaces => c = Absent \/ kept'
            BY <2>3 DEF SurfacesAfter, Removing
        <3> QED
            BY <2>1, <2>5, <3>1, <3>2, <3>3 DEF Settled, NoneLeft, Going
    <2> QED
        BY <2>6, <2>7
<1>4. CASE StopAnalyze
    <2>1. run' = run /\ run \in Runs /\ fate' = [fate EXCEPT ![run] = "failed"]
        BY <1>4, StoreAssumption DEF StopAnalyze, Going, IInv, Typed, Runs
    <2>2. fate'[run] = "failed"
        BY <2>1 DEF IInv, Typed
    <2> QED
        BY <2>1, <2>2 DEF Settled, NoneLeft, Going
<1>5. CASE BlendStep
    BY <1>5, BlendKeeps DEF Settled, NoneLeft, Going, Mine
<1>6. CASE UNCHANGED vars
    BY <1>6 DEF vars, Settled, NoneLeft, Going, Mine
<1> QED
    BY <1>1, <1>2, <1>3, <1>4, <1>5, <1>6 DEF Next, BlendStep

(* A step of a blend that works on a whole run takes that run's files, or no  *)
(* surfaces where there are none.                                             *)
LEMMA BlendTakes ==
    ASSUME IInv, AskedFor, run # 0, dir[Session] = run, NoneLeft,
           Loaded, \A f \in Files : Pure(f, Got(f)), BlendStep
    PROVE  \A f \in Files : Pure(f, blend'.got[f])
<1>1. blend \in [doing : Doings, got : [Files -> Content], quiet : BOOLEAN]
      /\ dir \in [Files -> Content] /\ Mine \in Asks
    BY DEF IInv, Typed, AskedFor
<1>2. \A s \in StageNames : \A f \in StageFiles(Mine, s) : dir[f] = run
    BY LastRunWhole
<1>3. /\ dir[Graph] = run /\ dir[Photometry] = run
      /\ Mine.surfaces => dir[Surfaces] = run
    BY <1>2 DEF StageFiles, StageNames
<1>3a. Pure(Graph, dir[Graph]) /\ Pure(Photometry, dir[Photometry]) /\ Pure(Session, dir[Session])
       /\ (dir[Surfaces] # Absent => Pure(Surfaces, dir[Surfaces]))
    BY <1>3 DEF Pure, NoneLeft
<1>4. \A f \in Files : Pure(f, blend.got[f])
    BY DEF Got
<1>4a. \A f : Pure(f, run) /\ Pure(f, Absent)
    BY DEF Pure
<1>5. CASE StartBlend \/ EndBlend
    <2>1. blend'.got = [f \in Files |-> Absent]
        <3>1. CASE StartBlend
            <4>1. blend' = [doing |-> "session", got |-> [f \in Files |-> Absent], quiet |-> ~Going]
                BY <3>1 DEF StartBlend, NoBlend
            <4> QED
                BY <4>1
        <3>2. CASE EndBlend
            BY <3>2 DEF EndBlend, NoBlend
        <3> QED
            BY <1>5, <3>1, <3>2
    <2> QED
        BY <1>4a, <2>1
<1>6. ASSUME NEW now, NEW f \in Files, NEW then \in Doings, Load(now, f, then), Pure(f, dir[f])
      PROVE  \A g \in Files : Pure(g, blend'.got[g])
    <2>1. \/ blend' = [blend EXCEPT !.doing = then, !.got[f] = dir[f]]
          \/ blend' = [blend EXCEPT !.doing = "refused"]
        BY <1>6 DEF Load
    <2>2. blend'.got = [blend.got EXCEPT ![f] = dir[f]] \/ blend'.got = blend.got
        BY <1>1, <2>1
    <2> QED
        BY <1>1, <1>4, <1>6, <2>2
<1>7. ASSUME NEW now, NEW files, NEW then \in Doings, LoadAll(now, files, then),
             \A f \in files : dir[f] = run
      PROVE  \A g \in Files : Pure(g, blend'.got[g])
    <2>1. \/ blend' = [blend EXCEPT !.doing = then,
                         !.got = [f \in Files |-> IF f \in files THEN dir[f] ELSE @[f]]]
          \/ blend' = [blend EXCEPT !.doing = "refused"]
        BY <1>7 DEF LoadAll
    <2>2. \/ blend'.got = [f \in Files |-> IF f \in files THEN dir[f] ELSE blend.got[f]]
          \/ blend'.got = blend.got
        BY <1>1, <2>1
    <2> QED
        BY <1>4, <1>4a, <1>7, <2>2
<1>8. Session \in Files /\ Graph \in Files /\ Photometry \in Files /\ Surfaces \in Files
      /\ {"graph", "photometry", "surfaces", "summaries", "pixels", "loaded"} \subseteq Doings
    BY DEF Files, Doings
<1>9. CASE Load("session", Session, "graph") \/ Load("graph", Graph, "photometry")
           \/ Load("photometry", Photometry, "surfaces")
    BY <1>3a, <1>6, <1>8, <1>9
<1>10. CASE LoadSurfaces
    <2>1. CASE dir[Surfaces] = Absent
        <3>1. blend' = [blend EXCEPT !.doing = "summaries"]
            BY <1>10, <2>1 DEF LoadSurfaces
        <3>2. blend'.got = blend.got
            BY <1>1, <3>1
        <3> QED
            BY <1>4, <3>2
    <2>2. CASE dir[Surfaces] # Absent
        BY <1>3a, <1>6, <1>8, <1>10, <2>2 DEF LoadSurfaces
    <2> QED
        BY <2>1, <2>2
<1>11. CASE LoadSummaries
    <2>1. blend.doing = "summaries"
        BY <1>11 DEF LoadSummaries, LoadAll
    <2>2. Got(Session) = run
        BY <2>1, BehindSets DEF Loaded
    <2>3. \A f \in {Summary(p) : p \in PanelsOf(Named)} : dir[f] = run
        BY <1>2, <2>2 DEF Named, Mine, StageFiles, StageNames, Written
    <2> QED
        BY <1>7, <1>8, <1>11, <2>3 DEF LoadSummaries
<1>12. CASE LoadPixels
    <2> DEFINE files == {Aligned(p) : p \in IF Named.solved THEN PanelsOf(Named) ELSE {}}
    <2>1. blend.doing = "pixels"
        BY <1>12 DEF LoadPixels, LoadAll
    <2>2. Got(Session) = run
        BY <2>1, BehindSets DEF Loaded
    <2>3. \A f \in files : dir[f] = run
        BY <1>2, <2>2 DEF Named, Mine, StageFiles, StageNames, Written
    <2> HIDE DEF files
    <2>4. CASE LoadAll("pixels", files, "loaded")
        BY <1>7, <1>8, <2>3, <2>4
    <2>5. CASE blend' = [blend EXCEPT !.doing = "refused"]
        <3>1. blend'.got = blend.got
            BY <1>1, <2>5
        <3> QED
            BY <1>4, <3>1
    <2> QED
        BY <1>12, <2>4, <2>5 DEF LoadPixels, files
<1> QED
    BY <1>5, <1>9, <1>10, <1>11, <1>12 DEF BlendStep

LEMMA QuietStep ==
    ASSUME IInv, AskedFor, Settled, QuietBlend, [Next]_vars
    PROVE  QuietBlend'
<1>0. blend \in [doing : Doings, got : [Files -> Content], quiet : BOOLEAN]
    BY DEF IInv, Typed
<1>1. ASSUME NEW a \in Asks, StartAnalyze(a) PROVE QuietBlend'
    <2>1. blend'.quiet = FALSE
        BY <1>0, <1>1 DEF StartAnalyze
    <2> QED
        BY <2>1 DEF QuietBlend
<1>2. CASE (\E f \in Files : Truncate(f) \/ Complete(f)) \/ NextStage \/ StopAnalyze
    <2>1. Going /\ blend' = blend
        BY <1>2 DEF Truncate, Complete, NextStage, StopAnalyze
    <2> QED
        BY <2>1 DEF QuietBlend
<1>3. CASE BlendStep
    <2> SUFFICES ASSUME blend'.quiet
                 PROVE  /\ ~Going
                        /\ run # 0 /\ fate[run] = "ok" =>
                              Loaded' /\ \A f \in Files : Pure(f, blend'.got[f])
        BY <1>3, BlendKeeps DEF QuietBlend, Going, Got, Pure
    <2>1. UNCHANGED <<dir, ask, fate, run, stage, todo, open, kept>>
        BY <1>3, BlendKeeps
    <2>2. CASE StartBlend
        <3>1. blend' = [doing |-> "session", got |-> [f \in Files |-> Absent], quiet |-> ~Going]
            BY <2>2 DEF StartBlend, NoBlend
        <3>2. blend'.doing = "session" /\ (\A f \in Files : blend'.got[f] = Absent) /\ ~Going
            BY <3>1
        <3> QED
            BY <3>2, BehindSets DEF Loaded, Pure
    <2>3. CASE EndBlend
        BY <2>3 DEF EndBlend, NoBlend
    <2>4. CASE ~StartBlend /\ ~EndBlend
        <3>1. blend.quiet
            <4>1. ASSUME NEW now, NEW f, NEW then, Load(now, f, then) PROVE blend'.quiet = blend.quiet
                BY <1>0, <4>1 DEF Load
            <4>2. ASSUME NEW now, NEW files, NEW then, LoadAll(now, files, then)
                  PROVE  blend'.quiet = blend.quiet
                BY <1>0, <4>2 DEF LoadAll
            <4>3. LoadSurfaces => blend'.quiet = blend.quiet
                BY <1>0, <4>1 DEF LoadSurfaces
            <4>4. LoadPixels => blend'.quiet = blend.quiet
                BY <1>0, <4>2 DEF LoadPixels
            <4> QED
                BY <1>3, <2>4, <4>1, <4>2, <4>3, <4>4 DEF BlendStep, LoadSummaries
        <3>2. ~Going /\ (run # 0 /\ fate[run] = "ok" =>
                           Loaded /\ \A f \in Files : Pure(f, Got(f)))
            BY <3>1 DEF QuietBlend
        <3> SUFFICES ASSUME run # 0, fate[run] = "ok"
                     PROVE  Loaded' /\ \A f \in Files : Pure(f, blend'.got[f])
            BY <3>2
        <3>3. dir[Session] = run /\ NoneLeft
            BY DEF Settled
        <3> QED
            BY <1>3, <3>2, <3>3, BlendLoads, BlendTakes
    <2> QED
        BY <2>2, <2>3, <2>4
<1>4. CASE UNCHANGED vars
    BY <1>4 DEF vars, QuietBlend, Loaded, Going, Got, Mine, Pure
<1> QED
    BY <1>1, <1>2, <1>3, <1>4 DEF Next, BlendStep

(* A blend that no analyze disturbs works on the last run's files and on none *)
(* that an earlier run, interrupted or larger, left behind; but for an old    *)
(* surfaces.json whose removal the file system refused that run.              *)
THEOREM QuietBlendAlwaysPure == Spec => []QuietBlendIsPure
<1>1. Init => Settled /\ QuietBlend
    BY DEF Init, Settled, QuietBlend, Going, NoBlend
<1>2. IInv /\ AskedFor /\ Settled /\ QuietBlend /\ [Next]_vars => Settled' /\ QuietBlend'
    BY SettledStep, QuietStep
<1>3. IInv /\ AskedFor /\ Settled /\ QuietBlend => QuietBlendIsPure
    BY LoadedIsWhole DEF QuietBlend, QuietBlendIsPure, Mine, Pure
<1> QED
    BY <1>1, <1>2, <1>3, StoreInvariant, PTL DEF Spec

-----------------------------------------------------------------------------
(* The decode cache: the invariant.                                           *)

Working == {"decoding", "written"}
Holding == {"locked"} \cup Working

ThreadDoings == {"idle", "opened", "keyed", "waiting", "locked", "decoding", "written", "done",
           "failed"}

Thread == [doing : ThreadDoings,
           opened : Versions \cup {Nothing}, key : Keys \cup {NoKey}, tmp : Names \cup {NoName},
           got : Versions \cup {Nothing}, faulted : BOOLEAN]
Process == [pid : Pids, count : Nat, lock : Threads \cup {Nobody}]

CacheTyped ==
  /\ src \in Versions /\ sums \subseteq Versions /\ mixed \subseteq Keys
  /\ cache \in [Keys -> Versions \cup {Nothing, Partial}]
  /\ tmps \in [Names -> Versions \cup {Nothing, Partial}]
  /\ proc \in [Procs -> Process] /\ th \in [Threads -> Thread]
  /\ used \subseteq Pids
  /\ decodes \in [Procs -> [Keys -> Nat]]
  /\ kills \in Nat /\ faults \in Nat

\* Key k suits a panel of version o: it carries its checksum, or else bears the
\* path's state as of o, unless two versions got mixed up in it.
KeyFits(M, k, o) ==
  IF o \in sums THEN k[2] = o ELSE k[2] = Nothing /\ (k[1] = o \/ k \in M)

\* Version g mapped by who opened o under key k.
MapFits(M, k, o, g) == g = o \/ (o \notin sums /\ k \in M)

\* A thread that got so far knows the panel it opened, and a key that suits it.
ThreadInv ==
  \A t \in Threads :
    /\ th[t].doing # "idle" => th[t].opened \in Versions
    /\ th[t].doing \notin {"idle", "opened"} =>
         th[t].key \in Keys /\ KeyFits(mixed, th[t].key, th[t].opened)

\* A file under a key is whole, and of a version the key suits.
CacheInv ==
  \A k \in Keys :
    cache[k] # Partial /\ (cache[k] # Nothing => KeyFits(mixed, k, cache[k]))

\* The holder of a process's lock is the one thread of it on its way through.
LockInv ==
  /\ \A t \in Threads : th[t].doing \in Holding => ProcOf(t).lock = t
  /\ LockHasWorker

\* No two living processes share a pid.
PidInv == \A p, q \in Procs : p # q => proc[p].pid # proc[q].pid

\* A temporary file bears the pid of the process that writes it.
TmpInv ==
  \A t \in Threads : th[t].doing \in Working =>
    /\ th[t].tmp \in Names /\ th[t].tmp[2] = ProcOf(t).pid
    /\ tmps[th[t].tmp] = IF th[t].doing = "decoding" THEN Partial ELSE th[t].opened

\* Each attempt was one of a thread that will not try again.
Spent(p) == {t \in Threads : Owner[t] = p /\ th[t].doing \in Working \cup {"done", "failed"}}

CountInv == \A p \in Procs : proc[p].count <= Cardinality(Spent(p))

\* A key a process has decoded is there, or about to be put there by the thread
\* that decoded it; none is decoded that was decoded before.
DecodesInv ==
  /\ \A p \in Procs : \A k \in Keys : decodes[p][k] # 0 =>
       /\ decodes[p][k] = 1
       /\ \/ Valid(k)
          \/ \E t \in Threads : Owner[t] = p /\ th[t].key = k /\ th[t].doing = "written"
  /\ \A t \in Threads : th[t].doing = "decoding" => decodes[Owner[t]][th[t].key] = 0

\* What a thread has mapped.
MappedInv ==
  \A t \in Threads : th[t].doing = "done" =>
    th[t].got \in Versions /\ MapFits(mixed, th[t].key, th[t].opened, th[t].got)

CacheIInv == /\ CacheTyped /\ ThreadInv /\ CacheInv /\ LockInv /\ PidInv /\ TmpInv /\ CountInv
        /\ DecodesInv /\ NoLeftovers /\ MappedInv

-----------------------------------------------------------------------------
(* What a step makes of its thread and of the thread's process.               *)

ThreadIs(d, o, k, m, g, f) ==
  [doing |-> d, opened |-> o, key |-> k, tmp |-> m, got |-> g, faulted |-> f]
ProcessIs(i, c, l) == [pid |-> i, count |-> c, lock |-> l]

\* The step makes th[t] this record.
Becomes(t, r) == th' = [th EXCEPT ![t] = r]

\* The step makes the process of t this record.
Sets(t, r) == proc' = [proc EXCEPT ![Owner[t]] = r]

LEMMA ThreadMove ==
  ASSUME CacheTyped, NEW t \in Threads
  PROVE  LET a == th[t] IN
    /\ Open(t) => Becomes(t, ThreadIs("opened", src, a.key, a.tmp, a.got, a.faulted))
    /\ Key(t)  => Becomes(t, ThreadIs("keyed", a.opened, CacheKey(a.opened), a.tmp, a.got, a.faulted))
    /\ Look(t) /\ ~Valid(a.key) =>
         Becomes(t, ThreadIs("waiting", a.opened, a.key, a.tmp, a.got, a.faulted))
    /\ (Look(t) /\ Valid(a.key)) \/ LookAgain(t) \/ RenameRefused(t) =>
         Becomes(t, ThreadIs("done", a.opened, a.key, a.tmp, cache[a.key], a.faulted))
    /\ Lock(t) => Becomes(t, ThreadIs("locked", a.opened, a.key, a.tmp, a.got, a.faulted))
    /\ CreateTmp(t) =>
         Becomes(t, ThreadIs("decoding", a.opened, a.key, TmpName(t), a.got, a.faulted))
    /\ TmpTaken(t) => Becomes(t, ThreadIs("failed", a.opened, a.key, a.tmp, a.got, a.faulted))
    /\ Decode(t) => Becomes(t, ThreadIs("written", a.opened, a.key, a.tmp, a.got, a.faulted))
    /\ DecodeFails(t) => Becomes(t, ThreadIs("failed", a.opened, a.key, a.tmp, a.got, TRUE))
    /\ Rename(t) => Becomes(t, ThreadIs("done", a.opened, a.key, a.tmp, tmps[a.tmp], a.faulted))
<1>. DEFINE a == th[t]
<1>1. th \in [Threads -> Thread] /\ a \in Thread
  BY DEF CacheTyped
<1>2. ASSUME NEW r, th' = [th EXCEPT ![t] = r] PROVE Becomes(t, r)
  BY <1>2 DEF Becomes
<1>. HIDE DEF a
<1>3. ASSUME NEW d PROVE [a EXCEPT !.doing = d] = ThreadIs(d, a.opened, a.key, a.tmp, a.got, a.faulted)
  BY <1>1 DEF Thread, ThreadIs
<1>4. ASSUME NEW d \in ThreadDoings, NEW v
      PROVE  [[a EXCEPT !.doing = d] EXCEPT !.opened = v] = ThreadIs(d, v, a.key, a.tmp, a.got, a.faulted)
  <2>. DEFINE r == [a EXCEPT !.doing = d]
  <2>1. r = ThreadIs(d, a.opened, a.key, a.tmp, a.got, a.faulted)
    BY <1>3
  <2>2. r \in Thread
    BY <1>1 DEF Thread
  <2>3. /\ r.doing = d /\ r.opened = a.opened /\ r.key = a.key /\ r.tmp = a.tmp
        /\ r.got = a.got /\ r.faulted = a.faulted
    BY <2>1 DEF ThreadIs
  <2>. HIDE DEF r
  <2>4. [r EXCEPT !.opened = v] = ThreadIs(d, v, a.key, a.tmp, a.got, a.faulted)
    BY <2>2, <2>3 DEF Thread, ThreadIs
  <2>. QED
    BY <2>4 DEF r
<1>5. ASSUME NEW d \in ThreadDoings, NEW v
      PROVE  [[a EXCEPT !.doing = d] EXCEPT !.key = v] = ThreadIs(d, a.opened, v, a.tmp, a.got, a.faulted)
  <2>. DEFINE r == [a EXCEPT !.doing = d]
  <2>1. r = ThreadIs(d, a.opened, a.key, a.tmp, a.got, a.faulted)
    BY <1>3
  <2>2. r \in Thread
    BY <1>1 DEF Thread
  <2>3. /\ r.doing = d /\ r.opened = a.opened /\ r.key = a.key /\ r.tmp = a.tmp
        /\ r.got = a.got /\ r.faulted = a.faulted
    BY <2>1 DEF ThreadIs
  <2>. HIDE DEF r
  <2>4. [r EXCEPT !.key = v] = ThreadIs(d, a.opened, v, a.tmp, a.got, a.faulted)
    BY <2>2, <2>3 DEF Thread, ThreadIs
  <2>. QED
    BY <2>4 DEF r
<1>6. ASSUME NEW d \in ThreadDoings, NEW v
      PROVE  [[a EXCEPT !.doing = d] EXCEPT !.tmp = v] = ThreadIs(d, a.opened, a.key, v, a.got, a.faulted)
  <2>. DEFINE r == [a EXCEPT !.doing = d]
  <2>1. r = ThreadIs(d, a.opened, a.key, a.tmp, a.got, a.faulted)
    BY <1>3
  <2>2. r \in Thread
    BY <1>1 DEF Thread
  <2>3. /\ r.doing = d /\ r.opened = a.opened /\ r.key = a.key /\ r.tmp = a.tmp
        /\ r.got = a.got /\ r.faulted = a.faulted
    BY <2>1 DEF ThreadIs
  <2>. HIDE DEF r
  <2>4. [r EXCEPT !.tmp = v] = ThreadIs(d, a.opened, a.key, v, a.got, a.faulted)
    BY <2>2, <2>3 DEF Thread, ThreadIs
  <2>. QED
    BY <2>4 DEF r
<1>7. ASSUME NEW d \in ThreadDoings, NEW v
      PROVE  [[a EXCEPT !.doing = d] EXCEPT !.got = v] = ThreadIs(d, a.opened, a.key, a.tmp, v, a.faulted)
  <2>. DEFINE r == [a EXCEPT !.doing = d]
  <2>1. r = ThreadIs(d, a.opened, a.key, a.tmp, a.got, a.faulted)
    BY <1>3
  <2>2. r \in Thread
    BY <1>1 DEF Thread
  <2>3. /\ r.doing = d /\ r.opened = a.opened /\ r.key = a.key /\ r.tmp = a.tmp
        /\ r.got = a.got /\ r.faulted = a.faulted
    BY <2>1 DEF ThreadIs
  <2>. HIDE DEF r
  <2>4. [r EXCEPT !.got = v] = ThreadIs(d, a.opened, a.key, a.tmp, v, a.faulted)
    BY <2>2, <2>3 DEF Thread, ThreadIs
  <2>. QED
    BY <2>4 DEF r
<1>8. ASSUME NEW d \in ThreadDoings, NEW v
      PROVE  [[a EXCEPT !.doing = d] EXCEPT !.faulted = v] = ThreadIs(d, a.opened, a.key, a.tmp, a.got, v)
  <2>. DEFINE r == [a EXCEPT !.doing = d]
  <2>1. r = ThreadIs(d, a.opened, a.key, a.tmp, a.got, a.faulted)
    BY <1>3
  <2>2. r \in Thread
    BY <1>1 DEF Thread
  <2>3. /\ r.doing = d /\ r.opened = a.opened /\ r.key = a.key /\ r.tmp = a.tmp
        /\ r.got = a.got /\ r.faulted = a.faulted
    BY <2>1 DEF ThreadIs
  <2>. HIDE DEF r
  <2>4. [r EXCEPT !.faulted = v] = ThreadIs(d, a.opened, a.key, a.tmp, a.got, v)
    BY <2>2, <2>3 DEF Thread, ThreadIs
  <2>. QED
    BY <2>4 DEF r
<1>9. Open(t) =>
        Becomes(t, ThreadIs("opened", src, a.key, a.tmp, a.got, a.faulted))
  BY <1>1, <1>2, <1>4 DEF Open, ThreadDoings, a
<1>10. Key(t) =>
        Becomes(t, ThreadIs("keyed", a.opened, CacheKey(a.opened), a.tmp, a.got, a.faulted))
  BY <1>1, <1>2, <1>5 DEF Key, ThreadDoings, a
<1>11. Look(t) /\ ~Valid(a.key) =>
        Becomes(t, ThreadIs("waiting", a.opened, a.key, a.tmp, a.got, a.faulted))
  BY <1>1, <1>2, <1>3 DEF Look, ThreadDoings, a
<1>12. Look(t) /\ Valid(a.key) =>
        Becomes(t, ThreadIs("done", a.opened, a.key, a.tmp, cache[a.key], a.faulted))
  BY <1>1, <1>2, <1>7 DEF Look, Found, ThreadDoings, a
<1>13. LookAgain(t) \/ RenameRefused(t) =>
        Becomes(t, ThreadIs("done", a.opened, a.key, a.tmp, cache[a.key], a.faulted))
  BY <1>1, <1>2, <1>7 DEF LookAgain, RenameRefused, Found, ThreadDoings, a
<1>14. Lock(t) =>
        Becomes(t, ThreadIs("locked", a.opened, a.key, a.tmp, a.got, a.faulted))
  BY <1>1, <1>2, <1>3 DEF Lock, ThreadDoings, a
<1>15. CreateTmp(t) =>
        Becomes(t, ThreadIs("decoding", a.opened, a.key, TmpName(t), a.got, a.faulted))
  BY <1>1, <1>2, <1>6 DEF CreateTmp, ThreadDoings, a
<1>16. TmpTaken(t) =>
        Becomes(t, ThreadIs("failed", a.opened, a.key, a.tmp, a.got, a.faulted))
  BY <1>1, <1>2, <1>3 DEF TmpTaken, ThreadDoings, a
<1>17. Decode(t) =>
        Becomes(t, ThreadIs("written", a.opened, a.key, a.tmp, a.got, a.faulted))
  BY <1>1, <1>2, <1>3 DEF Decode, ThreadDoings, a
<1>18. DecodeFails(t) =>
        Becomes(t, ThreadIs("failed", a.opened, a.key, a.tmp, a.got, TRUE))
  <2>1. [[a EXCEPT !.doing = "failed"] EXCEPT !.faulted = TRUE]
          = ThreadIs("failed", a.opened, a.key, a.tmp, a.got, TRUE)
    BY <1>8 DEF ThreadDoings
  <2>. QED
    BY <1>1, <1>2, <2>1 DEF DecodeFails, a
<1>19. Rename(t) =>
        Becomes(t, ThreadIs("done", a.opened, a.key, a.tmp, tmps[a.tmp], a.faulted))
  BY <1>1, <1>2, <1>7 DEF Rename, ThreadDoings, a
<1>. QED
  BY <1>9, <1>10, <1>11, <1>12, <1>13, <1>14, <1>15, <1>16, <1>17, <1>18, <1>19 DEF a

LEMMA ProcessMove ==
  ASSUME CacheTyped, NEW t \in Threads
  PROVE  LET p == ProcOf(t) IN
    /\ Open(t) \/ Key(t) \/ Look(t) \/ Decode(t) => proc' = proc
    /\ Lock(t) => Sets(t, ProcessIs(p.pid, p.count, t))
    /\ CreateTmp(t) => Sets(t, ProcessIs(p.pid, p.count + 1, p.lock))
    /\ TmpTaken(t) => Sets(t, ProcessIs(p.pid, p.count + 1, Nobody))
    /\ LookAgain(t) \/ DecodeFails(t) \/ Rename(t) \/ RenameRefused(t) =>
         Sets(t, ProcessIs(p.pid, p.count, Nobody))
<1>. DEFINE o == Owner[t]
            p == proc[o]
<1>1. proc \in [Procs -> Process] /\ p \in Process /\ o \in Procs
  BY DecodedAssumption DEF CacheTyped
<1>2. ASSUME NEW r, proc' = [proc EXCEPT ![o] = r] PROVE Sets(t, r)
  BY <1>2 DEF Sets
<1>3. ASSUME NEW l PROVE [p EXCEPT !.lock = l] = ProcessIs(p.pid, p.count, l)
  BY <1>1 DEF Process, ProcessIs
<1>4. ASSUME NEW c PROVE [p EXCEPT !.count = c] = ProcessIs(p.pid, c, p.lock)
  BY <1>1 DEF Process, ProcessIs
<1>5. Open(t) \/ Key(t) \/ Look(t) \/ Decode(t) => proc' = proc
  BY DEF Open, Key, Look, Decode
<1>6. Lock(t) => Sets(t, ProcessIs(p.pid, p.count, t))
  BY <1>1, <1>2, <1>3 DEF Lock
<1>7. CreateTmp(t) => Sets(t, ProcessIs(p.pid, p.count + 1, p.lock))
  BY <1>1, <1>2, <1>4 DEF CreateTmp
<1>8. LookAgain(t) \/ DecodeFails(t) \/ Rename(t) \/ RenameRefused(t) =>
        Sets(t, ProcessIs(p.pid, p.count, Nobody))
  BY <1>1, <1>2, <1>3 DEF LookAgain, DecodeFails, Rename, RenameRefused, Unlock
<1>9. TmpTaken(t) => Sets(t, ProcessIs(p.pid, p.count + 1, Nobody))
  <2>. SUFFICES ASSUME TmpTaken(t) PROVE Sets(t, ProcessIs(p.pid, p.count + 1, Nobody))
    OBVIOUS
  <2>. DEFINE one == [proc EXCEPT ![o].count = p.count + 1]
  <2>1. proc' = [one EXCEPT ![o].lock = Nobody]
    BY DEF TmpTaken, Unlock
  <2>2. one[o] = ProcessIs(p.pid, p.count + 1, p.lock) /\ \A q \in Procs : q # o => one[q] = proc[q]
    BY <1>1, <1>4
  <2>3. DOMAIN one = Procs
    BY <1>1
  <2>. HIDE DEF one
  <2>4. proc' = [one EXCEPT ![o] = [one[o] EXCEPT !.lock = Nobody]]
    BY <2>1
  <2>5. [one[o] EXCEPT !.lock = Nobody] = ProcessIs(p.pid, p.count + 1, Nobody)
    BY <2>2 DEF ProcessIs
  <2>6. proc' = [proc EXCEPT ![o] = ProcessIs(p.pid, p.count + 1, Nobody)]
    <3>1. \A r : [one EXCEPT ![o] = r] = [proc EXCEPT ![o] = r]
      BY <1>1, <2>2, <2>3
    <3>. QED
      BY <2>4, <2>5, <3>1
  <2>. QED
    BY <1>2, <2>6
<1>. QED
  BY <1>5, <1>6, <1>7, <1>8, <1>9 DEF ProcOf

\* Everyone else stays as they are, and the process keeps its pid.
LEMMA Others ==
  ASSUME CacheTyped, NEW t \in Threads, Step(t)
  PROVE  /\ \A u \in Threads : u # t => th'[u] = th[u]
         /\ \A q \in Procs : q # Owner[t] => proc'[q] = proc[q]
         /\ \A q \in Procs : proc'[q].pid = proc[q].pid
         /\ src' = src /\ used' = used /\ kills' = kills
<1>1. th \in [Threads -> Thread] /\ proc \in [Procs -> Process] /\ Owner[t] \in Procs
  BY DecodedAssumption DEF CacheTyped
<1>2. \E r : Becomes(t, r)
  BY ThreadMove DEF Step
<1>3. proc' = proc \/ \E c, l : Sets(t, ProcessIs(proc[Owner[t]].pid, c, l))
  <2>. DEFINE p == ProcOf(t)
  <2>1. p = proc[Owner[t]]
    BY DEF ProcOf
  <2>. HIDE DEF p
  <2>2. proc' = proc \/ \E c, l : Sets(t, ProcessIs(p.pid, c, l))
    BY ProcessMove DEF Step, p
  <2>. QED
    BY <2>1, <2>2
<1>4. \A u \in Threads : u # t => th'[u] = th[u]
  BY <1>1, <1>2 DEF Becomes
<1>5. /\ \A q \in Procs : q # Owner[t] => proc'[q] = proc[q]
      /\ \A q \in Procs : proc'[q].pid = proc[q].pid
  <2>1. CASE proc' = proc
    BY <2>1
  <2>2. ASSUME NEW c, NEW l, Sets(t, ProcessIs(proc[Owner[t]].pid, c, l))
        PROVE  /\ \A q \in Procs : q # Owner[t] => proc'[q] = proc[q]
               /\ proc'[Owner[t]].pid = proc[Owner[t]].pid
    <3>1. ProcessIs(proc[Owner[t]].pid, c, l).pid = proc[Owner[t]].pid
      BY DEF ProcessIs
    <3>. QED
      BY <1>1, <2>2, <3>1 DEF Sets
  <2>. QED
    BY <1>3, <2>1, <2>2
<1>6. src' = src /\ used' = used /\ kills' = kills
  BY DEF Step, Open, Key, Look, Lock, LookAgain, CreateTmp, TmpTaken, Decode, DecodeFails, Rename,
         RenameRefused
<1>. QED
  BY <1>4, <1>5, <1>6

LEMMA Killed ==
  ASSUME CacheTyped, NEW p \in Procs, Kill(p)
  PROVE  /\ \A u \in Threads : th'[u] = IF Owner[u] = p THEN Idle ELSE th[u]
         /\ \A q \in Procs : q # p => proc'[q] = proc[q] /\ proc'[q].pid # proc'[p].pid
         /\ proc'[p].pid \in Pids /\ proc'[p].count = 0 /\ proc'[p].lock = Nobody
         /\ proc' \in [Procs -> Process] /\ used' \subseteq Pids
         /\ kills' = kills + 1 /\ UNCHANGED <<src, cache, tmps, faults>>
         /\ decodes' = [decodes EXCEPT ![p] = [k \in Keys |-> 0]]
<1>1. PICK pid \in Pids :
        /\ \A q \in Procs \ {p} : proc[q].pid # pid
        /\ proc' = [proc EXCEPT ![p] = ProcessIs(pid, 0, Nobody)]
        /\ used' = used \cup {pid}
  BY DEF Kill, ProcessIs
<1>2. ProcessIs(pid, 0, Nobody) \in Process
  BY DEF ProcessIs, Process
<1>3. /\ proc' \in [Procs -> Process] /\ proc'[p] = ProcessIs(pid, 0, Nobody)
      /\ \A q \in Procs : q # p => proc'[q] = proc[q]
  BY <1>1, <1>2 DEF CacheTyped
<1>4. /\ proc'[p].pid = pid /\ proc'[p].count = 0 /\ proc'[p].lock = Nobody
  BY <1>3 DEF ProcessIs
<1>5. \A q \in Procs : q # p => proc'[q].pid # proc'[p].pid
  BY <1>1, <1>3, <1>4
<1>6. used' \subseteq Pids
  BY <1>1 DEF CacheTyped
<1>7. \A u \in Threads : th'[u] = IF Owner[u] = p THEN Idle ELSE th[u]
  BY DEF Kill
<1>8. /\ kills' = kills + 1 /\ UNCHANGED <<src, cache, tmps, faults>>
      /\ decodes' = [decodes EXCEPT ![p] = [k \in Keys |-> 0]]
  BY DEF Kill
<1>. QED
  BY <1>1, <1>3, <1>4, <1>5, <1>6, <1>7, <1>8

\* Threads at their decode are of different processes and write different files.
LEMMA Apart ==
  ASSUME LockInv, PidInv, TmpInv, NEW t \in Threads, NEW u \in Threads, t # u,
         th[t].doing \in Holding, th[u].doing \in Holding
  PROVE  /\ Owner[t] # Owner[u]
         /\ th[u].doing \in Working => th[u].tmp[2] # ProcOf(t).pid
<1>1. Owner[t] \in Procs /\ Owner[u] \in Procs
  BY DecodedAssumption
<1>2. proc[Owner[t]].lock = t /\ proc[Owner[u]].lock = u
  BY DEF LockInv, ProcOf
<1>3. Owner[t] # Owner[u]
  BY <1>2
<1>. QED
  BY <1>1, <1>3 DEF PidInv, TmpInv, ProcOf

\* A process has not made more attempts than it has threads, so the name of the
\* next one is a name.
LEMMA NextName ==
  ASSUME CacheTyped, ThreadInv, CountInv, NEW t \in Threads, th[t].doing = "locked"
  PROVE  TmpName(t) \in Names /\ TmpName(t)[2] = ProcOf(t).pid
<1>1. Owner[t] \in Procs /\ proc[Owner[t]] \in Process /\ th[t].key \in Keys
  BY DecodedAssumption DEF CacheTyped, ThreadInv
<1>2. Cardinality(Spent(Owner[t])) <= Cardinality(Threads)
      /\ Cardinality(Spent(Owner[t])) \in Nat /\ Cardinality(Threads) \in Nat
  BY DecodedAssumption, FS_Subset, FS_CardinalityType DEF Spent
<1>3. ProcOf(t).count \in 0 .. Cardinality(Threads) /\ ProcOf(t).pid \in Pids
  BY <1>1, <1>2 DEF CountInv, ProcOf, Process
<1>. QED
  BY <1>1, <1>3 DEF TmpName, Names

-----------------------------------------------------------------------------
(* The invariant holds at first, and every step keeps it.                     *)

LEMMA InitIInv == CacheInit => CacheIInv
<1>. SUFFICES ASSUME CacheInit PROVE CacheIInv
  OBVIOUS
<1>1. PICK pid \in [Procs -> 1 .. Cardinality(Procs)] :
        /\ \A p, q \in Procs : p # q => pid[p] # pid[q]
        /\ proc = [p \in Procs |-> [pid |-> pid[p], count |-> 0, lock |-> Nobody]]
  BY DEF CacheInit
<1>2. Cardinality(Procs) \in Nat /\ MaxKills \in Nat
  BY DecodedAssumption, FS_CardinalityType
<1>3. 1 .. Cardinality(Procs) \subseteq Pids /\ 1 \in Versions
  BY <1>2, DecodedAssumption DEF Pids, Versions
<1>4. \A t \in Threads : th[t] = Idle /\ th[t].doing = "idle"
  <2>1. Idle.doing = "idle"
    BY DEF Idle
  <2>. QED
    BY <2>1 DEF CacheInit
<1>5. th \in [Threads -> Thread]
  <2>1. Idle \in Thread
    BY DEF Idle, Thread, ThreadDoings
  <2>. QED
    BY <2>1 DEF CacheInit
<1>6. CacheTyped
  <2>1. proc \in [Procs -> Process]
    BY <1>1, <1>3 DEF Process
  <2>2. used \subseteq Pids /\ src \in Versions /\ kills \in Nat /\ faults \in Nat
        /\ sums \subseteq Versions /\ mixed \subseteq Keys
    BY <1>3 DEF CacheInit
  <2>3. cache \in [Keys -> Versions \cup {Nothing, Partial}]
        /\ tmps \in [Names -> Versions \cup {Nothing, Partial}]
    BY DEF CacheInit
  <2>4. decodes \in [Procs -> [Keys -> Nat]]
    BY DEF CacheInit
  <2>. QED
    BY <1>5, <2>1, <2>2, <2>3, <2>4 DEF CacheTyped
<1>7. ThreadInv /\ TmpInv /\ MappedInv
  BY <1>4 DEF ThreadInv, TmpInv, Working, MappedInv
<1>8. CacheInv
  BY DEF CacheInit, CacheInv, Nothing, Partial
<1>9. LockInv
  BY <1>1, <1>4 DEF LockInv, LockHasWorker, Holding, Working
<1>10. PidInv
  BY <1>1 DEF PidInv
<1>11. CountInv
  <2>1. \A p \in Procs : Spent(p) = {} /\ proc[p].count = 0
    BY <1>1, <1>4 DEF Spent, Working
  <2>. QED
    BY <2>1, FS_EmptySet DEF CountInv
<1>12. DecodesInv
  BY <1>4 DEF CacheInit, DecodesInv
<1>13. NoLeftovers
  BY DEF CacheInit, NoLeftovers
<1>. QED
  BY <1>6, <1>7, <1>8, <1>9, <1>10, <1>11, <1>12, <1>13 DEF CacheIInv

\* Which versions carry a checksum is given; keys once mixed stay so.
LEMMA MixedGrows ==
  ASSUME CacheTyped, [CacheNext]_cacheVars
  PROVE  sums' = sums /\ mixed \subseteq mixed' /\ mixed' \subseteq Keys
<1>1. ASSUME NEW t \in Threads, Key(t)
      PROVE  sums' = sums /\ mixed \subseteq mixed' /\ mixed' \subseteq Keys
  BY <1>1 DEF Key, CacheTyped, Keys
<1>2. \/ \E t \in Threads : Key(t)
      \/ UNCHANGED <<sums, mixed>>
  BY DEF CacheNext, cacheVars, Resave, Kill, Step, Open, Look, Lock, LookAgain, CreateTmp,
         TmpTaken, Decode, DecodeFails, Rename, RenameRefused
<1>. QED
  BY <1>1, <1>2 DEF CacheTyped

LEMMA StillFits ==
  ASSUME NEW M, NEW L, M \subseteq L, NEW k, NEW o, NEW g
  PROVE  /\ KeyFits(M, k, o) => KeyFits(L, k, o)
         /\ MapFits(M, k, o, g) => MapFits(L, k, o, g)
BY DEF KeyFits, MapFits

\* Two versions under one key are the same, or neither carries a checksum and
\* the key is a mixed one.
LEMMA OneKeyOneVersion ==
  ASSUME NEW M, NEW k, NEW o \in Versions, NEW g \in Versions,
         KeyFits(M, k, o), KeyFits(M, k, g)
  PROVE  MapFits(M, k, o, g)
BY DEF KeyFits, MapFits, Versions, Nothing

LEMMA TypedStep ==
  ASSUME CacheIInv, [CacheNext]_cacheVars
  PROVE  CacheTyped'
<1>. USE DEF CacheIInv
<1>1. CASE Resave
  BY <1>1, DecodedAssumption DEF Resave, CacheTyped, Versions
<1>2. ASSUME NEW t \in Threads, Step(t) PROVE CacheTyped'
  <2>. DEFINE a == th[t]
              p == ProcOf(t)
  <2>1. /\ src \in Versions /\ a \in Thread /\ p \in Process /\ Owner[t] \in Procs
        /\ th \in [Threads -> Thread] /\ proc \in [Procs -> Process]
        /\ cache \in [Keys -> Versions \cup {Nothing, Partial}]
        /\ tmps \in [Names -> Versions \cup {Nothing, Partial}]
        /\ decodes \in [Procs -> [Keys -> Nat]]
    BY DecodedAssumption DEF CacheTyped, ProcOf
  <2>2. \A r \in Thread : Becomes(t, r) => th' \in [Threads -> Thread]
    BY <2>1 DEF Becomes
  <2>3. /\ a.doing \in ThreadDoings /\ a.opened \in Versions \cup {Nothing} /\ a.key \in Keys \cup {NoKey}
        /\ a.tmp \in Names \cup {NoName} /\ a.got \in Versions \cup {Nothing} /\ a.faulted \in BOOLEAN
    BY <2>1 DEF Thread
  <2>4. th' \in [Threads -> Thread]
    <3>. HIDE DEF a
    <3>1. CASE Open(t)
      <4>1. ThreadIs("opened", src, a.key, a.tmp, a.got, a.faulted) \in Thread
        BY <2>1, <2>3 DEF ThreadIs, Thread, ThreadDoings
      <4>. QED
        BY <2>2, <3>1, <4>1, ThreadMove DEF a
    <3>2. CASE Key(t)
      <4>1. CacheKey(a.opened) \in Keys
        BY <2>1, <2>3 DEF CacheKey, Keys
      <4>2. ThreadIs("keyed", a.opened, CacheKey(a.opened), a.tmp, a.got, a.faulted) \in Thread
        BY <2>3, <4>1 DEF ThreadIs, Thread, ThreadDoings
      <4>. QED
        BY <2>2, <3>2, <4>2, ThreadMove DEF a
    <3>3. CASE (Look(t) /\ Valid(a.key)) \/ LookAgain(t) \/ RenameRefused(t)
      <4>1. a.key \in Keys /\ Valid(a.key)
        BY <3>3 DEF Look, LookAgain, ThereByNow, RenameRefused, Ready, ThreadInv, a
      <4>2. cache[a.key] \in Versions
        BY <2>1, <4>1 DEF CacheInv, Valid
      <4>3. ThreadIs("done", a.opened, a.key, a.tmp, cache[a.key], a.faulted) \in Thread
        BY <2>3, <4>2 DEF ThreadIs, Thread, ThreadDoings
      <4>. QED
        BY <2>2, <3>3, <4>3, ThreadMove DEF a
    <3>4. CASE CreateTmp(t)
      <4>1. TmpName(t) \in Names
        BY <3>4, NextName DEF CreateTmp
      <4>2. ThreadIs("decoding", a.opened, a.key, TmpName(t), a.got, a.faulted) \in Thread
        BY <2>3, <4>1 DEF ThreadIs, Thread, ThreadDoings
      <4>. QED
        BY <2>2, <3>4, <4>2, ThreadMove DEF a
    <3>5. CASE Rename(t)
      <4>1. tmps[a.tmp] = a.opened
        BY <3>5 DEF Rename, Ready, TmpInv, Working, a
      <4>2. ThreadIs("done", a.opened, a.key, a.tmp, tmps[a.tmp], a.faulted) \in Thread
        BY <2>3, <4>1 DEF ThreadIs, Thread, ThreadDoings
      <4>. QED
        BY <2>2, <3>5, <4>2, ThreadMove DEF a
    <3>6. ASSUME NEW d \in ThreadDoings, NEW f \in BOOLEAN,
                 Becomes(t, ThreadIs(d, a.opened, a.key, a.tmp, a.got, f))
          PROVE  th' \in [Threads -> Thread]
      <4>1. ThreadIs(d, a.opened, a.key, a.tmp, a.got, f) \in Thread
        BY <2>3 DEF ThreadIs, Thread
      <4>. QED
        BY <2>2, <3>6, <4>1
    <3>7. CASE Lock(t) \/ TmpTaken(t) \/ Decode(t) \/ DecodeFails(t) \/ (Look(t) /\ ~Valid(a.key))
      <4>1. /\ "waiting" \in ThreadDoings /\ "locked" \in ThreadDoings /\ "failed" \in ThreadDoings
            /\ "written" \in ThreadDoings
        BY DEF ThreadDoings
      <4>. QED
        BY <2>3, <3>6, <3>7, <4>1, ThreadMove DEF a
    <3>. QED
      BY <1>2, <3>1, <3>2, <3>3, <3>4, <3>5, <3>7 DEF Step
  <2>5. proc' \in [Procs -> Process]
    <3>. HIDE DEF p
    <3>1. p.pid \in Pids /\ p.count \in Nat /\ p.lock \in Threads \cup {Nobody}
      BY <2>1 DEF Process
    <3>2. ASSUME NEW c \in Nat, NEW l \in Threads \cup {Nobody}, Sets(t, ProcessIs(p.pid, c, l))
          PROVE  proc' \in [Procs -> Process]
      <4>1. ProcessIs(p.pid, c, l) \in Process
        BY <3>1 DEF ProcessIs, Process
      <4>. QED
        BY <2>1, <3>2, <4>1 DEF Sets
    <3>3. p.count + 1 \in Nat
      BY <3>1
    <3>. QED
      BY <1>2, <2>1, <3>1, <3>2, <3>3, ProcessMove DEF Step, p
  <2>6. cache' \in [Keys -> Versions \cup {Nothing, Partial}]
    <3>1. CASE Rename(t)
      <4>1. a.tmp \in Names
        BY <3>1 DEF Rename, Ready, TmpInv, Working
      <4>2. cache' = [cache EXCEPT ![a.key] = tmps[a.tmp]]
        BY <3>1 DEF Rename
      <4>. QED
        BY <2>1, <4>1, <4>2
    <3>2. CASE cache' = cache
      BY <2>1, <3>2
    <3>. QED
      BY <1>2, <3>1, <3>2 DEF Step, Open, Key, Look, Lock, LookAgain, CreateTmp, TmpTaken, Decode,
                             DecodeFails, RenameRefused
  <2>7. tmps' \in [Names -> Versions \cup {Nothing, Partial}]
    <3>1. \A n : \A v \in Versions \cup {Nothing, Partial} :
            [tmps EXCEPT ![n] = v] \in [Names -> Versions \cup {Nothing, Partial}]
      BY <2>1
    <3>2. \/ tmps' = tmps
          \/ \E n : \E v \in {Nothing, Partial, a.opened} : tmps' = [tmps EXCEPT ![n] = v]
      BY <1>2 DEF Step, Open, Key, Look, Lock, LookAgain, CreateTmp, TmpTaken, Decode,
                  DecodeFails, Rename, RenameRefused, Cleaned
    <3>. QED
      BY <2>1, <2>3, <3>1, <3>2
  <2>8. decodes' \in [Procs -> [Keys -> Nat]]
    <3>1. CASE Decode(t)
      <4>1. a.key \in Keys
        BY <3>1 DEF Decode, ThreadInv
      <4>2. decodes' = [decodes EXCEPT ![Owner[t]][a.key] = decodes[Owner[t]][a.key] + 1]
        BY <3>1 DEF Decode
      <4>3. decodes[Owner[t]][a.key] + 1 \in Nat
        BY <2>1, <4>1
      <4>. QED
        BY <2>1, <4>1, <4>2, <4>3
    <3>2. CASE decodes' = decodes
      BY <2>1, <3>2
    <3>. QED
      BY <1>2, <3>1, <3>2 DEF Step, Open, Key, Look, Lock, LookAgain, CreateTmp, TmpTaken,
                             DecodeFails, Rename, RenameRefused
  <2>9. faults' \in Nat
    BY <1>2 DEF CacheTyped, Step, Open, Key, Look, Lock, LookAgain, CreateTmp, TmpTaken, Decode,
                DecodeFails, Rename, RenameRefused
  <2>10. src' \in Versions /\ used' \subseteq Pids /\ kills' \in Nat
    BY <1>2, Others DEF CacheTyped
  <2>11. sums' \subseteq Versions /\ mixed' \subseteq Keys
    BY MixedGrows DEF CacheTyped
  <2>. QED
    BY <2>4, <2>5, <2>6, <2>7, <2>8, <2>9, <2>10, <2>11 DEF CacheTyped
<1>3. ASSUME NEW p \in Procs, Kill(p) PROVE CacheTyped'
  <2>1. Idle \in Thread
    BY DEF Idle, Thread, ThreadDoings
  <2>2. th' \in [Threads -> Thread]
    BY <1>3, <2>1 DEF Kill, CacheTyped
  <2>3. decodes' \in [Procs -> [Keys -> Nat]]
    <3>1. [k \in Keys |-> 0] \in [Keys -> Nat]
      OBVIOUS
    <3>. QED
      BY <1>3, <3>1, Killed DEF CacheTyped
  <2>4. sums' \subseteq Versions /\ mixed' \subseteq Keys
    BY MixedGrows DEF CacheTyped
  <2>. QED
    BY <1>3, <2>2, <2>3, <2>4, Killed DEF CacheTyped
<1>4. CASE UNCHANGED cacheVars
  BY <1>4 DEF cacheVars, CacheTyped
<1>. QED
  BY <1>1, <1>2, <1>3, <1>4 DEF CacheNext

\* What the thread of a step is after it.
ThreadAfter(t, d, o, k, m, g) ==
  /\ th'[t].doing = d /\ th'[t].opened = o /\ th'[t].key = k /\ th'[t].tmp = m
  /\ th'[t].got = g

LEMMA Mover ==
  ASSUME CacheTyped, NEW t \in Threads
  PROVE  LET a == th[t] IN
    /\ Open(t) => ThreadAfter(t, "opened", src, a.key, a.tmp, a.got)
    /\ Key(t)  => ThreadAfter(t, "keyed", a.opened, CacheKey(a.opened), a.tmp, a.got)
    /\ Look(t) /\ ~Valid(a.key) => ThreadAfter(t, "waiting", a.opened, a.key, a.tmp, a.got)
    /\ (Look(t) /\ Valid(a.key)) \/ LookAgain(t) \/ RenameRefused(t) =>
         ThreadAfter(t, "done", a.opened, a.key, a.tmp, cache[a.key])
    /\ Lock(t) => ThreadAfter(t, "locked", a.opened, a.key, a.tmp, a.got)
    /\ CreateTmp(t) => ThreadAfter(t, "decoding", a.opened, a.key, TmpName(t), a.got)
    /\ TmpTaken(t) \/ DecodeFails(t) => ThreadAfter(t, "failed", a.opened, a.key, a.tmp, a.got)
    /\ Decode(t) => ThreadAfter(t, "written", a.opened, a.key, a.tmp, a.got)
    /\ Rename(t) => ThreadAfter(t, "done", a.opened, a.key, a.tmp, tmps[a.tmp])
<1>1. ASSUME NEW d, NEW o, NEW k, NEW m, NEW g, NEW f, Becomes(t, ThreadIs(d, o, k, m, g, f))
      PROVE  ThreadAfter(t, d, o, k, m, g)
  BY <1>1 DEF Becomes, ThreadIs, ThreadAfter, CacheTyped
<1>. QED
  BY <1>1, ThreadMove

LEMMA ThreadStep ==
  ASSUME CacheIInv, [CacheNext]_cacheVars
  PROVE  ThreadInv' /\ MappedInv'
<1>. USE DEF CacheIInv
<1>. DEFINE Ok(u) ==
       /\ th'[u].doing # "idle" => th'[u].opened \in Versions
       /\ th'[u].doing \notin {"idle", "opened"} =>
            th'[u].key \in Keys /\ KeyFits(mixed', th'[u].key, th'[u].opened)
       /\ th'[u].doing = "done" =>
            th'[u].got \in Versions /\ MapFits(mixed', th'[u].key, th'[u].opened, th'[u].got)
<1>0. sums' = sums /\ mixed \subseteq mixed'
  BY MixedGrows
<1>1. (\A u \in Threads : Ok(u)) => ThreadInv' /\ MappedInv'
  BY <1>0 DEF ThreadInv, MappedInv, KeyFits, MapFits
<1>2. ASSUME NEW u \in Threads, th'[u] = th[u] PROVE Ok(u)
  BY <1>0, <1>2, StillFits DEF ThreadInv, MappedInv
<1>3. CASE Resave \/ UNCHANGED cacheVars
  BY <1>1, <1>2, <1>3 DEF Resave, cacheVars
<1>4. ASSUME NEW p \in Procs, Kill(p) PROVE ThreadInv' /\ MappedInv'
  <2>1. \A u \in Threads : th'[u] = th[u] \/ th'[u].doing = "idle"
    BY <1>4, Killed DEF Idle
  <2>2. \A u \in Threads : th'[u].doing = "idle" => Ok(u)
    OBVIOUS
  <2>. QED
    BY <1>1, <1>2, <2>1, <2>2
<1>5. ASSUME NEW t \in Threads, Step(t) PROVE ThreadInv' /\ MappedInv'
  <2>. DEFINE a == th[t]
  <2>1. /\ a.doing # "idle" => a.opened \in Versions
        /\ a.doing \notin {"idle", "opened"} =>
             a.key \in Keys /\ KeyFits(mixed', a.key, a.opened)
    BY <1>0, StillFits DEF ThreadInv
  <2>2. src \in Versions /\ cache \in [Keys -> Versions \cup {Nothing, Partial}]
    BY DEF CacheTyped
  <2>3. ASSUME NEW o \in Versions, NEW k, NEW m, NEW g, NEW d, ThreadAfter(t, d, o, k, m, g),
               d # "opened" => k \in Keys /\ KeyFits(mixed', k, o),
               d = "done" => g \in Versions /\ MapFits(mixed', k, o, g)
        PROVE  Ok(t)
    BY <2>3 DEF ThreadAfter
  <2>. HIDE DEF Ok
  <2>4. Ok(t)
    <3>1. CASE Open(t)
      <4>1. ThreadAfter(t, "opened", src, a.key, a.tmp, a.got)
        BY <3>1, Mover
      <4>. QED
        BY <2>2, <2>3, <4>1
    <3>2. CASE Key(t)
      <4>1. a.opened \in Versions
        BY <2>1, <3>2 DEF Key
      <4>2. CacheKey(a.opened) \in Keys
        BY <2>2, <4>1 DEF CacheKey, Keys
      <4>3. KeyFits(mixed', CacheKey(a.opened), a.opened)
        <5>1. a.opened # src /\ a.opened \notin sums => <<src, Nothing>> \in mixed'
          BY <3>2 DEF Key
        <5>. QED
          BY <5>1 DEF CacheKey, KeyFits
      <4>. QED
        BY <2>3, <3>2, <4>1, <4>2, <4>3, Mover
    <3>3. CASE (Look(t) /\ Valid(a.key)) \/ LookAgain(t) \/ RenameRefused(t)
      <4>1. Valid(a.key) /\ a.doing \in {"keyed", "locked", "written"}
        BY <3>3 DEF Look, LookAgain, ThereByNow, RenameRefused, Ready
      <4>2. a.opened \in Versions /\ a.key \in Keys /\ KeyFits(mixed', a.key, a.opened)
        BY <2>1, <4>1
      <4>3. cache[a.key] \in Versions /\ KeyFits(mixed', a.key, cache[a.key])
        BY <1>0, <2>2, <4>1, <4>2, StillFits DEF CacheInv, Valid
      <4>4. MapFits(mixed', a.key, a.opened, cache[a.key])
        BY <4>2, <4>3, OneKeyOneVersion
      <4>. QED
        BY <2>3, <3>3, <4>2, <4>3, <4>4, Mover
    <3>4. CASE Rename(t)
      <4>1. a.doing = "written"
        BY <3>4 DEF Rename, Ready
      <4>2. a.opened \in Versions /\ a.key \in Keys /\ KeyFits(mixed', a.key, a.opened)
        BY <2>1, <4>1
      <4>3. tmps[a.tmp] = a.opened
        BY <4>1 DEF TmpInv, Working
      <4>4. MapFits(mixed', a.key, a.opened, a.opened)
        BY DEF MapFits
      <4>. QED
        BY <2>3, <3>4, <4>2, <4>3, <4>4, Mover
    <3>5. CASE Lock(t) \/ CreateTmp(t) \/ TmpTaken(t) \/ Decode(t) \/ DecodeFails(t)
               \/ (Look(t) /\ ~Valid(a.key))
      <4>1. a.doing \notin {"idle", "opened"}
        BY <3>5 DEF Lock, CreateTmp, TmpTaken, Decode, DecodeFails, Look
      <4>2. a.opened \in Versions /\ a.key \in Keys /\ KeyFits(mixed', a.key, a.opened)
        BY <2>1, <4>1
      <4>. QED
        BY <2>3, <3>5, <4>2, Mover
    <3>. QED
      BY <1>5, <3>1, <3>2, <3>3, <3>4, <3>5 DEF Step
  <2>. QED
    BY <1>1, <1>2, <1>5, <2>4, Others
<1>. QED
  BY <1>3, <1>4, <1>5 DEF CacheNext

\* The lock: who comes to hold it found it free, who leaves the way gives it back.
LEMMA LockStep ==
  ASSUME CacheIInv, [CacheNext]_cacheVars
  PROVE  LockInv'
<1>. USE DEF CacheIInv
<1>. DEFINE Holds(u) == th'[u].doing \in Holding => proc'[Owner[u]].lock = u
            Held(q) == proc'[q].lock # Nobody =>
                         Owner[proc'[q].lock] = q /\ th'[proc'[q].lock].doing \in Holding
<1>1. (\A u \in Threads : Holds(u)) /\ (\A q \in Procs : Held(q)) => LockInv'
  BY DEF LockInv, LockHasWorker, ProcOf, Holding, Working
<1>2. /\ \A u \in Threads : th[u].doing \in Holding => proc[Owner[u]].lock = u
      /\ \A q \in Procs : proc[q].lock # Nobody =>
           Owner[proc[q].lock] = q /\ th[proc[q].lock].doing \in Holding
  BY DEF LockInv, LockHasWorker, ProcOf, Holding, Working
<1>3. \A u \in Threads : Owner[u] \in Procs /\ u # Nobody
  BY DecodedAssumption
<1>4. \A q \in Procs : proc[q].lock \in Threads \cup {Nobody}
  BY DEF CacheTyped, Process
<1>5. CASE Resave \/ UNCHANGED cacheVars
  BY <1>1, <1>2, <1>5 DEF Resave, cacheVars
<1>6. ASSUME NEW p \in Procs, Kill(p) PROVE LockInv'
  <2>1. \A u \in Threads : Owner[u] = p => th'[u].doing \notin Holding
    BY <1>6, Killed DEF Idle, Holding, Working
  <2>2. \A u \in Threads : Owner[u] # p => th'[u] = th[u]
    BY <1>6, Killed
  <2>3. proc'[p].lock = Nobody /\ \A q \in Procs : q # p => proc'[q] = proc[q]
    BY <1>6, Killed
  <2>. QED
    BY <1>1, <1>2, <1>3, <1>4, <2>1, <2>2, <2>3
<1>7. ASSUME NEW t \in Threads, Step(t) PROVE LockInv'
  <2>. DEFINE o == Owner[t]
  <2>1. /\ \A u \in Threads : u # t => th'[u] = th[u]
        /\ \A q \in Procs : q # o => proc'[q] = proc[q]
    BY <1>7, Others
  <2>2. \A i, c, l : Sets(t, ProcessIs(i, c, l)) => proc'[o].lock = l
    BY <1>3 DEF Sets, ProcessIs, CacheTyped
  <2>3. CASE Open(t) \/ Key(t) \/ Look(t)
    <3>1. proc' = proc
      BY <2>3, ProcessMove
    <3>2. th[t].doing \notin Holding /\ th'[t].doing \notin Holding
      BY <2>3, Mover DEF Open, Key, Look, ThreadAfter, Holding, Working
    <3>. QED
      BY <1>1, <1>2, <1>3, <1>4, <2>1, <3>1, <3>2
  <2>4. CASE Lock(t)
    <3>1. proc[o].lock = Nobody
      BY <2>4 DEF Lock, LockFree, ProcOf
    <3>2. proc'[o].lock = t
      BY <2>2, <2>4, ProcessMove
    <3>3. th'[t].doing \in Holding
      BY <2>4, Mover DEF ThreadAfter, Holding
    <3>. QED
      BY <1>1, <1>2, <1>3, <1>4, <2>1, <3>1, <3>2, <3>3
  <2>5. CASE CreateTmp(t) \/ Decode(t)
    <3>1. th[t].doing \in Holding /\ th'[t].doing \in Holding
      BY <2>5, Mover DEF CreateTmp, Decode, ThreadAfter, Holding, Working
    <3>2. proc'[o].lock = proc[o].lock
      BY <2>2, <2>5, ProcessMove DEF ProcOf
    <3>. QED
      BY <1>1, <1>2, <1>3, <1>4, <2>1, <3>1, <3>2
  <2>6. CASE LookAgain(t) \/ TmpTaken(t) \/ DecodeFails(t) \/ Rename(t) \/ RenameRefused(t)
    <3>1. th[t].doing \in Holding
      BY <2>6 DEF LookAgain, TmpTaken, DecodeFails, Rename, RenameRefused, Ready, Holding, Working
    <3>2. th'[t].doing \notin Holding
      BY <2>6, Mover DEF ThreadAfter, Holding, Working
    <3>3. proc'[o].lock = Nobody
      BY <2>2, <2>6, ProcessMove
    <3>. QED
      BY <1>1, <1>2, <1>3, <1>4, <2>1, <3>1, <3>2, <3>3
  <2>. QED
    BY <1>7, <2>3, <2>4, <2>5, <2>6 DEF Step
<1>. QED
  BY <1>5, <1>6, <1>7 DEF CacheNext

LEMMA PidStep ==
  ASSUME CacheIInv, [CacheNext]_cacheVars
  PROVE  PidInv'
<1>. USE DEF CacheIInv
<1>1. CASE Resave \/ UNCHANGED cacheVars
  BY <1>1 DEF Resave, cacheVars, PidInv
<1>2. ASSUME NEW t \in Threads, Step(t) PROVE PidInv'
  BY <1>2, Others DEF PidInv
<1>3. ASSUME NEW p \in Procs, Kill(p) PROVE PidInv'
  BY <1>3, Killed DEF PidInv
<1>. QED
  BY <1>1, <1>2, <1>3 DEF CacheNext

LEMMA CacheStep ==
  ASSUME CacheIInv, [CacheNext]_cacheVars
  PROVE  CacheInv'
<1>. USE DEF CacheIInv
<1>0. sums' = sums /\ mixed \subseteq mixed'
  BY MixedGrows
<1>. DEFINE Fits(k) == cache'[k] # Partial /\ (cache'[k] # Nothing => KeyFits(mixed', k, cache'[k]))
<1>1. (\A k \in Keys : Fits(k)) => CacheInv'
  BY <1>0 DEF CacheInv, KeyFits
<1>2. ASSUME NEW k \in Keys, cache'[k] = cache[k] PROVE Fits(k)
  BY <1>0, <1>2, StillFits DEF CacheInv
<1>3. ASSUME NEW t \in Threads, Rename(t) PROVE CacheInv'
  <2>. DEFINE a == th[t]
  <2>1. a.doing = "written" /\ cache' = [cache EXCEPT ![a.key] = tmps[a.tmp]]
    BY <1>3 DEF Rename, Ready
  <2>2. tmps[a.tmp] = a.opened /\ a.opened \in Versions /\ KeyFits(mixed', a.key, a.opened)
    BY <1>0, <2>1, StillFits DEF TmpInv, Working, ThreadInv
  <2>3. a.opened # Partial
    BY <2>2 DEF Versions, Partial
  <2>. HIDE DEF a
  <2>4. \A k \in Keys : cache'[k] = IF k = a.key THEN a.opened ELSE cache[k]
    BY <2>1, <2>2 DEF CacheTyped
  <2>5. ASSUME NEW k \in Keys PROVE Fits(k)
    BY <1>2, <2>2, <2>3, <2>4
  <2>. QED
    BY <1>1, <2>5
<1>4. CASE cache' = cache
  BY <1>1, <1>2, <1>4
<1>. QED
  BY <1>3, <1>4 DEF CacheNext, cacheVars, Resave, Kill, Step, Open, Key, Look, Lock, LookAgain, CreateTmp,
                    TmpTaken, Decode, DecodeFails, RenameRefused

\* A step writes at most one temporary file, one of its own process.
LEMMA TmpsMove ==
  ASSUME CacheIInv, NEW t \in Threads, Step(t)
  PROVE  \/ tmps' = tmps
         \/ /\ th[t].doing \in Holding
            /\ \E n, v : n[2] = ProcOf(t).pid /\ tmps' = [tmps EXCEPT ![n] = v]
<1>. USE DEF CacheIInv
<1>1. CASE CreateTmp(t) \/ TmpTaken(t)
  <2>1. th[t].doing = "locked"
    BY <1>1 DEF CreateTmp, TmpTaken
  <2>2. TmpName(t)[2] = ProcOf(t).pid
    BY <2>1, NextName
  <2>. QED
    BY <1>1, <2>1, <2>2 DEF CreateTmp, TmpTaken, Holding
<1>2. CASE Decode(t) \/ DecodeFails(t) \/ Rename(t) \/ RenameRefused(t)
  <2>1. th[t].doing \in Working
    BY <1>2 DEF Decode, DecodeFails, Rename, RenameRefused, Ready, Working
  <2>2. th[t].tmp[2] = ProcOf(t).pid
    BY <2>1 DEF TmpInv
  <2>. QED
    BY <1>2, <2>1, <2>2 DEF Decode, DecodeFails, Rename, RenameRefused, Holding
<1>. QED
  BY <1>1, <1>2 DEF Step, Open, Key, Look, Lock, LookAgain

LEMMA TmpStep ==
  ASSUME CacheIInv, [CacheNext]_cacheVars
  PROVE  TmpInv'
<1>. USE DEF CacheIInv
<1>. DEFINE Ok(u) ==
       th'[u].doing \in Working =>
         /\ th'[u].tmp \in Names /\ th'[u].tmp[2] = proc'[Owner[u]].pid
         /\ tmps'[th'[u].tmp] = IF th'[u].doing = "decoding" THEN Partial ELSE th'[u].opened
<1>1. (\A u \in Threads : Ok(u)) => TmpInv'
  BY DEF TmpInv, ProcOf, Working
<1>2. ASSUME NEW u \in Threads, th[u].doing \in Working
      PROVE  /\ th[u].tmp \in Names /\ th[u].tmp[2] = proc[Owner[u]].pid
             /\ tmps[th[u].tmp] = IF th[u].doing = "decoding" THEN Partial ELSE th[u].opened
  BY <1>2 DEF TmpInv, ProcOf, Working
<1>3. \A u \in Threads : Owner[u] \in Procs
  BY DecodedAssumption
<1>4. CASE Resave \/ UNCHANGED cacheVars
  BY <1>1, <1>2, <1>4 DEF Resave, cacheVars
<1>5. ASSUME NEW p \in Procs, Kill(p) PROVE TmpInv'
  <2>1. \A u \in Threads : Owner[u] = p => th'[u].doing \notin Working
    BY <1>5, Killed DEF Idle, Working
  <2>2. \A u \in Threads : Owner[u] # p => th'[u] = th[u] /\ proc'[Owner[u]] = proc[Owner[u]]
    BY <1>3, <1>5, Killed
  <2>3. tmps' = tmps
    BY <1>5, Killed
  <2>. QED
    BY <1>1, <1>2, <2>1, <2>2, <2>3
<1>6. ASSUME NEW t \in Threads, Step(t) PROVE TmpInv'
  <2>. DEFINE a == th[t]
  <2>1. tmps \in [Names -> Versions \cup {Nothing, Partial}]
    BY DEF CacheTyped
  <2>2. ASSUME NEW u \in Threads, u # t PROVE Ok(u)
    <3>. SUFFICES ASSUME th[u].doing \in Working PROVE tmps'[th[u].tmp] = tmps[th[u].tmp]
      BY <1>2, <1>3, <1>6, <2>2, Others
    <3>1. CASE tmps' = tmps
      BY <3>1
    <3>2. ASSUME th[t].doing \in Holding,
                 NEW n, NEW v, n[2] = ProcOf(t).pid, tmps' = [tmps EXCEPT ![n] = v]
          PROVE  tmps'[th[u].tmp] = tmps[th[u].tmp]
      <4>1. th[u].tmp # n
        BY <2>2, <3>2, Apart DEF Holding
      <4>. QED
        BY <1>2, <2>1, <3>2, <4>1
    <3>. QED
      BY <1>6, <3>1, <3>2, TmpsMove
  <2>3. Ok(t)
    <3>1. CASE CreateTmp(t)
      <4>1. /\ th'[t].doing = "decoding" /\ th'[t].tmp = TmpName(t)
        BY <3>1, Mover DEF ThreadAfter
      <4>2. TmpName(t) \in Names /\ TmpName(t)[2] = proc[Owner[t]].pid
        BY <3>1, NextName DEF CreateTmp, ProcOf
      <4>3. tmps'[TmpName(t)] = Partial
        BY <2>1, <3>1, <4>2 DEF CreateTmp
      <4>. QED
        BY <1>3, <1>6, <4>1, <4>2, <4>3, Others
    <3>2. CASE Decode(t)
      <4>1. th'[t].doing = "written" /\ th'[t].tmp = a.tmp /\ th'[t].opened = a.opened
        BY <3>2, Mover DEF ThreadAfter
      <4>2. a.tmp \in Names /\ a.tmp[2] = proc[Owner[t]].pid
        BY <1>2, <3>2 DEF Decode, Working
      <4>3. tmps'[a.tmp] = a.opened
        BY <2>1, <3>2, <4>2 DEF Decode
      <4>. QED
        BY <1>3, <1>6, <4>1, <4>2, <4>3, Others
    <3>3. CASE ~(CreateTmp(t) \/ Decode(t))
      <4>1. th'[t].doing \notin Working
        BY <1>6, <3>3, Mover DEF Step, ThreadAfter, Working
      <4>. QED
        BY <4>1
    <3>. QED
      BY <3>1, <3>2, <3>3
  <2>. QED
    BY <1>1, <2>2, <2>3
<1>. QED
  BY <1>4, <1>5, <1>6 DEF CacheNext

LEMMA CountStep ==
  ASSUME CacheIInv, [CacheNext]_cacheVars
  PROVE  CountInv'
<1>. USE DEF CacheIInv
<1>. DEFINE Past == Working \cup {"done", "failed"}
            New(q) == {u \in Threads : Owner[u] = q /\ th'[u].doing \in Past}
<1>1. (\A q \in Procs : proc'[q].count <= Cardinality(New(q))) => CountInv'
  BY DEF CountInv, Spent, Working
<1>2. \A q \in Procs : /\ IsFiniteSet(Spent(q)) /\ IsFiniteSet(New(q))
                       /\ Cardinality(Spent(q)) \in Nat /\ Cardinality(New(q)) \in Nat
                       /\ proc[q].count <= Cardinality(Spent(q)) /\ proc[q].count \in Nat
  <2>. TAKE q \in Procs
  <2>1. Spent(q) \subseteq Threads /\ New(q) \subseteq Threads
    BY DEF Spent
  <2>2. IsFiniteSet(Spent(q)) /\ IsFiniteSet(New(q))
    BY <2>1, DecodedAssumption, FS_Subset
  <2>. QED
    BY <2>2, FS_CardinalityType DEF CountInv, CacheTyped, Process
<1>3. ASSUME NEW q \in Procs, Spent(q) \subseteq New(q)
      PROVE  Cardinality(Spent(q)) <= Cardinality(New(q))
  BY <1>2, <1>3, FS_Subset
<1>4. ASSUME NEW q \in Procs, \A u \in Threads : Owner[u] = q => th'[u] = th[u]
      PROVE  Spent(q) \subseteq New(q)
  BY <1>4 DEF Spent
<1>. HIDE DEF New
<1>5. CASE Resave \/ UNCHANGED cacheVars
  BY <1>1, <1>2, <1>3, <1>4, <1>5 DEF Resave, cacheVars
<1>6. ASSUME NEW p \in Procs, Kill(p) PROVE CountInv'
  <2>1. ASSUME NEW q \in Procs PROVE proc'[q].count <= Cardinality(New(q))
    <3>1. CASE q = p
      BY <1>2, <1>6, <3>1, Killed
    <3>2. CASE q # p
      BY <1>2, <1>3, <1>4, <1>6, <3>2, Killed
    <3>. QED
      BY <3>1, <3>2
  <2>. QED
    BY <1>1, <2>1
<1>7. ASSUME NEW t \in Threads, Step(t) PROVE CountInv'
  <2>. DEFINE o == Owner[t]
  <2>1. o \in Procs
    BY DecodedAssumption
  <2>2. \A u \in Threads : u # t => th'[u] = th[u]
    BY <1>7, Others
  <2>3. \A q \in Procs : q # o => proc'[q] = proc[q]
    BY <1>7, Others
  <2>4. th[t].doing \in Past => th'[t].doing \in Past
    <3>1. ~(Open(t) \/ Key(t) \/ Look(t) \/ Lock(t)) => th'[t].doing \in Past
      BY <1>7, Mover DEF Step, ThreadAfter, Working
    <3>2. Open(t) \/ Key(t) \/ Look(t) \/ Lock(t) => th[t].doing \notin Past
      BY DEF Open, Key, Look, Lock, Working
    <3>. QED
      BY <3>1, <3>2
  <2>5. Spent(o) \subseteq New(o)
    BY <2>2, <2>4 DEF Spent, New
  <2>6. proc'[o].count <= Cardinality(New(o))
    <3>0. \A i, c, l : Sets(t, ProcessIs(i, c, l)) => proc'[o].count = c
      BY <2>1 DEF Sets, ProcessIs, CacheTyped
    <3>1. CASE CreateTmp(t) \/ TmpTaken(t)
      <4>1. proc'[o].count = proc[o].count + 1
        BY <3>0, <3>1, ProcessMove DEF ProcOf
      <4>2. t \notin Spent(o) /\ t \in New(o)
        <5>1. th'[t].doing \in Past /\ th[t].doing = "locked"
          BY <3>1, Mover DEF CreateTmp, TmpTaken, ThreadAfter, Working
        <5>. QED
          BY <5>1 DEF Spent, New, Working
      <4>3. Cardinality(Spent(o) \cup {t}) = Cardinality(Spent(o)) + 1
        BY <1>2, <2>1, <4>2, FS_AddElement
      <4>4. Cardinality(Spent(o) \cup {t}) <= Cardinality(New(o))
        <5>1. Spent(o) \cup {t} \subseteq New(o)
          BY <2>5, <4>2
        <5>. QED
          BY <1>2, <2>1, <5>1, FS_Subset
      <4>. QED
        BY <1>2, <2>1, <4>1, <4>3, <4>4
    <3>2. CASE ~(CreateTmp(t) \/ TmpTaken(t))
      <4>1. proc'[o].count = proc[o].count
        BY <1>7, <3>0, <3>2, ProcessMove DEF ProcOf, Step
      <4>. QED
        BY <1>2, <1>3, <2>1, <2>5, <4>1
    <3>. QED
      BY <3>1, <3>2
  <2>7. ASSUME NEW q \in Procs, q # o PROVE proc'[q].count <= Cardinality(New(q))
    <3>1. Spent(q) \subseteq New(q)
      BY <1>4, <2>2, <2>7
    <3>. QED
      BY <1>2, <1>3, <2>3, <2>7, <3>1
  <2>. QED
    BY <1>1, <2>6, <2>7
<1>. QED
  BY <1>5, <1>6, <1>7 DEF CacheNext

\* A file once there is never taken away.
LEMMA ValidStays ==
  ASSUME CacheIInv, [CacheNext]_cacheVars, NEW k \in Keys, cache[k] # Nothing
  PROVE  cache'[k] # Nothing
<1>. USE DEF CacheIInv
<1>1. CASE cache' = cache
  BY <1>1
<1>2. ASSUME NEW t \in Threads, Rename(t) PROVE cache'[k] # Nothing
  <2>1. th[t].doing = "written" /\ cache' = [cache EXCEPT ![th[t].key] = tmps[th[t].tmp]]
    BY <1>2 DEF Rename, Ready
  <2>2. tmps[th[t].tmp] = th[t].opened /\ th[t].opened \in Versions
    BY <2>1 DEF TmpInv, Working, ThreadInv
  <2>. QED
    BY <2>1, <2>2 DEF CacheTyped, Versions, Nothing
<1>. QED
  BY <1>1, <1>2 DEF CacheNext, cacheVars, Resave, Kill, Step, Open, Key, Look, Lock, LookAgain, CreateTmp,
                    TmpTaken, Decode, DecodeFails, RenameRefused

LEMMA DecodesStep ==
  ASSUME CacheIInv, [CacheNext]_cacheVars
  PROVE  DecodesInv'
<1>. USE DEF CacheIInv
<1>. DEFINE Done(q, k) ==
              decodes'[q][k] # 0 =>
                /\ decodes'[q][k] = 1
                /\ \/ cache'[k] # Nothing
                   \/ \E u \in Threads : Owner[u] = q /\ th'[u].key = k /\ th'[u].doing = "written"
            Fresh(u) == th'[u].doing = "decoding" => decodes'[Owner[u]][th'[u].key] = 0
<1>1. (\A q \in Procs : \A k \in Keys : Done(q, k)) /\ (\A u \in Threads : Fresh(u)) => DecodesInv'
  BY DEF DecodesInv, Valid
<1>2. ASSUME NEW q \in Procs, NEW k \in Keys, decodes[q][k] # 0
      PROVE  /\ decodes[q][k] = 1
             /\ \/ cache[k] # Nothing
                \/ \E u \in Threads : Owner[u] = q /\ th[u].key = k /\ th[u].doing = "written"
  BY <1>2 DEF DecodesInv, Valid
<1>3. \A u \in Threads : th[u].doing = "decoding" => decodes[Owner[u]][th[u].key] = 0
  BY DEF DecodesInv
<1>4. \A u \in Threads : Owner[u] \in Procs
  BY DecodedAssumption
<1>5. decodes \in [Procs -> [Keys -> Nat]]
  BY DEF CacheTyped
<1>6. CASE Resave \/ UNCHANGED cacheVars
  BY <1>1, <1>2, <1>3, <1>6 DEF Resave, cacheVars
<1>7. ASSUME NEW p \in Procs, Kill(p) PROVE DecodesInv'
  <2>1. \A u \in Threads : IF Owner[u] = p THEN th'[u].doing = "idle" ELSE th'[u] = th[u]
    BY <1>7, Killed DEF Idle
  <2>2. \A q \in Procs : \A k \in Keys : decodes'[q][k] = IF q = p THEN 0 ELSE decodes[q][k]
    BY <1>5, <1>7, Killed
  <2>3. ASSUME NEW u \in Threads PROVE Fresh(u)
    <3>. SUFFICES ASSUME th'[u].doing = "decoding" PROVE decodes'[Owner[u]][th'[u].key] = 0
      OBVIOUS
    <3>1. Owner[u] # p /\ th'[u] = th[u]
      BY <2>1
    <3>2. th[u].key \in Keys
      BY <3>1 DEF ThreadInv
    <3>. QED
      BY <1>3, <1>4, <2>2, <3>1, <3>2
  <2>4. ASSUME NEW q \in Procs, NEW k \in Keys PROVE Done(q, k)
    BY <1>2, <1>7, <2>1, <2>2, Killed
  <2>. QED
    BY <1>1, <2>3, <2>4
<1>8. ASSUME NEW t \in Threads, Step(t) PROVE DecodesInv'
  <2>. DEFINE o == Owner[t]
              a == th[t]
  <2>1. \A u \in Threads : u # t => th'[u] = th[u]
    BY <1>8, Others
  <2>2. \A k \in Keys : cache[k] # Nothing => cache'[k] # Nothing
    BY ValidStays
  <2>3. CASE Decode(t)
    <3>1. a.doing = "decoding" /\ a.key \in Keys
      BY <2>3 DEF Decode, ThreadInv
    <3>2. decodes' = [decodes EXCEPT ![o][a.key] = decodes[o][a.key] + 1]
      BY <2>3 DEF Decode
    <3>3. decodes[o][a.key] = 0
      BY <1>3, <3>1
    <3>4. \A q \in Procs : \A k \in Keys :
            decodes'[q][k] = IF q = o /\ k = a.key THEN 1 ELSE decodes[q][k]
      BY <1>4, <1>5, <3>1, <3>2, <3>3
    <3>5. th'[t].doing = "written" /\ th'[t].key = a.key
      BY <2>3, Mover DEF ThreadAfter
    <3>6. ASSUME NEW q \in Procs, NEW k \in Keys PROVE Done(q, k)
      <4>1. CASE q = o /\ k = a.key
        BY <3>4, <3>5, <4>1
      <4>2. CASE ~(q = o /\ k = a.key)
        <5>. SUFFICES ASSUME decodes[q][k] # 0 PROVE Done(q, k)
          BY <3>4, <4>2
        <5>1. ASSUME NEW u \in Threads, Owner[u] = q, th[u].key = k, th[u].doing = "written"
              PROVE  th'[u].key = k /\ th'[u].doing = "written"
          BY <2>1, <3>1, <5>1
        <5>. QED
          BY <1>2, <2>2, <3>4, <4>2, <5>1
      <4>. QED
        BY <4>1, <4>2
    <3>7. ASSUME NEW u \in Threads PROVE Fresh(u)
      <4>. SUFFICES ASSUME th'[u].doing = "decoding" PROVE decodes'[Owner[u]][th'[u].key] = 0
        OBVIOUS
      <4>1. u # t /\ th'[u] = th[u]
        BY <2>1, <3>5
      <4>2. Owner[u] # o
        BY <3>1, <4>1, Apart DEF Holding, Working
      <4>3. th[u].key \in Keys
        BY <4>1 DEF ThreadInv
      <4>. QED
        BY <1>3, <1>4, <3>4, <4>1, <4>2, <4>3
    <3>. QED
      BY <1>1, <3>6, <3>7
  <2>4. CASE ~Decode(t)
    <3>1. decodes' = decodes
      BY <1>8, <2>4 DEF Step, Open, Key, Look, Lock, LookAgain, CreateTmp, TmpTaken, DecodeFails,
                        Rename, RenameRefused
    <3>2. ASSUME NEW q \in Procs, NEW k \in Keys PROVE Done(q, k)
      <4>. SUFFICES ASSUME decodes[q][k] # 0, cache[k] = Nothing
                    PROVE  \/ cache'[k] # Nothing
                           \/ \E u \in Threads : Owner[u] = q /\ th'[u].key = k /\ th'[u].doing = "written"
        BY <1>2, <2>2, <3>1
      <4>1. PICK u \in Threads : Owner[u] = q /\ th[u].key = k /\ th[u].doing = "written"
        BY <1>2
      <4>2. CASE u # t
        BY <2>1, <4>1, <4>2
      <4>3. CASE u = t
        <5>1. Rename(t) \/ RenameRefused(t)
          BY <1>8, <2>4, <4>1, <4>3 DEF Step, Open, Key, Look, Lock, LookAgain, CreateTmp, TmpTaken,
                                       DecodeFails
        <5>2. ~RenameRefused(t)
          BY <4>1, <4>3 DEF RenameRefused, Valid
        <5>3. tmps[a.tmp] = a.opened /\ a.opened \in Versions
          BY <4>1, <4>3 DEF TmpInv, Working, ThreadInv
        <5>4. cache'[k] = a.opened
          BY <4>1, <4>3, <5>1, <5>2, <5>3 DEF Rename, CacheTyped
        <5>. QED
          BY <5>3, <5>4 DEF Versions, Nothing
      <4>. QED
        BY <4>2, <4>3
    <3>3. ASSUME NEW u \in Threads PROVE Fresh(u)
      <4>. SUFFICES ASSUME th'[u].doing = "decoding" PROVE decodes[Owner[u]][th'[u].key] = 0
        BY <3>1
      <4>1. CASE u # t
        BY <1>3, <2>1, <4>1
      <4>2. CASE u = t
        <5>1. CreateTmp(t)
          BY <1>8, <2>4, <4>2, Mover DEF Step, ThreadAfter
        <5>2. th'[t].key = a.key /\ a.doing = "locked" /\ cache[a.key] = Nothing
          BY <5>1, Mover DEF ThreadAfter, CreateTmp, ThereByNow, Valid
        <5>3. a.key \in Keys
          BY <5>2 DEF ThreadInv
        <5>4. ASSUME NEW v \in Threads, Owner[v] = o, th[v].doing = "written" PROVE FALSE
          BY <5>2, <5>4, Apart DEF Holding, Working
        <5>. QED
          BY <1>2, <1>4, <4>2, <5>2, <5>3, <5>4
      <4>. QED
        BY <4>1, <4>2
    <3>. QED
      BY <1>1, <3>2, <3>3
  <2>. QED
    BY <2>3, <2>4
<1>. QED
  BY <1>6, <1>7, <1>8 DEF CacheNext

LEMMA LeftoverStep ==
  ASSUME CacheIInv, [CacheNext]_cacheVars
  PROVE  NoLeftovers'
<1>. USE DEF CacheIInv
<1>. DEFINE Writes(n) == \E u \in Threads : th[u].tmp = n /\ th[u].doing \in Working
            Wrote(n)  == \E u \in Threads : th'[u].tmp = n /\ th'[u].doing \in Working
<1>. SUFFICES ASSUME kills' = 0, NEW n \in Names, tmps'[n] # Nothing PROVE Wrote(n)
  BY DEF NoLeftovers, Working
<1>1. kills = 0 => (tmps[n] # Nothing => Writes(n))
  BY DEF NoLeftovers, Working
<1>2. CASE Resave \/ UNCHANGED cacheVars
  BY <1>1, <1>2 DEF Resave, cacheVars
<1>3. ASSUME NEW p \in Procs PROVE ~Kill(p)
  BY Killed DEF CacheTyped
<1>4. ASSUME NEW t \in Threads, Step(t) PROVE Wrote(n)
  <2>. DEFINE a == th[t]
  <2>1. kills = 0 /\ \A u \in Threads : u # t => th'[u] = th[u]
    BY <1>4, Others
  <2>2. tmps \in [Names -> Versions \cup {Nothing, Partial}]
    BY DEF CacheTyped
  <2>3. CASE CreateTmp(t)
    <3>1. tmps' = [tmps EXCEPT ![TmpName(t)] = Partial] /\ a.doing = "locked"
      BY <2>3 DEF CreateTmp
    <3>2. th'[t].tmp = TmpName(t) /\ th'[t].doing \in Working
      BY <2>3, Mover DEF ThreadAfter, Working
    <3>3. n # TmpName(t) => \E u \in Threads : u # t /\ th[u].tmp = n /\ th[u].doing \in Working
      BY <1>1, <2>1, <2>2, <3>1 DEF Working
    <3>. QED
      BY <2>1, <3>2, <3>3
  <2>4. CASE Decode(t)
    <3>1. tmps' = [tmps EXCEPT ![a.tmp] = a.opened] /\ a.doing = "decoding"
      BY <2>4 DEF Decode
    <3>2. th'[t].tmp = a.tmp /\ th'[t].doing \in Working
      BY <2>4, Mover DEF ThreadAfter, Working
    <3>3. n # a.tmp => \E u \in Threads : u # t /\ th[u].tmp = n /\ th[u].doing \in Working
      BY <1>1, <2>1, <2>2, <3>1
    <3>. QED
      BY <2>1, <3>2, <3>3
  <2>5. CASE DecodeFails(t) \/ Rename(t) \/ RenameRefused(t)
    <3>1. tmps' = [tmps EXCEPT ![a.tmp] = Nothing]
      BY <2>5 DEF DecodeFails, Rename, RenameRefused, Cleaned
    <3>2. n # a.tmp /\ tmps[n] # Nothing
      BY <2>2, <3>1
    <3>. QED
      BY <1>1, <2>1, <3>2
  <2>6. CASE TmpTaken(t)
    <3>1. tmps' = [tmps EXCEPT ![TmpName(t)] = Nothing] /\ a.doing = "locked"
      BY <2>6 DEF TmpTaken
    <3>2. tmps[n] # Nothing
      BY <2>2, <3>1
    <3>. QED
      BY <1>1, <2>1, <3>1, <3>2 DEF Working
  <2>7. CASE Open(t) \/ Key(t) \/ Look(t) \/ Lock(t) \/ LookAgain(t)
    <3>1. tmps' = tmps /\ a.doing \notin Working
      BY <2>7 DEF Open, Key, Look, Lock, LookAgain, Working
    <3>. QED
      BY <1>1, <2>1, <3>1
  <2>. QED
    BY <1>4, <2>3, <2>4, <2>5, <2>6, <2>7 DEF Step
<1>. QED
  BY <1>2, <1>3, <1>4 DEF CacheNext

-----------------------------------------------------------------------------
LEMMA Inductive == CacheSpec => []CacheIInv
<1>1. CacheIInv /\ [CacheNext]_cacheVars => CacheIInv'
  BY TypedStep, ThreadStep, CacheStep, LockStep, PidStep, TmpStep, CountStep, DecodesStep,
     LeftoverStep DEF CacheIInv
<1>. QED
  BY InitIInv, <1>1, PTL DEF CacheSpec

(* What a reader maps is the version it opened, however often the panel is    *)
(* replaced, whichever process decoded it and whoever was killed on the way.  *)
(* Only a panel without a checksum can be another version's, and only under a *)
(* key that a reader computed from a path replaced since it opened the panel. *)
THEOREM MappedAlwaysOpened == CacheSpec => []MappedIsOpened
<1>1. CacheIInv => MappedIsOpened
  BY DEF CacheIInv, MappedInv, MapFits, MappedIsOpened
<1>. QED
  BY <1>1, Inductive, PTL

(* No file in the directory is half written, and none is left but by a kill;  *)
(* with or without a checksum, and with pids that come again.                 *)
THEOREM CacheAlwaysClean == CacheSpec => []CacheStaysClean
<1>1. CacheIInv => CacheStaysClean
  <2>. SUFFICES ASSUME CacheIInv PROVE CacheStaysClean
    OBVIOUS
  <2>. USE DEF CacheIInv
  <2>1. ASSUME NEW p \in Procs
        PROVE  proc[p].pid \in Pids /\ proc[p].count \in 0 .. Cardinality(Threads)
               /\ proc[p].lock \in Threads \cup {Nobody}
    <3>1. Cardinality(Spent(p)) <= Cardinality(Threads)
          /\ Cardinality(Spent(p)) \in Nat /\ Cardinality(Threads) \in Nat
      BY DecodedAssumption, FS_Subset, FS_CardinalityType DEF Spent
    <3>. QED
      BY <3>1 DEF CountInv, CacheTyped, Process
  <2>2. CacheTypeOK
    BY <2>1 DEF CacheTyped, CacheTypeOK, Thread, ThreadDoings
  <2>. QED
    BY <2>2 DEF CacheStaysClean, CacheIsWhole, CacheInv
<1>. QED
  BY <1>1, Inductive, PTL

(* A process decodes one panel at a time, each panel once, and the lock is    *)
(* with a thread that is on its way or with nobody.                           *)
THEOREM AlwaysDecodedInTurn == CacheSpec => []DecodedInTurn
<1>1. CacheIInv => DecodedInTurn
  <2>. SUFFICES ASSUME CacheIInv PROVE DecodedInTurn
    OBVIOUS
  <2>. USE DEF CacheIInv
  <2>1. OneDecodeAtATime
    BY Apart DEF OneDecodeAtATime, Holding, Working
  <2>2. DecodedOnce
    BY DEF DecodedOnce, DecodesInv, CacheTyped
  <2>. QED
    BY <2>1, <2>2 DEF DecodedInTurn, LockInv
<1>. QED
  BY <1>1, Inductive, PTL
=============================================================================

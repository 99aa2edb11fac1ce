------------------------------- MODULE IpcRun -------------------------------
(***************************************************************************)
(* One blend job across the two processes: DriveHost (MmmExecution.cpp)    *)
(* around Host::run (mmm_host.cpp), the two pipes, and the worker's run()  *)
(* (mmm-ipc-worker/src/main.rs) from its first frame to its exit.          *)
(*                                                                         *)
(* Slots, condition variables and the order of calls inside the worker's   *)
(* link are HostLink's; here a request is only its id.  The values inside  *)
(* a frame are taken as the ones the worker computes, so the host's        *)
(* validation of them never refuses.  Progress frames change no state of   *)
(* either side; that their callback may call cancel() is kept.             *)
(***************************************************************************)
EXTENDS Naturals, Sequences, FiniteSets

CONSTANTS
  Modes,        \* job modes a run may have: "Aligned", "Solved", "Files"
  Bands,        \* output bands of the mosaic
  Par,          \* worker threads that ask for bands at a time
  Faults,       \* what the environment may do: see Failing, HostDies, Crash
  AnyThread,    \* cancel() may come from a thread other than run()'s
  MaxRequests,  \* bound: request ids the worker takes
  MaxCancels    \* bound: calls of cancel()

ASSUME IpcRunAssumption ==
  /\ Modes \subseteq {"Aligned", "Solved", "Files"}
  /\ Bands \in Nat \ {0}
  /\ Par \in Nat \ {0}
  /\ AnyThread \in BOOLEAN
  /\ MaxRequests \in Nat
  /\ MaxCancels \in Nat

Ids == 0 .. MaxRequests + Bands
HostPlaces == {"start", "spawn", "init", "lateCancel", "serve", "fill",
               "store", "reap", "returned", "done", "dead"}
WorkerPlaces == {"none", "boot", "analyze", "cancelCheck", "begin", "rows",
                 "band", "ack", "reports", "failed", "exiting", "exited"}
Codes == {"none", "ok", "error", "abort", "crash", "killed"}

VARIABLES
  mode,      \* JobMode of the Init
  \* the host
  hpc,       \* where DriveHost / Host::run is
  cpc,       \* where a call of cancel() is
  cancels,   \* calls of cancel() so far
  cancelRequested, \* cancel_requested_
  saw,       \* what ended the serve loop: saw_done, cancelled_, or neither
  cur,       \* the request being served
  begun,     \* begun_
  collected, \* bands written to the output image
  window,    \* the output window: none, hidden, shown or closed
  ran,       \* how run() ended: it returned, or it threw
  outcome,   \* how DriveHost ended
  \* what the two processes share
  stdinOpen, \* the host's end of the worker's stdin (stdin_fd_ is valid)
  stdoutOpen,\* the host's end of the worker's stdout
  toWorker,  \* frames in the worker's stdin
  toHost,    \* frames in the worker's stdout
  shm,       \* the shared-memory segment: none, mapped or gone
  child,     \* the worker process: none, running, dead or reaped
  code,      \* how it ended
  \* the worker
  wpc,       \* where run() is
  wcancelled,\* HostLink::cancelled
  shut,      \* HostLink::shutdown
  open,      \* ids of the requests that wait for a reply
  asked,     \* request ids taken
  bad,       \* a request of this stage failed
  band,      \* output bands acknowledged
  last,      \* the completion frame the worker wrote
  \* what the properties remember
  trouble,   \* the environment made something fail
  early      \* cancel() was called before run()

hostVars == <<hpc, saw, cur, begun, collected, window, ran, outcome>>
cancelVars == <<cpc, cancels, cancelRequested, early>>
osVars == <<stdinOpen, stdoutOpen, shm, child, code>>
workerVars == <<wpc, wcancelled, shut, open, asked, bad, band, last>>
pipes == <<toWorker, toHost>>
vars == <<mode, hostVars, cancelVars, osVars, workerVars, pipes, trouble>>

\* A frame: its tag, the request it is about and the output band it names.
Message(tag, id, n) == [tag |-> tag, id |-> id, n |-> n]
Frame(tag) == Message(tag, 0, 0)
NoFrame == Frame("none")

Init ==
  /\ mode \in Modes
  /\ hpc = "start" /\ saw = "nothing" /\ cur = NoFrame /\ begun = FALSE
  /\ collected = <<>> /\ window = "none" /\ ran = "no" /\ outcome = "none"
  /\ cpc = "idle" /\ cancels = 0 /\ cancelRequested = FALSE /\ early = FALSE
  /\ stdinOpen = FALSE /\ stdoutOpen = FALSE /\ shm = "none"
  /\ child = "none" /\ code = "none"
  /\ wpc = "none" /\ wcancelled = FALSE /\ shut = FALSE /\ open = {}
  /\ asked = 0 /\ bad = FALSE /\ band = 0 /\ last = "none"
  /\ toWorker = <<>> /\ toHost = <<>>
  /\ trouble = FALSE

\* Something outside both programs fails here: a system call, a file, a
\* panel the host cannot read, a version that does not match.
Failing(f) == f \in Faults /\ trouble' = TRUE
Fine == UNCHANGED trouble

-----------------------------------------------------------------------------
\* Host::cancel, from any thread: the flag first, then the frame under the
\* stdin mutex.  On run()'s own thread (on_idle, on_progress) it is over
\* before run() goes on.
HostFree == AnyThread \/ cpc = "idle"

CancelFlag ==
  /\ cpc = "idle" /\ cancels < MaxCancels
  /\ hpc # "dead" /\ (AnyThread \/ hpc \in {"start", "serve"})
  /\ cancels' = cancels + 1
  /\ cancelRequested' = TRUE
  /\ early' = (early \/ hpc = "start")
  /\ cpc' = "write"
  /\ UNCHANGED <<mode, hostVars, osVars, workerVars, pipes, trouble>>

\* A write that meets a worker that is gone is swallowed.
CancelWrite ==
  /\ cpc = "write" /\ hpc # "dead"
  /\ cpc' = "idle"
  /\ toWorker' = IF stdinOpen /\ child = "running"
                 THEN Append(toWorker, Frame("cancel")) ELSE toWorker
  /\ UNCHANGED <<mode, hostVars, cancels, cancelRequested, early, osVars,
                 workerVars, toHost, trouble>>

-----------------------------------------------------------------------------
\* Host::run up to its serve loop.
CreateShm ==
  /\ hpc = "start" /\ HostFree
  /\ \/ Failing("shm") /\ hpc' = "returned" /\ ran' = "fault" /\ shm' = shm
     \/ Fine /\ hpc' = "spawn" /\ ran' = ran /\ shm' = "mapped"
  /\ UNCHANGED <<mode, saw, cur, begun, collected, window, outcome, cancelVars,
                 stdinOpen, stdoutOpen, child, code, workerVars, pipes>>

\* Pipes, spawn and the store of stdin_fd_; the segment goes with its scope.
Spawn ==
  /\ hpc = "spawn" /\ HostFree
  /\ \/ /\ Failing("spawn")
        /\ hpc' = "returned" /\ ran' = "fault" /\ shm' = "gone"
        /\ UNCHANGED <<stdinOpen, stdoutOpen, child, wpc>>
     \/ /\ Fine
        /\ hpc' = "init" /\ child' = "running" /\ wpc' = "boot"
        /\ stdinOpen' = TRUE /\ stdoutOpen' = TRUE
        /\ UNCHANGED <<ran, shm>>
  /\ UNCHANGED <<mode, saw, cur, begun, collected, window, outcome, cancelVars,
                 code, wcancelled, shut, open, asked, bad, band, last, pipes>>

\* A failed write is swallowed, and with it the Cancel that would follow.
SendInit ==
  /\ hpc = "init" /\ HostFree
  /\ IF child = "running"
     THEN hpc' = "lateCancel" /\ toWorker' = Append(toWorker, Frame("init"))
     ELSE hpc' = "serve" /\ UNCHANGED toWorker
  /\ UNCHANGED <<mode, saw, cur, begun, collected, window, ran, outcome,
                 cancelVars, osVars, workerVars, toHost, trouble>>

\* A cancel() from before the worker existed is delivered now.
DueCancel == cancelRequested

SendLateCancel ==
  /\ hpc = "lateCancel" /\ HostFree
  /\ hpc' = "serve"
  /\ toWorker' = IF DueCancel /\ child = "running"
                 THEN Append(toWorker, Frame("cancel")) ELSE toWorker
  /\ UNCHANGED <<mode, saw, cur, begun, collected, window, ran, outcome,
                 cancelVars, osVars, workerVars, toHost, trouble>>

-----------------------------------------------------------------------------
\* The serve loop.  A frame is taken only while no callback is running.
Serving == hpc = "serve" /\ saw = "nothing" /\ HostFree
Receive(tag) == Serving /\ toHost # <<>> /\ Head(toHost).tag = tag

\* catch (...): kill and reap the child, close both pipes, drop the segment.
Throw ==
  /\ hpc' = "returned" /\ ran' = "fault"
  /\ child' = "reaped"
  /\ code' = IF child = "running" THEN "killed" ELSE code
  /\ stdinOpen' = FALSE /\ stdoutOpen' = FALSE /\ shm' = "gone"
  /\ wpc' = "exited" /\ open' = {}
  /\ toWorker' = <<>> /\ toHost' = <<>>
  /\ UNCHANGED <<wcancelled, shut, asked, bad, band, last>>

\* The worker asks for input rows, or hands over an output band.
TakeRequest ==
  /\ \/ Receive("band") /\ hpc' = "fill" /\ UNCHANGED collected
     \/ /\ Receive("output") /\ hpc' = "store"
        /\ collected' = Append(collected, Head(toHost).n)
  /\ cur' = Head(toHost)
  /\ toHost' = Tail(toHost)
  /\ UNCHANGED <<mode, saw, begun, window, ran, outcome, cancelVars, osVars,
                 workerVars, toWorker, trouble>>

\* The reply; the write throws when the worker is gone.
Reply(tag) ==
  /\ HostFree
  /\ cur' = NoFrame
  /\ IF child = "running"
     THEN /\ hpc' = "serve"
          /\ toWorker' = Append(toWorker, Message(tag, cur.id, 0))
          /\ UNCHANGED <<ran, osVars, workerVars, toHost>>
     ELSE Throw
  /\ UNCHANGED <<mode, saw, begun, collected, window, outcome, cancelVars>>

\* fill_band filled the slot, or the host refuses the rows (status 1).
AnswerBand ==
  /\ hpc = "fill"
  /\ \/ Fine /\ Reply("reply")
     \/ Failing("refuse") /\ Reply("refusal")

AnswerOutput == hpc = "store" /\ Fine /\ Reply("ack")

\* Begin makes the hidden window, if PixInsight can.
TakeBegin ==
  /\ Receive("begin")
  /\ begun' = TRUE
  /\ \/ /\ Fine
        /\ window' = "hidden"
        /\ toHost' = Tail(toHost)
        /\ UNCHANGED <<hpc, ran, osVars, workerVars, toWorker>>
     \/ /\ Failing("collector")
        /\ Throw
        /\ UNCHANGED window
  /\ UNCHANGED <<mode, saw, cur, collected, outcome, cancelVars>>

TakeDone ==
  /\ Receive("done")
  /\ saw' = "done"
  /\ toHost' = Tail(toHost)
  /\ UNCHANGED <<mode, hpc, cur, begun, collected, window, ran, outcome,
                 cancelVars, osVars, workerVars, toWorker, trouble>>

\* An Error after cancel() is the worker's acknowledgement of it.
AnyErrorCancels == TRUE
Acknowledges == cancelRequested

TakeError ==
  /\ Receive("error")
  /\ IF Acknowledges
     THEN /\ saw' = "cancelled"
          /\ toHost' = Tail(toHost)
          /\ UNCHANGED <<hpc, ran, osVars, workerVars, toWorker>>
     ELSE Throw /\ UNCHANGED saw
  /\ UNCHANGED <<mode, cur, begun, collected, window, outcome, cancelVars,
                 trouble>>

\* read_worker_frame sees the end of the pipe: run() closed its own copy of
\* the writing end, so it comes when the child is gone.
NeverEnds == FALSE
EndOfStdout == toHost = <<>> /\ child = "dead"

\* The loop is over: Done, a cancellation, or the end of the worker's stdout.
LeaveLoop ==
  /\ hpc = "serve" /\ HostFree
  /\ saw # "nothing" \/ EndOfStdout
  /\ hpc' = "reap"
  /\ stdinOpen' = FALSE /\ stdoutOpen' = FALSE
  /\ toHost' = <<>>
  /\ UNCHANGED <<mode, saw, cur, begun, collected, window, ran, outcome,
                 cancelVars, shm, child, code, workerVars, toWorker, trouble>>

\* How run() ends once waitpid told how the worker did.
EndOfRunAsked == IF cancelRequested THEN "cancelled"
                 ELSE IF saw = "done" /\ code = "ok" THEN "ok" ELSE "fault"
EndOfRun == IF saw = "cancelled" THEN "cancelled"
            ELSE IF saw = "done" /\ code = "ok" THEN "ok" ELSE "fault"

Reap ==
  /\ hpc = "reap" /\ HostFree
  /\ child = "dead"
  /\ child' = "reaped"
  /\ shm' = "gone"
  /\ ran' = EndOfRun
  /\ hpc' = "returned"
  /\ UNCHANGED <<mode, saw, cur, begun, collected, window, outcome, cancelVars,
                 stdinOpen, stdoutOpen, code, workerVars, pipes, trouble>>

\* DriveHost after run(): what happens to the window, and what is thrown.
LeftHidden == window
Closed == IF window = "hidden" THEN "closed" ELSE window

DriveHost ==
  /\ hpc = "returned" /\ HostFree
  /\ hpc' = "done"
  /\ \/ ran = "fault" /\ window' = Closed /\ outcome' = "error"
     \/ ran = "cancelled" /\ window' = Closed /\ outcome' = "aborted"
     \/ /\ ran = "ok"
        /\ IF window = "none"
           THEN outcome' = "error" /\ UNCHANGED window
           ELSE outcome' = "shown" /\ window' = "shown"
  /\ UNCHANGED <<mode, saw, cur, begun, collected, ran, cancelVars, osVars,
                 workerVars, pipes, trouble>>

\* PixInsight itself goes away; the system closes its pipes.
HostDies ==
  /\ hpc \notin {"done", "dead"} /\ Failing("hostDies")
  /\ hpc' = "dead"
  /\ stdinOpen' = FALSE /\ stdoutOpen' = FALSE
  /\ toHost' = <<>>
  /\ UNCHANGED <<mode, saw, cur, begun, collected, window, ran, outcome,
                 cancelVars, shm, child, code, workerVars, toWorker>>

-----------------------------------------------------------------------------
\* The worker.  A frame goes out only while the host reads: any other write
\* fails, and its caller sees an Err.
Running == child = "running"
Sends(m) == toHost' = IF stdoutOpen THEN Append(toHost, m) ELSE toHost
At(p) == Running /\ wpc = p
Goto(p) == wpc' = p

Dies(how) ==
  /\ child' = "dead" /\ code' = how
  /\ Goto("exited")
  /\ open' = {} /\ toWorker' = <<>>
  /\ UNCHANGED <<stdinOpen, stdoutOpen, shm>>

\* run() reads one frame, which must be an Init of its own version.
Boot ==
  /\ At("boot") /\ toWorker # <<>>
  /\ toWorker' = Tail(toWorker)
  /\ IF Head(toWorker).tag = "init"
     THEN \/ Fine /\ Goto("analyze") /\ UNCHANGED <<toHost, last>>
          \/ /\ Failing("mismatch")
             /\ Sends(Frame("error")) /\ last' = "error"
             /\ Goto("exiting")
          \/ Failing("attach") /\ Goto("exiting") /\ UNCHANGED <<toHost, last>>
     ELSE Fine /\ Goto("exiting") /\ UNCHANGED <<toHost, last>>
  /\ UNCHANGED <<mode, hostVars, cancelVars, osVars, wcancelled, shut, open,
                 asked, bad, band>>

BootEof ==
  /\ At("boot") /\ toWorker = <<>> /\ ~stdinOpen
  /\ Goto("exiting")
  /\ UNCHANGED <<mode, hostVars, cancelVars, osVars, wcancelled, shut, open,
                 asked, bad, band, last, pipes, trouble>>

\* The reader thread; what it reads while the process exits is lost.
Reading == Running /\ wpc \notin {"boot", "exiting"}

ReadReply ==
  /\ Reading /\ toWorker # <<>>
  /\ Head(toWorker).tag \in {"reply", "refusal", "ack"}
  /\ open' = open \ {Head(toWorker).id}
  /\ bad' = (bad \/ (Head(toWorker).tag = "refusal" /\ Head(toWorker).id \in open))
  /\ toWorker' = Tail(toWorker)
  /\ UNCHANGED <<mode, hostVars, cancelVars, osVars, wpc, wcancelled, shut,
                 asked, band, last, toHost, trouble>>

\* Who still waits after the drain of the pending table.
DrainNothing == open
StillWaiting == {}

\* shut_down: every pending request fails, and every later one.
ShutDown ==
  /\ shut' = TRUE
  /\ bad' = (bad \/ open # {})
  /\ open' = StillWaiting
  /\ UNCHANGED <<mode, hostVars, cancelVars, osVars, wpc, asked, band, last,
                 toHost, trouble>>

ReadCancel ==
  /\ Reading /\ toWorker # <<>> /\ Head(toWorker).tag = "cancel"
  /\ toWorker' = Tail(toWorker)
  /\ wcancelled' = TRUE
  /\ ShutDown

ReadEof ==
  /\ Reading /\ ~shut /\ toWorker = <<>> /\ ~stdinOpen
  /\ ShutDown
  /\ UNCHANGED <<wcancelled, toWorker>>

\* A thread of the stage asks for input rows: all of an aligned run come from
\* the host, a solved run reads the host's panels while it analyzes and its
\* own files while it blends, and a files run asks for nothing.  After a
\* failed request the other rows of the scan are still asked for.
AsksIn(p) == \/ p = "analyze" /\ mode \in {"Aligned", "Solved"}
             \/ p = "rows" /\ mode = "Aligned"

FailsAtOnce == shut \/ ~stdoutOpen

\* A request fails before it is sent, or it is sent and waited for.  One that
\* passed the check just before the reader thread shut the link down is sent,
\* and fails all the same.
Request(m) ==
  \/ FailsAtOnce /\ bad' = TRUE /\ UNCHANGED <<open, asked, toHost>>
  \/ /\ stdoutOpen
     /\ asked' = m.id
     /\ open' = IF shut THEN open ELSE open \cup {m.id}
     /\ bad' = (bad \/ shut)
     /\ Sends(m)

RequestBand ==
  /\ Running /\ AsksIn(wpc)
  /\ asked < MaxRequests /\ Cardinality(open) < Par
  /\ Request(Message("band", asked + 1, 0))
  /\ UNCHANGED <<mode, hostVars, cancelVars, osVars, wpc, wcancelled, shut,
                 band, last, toWorker, trouble>>

Step(from, to) ==
  /\ At(from) /\ open = {}
  /\ Goto(to)
  /\ UNCHANGED <<mode, hostVars, cancelVars, osVars, wcancelled, shut, open,
                 bad, toWorker>>

\* Analysis ends: scan_reader and reproject_from_reader report backing_error.
Analyzed == Step("analyze", "cancelCheck") /\ ~bad /\ Fine
            /\ UNCHANGED <<asked, band, last, toHost>>
AnalysisFails == Step("analyze", "failed") /\ ((bad /\ Fine) \/ Failing("analyze"))
                 /\ UNCHANGED <<asked, band, last, toHost>>

CancelCheck == Step("cancelCheck", IF wcancelled THEN "failed" ELSE "begin")
               /\ Fine /\ UNCHANGED <<asked, band, last, toHost>>

\* blend_with_source opens the readers and announces its output.
BeginOutput ==
  \/ /\ Step("begin", IF stdoutOpen THEN "rows" ELSE "failed") /\ Fine
     /\ Sends(Frame("begin"))
     /\ UNCHANGED <<asked, band, last>>
  \/ /\ Step("begin", "failed") /\ Failing("blend")
     /\ UNCHANGED <<asked, band, last, toHost>>

\* Every row of a band is there; or one is not, and expect() panics, which
\* the release profile turns into an abort.
RowsDone == Step("rows", "band") /\ ~bad /\ Fine
            /\ UNCHANGED <<asked, band, last, toHost>>

RowsPanic ==
  /\ At("rows") /\ bad
  /\ Dies("abort")
  /\ UNCHANGED <<mode, hostVars, cancelVars, wcancelled, shut, asked, bad, band,
                 last, toHost, trouble>>

\* send_output_band, and its acknowledgement.
SendBand ==
  /\ At("band") /\ Goto("ack")
  /\ Request(Message("output", asked + 1, band + 1))
  /\ UNCHANGED <<mode, hostVars, cancelVars, osVars, wcancelled, shut, band,
                 last, toWorker, trouble>>

NextBand == IF band + 1 = Bands THEN "reports" ELSE "rows"

BandAcked ==
  /\ Step("ack", IF bad THEN "failed" ELSE NextBand) /\ Fine
  /\ band' = IF bad THEN band ELSE band + 1
  /\ UNCHANGED <<asked, last, toHost>>

\* The session's reports, then the one Done.
FinishOk ==
  \/ /\ Step("reports", IF stdoutOpen THEN "exiting" ELSE "failed") /\ Fine
     /\ Sends(Frame("done"))
     /\ last' = IF stdoutOpen THEN "done" ELSE last
     /\ UNCHANGED <<asked, band>>
  \/ /\ Step("reports", "failed") /\ Failing("reports")
     /\ UNCHANGED <<asked, band, last, toHost>>

\* The end of run(): only a cancelled run writes an Error frame.
FinishErr ==
  /\ Step("failed", "exiting") /\ Fine
  /\ IF wcancelled
     THEN Sends(Frame("error")) /\ last' = "error"
     ELSE UNCHANGED <<toHost, last>>
  /\ UNCHANGED <<asked, band>>

\* main: exit code 0 for Ok, which a cancelled run is too.
ExitCode == IF last = "done" \/ (last = "error" /\ wcancelled) THEN "ok" ELSE "error"

Exit ==
  /\ At("exiting")
  /\ Dies(ExitCode)
  /\ UNCHANGED <<mode, hostVars, cancelVars, wcancelled, shut, asked, bad, band,
                 last, toHost, trouble>>

\* The process is killed, runs out of memory, or crashes.
Crash ==
  /\ Running /\ Failing("crash")
  /\ Dies("crash")
  /\ UNCHANGED <<mode, hostVars, cancelVars, wcancelled, shut, asked, bad, band,
                 last, toHost>>

-----------------------------------------------------------------------------
HostStep ==
  CreateShm \/ Spawn \/ SendInit \/ SendLateCancel \/ TakeRequest \/ AnswerBand
  \/ AnswerOutput \/ TakeBegin \/ TakeDone \/ TakeError \/ LeaveLoop \/ Reap
  \/ DriveHost

WorkerStep ==
  Boot \/ BootEof \/ RequestBand \/ Analyzed \/ AnalysisFails \/ CancelCheck
  \/ BeginOutput \/ RowsDone \/ RowsPanic \/ SendBand \/ BandAcked \/ FinishOk
  \/ FinishErr \/ Exit

Reader == ReadReply \/ ReadCancel \/ ReadEof

\* Nothing is left to do: no process of the job runs.
Over == hpc \in {"done", "dead"} /\ ~Running /\ UNCHANGED vars

Next == CancelFlag \/ CancelWrite \/ HostStep \/ HostDies \/ WorkerStep
        \/ Reader \/ Crash \/ Over

Spec == Init /\ [][Next]_vars

\* Each thread of each process is scheduled.  The host's waits are ended by
\* a frame or by the end of the pipe, the worker's by its reader thread.
FairSpec == Spec /\ WF_vars(HostStep) /\ WF_vars(CancelWrite)
                 /\ WF_vars(WorkerStep) /\ WF_vars(Reader)

-----------------------------------------------------------------------------
Messages(tags) == [tag : tags, id : Ids, n : 0 .. Bands]

TypeOK ==
  /\ mode \in Modes
  /\ hpc \in HostPlaces /\ saw \in {"nothing", "done", "cancelled"}
  /\ cur \in Messages({"none", "band", "output"})
  /\ begun \in BOOLEAN /\ collected \in Seq(1 .. Bands)
  /\ window \in {"none", "hidden", "shown", "closed"}
  /\ ran \in {"no", "ok", "cancelled", "fault"}
  /\ outcome \in {"none", "shown", "aborted", "error"}
  /\ cpc \in {"idle", "write"} /\ cancels \in 0 .. MaxCancels
  /\ cancelRequested \in BOOLEAN /\ early \in BOOLEAN
  /\ stdinOpen \in BOOLEAN /\ stdoutOpen \in BOOLEAN
  /\ toWorker \in Seq(Messages({"init", "cancel", "reply", "refusal", "ack"}))
  /\ toHost \in Seq(Messages({"band", "begin", "output", "done", "error"}))
  /\ shm \in {"none", "mapped", "gone"}
  /\ child \in {"none", "running", "dead", "reaped"} /\ code \in Codes
  /\ wpc \in WorkerPlaces /\ wcancelled \in BOOLEAN /\ shut \in BOOLEAN
  /\ open \subseteq Ids /\ asked \in Ids /\ bad \in BOOLEAN
  /\ band \in 0 .. Bands /\ last \in {"none", "done", "error"}
  /\ trouble \in BOOLEAN

\* The job does what its user was promised.
Stream == INSTANCE RowStream WITH
  rows <- collected, asked <- cancelRequested, ending <- outcome

\* The bands reach the image in order, the window is shown only with all of
\* them, and a job is aborted only if the user asked: Host::run and DriveHost
\* with every race of frames, cancel() and process deaths implement RowStream.
StreamSpec == Stream!Spec

\* However a job ends, it leaves nothing behind: no child process, no
\* segment, no open pipe and no hidden window (mmm_host.cpp's catch path, the
\* normal path, DriveHost).
NothingLeftBehind ==
  outcome # "none" =>
    /\ child \in {"none", "reaped"}
    /\ shm # "mapped" /\ ~stdinOpen /\ ~stdoutOpen
    /\ window # "hidden" /\ (window = "shown" <=> outcome = "shown")

\* A job fails only for a reason: something around the programs failed, or
\* the user cancelled while frames were in flight.  No order of the frames
\* alone makes Host::run throw.
FaultHasCause == outcome = "error" => trouble \/ cancelRequested

\* Done wins: a cancel() that comes after the worker wrote Done changes
\* nothing, and the mosaic is shown (mmm_host.cpp:661, 734).
DoneWins == last = "done" /\ ~trouble => outcome \in {"none", "shown"}

\* cancel() before run() is honoured once the worker exists (mmm_host.h): the
\* Cancel reaches the worker before the acknowledgement of any band, so the
\* job cannot end with a finished mosaic.
EarlyCancelHonoured == early => outcome # "shown"

\* What run() reports is what happened: it throws only for a reason, a mosaic
\* that was finished is shown, and one that was cancelled in time is not.
OutcomeIsTrue == FaultHasCause /\ DoneWins /\ EarlyCancelHonoured

\* A job that runs ends, whatever fails and whenever the user cancels, for as
\* long as PixInsight lives.
RunReturns == <>(hpc \in {"done", "dead"})

\* When PixInsight dies the worker finds out and exits: at the next request,
\* output band or Done, or because the reader thread saw the end of the pipe.
OrphanExits == hpc = "dead" ~> ~Running
=============================================================================

---------------------------- MODULE IpcRunProofs ----------------------------
(***************************************************************************)
(* Proofs about IpcRun for any number of bands, threads, requests, calls   *)
(* of cancel() and any choice of faults.  JobInv says, for every place of  *)
(* DriveHost and Host::run, what the job then owns.  IInv adds what the    *)
(* two pipes hold and what the worker then waits for; from it follow what  *)
(* a job reports and that it implements RowStream.                         *)
(***************************************************************************)
EXTENDS IpcRun, TLAPS

\* What the job owns at each place of the host.  Before run() and after it
\* nothing; from the spawn to the reaping a child that is not yet reaped; the
\* window is hidden until DriveHost decides.
JobInv ==
  /\ hpc = "start" =>
       child = "none" /\ shm = "none" /\ ~stdinOpen /\ ~stdoutOpen
  /\ hpc = "spawn" =>
       child = "none" /\ shm = "mapped" /\ ~stdinOpen /\ ~stdoutOpen
  /\ hpc \in {"init", "lateCancel", "serve", "fill", "store"} =>
       child \in {"running", "dead"}
  /\ hpc = "reap" => child \in {"running", "dead"} /\ ~stdinOpen /\ ~stdoutOpen
  /\ hpc \in {"returned", "done"} =>
       /\ child \in {"none", "reaped"}
       /\ shm \in {"none", "gone"} /\ ~stdinOpen /\ ~stdoutOpen
  /\ hpc \in HostPlaces
  /\ outcome # "none" <=> hpc = "done"
  /\ hpc # "done" => window \in {"none", "hidden"}
  /\ hpc = "done" =>
       window # "hidden" /\ (window = "shown" <=> outcome = "shown")

\* Before the job starts it owns nothing.
LEMMA JobInit == Init => JobInv
  BY DEF Init, JobInv, HostPlaces

\* The host's own steps hand each resource on, or give it back.
LEMMA JobHostStep == JobInv /\ HostStep => JobInv'
  <1> SUFFICES ASSUME JobInv, HostStep PROVE JobInv'
    OBVIOUS
  <1> USE DEF HostPlaces
  <1>1. CASE CreateShm
    BY <1>1 DEF CreateShm, JobInv, hostVars, cancelVars, osVars, workerVars,
           pipes
  <1>2. CASE Spawn
    BY <1>2 DEF Spawn, JobInv, hostVars, cancelVars, osVars, workerVars, pipes
  <1>3. CASE SendInit
    BY <1>3 DEF SendInit, JobInv, hostVars, cancelVars, osVars, workerVars,
           pipes
  <1>4. CASE SendLateCancel
    BY <1>4 DEF SendLateCancel, JobInv, hostVars, cancelVars, osVars,
           workerVars, pipes
  <1>5. CASE TakeRequest
    BY <1>5 DEF TakeRequest, Receive, Serving, JobInv, hostVars, cancelVars,
           osVars, workerVars, pipes
  <1>6. CASE AnswerBand
    BY <1>6 DEF AnswerBand, Reply, Throw, JobInv, hostVars, cancelVars, osVars,
           workerVars, pipes
  <1>7. CASE AnswerOutput
    BY <1>7 DEF AnswerOutput, Reply, Throw, JobInv, hostVars, cancelVars,
           osVars, workerVars, pipes
  <1>8. CASE TakeBegin
    BY <1>8 DEF TakeBegin, Receive, Serving, Throw, JobInv, hostVars,
           cancelVars, osVars, workerVars, pipes
  <1>9. CASE TakeDone
    BY <1>9 DEF TakeDone, Receive, Serving, JobInv, hostVars, cancelVars,
           osVars, workerVars, pipes
  <1>10. CASE TakeError
    BY <1>10 DEF TakeError, Receive, Serving, Throw, JobInv, hostVars,
           cancelVars, osVars, workerVars, pipes
  <1>11. CASE LeaveLoop
    BY <1>11 DEF LeaveLoop, JobInv, hostVars, cancelVars, osVars, workerVars,
           pipes
  <1>12. CASE Reap
    BY <1>12 DEF Reap, EndOfRun, JobInv, hostVars, cancelVars, osVars,
           workerVars, pipes
  <1>13. CASE DriveHost
    BY <1>13 DEF DriveHost, Closed, JobInv, hostVars, cancelVars, osVars,
           workerVars, pipes
  <1> QED BY <1>1, <1>2, <1>3, <1>4, <1>5, <1>6, <1>7, <1>8, <1>9, <1>10,
        <1>11, <1>12, <1>13 DEF HostStep

\* The worker and its reader thread only ever run or die.
LEMMA JobWorkerStep == JobInv /\ (WorkerStep \/ Reader) => JobInv'
  <1> SUFFICES ASSUME JobInv, WorkerStep \/ Reader PROVE JobInv'
    OBVIOUS
  <1>1. CASE Boot
    BY <1>1 DEF Boot, At, Running, JobInv, hostVars, cancelVars, osVars,
           workerVars, pipes
  <1>2. CASE BootEof
    BY <1>2 DEF BootEof, JobInv, hostVars, cancelVars, osVars, workerVars,
           pipes
  <1>3. CASE RequestBand
    BY <1>3 DEF RequestBand, JobInv, hostVars, cancelVars, osVars, workerVars,
           pipes
  <1>4. CASE Analyzed
    BY <1>4 DEF Analyzed, Step, JobInv, hostVars, cancelVars, osVars,
           workerVars, pipes
  <1>5. CASE AnalysisFails
    BY <1>5 DEF AnalysisFails, Step, JobInv, hostVars, cancelVars, osVars,
           workerVars, pipes
  <1>6. CASE CancelCheck
    BY <1>6 DEF CancelCheck, Step, JobInv, hostVars, cancelVars, osVars,
           workerVars, pipes
  <1>7. CASE BeginOutput
    BY <1>7 DEF BeginOutput, Step, JobInv, hostVars, cancelVars, osVars,
           workerVars, pipes
  <1>8. CASE RowsDone
    BY <1>8 DEF RowsDone, Step, JobInv, hostVars, cancelVars, osVars,
           workerVars, pipes
  <1>9. CASE RowsPanic
    BY <1>9 DEF RowsPanic, At, Running, Dies, JobInv, hostVars, cancelVars,
           osVars, workerVars, pipes
  <1>10. CASE SendBand
    BY <1>10 DEF SendBand, JobInv, hostVars, cancelVars, osVars, workerVars,
           pipes
  <1>11. CASE BandAcked
    BY <1>11 DEF BandAcked, Step, JobInv, hostVars, cancelVars, osVars,
           workerVars, pipes
  <1>12. CASE FinishOk
    BY <1>12 DEF FinishOk, Step, JobInv, hostVars, cancelVars, osVars,
           workerVars, pipes
  <1>13. CASE FinishErr
    BY <1>13 DEF FinishErr, Step, JobInv, hostVars, cancelVars, osVars,
           workerVars, pipes
  <1>14. CASE Exit
    BY <1>14 DEF Exit, At, Running, Dies, JobInv, hostVars, cancelVars, osVars,
           workerVars, pipes
  <1>15. CASE ReadReply
    BY <1>15 DEF ReadReply, JobInv, hostVars, cancelVars, osVars, workerVars,
           pipes
  <1>16. CASE ReadCancel
    BY <1>16 DEF ReadCancel, ShutDown, JobInv, hostVars, cancelVars, osVars,
           workerVars, pipes
  <1>17. CASE ReadEof
    BY <1>17 DEF ReadEof, ShutDown, JobInv, hostVars, cancelVars, osVars,
           workerVars, pipes
  <1> QED BY <1>1, <1>2, <1>3, <1>4, <1>5, <1>6, <1>7, <1>8, <1>9, <1>10,
         <1>11, <1>12, <1>13, <1>14, <1>15, <1>16, <1>17 DEF WorkerStep,
         Reader

\* So does every step of a job, its user's and its environment's included.
LEMMA JobStep == JobInv /\ [Next]_vars => JobInv'
  <1> SUFFICES ASSUME JobInv, [Next]_vars PROVE JobInv'
    OBVIOUS
  <1>1. CASE HostStep BY <1>1, JobHostStep
  <1>2. CASE WorkerStep \/ Reader BY <1>2, JobWorkerStep
  <1>3. CASE CancelFlag BY <1>3 DEF CancelFlag, JobInv, hostVars, osVars
  <1>4. CASE CancelWrite BY <1>4 DEF CancelWrite, JobInv, hostVars, osVars
  <1>5. CASE HostDies BY <1>5 DEF HostDies, JobInv, HostPlaces
  <1>6. CASE Crash
    BY <1>6 DEF Crash, Running, Dies, JobInv, hostVars
  <1>7. CASE UNCHANGED vars BY <1>7 DEF vars, JobInv, hostVars, osVars
  <1>8. CASE Over BY <1>7, <1>8 DEF Over
  <1> QED BY <1>1, <1>2, <1>3, <1>4, <1>5, <1>6, <1>7, <1>8 DEF Next

\* However a job ends, by Done, by an abort, or by whatever fails wherever, no
\* child, no segment, no open pipe and no hidden window is left: for every
\* number of bands, threads and cancels and every set of faults.
THEOREM NothingIsLeftBehind == Spec => []NothingLeftBehind
  <1>1. JobInv => NothingLeftBehind BY DEF JobInv, NothingLeftBehind
  <1> QED BY JobInit, JobStep, <1>1, PTL DEF Spec

-----------------------------------------------------------------------------
(***************************************************************************)
(* The strengthened invariant of a job.  Requests get their ids in order,  *)
(* and the two pipes with the request the host serves between them keep    *)
(* that order.                                                             *)
(***************************************************************************)
IsRequest(m) == m.tag \in {"band", "output"}
IsAnswer(m) == m.tag \in {"reply", "refusal", "ack"}

ToHost ==
  [tag : {"band", "begin", "output", "done", "error"}, id : Nat, n : Nat]
ToWorker ==
  [tag : {"init", "cancel", "reply", "refusal", "ack"}, id : Nat, n : Nat]
Served == [tag : {"none", "band", "output"}, id : Nat, n : Nat]

Typed ==
  /\ toHost \in Seq(ToHost) /\ toWorker \in Seq(ToWorker) /\ cur \in Served
  /\ asked \in Nat /\ open \in SUBSET Nat /\ band \in Nat
  /\ collected \in Seq(Nat)
  /\ wpc \in WorkerPlaces /\ last \in {"none", "done", "error"}
  /\ saw \in {"nothing", "done", "cancelled"}

Numbered(m) == IsRequest(m) \/ IsAnswer(m)

\* The ids of a pipe: none above top, rising from its head to its end, all
\* above or all below another id, all below those of another pipe.
Within(s, top) == \A i \in 1 .. Len(s) : Numbered(s[i]) => s[i].id \in 1 .. top
Rising(s) == \A i, j \in 1 .. Len(s) :
  i < j /\ Numbered(s[i]) /\ Numbered(s[j]) => s[i].id < s[j].id
Above(s, n) == \A i \in 1 .. Len(s) : Numbered(s[i]) => n < s[i].id
Below(s, n) == \A i \in 1 .. Len(s) : Numbered(s[i]) => s[i].id < n
Among(s, ids) == \A i \in 1 .. Len(s) : Numbered(s[i]) => s[i].id \in ids
Before(s, t) == \A i \in 1 .. Len(s), j \in 1 .. Len(t) :
  Numbered(s[i]) /\ Numbered(t[j]) => s[i].id < t[j].id

\* out is what the host has not read yet, in what the worker has not read, c
\* the request being served and top the last id: the answers come before the
\* request being served, and that one before the requests that wait.
Ordered(out, in, c, top) ==
  /\ Within(out, top) /\ Within(in, top)
  /\ Rising(out) /\ Rising(in) /\ Before(in, out)
  /\ c.tag # "none" => c.id \in 1 .. top /\ Above(out, c.id) /\ Below(in, c.id)

\* Every request under way, and every answer, is one the worker waits for.
Awaited(out, in, c, ids) ==
  Among(out, ids) /\ Among(in, ids) /\ (c.tag # "none" => c.id \in ids)

Queue == Ordered(toHost, toWorker, cur, asked)
Pending == wpc # "exited" /\ ~bad => Awaited(toHost, toWorker, cur, open)

-----------------------------------------------------------------------------
\* A frame at the end of a pipe, and a frame taken from its head.
LEMMA PutFrame ==
  ASSUME NEW S, NEW s \in Seq(S), NEW m \in S
  PROVE  /\ Append(s, m) \in Seq(S)
         /\ Len(Append(s, m)) = Len(s) + 1
         /\ Append(s, m)[Len(s) + 1] = m
         /\ \A i \in 1 .. Len(s) : Append(s, m)[i] = s[i]
         /\ Len(s) \in Nat
  OBVIOUS

\* The same of taking the first of them.
LEMMA GotFrame ==
  ASSUME NEW S, NEW s \in Seq(S), s # <<>>
  PROVE  /\ Tail(s) \in Seq(S)
         /\ Len(Tail(s)) = Len(s) - 1
         /\ Head(s) = s[1] /\ Head(s) \in S /\ 1 \in 1 .. Len(s)
         /\ \A i \in 1 .. Len(Tail(s)) :
              Tail(s)[i] = s[i + 1] /\ i + 1 \in 1 .. Len(s)
         /\ Len(s) \in Nat
  OBVIOUS

\* Ids are natural numbers.
Frames(s) == \A i \in 1 .. Len(s) : s[i].id \in Nat

\* The frames of both pipes have ids.
LEMMA FrameIds ==
  /\ \A s \in Seq(ToHost) : Frames(s)
  /\ \A s \in Seq(ToWorker) : Frames(s)
  <1>1. \A s \in Seq(ToHost) : \A i \in 1 .. Len(s) : s[i] \in ToHost OBVIOUS
  <1>2. \A s \in Seq(ToWorker) : \A i \in 1 .. Len(s) : s[i] \in ToWorker
    OBVIOUS
  <1> QED BY <1>1, <1>2 DEF ToHost, ToWorker, Frames

\* What a frame at the end of a pipe changes of its ids.
LEMMA PutIds ==
  ASSUME NEW S, NEW s \in Seq(S), NEW m \in S, NEW t, NEW top \in Nat,
         NEW n \in Nat, NEW ids, Frames(s), Frames(t), m.id \in Nat
  PROVE  LET q == Append(s, m) IN
         /\ Within(s, top) => Within(s, top + 1)
         /\ Within(s, top) /\ (Numbered(m) => m.id \in 1 .. top)
              => Within(q, top)
         /\ Rising(s) /\ (Numbered(m) => Below(s, m.id)) => Rising(q)
         /\ Above(s, n) /\ (Numbered(m) => n < m.id) => Above(q, n)
         /\ Below(s, n) /\ (Numbered(m) => m.id < n) => Below(q, n)
         /\ Before(s, t) /\ (Numbered(m) => Above(t, m.id)) => Before(q, t)
         /\ Before(t, s) /\ (Numbered(m) => Below(t, m.id)) => Before(t, q)
         /\ Within(s, top) => Below(s, top + 1)
         /\ Among(s, ids) /\ (Numbered(m) => m.id \in ids) => Among(q, ids)
  <1> DEFINE q == Append(s, m)
  <1>1. /\ q \in Seq(S) /\ Len(q) = Len(s) + 1 /\ q[Len(s) + 1] = m
        /\ \A i \in 1 .. Len(s) : q[i] = s[i]
        /\ Len(s) \in Nat
    BY PutFrame
  <1> HIDE DEF q
  <1>2. Within(s, top) => Within(s, top + 1) BY <1>1 DEF Within
  <1>3. Within(s, top) /\ (Numbered(m) => m.id \in 1 .. top) => Within(q, top)
    BY <1>1 DEF Within
  <1>4. Rising(s) /\ (Numbered(m) => Below(s, m.id)) => Rising(q)
    <2> SUFFICES ASSUME Rising(s), Numbered(m) => Below(s, m.id),
                        NEW i \in 1 .. Len(q), NEW j \in 1 .. Len(q), i < j,
                        Numbered(q[i]), Numbered(q[j])
                 PROVE  q[i].id < q[j].id
      BY DEF Rising
    <2>1. i \in 1 .. Len(s) BY <1>1
    <2>2. CASE j \in 1 .. Len(s) BY <1>1, <2>1, <2>2 DEF Rising
    <2>3. CASE j = Len(s) + 1 BY <1>1, <2>1, <2>3 DEF Below
    <2> QED BY <1>1, <2>2, <2>3
  <1>5. Above(s, n) /\ (Numbered(m) => n < m.id) => Above(q, n)
    BY <1>1 DEF Above
  <1>6. Below(s, n) /\ (Numbered(m) => m.id < n) => Below(q, n)
    BY <1>1 DEF Below
  <1>7. Before(s, t) /\ (Numbered(m) => Above(t, m.id)) => Before(q, t)
    BY <1>1 DEF Before, Above
  <1>8. Before(t, s) /\ (Numbered(m) => Below(t, m.id)) => Before(t, q)
    BY <1>1 DEF Before, Below
  <1>9. Within(s, top) => Below(s, top + 1)
    BY DEF Within, Below, Frames
  <1>10. Among(s, ids) /\ (Numbered(m) => m.id \in ids) => Among(q, ids)
    BY <1>1 DEF Among
  <1> QED BY <1>2, <1>3, <1>4, <1>5, <1>6, <1>7, <1>8, <1>9, <1>10 DEF q

\* What taking the head of a pipe leaves.
LEMMA GotIds ==
  ASSUME NEW S, NEW s \in Seq(S), s # <<>>, NEW t, NEW top, NEW n,
         NEW ids
  PROVE  LET q == Tail(s) IN
         /\ Within(s, top) => Within(q, top)
         /\ Rising(s) => Rising(q)
         /\ Rising(s) /\ Numbered(Head(s)) => Above(q, Head(s).id)
         /\ Above(s, n) => Above(q, n)
         /\ Below(s, n) => Below(q, n)
         /\ Before(s, t) => Before(q, t)
         /\ Before(t, s) => Before(t, q)
         /\ Before(t, s) /\ Numbered(Head(s)) => Below(t, Head(s).id)
         /\ Before(s, t) /\ Numbered(Head(s)) => Above(t, Head(s).id)
         /\ Within(s, top) /\ Numbered(Head(s)) => Head(s).id \in 1 .. top
         /\ Among(s, ids) => Among(q, ids)
         /\ Among(s, ids) /\ Numbered(Head(s)) => Head(s).id \in ids
  <1> DEFINE q == Tail(s)
  <1>1. /\ q \in Seq(S) /\ Len(q) = Len(s) - 1 /\ Head(s) = s[1]
        /\ 1 \in 1 .. Len(s) /\ Len(s) \in Nat
        /\ \A i \in 1 .. Len(q) : q[i] = s[i + 1] /\ i + 1 \in 1 .. Len(s)
    BY GotFrame
  <1> HIDE DEF q
  <1>2. Within(s, top) => Within(q, top) BY <1>1 DEF Within
  <1>3. Rising(s) => Rising(q)
    <2> SUFFICES ASSUME Rising(s), NEW i \in 1 .. Len(q), NEW j \in 1 .. Len(q),
                        i < j, Numbered(q[i]), Numbered(q[j])
                 PROVE  q[i].id < q[j].id
      BY DEF Rising
    <2>1. i + 1 < j + 1 OBVIOUS
    <2> QED BY <1>1, <2>1 DEF Rising
  <1>4. Rising(s) /\ Numbered(Head(s)) => Above(q, Head(s).id)
    <2> SUFFICES ASSUME Rising(s), Numbered(Head(s)), NEW i \in 1 .. Len(q),
                        Numbered(q[i])
                 PROVE  Head(s).id < q[i].id
      BY DEF Above
    <2>1. 1 < i + 1 OBVIOUS
    <2> QED BY <1>1, <2>1 DEF Rising
  <1>5. Above(s, n) => Above(q, n) BY <1>1 DEF Above
  <1>6. Below(s, n) => Below(q, n) BY <1>1 DEF Below
  <1>7. Before(s, t) => Before(q, t) BY <1>1 DEF Before
  <1>8. Before(t, s) => Before(t, q) BY <1>1 DEF Before
  <1>9. Before(t, s) /\ Numbered(Head(s)) => Below(t, Head(s).id)
    BY <1>1 DEF Before, Below
  <1>10. Before(s, t) /\ Numbered(Head(s)) => Above(t, Head(s).id)
    BY <1>1 DEF Before, Above
  <1>11. Within(s, top) /\ Numbered(Head(s)) => Head(s).id \in 1 .. top
    BY <1>1 DEF Within
  <1>12. Among(s, ids) => Among(q, ids) BY <1>1 DEF Among
  <1>13. Among(s, ids) /\ Numbered(Head(s)) => Head(s).id \in ids
    BY <1>1 DEF Among
  <1> QED BY <1>2, <1>3, <1>4, <1>5, <1>6, <1>7, <1>8, <1>9, <1>10, <1>11,
         <1>12, <1>13 DEF q

\* The worker asks with the next id.
LEMMA AskedInTurn ==
  ASSUME NEW out \in Seq(ToHost), NEW in \in Seq(ToWorker), NEW c \in Served,
         NEW top \in Nat, NEW m \in ToHost, NEW ids,
         IsRequest(m), m.id = top + 1
  PROVE  /\ Ordered(out, in, c, top) => Ordered(Append(out, m), in, c, top + 1)
         /\ Ordered(out, in, c, top) => Ordered(out, in, c, top + 1)
         /\ Awaited(out, in, c, ids)
              => Awaited(Append(out, m), in, c, ids \cup {m.id})
  <1> DEFINE q == Append(out, m)
  <1>1. Frames(out) /\ Frames(in) /\ c.id \in Nat BY FrameIds DEF Served
  <1>2. /\ Within(out, top) => Within(out, top + 1)
        /\ Within(in, top) => Within(in, top + 1)
        /\ Within(in, top) => Below(in, m.id)
        /\ Within(out, top) => Below(out, m.id)
    BY <1>1 DEF Within, Below, Frames
  <1>c. m.id \in Nat /\ m.id \in 1 .. top + 1 BY DEF ToHost
  <1>d. Within(out, top + 1) => Within(q, top + 1)
    <2>1. /\ Len(q) = Len(out) + 1 /\ q[Len(out) + 1] = m
          /\ \A i \in 1 .. Len(out) : q[i] = out[i]
      BY PutFrame
    <2> HIDE DEF q
    <2> QED BY <1>c, <2>1 DEF Within
  <1>3. /\ Rising(out) /\ Below(out, m.id) => Rising(q)
        /\ Before(in, out) /\ Below(in, m.id) => Before(in, q)
        /\ Above(out, c.id) /\ c.id < m.id => Above(q, c.id)
    BY <1>1, <1>c, PutIds
  <1> DEFINE more == ids \cup {m.id}
  <1>a. m.id \in more OBVIOUS
  <1> HIDE DEF more
  <1>b. Among(out, more) => Among(q, more) BY <1>1, <1>a, PutIds
  <1> USE DEF more
  <1> HIDE DEF q
  <1>4. Ordered(out, in, c, top) => Ordered(q, in, c, top + 1)
    BY <1>1, <1>2, <1>3, <1>d DEF Ordered
  <1>5. Ordered(out, in, c, top) => Ordered(out, in, c, top + 1)
    BY <1>2 DEF Ordered
  <1>6. Awaited(out, in, c, ids) => Awaited(q, in, c, ids \cup {m.id})
    BY <1>b DEF Awaited, Among
  <1> QED BY <1>4, <1>5, <1>6 DEF q

\* Any other frame of the worker leaves the order as it is.
LEMMA ToldInTurn ==
  ASSUME NEW out \in Seq(ToHost), NEW in \in Seq(ToWorker), NEW c \in Served,
         NEW top \in Nat, NEW m \in ToHost, NEW ids, ~Numbered(m)
  PROVE  /\ Ordered(out, in, c, top) => Ordered(Append(out, m), in, c, top)
         /\ Awaited(out, in, c, ids) => Awaited(Append(out, m), in, c, ids)
  <1> DEFINE q == Append(out, m)
  <1>1. Frames(out) /\ Frames(in) /\ c.id \in Nat /\ m.id \in Nat
    BY FrameIds DEF Served, ToHost
  <1>2. /\ Within(out, top) => Within(q, top)
        /\ Rising(out) => Rising(q)
        /\ Before(in, out) => Before(in, q)
        /\ Above(out, c.id) => Above(q, c.id)
        /\ Among(out, ids) => Among(q, ids)
    BY <1>1, PutIds
  <1> HIDE DEF q
  <1>3. Ordered(out, in, c, top) => Ordered(q, in, c, top)
    BY <1>2 DEF Ordered
  <1>4. Awaited(out, in, c, ids) => Awaited(q, in, c, ids)
    BY <1>2 DEF Awaited
  <1> QED BY <1>3, <1>4 DEF q

\* The host takes the next frame: a request to serve it, another to note it.
LEMMA TakenInTurn ==
  ASSUME NEW out \in Seq(ToHost), NEW in \in Seq(ToWorker), NEW c \in Served,
         NEW top \in Nat, NEW ids, out # <<>>
  PROVE  /\ Ordered(out, in, c, top) => Ordered(Tail(out), in, c, top)
         /\ Awaited(out, in, c, ids) => Awaited(Tail(out), in, c, ids)
         /\ Ordered(out, in, c, top) /\ IsRequest(Head(out))
              => Ordered(Tail(out), in, Head(out), top)
         /\ Awaited(out, in, c, ids) /\ IsRequest(Head(out))
              => Awaited(Tail(out), in, Head(out), ids)
  <1> DEFINE q == Tail(out)
             h == Head(out)
  <1>1. /\ Within(out, top) => Within(q, top)
        /\ Rising(out) => Rising(q)
        /\ Before(in, out) => Before(in, q)
        /\ Above(out, c.id) => Above(q, c.id)
        /\ Among(out, ids) => Among(q, ids)
    BY GotIds
  <1>2. /\ Rising(out) /\ Numbered(h) => Above(q, h.id)
        /\ Before(in, out) /\ Numbered(h) => Below(in, h.id)
        /\ Within(out, top) /\ Numbered(h) => h.id \in 1 .. top
        /\ Among(out, ids) /\ Numbered(h) => h.id \in ids
    BY GotIds
  <1> HIDE DEF q, h
  <1>3. Ordered(out, in, c, top) => Ordered(q, in, c, top)
    BY <1>1 DEF Ordered
  <1>4. Awaited(out, in, c, ids) => Awaited(q, in, c, ids)
    BY <1>1 DEF Awaited
  <1>5. Ordered(out, in, c, top) /\ IsRequest(h) => Ordered(q, in, h, top)
    BY <1>1, <1>2 DEF Ordered, Numbered
  <1>6. Awaited(out, in, c, ids) /\ IsRequest(h) => Awaited(q, in, h, ids)
    BY <1>1, <1>2 DEF Awaited, Numbered
  <1> QED BY <1>3, <1>4, <1>5, <1>6 DEF q, h

\* The host answers the request it serves.
LEMMA AnsweredInTurn ==
  ASSUME NEW out \in Seq(ToHost), NEW in \in Seq(ToWorker), NEW c \in Served,
         NEW top \in Nat, NEW m \in ToWorker, NEW ids, NEW d,
         c.tag # "none", m.id = c.id, d.tag = "none"
  PROVE  /\ Ordered(out, in, c, top) => Ordered(out, Append(in, m), d, top)
         /\ Awaited(out, in, c, ids) => Awaited(out, Append(in, m), d, ids)
  <1> DEFINE q == Append(in, m)
  <1>1. Frames(out) /\ Frames(in) /\ c.id \in Nat
    BY FrameIds DEF Served
  <1>2. /\ Within(in, top) /\ m.id \in 1 .. top => Within(q, top)
        /\ Rising(in) /\ Below(in, m.id) => Rising(q)
        /\ Before(in, out) /\ Above(out, m.id) => Before(q, out)
        /\ Among(in, ids) /\ m.id \in ids => Among(q, ids)
    BY <1>1, PutIds
  <1> HIDE DEF q
  <1>3. Ordered(out, in, c, top) => Ordered(out, q, d, top)
    BY <1>2 DEF Ordered
  <1>4. Awaited(out, in, c, ids) => Awaited(out, q, d, ids)
    BY <1>2 DEF Awaited
  <1> QED BY <1>3, <1>4 DEF q

\* Init and Cancel are no answers.
LEMMA CalledInTurn ==
  ASSUME NEW out \in Seq(ToHost), NEW in \in Seq(ToWorker), NEW c \in Served,
         NEW top \in Nat, NEW m \in ToWorker, NEW ids, ~Numbered(m)
  PROVE  /\ Ordered(out, in, c, top) => Ordered(out, Append(in, m), c, top)
         /\ Awaited(out, in, c, ids) => Awaited(out, Append(in, m), c, ids)
  <1> DEFINE q == Append(in, m)
  <1>1. Frames(out) /\ Frames(in) /\ c.id \in Nat /\ m.id \in Nat
    BY FrameIds DEF Served, ToWorker
  <1>2. /\ Within(in, top) => Within(q, top)
        /\ Rising(in) => Rising(q)
        /\ Before(in, out) => Before(q, out)
        /\ Below(in, c.id) => Below(q, c.id)
        /\ Among(in, ids) => Among(q, ids)
    BY <1>1, PutIds
  <1> HIDE DEF q
  <1>3. Ordered(out, in, c, top) => Ordered(out, q, c, top)
    BY <1>2 DEF Ordered
  <1>4. Awaited(out, in, c, ids) => Awaited(out, q, c, ids)
    BY <1>2 DEF Awaited
  <1> QED BY <1>3, <1>4 DEF q

\* The worker reads a frame; the id of an answer is then waited for no more,
\* and no other frame has it.
LEMMA ReadInTurn ==
  ASSUME NEW out \in Seq(ToHost), NEW in \in Seq(ToWorker), NEW c \in Served,
         NEW top \in Nat, NEW ids, in # <<>>
  PROVE  /\ Ordered(out, in, c, top) => Ordered(out, Tail(in), c, top)
         /\ Awaited(out, in, c, ids) => Awaited(out, Tail(in), c, ids)
         /\ Ordered(out, in, c, top) /\ Awaited(out, in, c, ids)
            /\ IsAnswer(Head(in))
              => Awaited(out, Tail(in), c, ids \ {Head(in).id})
  <1> DEFINE q == Tail(in)
             h == Head(in)
  <1>1. /\ Within(in, top) => Within(q, top)
        /\ Rising(in) => Rising(q)
        /\ Before(in, out) => Before(q, out)
        /\ Below(in, c.id) => Below(q, c.id)
        /\ Among(in, ids) => Among(q, ids)
    BY GotIds
  <1>2. /\ Rising(in) /\ Numbered(h) => Above(q, h.id)
        /\ Before(in, out) /\ Numbered(h) => Above(out, h.id)
        /\ Below(in, c.id) /\ Numbered(h) => h.id < c.id
    BY GotIds, GotFrame DEF Below
  <1>3. h.id \in Nat /\ c.id \in Nat /\ Frames(q) /\ Frames(out)
    <2>1. h \in ToWorker /\ q \in Seq(ToWorker) BY GotFrame
    <2> QED BY <2>1, FrameIds DEF ToWorker, Served
  <1> HIDE DEF q, h
  <1>4. Ordered(out, in, c, top) => Ordered(out, q, c, top)
    BY <1>1 DEF Ordered
  <1>5. Awaited(out, in, c, ids) => Awaited(out, q, c, ids)
    BY <1>1 DEF Awaited
  <1>6. Ordered(out, in, c, top) /\ Awaited(out, in, c, ids) /\ IsAnswer(h)
          => Awaited(out, q, c, ids \ {h.id})
    <2> SUFFICES ASSUME Ordered(out, in, c, top), Awaited(out, in, c, ids),
                        IsAnswer(h)
                 PROVE  Awaited(out, q, c, ids \ {h.id})
      OBVIOUS
    <2>1. Above(q, h.id) /\ Above(out, h.id) BY <1>2 DEF Ordered, Numbered
    <2>2. c.tag # "none" => c.id # h.id
      BY <1>2, <1>3 DEF Ordered, Numbered
    <2>3. Among(q, ids) /\ Among(out, ids) BY <1>1 DEF Awaited
    <2>4. Among(q, ids \ {h.id}) /\ Among(out, ids \ {h.id})
      BY <2>1, <2>3, <1>3 DEF Among, Above, Frames
    <2> QED BY <2>2, <2>4 DEF Awaited
  <1> QED BY <1>4, <1>5, <1>6 DEF q, h

\* A pipe that is closed is empty.
LEMMA ClosedInTurn ==
  ASSUME NEW out, NEW in, NEW c, NEW top, NEW ids
  PROVE  /\ Ordered(out, in, c, top) => Ordered(<<>>, in, c, top)
         /\ Ordered(out, in, c, top) => Ordered(out, <<>>, c, top)
         /\ Awaited(out, in, c, ids) => Awaited(<<>>, in, c, ids)
         /\ c.tag = "none" => Ordered(<<>>, <<>>, c, top)
  BY DEF Ordered, Awaited, Within, Rising, Before, Above, Below, Among

\* The frames each side writes are frames.
LEMMA WrittenFrames ==
  /\ \A n, k \in Nat :
       /\ Message("band", n, 0) \in ToHost /\ Message("output", n, k) \in ToHost
       /\ Message("reply", n, 0) \in ToWorker
       /\ Message("refusal", n, 0) \in ToWorker
       /\ Message("ack", n, 0) \in ToWorker
  /\ Frame("begin") \in ToHost /\ Frame("done") \in ToHost
  /\ Frame("error") \in ToHost
  /\ Frame("init") \in ToWorker /\ Frame("cancel") \in ToWorker
  /\ NoFrame \in Served /\ <<>> \in Seq(ToHost) /\ <<>> \in Seq(ToWorker)
  BY DEF Message, Frame, NoFrame, ToHost, ToWorker, Served

\* What a frame says.
LEMMA MessageFields ==
  /\ \A tag, id, n : /\ Message(tag, id, n).tag = tag
                      /\ Message(tag, id, n).id = id
                      /\ Message(tag, id, n).n = n
  /\ \A tag : Frame(tag).tag = tag
  /\ NoFrame.tag = "none"
  BY DEF Message, Frame, NoFrame

\* Writing to a pipe and reading from it leaves frames in it.
LEMMA PipeFrames ==
  /\ \A s \in Seq(ToHost), m \in ToHost : Append(s, m) \in Seq(ToHost)
  /\ \A s \in Seq(ToWorker), m \in ToWorker : Append(s, m) \in Seq(ToWorker)
  /\ \A s \in Seq(ToHost) :
       s # <<>> => Tail(s) \in Seq(ToHost) /\ Head(s) \in ToHost
  /\ \A s \in Seq(ToWorker) :
       s # <<>> => Tail(s) \in Seq(ToWorker) /\ Head(s) \in ToWorker
  /\ \A s \in Seq(Nat), n \in Nat : Append(s, n) \in Seq(Nat)
  BY PutFrame, GotFrame

\* Every variable keeps its type.
LEMMA TypedStep == Typed /\ [Next]_vars => Typed'
  <1> SUFFICES ASSUME Typed, [Next]_vars
               PROVE  Typed'
    OBVIOUS
  <1> USE DEF At, Running, Goto, Fine, Failing, Step, Serving, Receive,
              Reading, hostVars, cancelVars, osVars, workerVars, pipes, Typed,
              WorkerPlaces
  <1>1. CASE CancelFlag BY <1>1 DEF CancelFlag
  <1>2. CASE CancelWrite BY <1>2, WrittenFrames, PipeFrames DEF CancelWrite
  <1>3. CASE CreateShm BY <1>3 DEF CreateShm
  <1>4. CASE Spawn BY <1>4 DEF Spawn
  <1>5. CASE SendInit BY <1>5, WrittenFrames, PipeFrames DEF SendInit
  <1>6. CASE SendLateCancel
    BY <1>6, WrittenFrames, PipeFrames DEF SendLateCancel, Frame
  <1>7. CASE TakeRequest
    <2>1. /\ toHost \in Seq(ToHost) /\ toHost # <<>>
          /\ Head(toHost).tag \in {"band", "output"}
      BY <1>7 DEF TakeRequest
    <2>2. Head(toHost) \in ToHost BY <2>1, PipeFrames
    <2>3. Head(toHost) \in Served /\ Head(toHost).n \in Nat
      BY <2>1, <2>2 DEF ToHost, Served
    <2>4. toHost' \in Seq(ToHost) /\ cur' \in Served
      BY <1>7, <2>1, <2>3, PipeFrames DEF TakeRequest
    <2>5. collected' \in Seq(Nat)
      BY <1>7, <2>3, PipeFrames DEF TakeRequest
    <2> QED
      BY <1>7, <2>4, <2>5 DEF TakeRequest
  <1>8. CASE AnswerBand
    <2>1. \A tag \in {"reply", "refusal", "ack"} :
            Message(tag, cur.id, 0) \in ToWorker
      BY WrittenFrames DEF Served
    <2>2. toWorker' \in Seq(ToWorker) /\ toHost' \in Seq(ToHost)
      BY <1>8, <2>1, PipeFrames, WrittenFrames DEF AnswerBand, Reply, Throw
    <2> QED
      BY <1>8, <2>2, WrittenFrames DEF AnswerBand, Reply, Throw
  <1>9. CASE AnswerOutput
    <2>1. \A tag \in {"reply", "refusal", "ack"} :
            Message(tag, cur.id, 0) \in ToWorker
      BY WrittenFrames DEF Served
    <2>2. toWorker' \in Seq(ToWorker) /\ toHost' \in Seq(ToHost)
      BY <1>9, <2>1, PipeFrames, WrittenFrames DEF AnswerOutput, Reply, Throw
    <2> QED
      BY <1>9, <2>2, WrittenFrames DEF AnswerOutput, Reply, Throw
  <1>10. CASE TakeBegin
    BY <1>10, WrittenFrames, PipeFrames DEF TakeBegin, Throw
  <1>11. CASE TakeDone BY <1>11, WrittenFrames, PipeFrames DEF TakeDone
  <1>12. CASE TakeError
    BY <1>12, WrittenFrames, PipeFrames DEF TakeError, Throw, Acknowledges
  <1>13. CASE LeaveLoop
    BY <1>13, WrittenFrames, PipeFrames DEF LeaveLoop, EndOfStdout
  <1>14. CASE Reap BY <1>14 DEF Reap, EndOfRun
  <1>15. CASE DriveHost BY <1>15 DEF DriveHost, Closed
  <1>16. CASE HostDies BY <1>16, WrittenFrames, PipeFrames DEF HostDies
  <1>17. CASE Boot BY <1>17, WrittenFrames, PipeFrames DEF Boot, Sends
  <1>18. CASE BootEof BY <1>18 DEF BootEof
  <1>19. CASE RequestBand
    <2>1. /\ Message("band", asked + 1, 0) \in ToHost
          /\ Message("band", asked + 1, 0).id = asked + 1
          /\ asked + 1 \in Nat
      BY WrittenFrames, MessageFields
    <2> QED
      BY <1>19, <2>1, PipeFrames DEF RequestBand, AsksIn, Request, FailsAtOnce,
        Sends
  <1>20. CASE Analyzed BY <1>20 DEF Analyzed
  <1>21. CASE AnalysisFails BY <1>21 DEF AnalysisFails
  <1>22. CASE CancelCheck BY <1>22 DEF CancelCheck
  <1>23. CASE BeginOutput
    BY <1>23, WrittenFrames, PipeFrames DEF BeginOutput, Sends
  <1>24. CASE RowsDone BY <1>24 DEF RowsDone
  <1>25. CASE RowsPanic BY <1>25, WrittenFrames, PipeFrames DEF RowsPanic, Dies
  <1>26. CASE SendBand
    <2>1. /\ Message("output", asked + 1, band + 1) \in ToHost
          /\ Message("output", asked + 1, band + 1).id = asked + 1
          /\ asked + 1 \in Nat
      BY WrittenFrames, MessageFields
    <2> QED
      BY <1>26, <2>1, PipeFrames DEF SendBand, Request, FailsAtOnce, Sends
  <1>27. CASE BandAcked BY <1>27 DEF BandAcked, NextBand
  <1>28. CASE FinishOk BY <1>28, WrittenFrames, PipeFrames DEF FinishOk, Sends
  <1>29. CASE FinishErr
    BY <1>29, WrittenFrames, PipeFrames DEF FinishErr, Sends
  <1>30. CASE Exit BY <1>30, WrittenFrames, PipeFrames DEF Exit, Dies, ExitCode
  <1>31. CASE ReadReply BY <1>31, WrittenFrames, PipeFrames DEF ReadReply
  <1>32. CASE ReadCancel
    BY <1>32, WrittenFrames, PipeFrames DEF ReadCancel, ShutDown, StillWaiting
  <1>33. CASE ReadEof BY <1>33 DEF ReadEof, ShutDown, StillWaiting
  <1>34. CASE Crash BY <1>34, WrittenFrames, PipeFrames DEF Crash, Dies
  <1>35. CASE UNCHANGED vars BY <1>35 DEF vars
  <1>36. CASE Over BY <1>35, <1>36 DEF Over
  <1> QED BY <1>1, <1>2, <1>3, <1>4, <1>5, <1>6, <1>7, <1>8, <1>9, <1>10,
      <1>11, <1>12, <1>13, <1>14, <1>15, <1>16, <1>17, <1>18, <1>19, <1>20,
      <1>21, <1>22, <1>23, <1>24, <1>25, <1>26, <1>27, <1>28, <1>29, <1>30,
      <1>31, <1>32, <1>33, <1>34, <1>35, <1>36 DEF Next, HostStep, WorkerStep,
      Reader

-----------------------------------------------------------------------------
\* What a pipe holds: which frames, which band of the mosaic, if any, and
\* whether the frame that must come first does.
Tags(s) == {s[i].tag : i \in 1 .. Len(s)}
OneBand(s, n) ==
  /\ \A i \in 1 .. Len(s) : s[i].tag = "output" => s[i].n = n
  /\ \A i, j \in 1 .. Len(s) :
       s[i].tag = "output" /\ s[j].tag = "output" => i = j
BeginFirst(s) == \A i, j \in 1 .. Len(s) :
  s[i].tag = "begin" /\ s[j].tag = "output" => i < j
CancelFirst(s) == \A i \in 1 .. Len(s) : s[i].tag = "ack" =>
  \E j \in 1 .. Len(s) : j < i /\ s[j].tag = "cancel"

\* Where the two processes can be at a time, and what then waits where.
Places ==
  /\ child = "running" <=> wpc \notin {"none", "exited"}
  /\ child = "none" <=> wpc = "none"
  /\ child = "none" => toHost = <<>> /\ toWorker = <<>> /\ ~shut
  /\ wpc \in {"none", "boot"} => asked = 0 /\ ~bad /\ open = {}
  /\ wpc \in {"reports", "band", "cancelCheck", "begin"} => open = {} /\ ~bad
  /\ hpc = "fill" => cur.tag = "band"
  /\ hpc = "store" => cur.tag = "output"
  /\ cur.tag # "none" => hpc \in {"fill", "store", "dead"}
  /\ hpc \in {"init", "lateCancel", "serve", "fill", "store"} =>
       stdinOpen /\ stdoutOpen
  /\ hpc \in {"start", "spawn", "init", "lateCancel"} => collected = <<>>
  /\ saw # "nothing" =>
       hpc \notin {"start", "spawn", "init", "lateCancel", "fill", "store"}
  /\ last # "none" => wpc \in {"exiting", "exited"}
  /\ saw # "nothing" => last # "none"
  /\ hpc = "reap" => wpc \in {"exiting", "exited"}
  /\ hpc = "dead" => trouble

\* What run() reports comes from the completion frame of the worker, and it
\* is the last frame the worker writes.
Ending ==
  /\ "done" \in Tags(toHost) => last = "done"
  /\ "error" \in Tags(toHost) => last = "error"
  /\ saw = "done" => last = "done"
  /\ saw = "cancelled" => last = "error" /\ cancelRequested
  /\ ran = "ok" => saw = "done"
  /\ ran = "cancelled" => saw = "cancelled"
  /\ outcome = "shown" => ran = "ok"
  /\ outcome = "aborted" => ran = "cancelled"

\* A job nothing disturbed until the worker wrote Done goes on to the end.
Finishing == ~trouble /\ last = "done" =>
  /\ wpc = "exited" => code = "ok" \/ hpc \in {"returned", "done"}
  /\ hpc = "serve" /\ saw = "nothing" => "done" \in Tags(toHost)
  /\ hpc = "reap" => saw = "done"
  /\ hpc \in {"returned", "done"} => ran = "ok"
  /\ hpc = "done" => outcome = "shown"

\* The band the worker hands over next is the one the image needs next, and
\* there is one at a time: it has reached the image, or it waits for the host.
Outputs ==
  /\ OneBand(toHost, Len(collected) + 1)
  /\ "output" \in Tags(toHost) => Len(collected) < Bands
  /\ wpc \in {"none", "boot", "analyze", "cancelCheck", "begin"} => band = 0
  /\ wpc \in {"rows", "band", "ack"} => band < Bands
  /\ wpc = "reports" => band = Bands
  /\ wpc \notin {"ack", "failed", "exiting", "exited"} =>
       "output" \notin Tags(toHost) /\ Len(collected) = band
  /\ wpc = "ack" => \/ Len(collected) = band
                    \/ Len(collected) = band + 1 /\ "output" \notin Tags(toHost)
  /\ last = "done" =>
       /\ Len(collected) = Bands /\ cur.tag = "none"
       /\ Tags(toHost) \cap {"band", "output"} = {}

\* While the worker waits for the acknowledgement of a band no other request
\* is under way.
Handover == wpc = "ack" /\ ~bad =>
  /\ open \subseteq {asked}
  /\ "band" \notin Tags(toHost) /\ cur.tag # "band"
  /\ Tags(toWorker) \cap {"reply", "refusal"} = {}
  /\ Len(collected) = band =>
       asked \in open /\ cur.tag = "none" /\ "ack" \notin Tags(toWorker)

\* The window is there before the first band, and stays until the end.
Windowed ==
  /\ BeginFirst(toHost)
  /\ ~trouble /\ wpc \in {"rows", "band", "ack", "reports"} =>
       window = "hidden" \/ "begin" \in Tags(toHost)
  /\ ~trouble /\ wpc = "ack" /\ Len(collected) = band + 1 => window = "hidden"
  /\ ~trouble /\ wpc = "reports" => window = "hidden"
  /\ ~trouble /\ last = "done" /\ hpc # "done" => window = "hidden"

\* A Cancel is only ever there because somebody called cancel().
Asking ==
  /\ cpc = "write" \/ wcancelled \/ early => cancelRequested
  /\ "cancel" \in Tags(toWorker) => cancelRequested

\* Where nothing failed and nobody cancelled, no request fails and the worker
\* goes on to its Done.
Quiet == ~trouble /\ ~cancelRequested =>
  /\ ~bad /\ ~shut
  /\ "refusal" \notin Tags(toWorker)
  /\ wpc # "failed"
  /\ wpc \in {"exiting", "exited"} => last = "done"
  /\ hpc \in {"reap", "returned", "done"} => last = "done"

\* A cancel() from before run() comes before the acknowledgement of any band.
Early == early =>
  /\ wpc # "reports" /\ last # "done"
  /\ wpc = "ack" => bad \/ (~shut /\ asked \in open)
  /\ ~shut /\ wpc \notin {"exiting", "exited"} =>
       /\ CancelFirst(toWorker)
       /\ hpc \in {"serve", "fill", "store"} /\ wpc # "none" =>
            "cancel" \in Tags(toWorker)

-----------------------------------------------------------------------------
\* What the two kinds of frame are.
LEMMA FrameKinds ==
  /\ \A m : m.tag \in {"band", "output"} => IsRequest(m) /\ Numbered(m)
  /\ \A m \in ToHost : Numbered(m) <=> IsRequest(m)
  /\ \A m \in ToWorker : Numbered(m) <=> IsAnswer(m)
  /\ \A m \in ToHost : IsRequest(m) <=> m.tag \notin {"begin", "done", "error"}
  /\ \A m \in ToWorker : IsAnswer(m) <=> m.tag \notin {"init", "cancel"}
  /\ \A n, k : /\ IsRequest(Message("band", n, k))
               /\ IsRequest(Message("output", n, k))
               /\ IsAnswer(Message("reply", n, k))
               /\ IsAnswer(Message("refusal", n, k))
               /\ IsAnswer(Message("ack", n, k))
  /\ ~Numbered(Frame("init")) /\ ~Numbered(Frame("cancel"))
  /\ ~Numbered(Frame("begin")) /\ ~Numbered(Frame("done"))
  /\ ~Numbered(Frame("error"))
  BY DEF IsRequest, IsAnswer, Numbered, ToHost, ToWorker, Message, Frame

\* A step that makes no answer come too late: the worker still waits for all
\* it waited for, or it gave a request up.
Waits(more, fewer) == ~bad' /\ wpc' # "exited" =>
  ~bad /\ wpc # "exited" /\ (open \cup more) \ fewer \subseteq open'

\* What a step may do to the pipes and the request between them.
Still == UNCHANGED <<toHost, toWorker, cur, asked>> /\ Waits({}, {})
Called == \E m \in ToWorker :
  /\ ~Numbered(m) /\ toWorker' = Append(toWorker, m)
  /\ UNCHANGED <<toHost, cur, asked>> /\ Waits({}, {})
Taken ==
  /\ toHost # <<>> /\ IsRequest(Head(toHost))
  /\ cur' = Head(toHost) /\ toHost' = Tail(toHost)
  /\ UNCHANGED <<toWorker, asked>> /\ Waits({}, {})
Answered == \E m \in ToWorker :
  /\ cur.tag # "none" /\ m.id = cur.id /\ cur' = NoFrame
  /\ toWorker' = Append(toWorker, m)
  /\ UNCHANGED <<toHost, asked>> /\ Waits({}, {})
Noted ==
  /\ toHost # <<>> /\ toHost' = Tail(toHost)
  /\ UNCHANGED <<toWorker, cur, asked>> /\ Waits({}, {})
Dropped == toHost' = <<>> /\ UNCHANGED <<toWorker, cur, asked>> /\ Waits({}, {})
Died ==
  toWorker' = <<>> /\ UNCHANGED <<toHost, cur, asked>> /\ wpc' = "exited"
Thrown ==
  /\ toHost' = <<>> /\ toWorker' = <<>> /\ cur'.tag = "none"
  /\ UNCHANGED asked /\ wpc' = "exited"
Asked == \E m \in ToHost :
  /\ IsRequest(m) /\ m.id = asked + 1 /\ asked' = m.id
  /\ toHost' = Append(toHost, m)
  /\ UNCHANGED <<toWorker, cur>> /\ Waits({m.id}, {})
Told == \E m \in ToHost :
  /\ ~Numbered(m) /\ toHost' = Append(toHost, m)
  /\ UNCHANGED <<toWorker, cur, asked>> /\ Waits({}, {})
Read ==
  /\ toWorker # <<>> /\ toWorker' = Tail(toWorker)
  /\ UNCHANGED <<toHost, cur, asked>>
  /\ \/ Waits({}, {})
     \/ IsAnswer(Head(toWorker)) /\ Waits({}, {Head(toWorker).id})
Refused == \E m \in ToHost :
  /\ ~Numbered(m) /\ toHost' = Append(toHost, m)
  /\ toWorker # <<>> /\ toWorker' = Tail(toWorker)
  /\ UNCHANGED <<cur, asked>> /\ Waits({}, {})

PipeMove == Still \/ Called \/ Taken \/ Answered \/ Noted \/ Dropped \/ Died
            \/ Thrown \/ Asked \/ Told \/ Read \/ Refused

\* Every step makes one of these moves.
LEMMA PipeMoves == JobInv /\ Typed /\ Places /\ [Next]_vars => PipeMove
  <1> SUFFICES ASSUME JobInv, Typed, Places, [Next]_vars
               PROVE  PipeMove
    OBVIOUS
  <1> USE DEF At, Running, Goto, Fine, Failing, Step, Serving, Receive,
              Reading, hostVars, cancelVars, osVars, workerVars, pipes,
              PipeMove, Still, Waits
  <1>1. CASE CancelFlag
    BY <1>1 DEF CancelFlag
  <1>2. CASE CancelWrite
    BY <1>2, WrittenFrames, FrameKinds DEF CancelWrite, Called
  <1>3. CASE CreateShm
    BY <1>3 DEF CreateShm
  <1>4. CASE Spawn
    BY <1>4 DEF Spawn, JobInv, Places
  <1>5. CASE SendInit
    BY <1>5, WrittenFrames, FrameKinds DEF SendInit, Called
  <1>6. CASE SendLateCancel
    BY <1>6, WrittenFrames, FrameKinds DEF SendLateCancel, Frame, Called
  <1>7. CASE TakeRequest
    BY <1>7, FrameKinds DEF TakeRequest, Taken
  <1>8. CASE AnswerBand
    <2>1. PICK tag \in {"reply", "refusal"} : Reply(tag)
      BY <1>8 DEF AnswerBand
    <2> DEFINE m == Message(tag, cur.id, 0)
    <2>2. m \in ToWorker /\ m.id = cur.id /\ cur.tag # "none"
      BY <1>8, WrittenFrames, MessageFields DEF AnswerBand, Typed, Served,
        Places
    <2> HIDE DEF m
    <2>3. CASE child = "running"
      <3>1. /\ toWorker' = Append(toWorker, m) /\ cur' = NoFrame
            /\ UNCHANGED <<toHost, asked, open, bad, wpc>>
        BY <2>1, <2>3 DEF Reply, m
      <3> QED BY <2>2, <3>1 DEF Answered
    <2>4. CASE child # "running"
      BY <2>1, <2>4, MessageFields DEF Reply, Throw, Thrown
    <2> QED BY <2>3, <2>4
  <1>9. CASE AnswerOutput
    <2>1. PICK tag \in {"ack"} : Reply(tag)
      BY <1>9 DEF AnswerOutput
    <2> DEFINE m == Message(tag, cur.id, 0)
    <2>2. m \in ToWorker /\ m.id = cur.id /\ cur.tag # "none"
      BY <1>9, WrittenFrames, MessageFields DEF AnswerOutput, Typed, Served,
        Places
    <2> HIDE DEF m
    <2>3. CASE child = "running"
      <3>1. /\ toWorker' = Append(toWorker, m) /\ cur' = NoFrame
            /\ UNCHANGED <<toHost, asked, open, bad, wpc>>
        BY <2>1, <2>3 DEF Reply, m
      <3> QED BY <2>2, <3>1 DEF Answered
    <2>4. CASE child # "running"
      BY <2>1, <2>4, MessageFields DEF Reply, Throw, Thrown
    <2> QED BY <2>3, <2>4
  <1>10. CASE TakeBegin
    BY <1>10 DEF TakeBegin, Throw, Noted, Thrown, Places
  <1>11. CASE TakeDone
    BY <1>11 DEF TakeDone, Noted, Places
  <1>12. CASE TakeError
    BY <1>12 DEF TakeError, Throw, Acknowledges, Noted, Thrown, Places
  <1>13. CASE LeaveLoop
    BY <1>13 DEF LeaveLoop, EndOfStdout, Dropped
  <1>14. CASE Reap
    BY <1>14 DEF Reap, EndOfRun
  <1>15. CASE DriveHost
    BY <1>15 DEF DriveHost, Closed
  <1>16. CASE HostDies
    BY <1>16 DEF HostDies, Dropped
  <1>17. CASE Boot
    BY <1>17, WrittenFrames, FrameKinds DEF Boot, Sends, Read, Refused
  <1>18. CASE BootEof
    BY <1>18 DEF BootEof
  <1>19. CASE RequestBand
    <2> DEFINE m == Message("band", asked + 1, 0)
    <2>1. m \in ToHost /\ IsRequest(m) /\ m.id = asked + 1
      BY WrittenFrames, MessageFields, FrameKinds DEF Typed
    <2>2. Request(m) /\ UNCHANGED <<cur, toWorker>> /\ wpc # "exited"
      BY <1>19 DEF RequestBand, AsksIn
    <2> HIDE DEF m
    <2>3. CASE FailsAtOnce /\ bad' = TRUE /\ UNCHANGED <<open, asked, toHost>>
      BY <2>2, <2>3
    <2>4. CASE /\ stdoutOpen /\ Sends(m)
               /\ asked' = m.id /\ bad' = (bad \/ shut)
               /\ open' = IF shut THEN open ELSE open \cup {m.id}
      <3>1. toHost' = Append(toHost, m) BY <2>4 DEF Sends
      <3>2. Waits({m.id}, {}) BY <2>2, <2>4
      <3> QED BY <2>1, <2>2, <2>4, <3>1, <3>2 DEF Asked
    <2> QED BY <2>2, <2>3, <2>4 DEF Request
  <1>20. CASE Analyzed
    BY <1>20 DEF Analyzed
  <1>21. CASE AnalysisFails
    BY <1>21 DEF AnalysisFails
  <1>22. CASE CancelCheck
    BY <1>22 DEF CancelCheck
  <1>23. CASE BeginOutput
    BY <1>23, WrittenFrames, FrameKinds DEF BeginOutput, Sends, Told
  <1>24. CASE RowsDone
    BY <1>24 DEF RowsDone
  <1>25. CASE RowsPanic
    BY <1>25 DEF RowsPanic, Dies, Died
  <1>26. CASE SendBand
    <2> DEFINE m == Message("output", asked + 1, band + 1)
    <2>1. m \in ToHost /\ IsRequest(m) /\ m.id = asked + 1
      BY WrittenFrames, MessageFields, FrameKinds DEF Typed
    <2>2. Request(m) /\ UNCHANGED <<cur, toWorker>> /\ wpc # "exited"
      BY <1>26 DEF SendBand
    <2> HIDE DEF m
    <2>3. CASE FailsAtOnce /\ bad' = TRUE /\ UNCHANGED <<open, asked, toHost>>
      BY <2>2, <2>3
    <2>4. CASE /\ stdoutOpen /\ Sends(m)
               /\ asked' = m.id /\ bad' = (bad \/ shut)
               /\ open' = IF shut THEN open ELSE open \cup {m.id}
      <3>1. toHost' = Append(toHost, m) BY <2>4 DEF Sends
      <3>2. Waits({m.id}, {}) BY <2>2, <2>4
      <3> QED BY <2>1, <2>2, <2>4, <3>1, <3>2 DEF Asked
    <2> QED BY <2>2, <2>3, <2>4 DEF Request
  <1>27. CASE BandAcked
    BY <1>27 DEF BandAcked, NextBand
  <1>28. CASE FinishOk
    BY <1>28, WrittenFrames, FrameKinds DEF FinishOk, Sends, Told
  <1>29. CASE FinishErr
    BY <1>29, WrittenFrames, FrameKinds DEF FinishErr, Sends, Told
  <1>30. CASE Exit
    BY <1>30 DEF Exit, Dies, ExitCode, Died
  <1>31. CASE ReadReply
    BY <1>31 DEF ReadReply, Read, IsAnswer
  <1>32. CASE ReadCancel
    BY <1>32 DEF ReadCancel, ShutDown, StillWaiting, Read
  <1>33. CASE ReadEof
    BY <1>33 DEF ReadEof, ShutDown, StillWaiting
  <1>34. CASE Crash
    BY <1>34 DEF Crash, Dies, Died
  <1>35. CASE UNCHANGED vars BY <1>35 DEF vars
  <1>36. CASE Over BY <1>35, <1>36 DEF Over
  <1> QED BY <1>1, <1>2, <1>3, <1>4, <1>5, <1>6, <1>7, <1>8, <1>9, <1>10,
      <1>11, <1>12, <1>13, <1>14, <1>15, <1>16, <1>17, <1>18, <1>19, <1>20,
      <1>21, <1>22, <1>23, <1>24, <1>25, <1>26, <1>27, <1>28, <1>29, <1>30,
      <1>31, <1>32, <1>33, <1>34, <1>35, <1>36 DEF Next, HostStep, WorkerStep,
      Reader

\* More ids to wait for.
LEMMA AwaitedMore ==
  ASSUME NEW out, NEW in, NEW c, NEW ids, NEW more, ids \subseteq more,
         Awaited(out, in, c, ids)
  PROVE  Awaited(out, in, c, more)
  BY DEF Awaited, Among

\* So the requests stay in order.
LEMMA QueueStep == JobInv /\ Typed /\ Places /\ Queue /\ [Next]_vars => Queue'
  <1> SUFFICES ASSUME JobInv, Typed, Places, Queue, PipeMove PROVE Queue'
    BY PipeMoves
  <1> USE DEF Queue, Typed
  <1>1. CASE Still BY <1>1 DEF Still
  <1>2. CASE Called BY <1>2, CalledInTurn DEF Called
  <1>3. CASE Taken BY <1>3, TakenInTurn DEF Taken
  <1>4. CASE Answered
    <2>1. PICK m \in ToWorker : /\ cur.tag # "none" /\ m.id = cur.id
                                /\ cur' = NoFrame
                                /\ toWorker' = Append(toWorker, m)
                                /\ UNCHANGED <<toHost, asked>>
      BY <1>4 DEF Answered
    <2>2. Ordered(toHost, Append(toWorker, m), NoFrame, asked)
      BY <2>1, AnsweredInTurn, MessageFields
    <2> QED BY <2>1, <2>2
  <1>5. CASE Noted BY <1>5, TakenInTurn DEF Noted
  <1>6. CASE Dropped BY <1>6, ClosedInTurn DEF Dropped
  <1>7. CASE Died BY <1>7, ClosedInTurn DEF Died
  <1>8. CASE Thrown BY <1>8, ClosedInTurn DEF Thrown
  <1>9. CASE Asked BY <1>9, AskedInTurn DEF Asked
  <1>10. CASE Told BY <1>10, ToldInTurn DEF Told
  <1>11. CASE Read BY <1>11, ReadInTurn DEF Read
  <1>12. CASE Refused
    <2>1. PICK m \in ToHost : /\ ~Numbered(m) /\ toHost' = Append(toHost, m)
                              /\ toWorker # <<>> /\ toWorker' = Tail(toWorker)
                              /\ UNCHANGED <<cur, asked>>
      BY <1>12 DEF Refused
    <2>2. Ordered(toHost', toWorker, cur, asked) BY <2>1, ToldInTurn
    <2>3. toHost' \in Seq(ToHost) BY <2>1, PutFrame
    <2> QED BY <2>1, <2>2, <2>3, ReadInTurn
  <1> QED BY <1>1, <1>2, <1>3, <1>4, <1>5, <1>6, <1>7, <1>8, <1>9, <1>10,
             <1>11, <1>12 DEF PipeMove

\* And the worker waits for all that is under way.
LEMMA PendingStep ==
  JobInv /\ Typed /\ Places /\ Queue /\ Pending /\ [Next]_vars => Pending'
  <1> SUFFICES ASSUME JobInv, Typed, Places, Queue, Pending, PipeMove,
                      ~bad', wpc' # "exited"
               PROVE  Awaited(toHost', toWorker', cur', open')
    BY PipeMoves DEF Pending
  <1> USE DEF Pending, Queue, Typed
  <1> DEFINE A(ids) == Awaited(toHost', toWorker', cur', ids)
  <1>a. Waits({}, {}) => /\ open \subseteq open'
                         /\ Awaited(toHost, toWorker, cur, open)
    BY DEF Waits
  <1>b. Waits({}, {}) /\ A(open) => A(open') BY <1>a, AwaitedMore
  <1> SUFFICES A(open')
    OBVIOUS
  <1>1. CASE Still BY <1>1, <1>a, <1>b DEF Still
  <1>2. CASE Called BY <1>2, <1>a, <1>b, CalledInTurn DEF Called
  <1>3. CASE Taken BY <1>3, <1>a, <1>b, TakenInTurn DEF Taken
  <1>4. CASE Answered
    BY <1>4, <1>a, <1>b, AnsweredInTurn, MessageFields DEF Answered
  <1>5. CASE Noted BY <1>5, <1>a, <1>b, TakenInTurn DEF Noted
  <1>6. CASE Dropped BY <1>6, <1>a, <1>b, ClosedInTurn DEF Dropped
  <1>7. CASE Died BY <1>7 DEF Died
  <1>8. CASE Thrown BY <1>8 DEF Thrown
  <1>9. CASE Asked
    <2>1. PICK m \in ToHost :
            /\ IsRequest(m) /\ m.id = asked + 1 /\ toHost' = Append(toHost, m)
            /\ UNCHANGED <<toWorker, cur>> /\ Waits({m.id}, {})
      BY <1>9 DEF Asked
    <2>2. /\ Awaited(toHost, toWorker, cur, open)
          /\ open \cup {m.id} \subseteq open'
      BY <2>1 DEF Waits
    <2>3. A(open \cup {m.id}) BY <2>1, <2>2, AskedInTurn
    <2> QED BY <2>2, <2>3, AwaitedMore
  <1>10. CASE Told BY <1>10, <1>a, <1>b, ToldInTurn DEF Told
  <1>11. CASE Read
    <2>1. CASE Waits({}, {}) BY <1>11, <2>1, <1>a, <1>b, ReadInTurn DEF Read
    <2>2. CASE IsAnswer(Head(toWorker)) /\ Waits({}, {Head(toWorker).id})
      <3>1. /\ Awaited(toHost, toWorker, cur, open)
            /\ open \ {Head(toWorker).id} \subseteq open'
        BY <2>2 DEF Waits
      <3>2. A(open \ {Head(toWorker).id})
        BY <1>11, <2>2, <3>1, ReadInTurn DEF Read
      <3> QED BY <3>1, <3>2, AwaitedMore
    <2> QED BY <1>11, <2>1, <2>2 DEF Read
  <1>12. CASE Refused
    <2>1. PICK m \in ToHost : /\ ~Numbered(m) /\ toHost' = Append(toHost, m)
                              /\ toWorker # <<>> /\ toWorker' = Tail(toWorker)
                              /\ UNCHANGED <<cur, asked>> /\ Waits({}, {})
      BY <1>12 DEF Refused
    <2>2. Awaited(toHost', toWorker, cur, open) BY <2>1, <1>a, ToldInTurn
    <2>3. toHost' \in Seq(ToHost) BY <2>1, PutFrame
    <2>4. A(open) BY <2>1, <2>2, <2>3, ReadInTurn
    <2> QED BY <2>1, <2>4, <1>b
  <1> QED BY <1>1, <1>2, <1>3, <1>4, <1>5, <1>6, <1>7, <1>8, <1>9, <1>10,
             <1>11, <1>12 DEF PipeMove

-----------------------------------------------------------------------------
\* What a frame at the end of a pipe adds to what it holds.
LEMMA PutTags ==
  ASSUME NEW S, NEW s \in Seq(S), NEW m \in S
  PROVE  LET q == Append(s, m) IN
         /\ Tags(q) = Tags(s) \cup {m.tag}
         /\ \A n : OneBand(s, n) /\ m.tag # "output" => OneBand(q, n)
         /\ "output" \notin Tags(s) => OneBand(q, m.n)
         /\ BeginFirst(s) /\ (m.tag = "begin" => "output" \notin Tags(s))
              => BeginFirst(q)
         /\ CancelFirst(s) /\ (m.tag = "ack" => "cancel" \in Tags(s))
              => CancelFirst(q)
  <1> DEFINE q == Append(s, m)
  <1>1. /\ Len(q) = Len(s) + 1 /\ q[Len(s) + 1] = m /\ Len(s) \in Nat
        /\ \A i \in 1 .. Len(s) : q[i] = s[i]
    BY PutFrame
  <1>2. 1 .. Len(q) = (1 .. Len(s)) \cup {Len(s) + 1} BY <1>1
  <1> HIDE DEF q
  <1>3. Tags(q) = Tags(s) \cup {m.tag} BY <1>1, <1>2 DEF Tags
  <1>4. \A n : OneBand(s, n) /\ m.tag # "output" => OneBand(q, n)
    BY <1>1, <1>2 DEF OneBand
  <1>5. "output" \notin Tags(s) => OneBand(q, m.n)
    BY <1>1, <1>2 DEF OneBand, Tags
  <1>6. BeginFirst(s) /\ (m.tag = "begin" => "output" \notin Tags(s))
          => BeginFirst(q)
    <2> SUFFICES ASSUME BeginFirst(s),
                        m.tag = "begin" => "output" \notin Tags(s),
                        NEW i \in 1 .. Len(q), NEW j \in 1 .. Len(q),
                        q[i].tag = "begin", q[j].tag = "output"
                 PROVE  i < j
      BY DEF BeginFirst
    <2>1. CASE i \in 1 .. Len(s) /\ j \in 1 .. Len(s)
      BY <1>1, <2>1 DEF BeginFirst
    <2>2. CASE i \in 1 .. Len(s) /\ j = Len(s) + 1 BY <1>1, <2>2
    <2>3. CASE i = Len(s) + 1 /\ j \in 1 .. Len(s) BY <1>1, <2>3 DEF Tags
    <2>4. CASE i = Len(s) + 1 /\ j = Len(s) + 1 BY <1>1, <2>4
    <2> QED BY <1>2, <2>1, <2>2, <2>3, <2>4
  <1>7. CancelFirst(s) /\ (m.tag = "ack" => "cancel" \in Tags(s))
          => CancelFirst(q)
    <2> SUFFICES ASSUME CancelFirst(s), m.tag = "ack" => "cancel" \in Tags(s),
                        NEW i \in 1 .. Len(q), q[i].tag = "ack"
                 PROVE  \E j \in 1 .. Len(q) : j < i /\ q[j].tag = "cancel"
      BY DEF CancelFirst
    <2>1. PICK j \in 1 .. Len(s) : j < i /\ s[j].tag = "cancel"
      <3>1. CASE i \in 1 .. Len(s) BY <1>1, <3>1 DEF CancelFirst
      <3>2. CASE i = Len(s) + 1 BY <1>1, <3>2 DEF Tags
      <3> QED BY <1>2, <3>1, <3>2
    <2> QED BY <1>1, <1>2, <2>1
  <1> QED BY <1>3, <1>4, <1>5, <1>6, <1>7 DEF q

\* What taking the head of a pipe leaves in it.
LEMMA GotTags ==
  ASSUME NEW S, NEW s \in Seq(S), s # <<>>
  PROVE  LET q == Tail(s) IN
         /\ Tags(s) = Tags(q) \cup {Head(s).tag}
         /\ \A n : OneBand(s, n) => OneBand(q, n)
         /\ \A n : OneBand(s, n) /\ Head(s).tag = "output"
                     => Head(s).n = n /\ "output" \notin Tags(q)
         /\ BeginFirst(s) => BeginFirst(q)
         /\ BeginFirst(s) /\ Head(s).tag = "output" => "begin" \notin Tags(s)
         /\ CancelFirst(s) => Head(s).tag # "ack"
         /\ CancelFirst(s) /\ Head(s).tag # "cancel" => CancelFirst(q)
  <1> DEFINE q == Tail(s)
  <1>1. /\ Len(q) = Len(s) - 1 /\ Head(s) = s[1] /\ 1 \in 1 .. Len(s)
        /\ Len(s) \in Nat
        /\ \A i \in 1 .. Len(q) : q[i] = s[i + 1] /\ i + 1 \in 1 .. Len(s)
    BY GotFrame
  <1>2. \A i \in 1 .. Len(s) :
          i = 1 \/ (i - 1 \in 1 .. Len(q) /\ q[i - 1] = s[i])
    BY <1>1
  <1> HIDE DEF q
  <1>3. Tags(s) = Tags(q) \cup {Head(s).tag} BY <1>1, <1>2 DEF Tags
  <1>4. \A n : OneBand(s, n) => OneBand(q, n)
    <2> SUFFICES ASSUME NEW n, OneBand(s, n) PROVE OneBand(q, n)
      OBVIOUS
    <2>1. \A i \in 1 .. Len(q) : q[i].tag = "output" => q[i].n = n
      BY <1>1 DEF OneBand
    <2>2. ASSUME NEW i \in 1 .. Len(q), NEW j \in 1 .. Len(q),
                 q[i].tag = "output", q[j].tag = "output"
          PROVE  i = j
      <3>1. i + 1 = j + 1 BY <1>1, <2>2 DEF OneBand
      <3> QED BY <3>1
    <2> QED BY <2>1, <2>2 DEF OneBand
  <1>5. \A n : OneBand(s, n) /\ Head(s).tag = "output"
                 => Head(s).n = n /\ "output" \notin Tags(q)
    <2> SUFFICES ASSUME NEW n, OneBand(s, n), Head(s).tag = "output"
                 PROVE  Head(s).n = n /\ "output" \notin Tags(q)
      OBVIOUS
    <2>1. \A i \in 1 .. Len(q) : q[i].tag = "output" => i + 1 = 1
      BY <1>1 DEF OneBand
    <2> QED BY <1>1, <2>1 DEF OneBand, Tags
  <1>6. BeginFirst(s) => BeginFirst(q)
    <2> SUFFICES ASSUME BeginFirst(s),
                        NEW i \in 1 .. Len(q), NEW j \in 1 .. Len(q),
                        q[i].tag = "begin", q[j].tag = "output"
                 PROVE  i < j
      BY DEF BeginFirst
    <2>1. i + 1 < j + 1 BY <1>1 DEF BeginFirst
    <2> QED BY <2>1
  <1>7. BeginFirst(s) /\ Head(s).tag = "output" => "begin" \notin Tags(s)
    BY <1>1 DEF BeginFirst, Tags
  <1>8. CancelFirst(s) => Head(s).tag # "ack"
    BY <1>1 DEF CancelFirst
  <1>9. CancelFirst(s) /\ Head(s).tag # "cancel" => CancelFirst(q)
    <2> SUFFICES ASSUME CancelFirst(s), Head(s).tag # "cancel",
                        NEW i \in 1 .. Len(q), q[i].tag = "ack"
                 PROVE  \E j \in 1 .. Len(q) : j < i /\ q[j].tag = "cancel"
      BY DEF CancelFirst
    <2>1. PICK j \in 1 .. Len(s) : j < i + 1 /\ s[j].tag = "cancel"
      BY <1>1 DEF CancelFirst
    <2>2. j # 1 BY <1>1, <2>1
    <2> QED BY <1>1, <1>2, <2>1, <2>2
  <1> QED BY <1>3, <1>4, <1>5, <1>6, <1>7, <1>8, <1>9 DEF q

\* The same of the two pipes of a job.
Puts(s, m, q) ==
  /\ Tags(q) = Tags(s) \cup {m.tag}
  /\ \A n : OneBand(s, n) /\ m.tag # "output" => OneBand(q, n)
  /\ "output" \notin Tags(s) => OneBand(q, m.n)
  /\ BeginFirst(s) /\ (m.tag = "begin" => "output" \notin Tags(s))
       => BeginFirst(q)
  /\ CancelFirst(s) /\ (m.tag = "ack" => "cancel" \in Tags(s))
       => CancelFirst(q)

Gets(s, h, q) ==
  /\ Tags(s) = Tags(q) \cup {h.tag}
  /\ \A n : OneBand(s, n) => OneBand(q, n)
  /\ \A n :
       OneBand(s, n) /\ h.tag = "output" => h.n = n /\ "output" \notin Tags(q)
  /\ BeginFirst(s) => BeginFirst(q)
  /\ BeginFirst(s) /\ h.tag = "output" => "begin" \notin Tags(s)
  /\ CancelFirst(s) => h.tag # "ack"
  /\ CancelFirst(s) /\ h.tag # "cancel" => CancelFirst(q)

\* What a step that writes to a pipe or reads from it changes of its contents.
LEMMA Pipes ==
  ASSUME Typed
  PROVE  /\ \A m \in ToHost :
              toHost' = Append(toHost, m) => Puts(toHost, m, toHost')
         /\ \A m \in ToWorker :
              toWorker' = Append(toWorker, m) => Puts(toWorker, m, toWorker')
         /\ toHost # <<>> /\ toHost' = Tail(toHost)
              => Gets(toHost, Head(toHost), toHost')
         /\ toWorker # <<>> /\ toWorker' = Tail(toWorker)
              => Gets(toWorker, Head(toWorker), toWorker')
         /\ toHost # <<>> => Head(toHost).tag \in Tags(toHost)
         /\ toWorker # <<>> => Head(toWorker).tag \in Tags(toWorker)
  <1> USE DEF Typed
  <1>1. ASSUME NEW m \in ToHost, toHost' = Append(toHost, m)
        PROVE  Puts(toHost, m, toHost')
    BY <1>1, PutTags DEF Puts
  <1>2. ASSUME NEW m \in ToWorker, toWorker' = Append(toWorker, m)
        PROVE  Puts(toWorker, m, toWorker')
    BY <1>2, PutTags DEF Puts
  <1>3. ASSUME toHost # <<>>, toHost' = Tail(toHost)
        PROVE  Gets(toHost, Head(toHost), toHost')
    BY <1>3, GotTags DEF Gets
  <1>4. ASSUME toWorker # <<>>, toWorker' = Tail(toWorker)
        PROVE  Gets(toWorker, Head(toWorker), toWorker')
    BY <1>4, GotTags DEF Gets
  <1>5. toHost # <<>> => Head(toHost).tag \in Tags(toHost) BY GotTags
  <1>6. toWorker # <<>> => Head(toWorker).tag \in Tags(toWorker) BY GotTags
  <1> QED BY <1>1, <1>2, <1>3, <1>4, <1>5, <1>6

\* An empty pipe, and one no band waits in.
LEMMA NoTags ==
  /\ Tags(<<>>) = {} /\ BeginFirst(<<>>) /\ CancelFirst(<<>>)
  /\ \A s, n : "output" \notin Tags(s) => OneBand(s, n)
  BY DEF Tags, BeginFirst, CancelFirst, OneBand

\* When the worker waits for nothing, nothing is under way.
LEMMA NothingAwaited ==
  ASSUME NEW out \in Seq(ToHost), NEW in \in Seq(ToWorker), NEW c,
         Awaited(out, in, c, {})
  PROVE  /\ Tags(out) \cap {"band", "output"} = {} /\ c.tag = "none"
         /\ Tags(in) \cap {"reply", "refusal", "ack"} = {}
  BY DEF Awaited, Among, Tags, Numbered, IsRequest, IsAnswer

\* The frames the worker sends, as the host's pipe then holds them.
LEMMA Offers ==
  ASSUME Typed
  PROVE  /\ RequestBand => \/ UNCHANGED toHost
                           \/ \E m : m.tag = "band" /\ Puts(toHost, m, toHost')
         /\ SendBand => \/ UNCHANGED toHost
                        \/ \E m : /\ m.tag = "output" /\ m.n = band + 1
                                  /\ Puts(toHost, m, toHost')
         /\ BeginOutput =>
              \/ UNCHANGED toHost
              \/ \E m : m.tag = "begin" /\ Puts(toHost, m, toHost')
         /\ FinishOk =>
              \/ UNCHANGED toHost
              \/ \E m : m.tag = "done" /\ Puts(toHost, m, toHost')
  <1>1. ASSUME RequestBand
        PROVE  \/ UNCHANGED toHost
               \/ \E m : m.tag = "band" /\ Puts(toHost, m, toHost')
    <2> DEFINE m == Message("band", asked + 1, 0)
    <2>1. m \in ToHost /\ m.tag = "band"
      BY WrittenFrames, MessageFields DEF Typed
    <2>2. UNCHANGED toHost \/ toHost' = Append(toHost, m)
      BY <1>1 DEF RequestBand, Request, Sends
    <2> HIDE DEF m
    <2> QED BY <2>1, <2>2, Pipes
  <1>2. ASSUME SendBand
        PROVE  \/ UNCHANGED toHost
               \/ \E m : /\ m.tag = "output" /\ m.n = band + 1
                         /\ Puts(toHost, m, toHost')
    <2> DEFINE m == Message("output", asked + 1, band + 1)
    <2>1. m \in ToHost /\ m.tag = "output" /\ m.n = band + 1
      BY WrittenFrames, MessageFields DEF Typed
    <2>2. UNCHANGED toHost \/ toHost' = Append(toHost, m)
      BY <1>2 DEF SendBand, Request, Sends
    <2> HIDE DEF m
    <2> QED BY <2>1, <2>2, Pipes
  <1>3. ASSUME BeginOutput
        PROVE  \/ UNCHANGED toHost
               \/ \E m : m.tag = "begin" /\ Puts(toHost, m, toHost')
    <2>1. UNCHANGED toHost \/ toHost' = Append(toHost, Frame("begin"))
      BY <1>3 DEF BeginOutput, Sends
    <2> QED BY <2>1, Pipes, WrittenFrames, MessageFields
  <1>4. ASSUME FinishOk
        PROVE  \/ UNCHANGED toHost
               \/ \E m : m.tag = "done" /\ Puts(toHost, m, toHost')
    <2>1. UNCHANGED toHost \/ toHost' = Append(toHost, Frame("done"))
      BY <1>4 DEF FinishOk, Sends
    <2> QED BY <2>1, Pipes, WrittenFrames, MessageFields
  <1> QED BY <1>1, <1>2, <1>3, <1>4

\* What the worker reads, and perhaps writes, when it starts.
LEMMA Booted ==
  ASSUME Typed, Boot
  PROVE  /\ toWorker # <<>> /\ Gets(toWorker, Head(toWorker), toWorker')
         /\ Head(toWorker).tag \in Tags(toWorker)
         /\ \/ UNCHANGED toHost
            \/ /\ last' = "error"
               /\ \E m : m.tag = "error" /\ Puts(toHost, m, toHost')
  <1>1. /\ toWorker # <<>> /\ toWorker' = Tail(toWorker)
        /\ \/ UNCHANGED toHost
           \/ last' = "error" /\ toHost' = Append(toHost, Frame("error"))
    BY DEF Boot, Sends
  <1>2. Frame("error") \in ToHost /\ Frame("error").tag = "error"
    BY WrittenFrames, MessageFields
  <1> QED BY <1>1, <1>2, Pipes

\* The places of the two processes stay in step.
LEMMA PlacesStep ==
  JobInv /\ Typed /\ Places /\ Ending /\ [Next]_vars => Places'
  <1> SUFFICES ASSUME JobInv, Typed, Places, Ending, [Next]_vars
               PROVE  Places'
    OBVIOUS
  <1> USE DEF At, Running, Goto, Fine, Failing, Step, Serving, Receive,
              Reading, hostVars, cancelVars, osVars, workerVars, pipes, Places,
              JobInv, HostPlaces, WorkerPlaces
  <1>1. CASE CancelFlag BY <1>1 DEF CancelFlag
  <1>2. CASE CancelWrite BY <1>2 DEF CancelWrite
  <1>3. CASE CreateShm BY <1>3 DEF CreateShm
  <1>4. CASE Spawn BY <1>4 DEF Spawn
  <1>5. CASE SendInit BY <1>5 DEF SendInit
  <1>6. CASE SendLateCancel BY <1>6 DEF SendLateCancel, Frame
  <1>7. CASE TakeRequest BY <1>7, Pipes DEF TakeRequest, Gets, Typed, Ending
  <1>8. CASE AnswerBand
    BY <1>8, MessageFields DEF AnswerBand, Reply, Throw, Typed
  <1>9. CASE AnswerOutput
    BY <1>9, MessageFields DEF AnswerOutput, Reply, Throw, Typed
  <1>10. CASE TakeBegin
    <2>1. CASE Throw
      BY <1>10, <2>1 DEF TakeBegin, Throw
    <2>2. CASE Fine /\ UNCHANGED <<hpc, osVars, workerVars, toWorker>>
      <3>1. UNCHANGED <<saw, cur, collected, trouble>> /\ child # "none"
        BY <1>10, <2>2 DEF TakeBegin
      <3> QED BY <1>10, <2>2, <3>1 DEF TakeBegin
    <2> QED BY <1>10, <2>1, <2>2 DEF TakeBegin
  <1>11. CASE TakeDone BY <1>11, Pipes DEF TakeDone, Gets, Typed, Ending
  <1>12. CASE TakeError
    BY <1>12, Pipes DEF TakeError, Throw, Acknowledges, Gets, Typed, Ending
  <1>13. CASE LeaveLoop
    BY <1>13, MessageFields DEF LeaveLoop, EndOfStdout, Typed
  <1>14. CASE Reap BY <1>14, MessageFields DEF Reap, EndOfRun, Typed
  <1>15. CASE DriveHost BY <1>15, MessageFields DEF DriveHost, Closed, Typed
  <1>16. CASE HostDies BY <1>16, MessageFields DEF HostDies, Typed
  <1>17. CASE Boot BY <1>17 DEF Boot, Sends
  <1>18. CASE BootEof BY <1>18 DEF BootEof
  <1>19. CASE RequestBand
    BY <1>19 DEF RequestBand, AsksIn, Request, FailsAtOnce, Sends
  <1>20. CASE Analyzed BY <1>20 DEF Analyzed
  <1>21. CASE AnalysisFails BY <1>21 DEF AnalysisFails
  <1>22. CASE CancelCheck BY <1>22 DEF CancelCheck
  <1>23. CASE BeginOutput BY <1>23 DEF BeginOutput, Sends
  <1>24. CASE RowsDone BY <1>24 DEF RowsDone
  <1>25. CASE RowsPanic BY <1>25 DEF RowsPanic, Dies
  <1>26. CASE SendBand BY <1>26 DEF SendBand, Request, FailsAtOnce, Sends
  <1>27. CASE BandAcked BY <1>27 DEF BandAcked, NextBand
  <1>28. CASE FinishOk BY <1>28 DEF FinishOk, Sends
  <1>29. CASE FinishErr BY <1>29 DEF FinishErr, Sends
  <1>30. CASE Exit BY <1>30 DEF Exit, Dies, ExitCode
  <1>31. CASE ReadReply BY <1>31 DEF ReadReply
  <1>32. CASE ReadCancel BY <1>32 DEF ReadCancel, ShutDown, StillWaiting
  <1>33. CASE ReadEof BY <1>33 DEF ReadEof, ShutDown, StillWaiting
  <1>34. CASE Crash BY <1>34 DEF Crash, Dies
  <1>35. CASE UNCHANGED vars BY <1>35 DEF vars
  <1>36. CASE Over BY <1>35, <1>36 DEF Over
  <1> QED BY <1>1, <1>2, <1>3, <1>4, <1>5, <1>6, <1>7, <1>8, <1>9, <1>10,
      <1>11, <1>12, <1>13, <1>14, <1>15, <1>16, <1>17, <1>18, <1>19, <1>20,
      <1>21, <1>22, <1>23, <1>24, <1>25, <1>26, <1>27, <1>28, <1>29, <1>30,
      <1>31, <1>32, <1>33, <1>34, <1>35, <1>36 DEF Next, HostStep, WorkerStep,
      Reader

\* The completion frame stays the last one.
LEMMA EndingStep ==
  JobInv /\ Typed /\ Places /\ Ending /\ [Next]_vars => Ending'
  <1> SUFFICES ASSUME JobInv, Typed, Places, Ending, [Next]_vars
               PROVE  Ending'
    OBVIOUS
  <1> USE DEF At, Running, Goto, Fine, Failing, Step, Serving, Receive,
              Reading, hostVars, cancelVars, osVars, workerVars, pipes, Ending
  <1>1. CASE CancelFlag BY <1>1 DEF CancelFlag
  <1>2. CASE CancelWrite BY <1>2 DEF CancelWrite
  <1>3. CASE CreateShm BY <1>3, NoTags DEF CreateShm, Places, JobInv
  <1>4. CASE Spawn BY <1>4, NoTags DEF Spawn, Places, JobInv
  <1>5. CASE SendInit BY <1>5 DEF SendInit
  <1>6. CASE SendLateCancel BY <1>6 DEF SendLateCancel, Frame
  <1>7. CASE TakeRequest
    BY <1>7, Pipes, NoTags DEF TakeRequest, Gets, Typed, Places
  <1>8. CASE AnswerBand
    BY <1>8, NoTags DEF AnswerBand, Reply, Throw, Places, JobInv
  <1>9. CASE AnswerOutput
    BY <1>9, NoTags DEF AnswerOutput, Reply, Throw, Places, JobInv
  <1>10. CASE TakeBegin
    BY <1>10, Pipes, NoTags DEF TakeBegin, Throw, Gets, Typed, Places
  <1>11. CASE TakeDone
    BY <1>11, Pipes, NoTags DEF TakeDone, Gets, Typed, Places
  <1>12. CASE TakeError
    BY <1>12, Pipes, NoTags DEF TakeError, Throw, Acknowledges, Gets, Typed,
      Places
  <1>13. CASE LeaveLoop
    BY <1>13, NoTags DEF LeaveLoop, EndOfStdout, Places, JobInv
  <1>14. CASE Reap BY <1>14, NoTags DEF Reap, EndOfRun, Places, JobInv
  <1>15. CASE DriveHost BY <1>15, NoTags DEF DriveHost, Closed, Places, JobInv
  <1>16. CASE HostDies BY <1>16, NoTags DEF HostDies, Places, JobInv
  <1>17. CASE Boot BY <1>17, Booted DEF Boot, Puts, Typed, Places
  <1>18. CASE BootEof BY <1>18 DEF BootEof
  <1>19. CASE RequestBand
    BY <1>19, Offers DEF RequestBand, AsksIn, Request, FailsAtOnce, Sends,
      Puts, Typed, Places
  <1>20. CASE Analyzed BY <1>20 DEF Analyzed
  <1>21. CASE AnalysisFails BY <1>21 DEF AnalysisFails
  <1>22. CASE CancelCheck BY <1>22 DEF CancelCheck
  <1>23. CASE BeginOutput
    BY <1>23, Offers DEF BeginOutput, Sends, Puts, Typed, Places
  <1>24. CASE RowsDone BY <1>24 DEF RowsDone
  <1>25. CASE RowsPanic BY <1>25 DEF RowsPanic, Dies
  <1>26. CASE SendBand
    BY <1>26, Offers DEF SendBand, Request, FailsAtOnce, Sends, Puts, Typed,
      Places
  <1>27. CASE BandAcked BY <1>27 DEF BandAcked, NextBand
  <1>28. CASE FinishOk
    BY <1>28, Offers DEF FinishOk, Sends, Puts, Typed, Places
  <1>29. CASE FinishErr
    BY <1>29, Pipes, WrittenFrames, MessageFields DEF FinishErr, Sends, Puts,
      Typed, Places
  <1>30. CASE Exit BY <1>30 DEF Exit, Dies, ExitCode
  <1>31. CASE ReadReply BY <1>31, Pipes DEF ReadReply, Gets, Typed
  <1>32. CASE ReadCancel
    BY <1>32, Pipes DEF ReadCancel, ShutDown, StillWaiting, Gets, Typed
  <1>33. CASE ReadEof BY <1>33 DEF ReadEof, ShutDown, StillWaiting
  <1>34. CASE Crash BY <1>34 DEF Crash, Dies
  <1>35. CASE UNCHANGED vars BY <1>35 DEF vars
  <1>36. CASE Over BY <1>35, <1>36 DEF Over
  <1> QED BY <1>1, <1>2, <1>3, <1>4, <1>5, <1>6, <1>7, <1>8, <1>9, <1>10,
      <1>11, <1>12, <1>13, <1>14, <1>15, <1>16, <1>17, <1>18, <1>19, <1>20,
      <1>21, <1>22, <1>23, <1>24, <1>25, <1>26, <1>27, <1>28, <1>29, <1>30,
      <1>31, <1>32, <1>33, <1>34, <1>35, <1>36 DEF Next, HostStep, WorkerStep,
      Reader

\* The frames the host sends, as the worker's pipe then holds them; a reply
\* finds the worker there, or run() throws.
LEMMA Answers ==
  ASSUME JobInv, Typed, Places
  PROVE  /\ AnswerBand => \/ Throw
                          \/ \E m : /\ m.tag \in {"reply", "refusal"}
                                    /\ m.tag = "refusal" => trouble'
                                    /\ Puts(toWorker, m, toWorker')
         /\ AnswerOutput => \/ Throw
                            \/ \E m :
                                   m.tag = "ack" /\ Puts(toWorker, m, toWorker')
         /\ SendInit => \/ UNCHANGED toWorker
                        \/ \E m : m.tag = "init" /\ Puts(toWorker, m, toWorker')
         /\ SendLateCancel => \/ UNCHANGED toWorker
                              \/ \E m : /\ m.tag = "cancel" /\ cancelRequested
                                        /\ Puts(toWorker, m, toWorker')
         /\ CancelWrite => \/ UNCHANGED toWorker
                           \/ \E m : /\ m.tag = "cancel"
                                     /\ Puts(toWorker, m, toWorker')
  <1>1. ASSUME NEW tag \in {"reply", "refusal", "ack"}, Reply(tag)
        PROVE  Throw \/ \E m : m.tag = tag /\ Puts(toWorker, m, toWorker')
    <2> DEFINE m == Message(tag, cur.id, 0)
    <2>1. m \in ToWorker /\ m.tag = tag
      BY WrittenFrames, MessageFields DEF Typed, Served
    <2>2. Throw \/ toWorker' = Append(toWorker, m) BY <1>1 DEF Reply
    <2> HIDE DEF m
    <2> QED BY <2>1, <2>2, Pipes
  <1>2. ASSUME AnswerBand
        PROVE  \/ Throw
               \/ \E m : /\ m.tag \in {"reply", "refusal"}
                         /\ m.tag = "refusal" => trouble'
                         /\ Puts(toWorker, m, toWorker')
    <2>1. CASE Reply("reply") BY <1>1, <2>1
    <2>2. CASE Failing("refuse") /\ Reply("refusal")
      BY <1>1, <2>2 DEF Failing
    <2> QED BY <1>2, <2>1, <2>2 DEF AnswerBand
  <1>3. ASSUME AnswerOutput
        PROVE  Throw \/ \E m :
                                   m.tag = "ack" /\ Puts(toWorker, m, toWorker')
    BY <1>1, <1>3 DEF AnswerOutput
  <1>4. ASSUME SendInit
        PROVE  \/ UNCHANGED toWorker
               \/ \E m : m.tag = "init" /\ Puts(toWorker, m, toWorker')
    <2>1. UNCHANGED toWorker \/ toWorker' = Append(toWorker, Frame("init"))
      BY <1>4 DEF SendInit
    <2> QED BY <2>1, Pipes, WrittenFrames, MessageFields
  <1>5. ASSUME SendLateCancel
        PROVE  \/ UNCHANGED toWorker
               \/ \E m : /\ m.tag = "cancel" /\ cancelRequested
                         /\ Puts(toWorker, m, toWorker')
    <2>1. \/ UNCHANGED toWorker
          \/ cancelRequested /\ toWorker' = Append(toWorker, Frame("cancel"))
      BY <1>5 DEF SendLateCancel, DueCancel
    <2> QED BY <2>1, Pipes, WrittenFrames, MessageFields
  <1>6. ASSUME CancelWrite
        PROVE  \/ UNCHANGED toWorker
               \/ \E m : m.tag = "cancel" /\ Puts(toWorker, m, toWorker')
    <2>1. UNCHANGED toWorker \/ toWorker' = Append(toWorker, Frame("cancel"))
      BY <1>6 DEF CancelWrite
    <2> QED BY <2>1, Pipes, WrittenFrames, MessageFields
  <1> QED BY <1>2, <1>3, <1>4, <1>5, <1>6

\* While the worker is not on its way out both pipes are open, and the host
\* is where it serves them, unless PixInsight is gone.
LEMMA Connected ==
  ASSUME JobInv, Places, ~trouble, wpc \notin {"none", "exiting", "exited"}
  PROVE  /\ stdinOpen /\ stdoutOpen
         /\ hpc \in {"init", "lateCancel", "serve", "fill", "store"}
  BY DEF JobInv, Places, HostPlaces

\* The worker cannot be done before the host serves.
LEMMA NotYet ==
  ASSUME Places, Outputs, hpc \in {"start", "spawn", "init", "lateCancel"}
  PROVE  last # "done"
  <1>1. Len(collected) = 0 BY DEF Places
  <1> QED BY <1>1, IpcRunAssumption DEF Outputs

\* The worker has answers to read only once it asked.
LEMMA FreshLink ==
  ASSUME Typed, Queue, asked = 0
  PROVE  Tags(toWorker) \subseteq {"init", "cancel"}
  <1>1. \A i \in 1 .. Len(toWorker) : toWorker[i] \in ToWorker BY DEF Typed
  <1>2. \A i \in 1 .. Len(toWorker) : ~Numbered(toWorker[i])
    BY DEF Queue, Ordered, Within
  <1> QED BY <1>1, <1>2, FrameKinds DEF Tags, ToWorker

\* A Cancel comes from a cancel().
LEMMA AskingStep ==
  JobInv /\ Typed /\ Places /\ Asking /\ [Next]_vars => Asking'
  <1> SUFFICES ASSUME JobInv, Typed, Places, Asking, [Next]_vars
               PROVE  Asking'
    OBVIOUS
  <1> USE DEF At, Running, Goto, Fine, Failing, Step, Serving, Receive,
              Reading, hostVars, cancelVars, osVars, workerVars, pipes, Asking,
              Typed, Places, JobInv
  <1>1. CASE CancelFlag BY <1>1 DEF CancelFlag
  <1>2. CASE CancelWrite BY <1>2, Answers DEF CancelWrite, Puts
  <1>3. CASE CreateShm BY <1>3 DEF CreateShm
  <1>4. CASE Spawn BY <1>4, NoTags DEF Spawn
  <1>5. CASE SendInit BY <1>5, Answers DEF SendInit, Puts
  <1>6. CASE SendLateCancel BY <1>6, Answers DEF SendLateCancel, Frame, Puts
  <1>7. CASE TakeRequest BY <1>7, Pipes, NoTags DEF TakeRequest, Gets
  <1>8. CASE AnswerBand
    <2>0. /\ cur.tag # "none"
          /\ UNCHANGED <<cancelVars, saw, window, outcome, collected>>
          /\ (trouble => trouble') /\ hpc \in {"fill", "store"}
      BY <1>8 DEF AnswerBand, Reply
    <2>1. CASE Throw /\ child # "running"
      BY <2>0, <2>1, NoTags DEF Throw
    <2>2. CASE UNCHANGED <<ran, osVars, workerVars, toHost>> /\ hpc' = "serve"
      <3>1. PICK m : /\ m.tag \in {"reply", "refusal"}
                     /\ m.tag = "refusal" => trouble'
                     /\ Puts(toWorker, m, toWorker')
        BY <1>8, <2>2, <2>0, Answers DEF Throw
      <3> QED BY <2>0, <2>2, <3>1 DEF Puts
    <2> QED BY <1>8, <2>1, <2>2 DEF AnswerBand, Reply
  <1>9. CASE AnswerOutput
    <2>0. /\ cur.tag # "none"
          /\ UNCHANGED <<cancelVars, saw, window, outcome, collected>>
          /\ (trouble => trouble') /\ hpc \in {"fill", "store"}
      BY <1>9 DEF AnswerOutput, Reply
    <2>1. CASE Throw /\ child # "running"
      BY <2>0, <2>1, NoTags DEF Throw
    <2>2. CASE UNCHANGED <<ran, osVars, workerVars, toHost>> /\ hpc' = "serve"
      <3>1. PICK m : /\ m.tag \in {"ack"}
                     /\ m.tag = "refusal" => trouble'
                     /\ Puts(toWorker, m, toWorker')
        BY <1>9, <2>2, <2>0, Answers DEF Throw
      <3> QED BY <2>0, <2>2, <3>1 DEF Puts
    <2> QED BY <1>9, <2>1, <2>2 DEF AnswerOutput, Reply
  <1>10. CASE TakeBegin
    <2>1. CASE Failing("collector") /\ Throw
      BY <1>10, <2>1, NoTags DEF TakeBegin, Throw
    <2>2. CASE /\ Fine /\ window' = "hidden" /\ toHost' = Tail(toHost)
               /\ UNCHANGED <<hpc, ran, osVars, workerVars, toWorker>>
      BY <1>10, <2>2, Pipes DEF TakeBegin, Gets
    <2> QED BY <1>10, <2>1, <2>2 DEF TakeBegin
  <1>11. CASE TakeDone BY <1>11, Pipes, NoTags DEF TakeDone, Gets
  <1>12. CASE TakeError
    BY <1>12, Pipes, NoTags DEF TakeError, Throw, Acknowledges, Gets
  <1>13. CASE LeaveLoop BY <1>13, NoTags DEF LeaveLoop, EndOfStdout
  <1>14. CASE Reap BY <1>14 DEF Reap, EndOfRun
  <1>15. CASE DriveHost BY <1>15 DEF DriveHost, Closed
  <1>16. CASE HostDies BY <1>16, NoTags DEF HostDies
  <1>17. CASE Boot BY <1>17, Booted DEF Boot, Puts, Gets
  <1>18. CASE BootEof BY <1>18, Connected DEF BootEof
  <1>19. CASE RequestBand
    BY <1>19, Offers, Connected DEF RequestBand, AsksIn, Request, FailsAtOnce,
      Sends, Puts
  <1>20. CASE Analyzed BY <1>20 DEF Analyzed
  <1>21. CASE AnalysisFails BY <1>21 DEF AnalysisFails
  <1>22. CASE CancelCheck BY <1>22 DEF CancelCheck
  <1>23. CASE BeginOutput
    BY <1>23, Offers, Connected DEF BeginOutput, Sends, Puts
  <1>24. CASE RowsDone BY <1>24 DEF RowsDone
  <1>25. CASE RowsPanic BY <1>25, NoTags DEF RowsPanic, Dies
  <1>26. CASE SendBand
    BY <1>26, Offers, Connected DEF SendBand, Request, FailsAtOnce, Sends, Puts
  <1>27. CASE BandAcked BY <1>27 DEF BandAcked, NextBand
  <1>28. CASE FinishOk BY <1>28, Offers, Connected DEF FinishOk, Sends, Puts
  <1>29. CASE FinishErr
    BY <1>29, Pipes, WrittenFrames, MessageFields DEF FinishErr, Sends, Puts
  <1>30. CASE Exit BY <1>30, NoTags DEF Exit, Dies, ExitCode
  <1>31. CASE ReadReply BY <1>31, Pipes, Connected DEF ReadReply, Gets
  <1>32. CASE ReadCancel
    BY <1>32, Pipes, Connected DEF ReadCancel, ShutDown, StillWaiting, Gets
  <1>33. CASE ReadEof BY <1>33, Connected DEF ReadEof, ShutDown, StillWaiting
  <1>34. CASE Crash BY <1>34, NoTags DEF Crash, Dies
  <1>35. CASE UNCHANGED vars BY <1>35 DEF vars
  <1>36. CASE Over BY <1>35, <1>36 DEF Over
  <1> QED BY <1>1, <1>2, <1>3, <1>4, <1>5, <1>6, <1>7, <1>8, <1>9, <1>10,
      <1>11, <1>12, <1>13, <1>14, <1>15, <1>16, <1>17, <1>18, <1>19, <1>20,
      <1>21, <1>22, <1>23, <1>24, <1>25, <1>26, <1>27, <1>28, <1>29, <1>30,
      <1>31, <1>32, <1>33, <1>34, <1>35, <1>36 DEF Next, HostStep, WorkerStep,
      Reader

\* Undisturbed, the job goes on to its Done.
LEMMA QuietStep ==
  JobInv /\ Typed /\ Places /\ Queue /\ Ending /\ Asking /\ Outputs /\ Quiet /\
    [Next]_vars => Quiet'
  <1> SUFFICES ASSUME JobInv, Typed, Places, Queue, Ending, Asking, Outputs,
                      Quiet, [Next]_vars
               PROVE  Quiet'
    OBVIOUS
  <1> USE DEF At, Running, Goto, Fine, Failing, Step, Serving, Receive,
              Reading, hostVars, cancelVars, osVars, workerVars, pipes, Quiet,
              Typed, Places, JobInv, Asking, Ending, Outputs
  <1>1. CASE CancelFlag BY <1>1 DEF CancelFlag
  <1>2. CASE CancelWrite BY <1>2, Answers DEF CancelWrite, Puts
  <1>3. CASE CreateShm BY <1>3 DEF CreateShm
  <1>4. CASE Spawn BY <1>4, NoTags DEF Spawn
  <1>5. CASE SendInit BY <1>5, Answers DEF SendInit, Puts
  <1>6. CASE SendLateCancel BY <1>6, Answers DEF SendLateCancel, Frame, Puts
  <1>7. CASE TakeRequest BY <1>7, Pipes, NoTags DEF TakeRequest, Gets
  <1>8. CASE AnswerBand
    <2>0. /\ cur.tag # "none"
          /\ UNCHANGED <<cancelVars, saw, window, outcome, collected>>
          /\ (trouble => trouble') /\ hpc \in {"fill", "store"}
      BY <1>8 DEF AnswerBand, Reply
    <2>1. CASE Throw /\ child # "running"
      BY <2>0, <2>1, NoTags DEF Throw
    <2>2. CASE UNCHANGED <<ran, osVars, workerVars, toHost>> /\ hpc' = "serve"
      <3>1. PICK m : /\ m.tag \in {"reply", "refusal"}
                     /\ m.tag = "refusal" => trouble'
                     /\ Puts(toWorker, m, toWorker')
        BY <1>8, <2>2, <2>0, Answers DEF Throw
      <3> QED BY <2>0, <2>2, <3>1 DEF Puts
    <2> QED BY <1>8, <2>1, <2>2 DEF AnswerBand, Reply
  <1>9. CASE AnswerOutput
    <2>0. /\ cur.tag # "none"
          /\ UNCHANGED <<cancelVars, saw, window, outcome, collected>>
          /\ (trouble => trouble') /\ hpc \in {"fill", "store"}
      BY <1>9 DEF AnswerOutput, Reply
    <2>1. CASE Throw /\ child # "running"
      BY <2>0, <2>1, NoTags DEF Throw
    <2>2. CASE UNCHANGED <<ran, osVars, workerVars, toHost>> /\ hpc' = "serve"
      <3>1. PICK m : /\ m.tag \in {"ack"}
                     /\ m.tag = "refusal" => trouble'
                     /\ Puts(toWorker, m, toWorker')
        BY <1>9, <2>2, <2>0, Answers DEF Throw
      <3> QED BY <2>0, <2>2, <3>1 DEF Puts
    <2> QED BY <1>9, <2>1, <2>2 DEF AnswerOutput, Reply
  <1>10. CASE TakeBegin
    <2>1. CASE Failing("collector") /\ Throw
      BY <1>10, <2>1, NoTags DEF TakeBegin, Throw
    <2>2. CASE /\ Fine /\ window' = "hidden" /\ toHost' = Tail(toHost)
               /\ UNCHANGED <<hpc, ran, osVars, workerVars, toWorker>>
      BY <1>10, <2>2, Pipes DEF TakeBegin, Gets
    <2> QED BY <1>10, <2>1, <2>2 DEF TakeBegin
  <1>11. CASE TakeDone BY <1>11, Pipes, NoTags DEF TakeDone, Gets
  <1>12. CASE TakeError
    BY <1>12, Pipes, NoTags DEF TakeError, Throw, Acknowledges, Gets
  <1>13. CASE LeaveLoop BY <1>13, NoTags DEF LeaveLoop, EndOfStdout
  <1>14. CASE Reap BY <1>14 DEF Reap, EndOfRun
  <1>15. CASE DriveHost BY <1>15 DEF DriveHost, Closed
  <1>16. CASE HostDies BY <1>16, NoTags DEF HostDies
  <1>17. CASE Boot
    BY <1>17, Booted, FreshLink, Connected DEF Boot, Puts, Gets
  <1>18. CASE BootEof BY <1>18, Connected DEF BootEof
  <1>19. CASE RequestBand
    BY <1>19, Offers, Connected DEF RequestBand, AsksIn, Request, FailsAtOnce,
      Sends, Puts
  <1>20. CASE Analyzed BY <1>20 DEF Analyzed
  <1>21. CASE AnalysisFails BY <1>21 DEF AnalysisFails
  <1>22. CASE CancelCheck BY <1>22 DEF CancelCheck
  <1>23. CASE BeginOutput
    BY <1>23, Offers, Connected DEF BeginOutput, Sends, Puts
  <1>24. CASE RowsDone BY <1>24 DEF RowsDone
  <1>25. CASE RowsPanic BY <1>25, NoTags DEF RowsPanic, Dies
  <1>26. CASE SendBand
    BY <1>26, Offers, Connected DEF SendBand, Request, FailsAtOnce, Sends, Puts
  <1>27. CASE BandAcked BY <1>27 DEF BandAcked, NextBand
  <1>28. CASE FinishOk BY <1>28, Offers, Connected DEF FinishOk, Sends, Puts
  <1>29. CASE FinishErr
    BY <1>29, Pipes, WrittenFrames, MessageFields DEF FinishErr, Sends, Puts
  <1>30. CASE Exit BY <1>30, NoTags DEF Exit, Dies, ExitCode
  <1>31. CASE ReadReply BY <1>31, Pipes, Connected DEF ReadReply, Gets
  <1>32. CASE ReadCancel
    BY <1>32, Pipes, Connected DEF ReadCancel, ShutDown, StillWaiting, Gets
  <1>33. CASE ReadEof BY <1>33, Connected DEF ReadEof, ShutDown, StillWaiting
  <1>34. CASE Crash BY <1>34, NoTags DEF Crash, Dies
  <1>35. CASE UNCHANGED vars BY <1>35 DEF vars
  <1>36. CASE Over BY <1>35, <1>36 DEF Over
  <1> QED BY <1>1, <1>2, <1>3, <1>4, <1>5, <1>6, <1>7, <1>8, <1>9, <1>10,
      <1>11, <1>12, <1>13, <1>14, <1>15, <1>16, <1>17, <1>18, <1>19, <1>20,
      <1>21, <1>22, <1>23, <1>24, <1>25, <1>26, <1>27, <1>28, <1>29, <1>30,
      <1>31, <1>32, <1>33, <1>34, <1>35, <1>36 DEF Next, HostStep, WorkerStep,
      Reader

\* A Done that is written is in the pipe.
LEMMA DoneWritten ==
  ASSUME Typed, toHost' = Append(toHost, Frame("done"))
  PROVE  "done" \in Tags(toHost')
  BY Pipes, WrittenFrames, MessageFields DEF Puts

\* After the Done of the worker only a failure can spoil the job.
LEMMA FinishingStep ==
  JobInv /\ Typed /\ Places /\ Pending /\ Ending /\ Outputs /\ Windowed /\
    Finishing /\ [Next]_vars => Finishing'
  <1> SUFFICES ASSUME JobInv, Typed, Places, Pending, Ending, Outputs,
                      Windowed, Finishing, [Next]_vars
               PROVE  Finishing'
    OBVIOUS
  <1> USE DEF At, Running, Goto, Fine, Failing, Step, Serving, Receive,
              Reading, hostVars, cancelVars, osVars, workerVars, pipes,
              Finishing, Typed, Places, JobInv, Ending, Outputs
  <1>1. CASE CancelFlag BY <1>1 DEF CancelFlag
  <1>2. CASE CancelWrite BY <1>2, Answers DEF CancelWrite, Puts
  <1>3. CASE CreateShm BY <1>3 DEF CreateShm
  <1>4. CASE Spawn BY <1>4, NoTags DEF Spawn
  <1>5. CASE SendInit BY <1>5, NotYet, Answers DEF SendInit, Puts
  <1>6. CASE SendLateCancel
    BY <1>6, NotYet, Answers DEF SendLateCancel, Frame, Puts
  <1>7. CASE TakeRequest BY <1>7, Pipes, NoTags DEF TakeRequest, Gets
  <1>8. CASE AnswerBand
    <2>0. /\ cur.tag # "none"
          /\ UNCHANGED <<cancelVars, saw, window, outcome, collected>>
          /\ (trouble => trouble') /\ hpc \in {"fill", "store"}
      BY <1>8 DEF AnswerBand, Reply
    <2>1. CASE Throw /\ child # "running"
      BY <2>0, <2>1, NoTags DEF Throw
    <2>2. CASE UNCHANGED <<ran, osVars, workerVars, toHost>> /\ hpc' = "serve"
      <3>1. PICK m : /\ m.tag \in {"reply", "refusal"}
                     /\ m.tag = "refusal" => trouble'
                     /\ Puts(toWorker, m, toWorker')
        BY <1>8, <2>2, <2>0, Answers DEF Throw
      <3> QED BY <2>0, <2>2, <3>1 DEF Puts
    <2> QED BY <1>8, <2>1, <2>2 DEF AnswerBand, Reply
  <1>9. CASE AnswerOutput
    <2>0. /\ cur.tag # "none"
          /\ UNCHANGED <<cancelVars, saw, window, outcome, collected>>
          /\ (trouble => trouble') /\ hpc \in {"fill", "store"}
      BY <1>9 DEF AnswerOutput, Reply
    <2>1. CASE Throw /\ child # "running"
      BY <2>0, <2>1, NoTags DEF Throw
    <2>2. CASE UNCHANGED <<ran, osVars, workerVars, toHost>> /\ hpc' = "serve"
      <3>1. PICK m : /\ m.tag \in {"ack"}
                     /\ m.tag = "refusal" => trouble'
                     /\ Puts(toWorker, m, toWorker')
        BY <1>9, <2>2, <2>0, Answers DEF Throw
      <3> QED BY <2>0, <2>2, <3>1 DEF Puts
    <2> QED BY <1>9, <2>1, <2>2 DEF AnswerOutput, Reply
  <1>10. CASE TakeBegin
    <2>1. CASE Failing("collector") /\ Throw
      BY <1>10, <2>1, NoTags DEF TakeBegin, Throw
    <2>2. CASE /\ Fine /\ window' = "hidden" /\ toHost' = Tail(toHost)
               /\ UNCHANGED <<hpc, ran, osVars, workerVars, toWorker>>
      BY <1>10, <2>2, Pipes DEF TakeBegin, Gets
    <2> QED BY <1>10, <2>1, <2>2 DEF TakeBegin
  <1>11. CASE TakeDone BY <1>11, Pipes, NoTags DEF TakeDone, Gets
  <1>12. CASE TakeError
    BY <1>12, Pipes, NoTags DEF TakeError, Throw, Acknowledges, Gets
  <1>13. CASE LeaveLoop BY <1>13, NoTags DEF LeaveLoop, EndOfStdout
  <1>14. CASE Reap BY <1>14 DEF Reap, EndOfRun
  <1>15. CASE DriveHost BY <1>15 DEF DriveHost, Closed, Windowed
  <1>16. CASE HostDies BY <1>16, NoTags DEF HostDies
  <1>17. CASE Boot BY <1>17, Booted DEF Boot, Puts, Gets
  <1>18. CASE BootEof BY <1>18, Connected DEF BootEof
  <1>19. CASE RequestBand
    BY <1>19, Offers, Connected DEF RequestBand, AsksIn, Request, FailsAtOnce,
      Sends, Puts
  <1>20. CASE Analyzed BY <1>20 DEF Analyzed
  <1>21. CASE AnalysisFails BY <1>21 DEF AnalysisFails
  <1>22. CASE CancelCheck BY <1>22 DEF CancelCheck
  <1>23. CASE BeginOutput
    BY <1>23, Offers, Connected DEF BeginOutput, Sends, Puts
  <1>24. CASE RowsDone BY <1>24 DEF RowsDone
  <1>25. CASE RowsPanic BY <1>25, NoTags DEF RowsPanic, Dies
  <1>26. CASE SendBand
    BY <1>26, Offers, Connected DEF SendBand, Request, FailsAtOnce, Sends, Puts
  <1>27. CASE BandAcked BY <1>27 DEF BandAcked, NextBand
  <1>28. CASE FinishOk
    <2>1. CASE last' = "done" /\ ~trouble'
      <3>1. /\ wpc = "reports" /\ wpc' = "exiting" /\ ~trouble /\ stdoutOpen
            /\ toHost' = Append(toHost, Frame("done"))
            /\ UNCHANGED <<hpc, saw, cur>>
        BY <1>28, <2>1 DEF FinishOk, Sends
      <3>2. "done" \in Tags(toHost')
        BY <3>1, DoneWritten
      <3>3. hpc \in {"init", "lateCancel", "serve", "fill", "store"}
        BY <3>1, Connected
      <3> QED BY <3>1, <3>2, <3>3
    <2>2. CASE ~(last' = "done" /\ ~trouble') BY <2>2
    <2> QED BY <2>1, <2>2
  <1>29. CASE FinishErr
    BY <1>29, Pipes, WrittenFrames, MessageFields DEF FinishErr, Sends, Puts
  <1>30. CASE Exit BY <1>30, NoTags DEF Exit, Dies, ExitCode
  <1>31. CASE ReadReply BY <1>31, Pipes, Connected DEF ReadReply, Gets
  <1>32. CASE ReadCancel
    BY <1>32, Pipes, Connected DEF ReadCancel, ShutDown, StillWaiting, Gets
  <1>33. CASE ReadEof BY <1>33, Connected DEF ReadEof, ShutDown, StillWaiting
  <1>34. CASE Crash BY <1>34, NoTags DEF Crash, Dies
  <1>35. CASE UNCHANGED vars BY <1>35 DEF vars
  <1>36. CASE Over BY <1>35, <1>36 DEF Over
  <1> QED BY <1>1, <1>2, <1>3, <1>4, <1>5, <1>6, <1>7, <1>8, <1>9, <1>10,
      <1>11, <1>12, <1>13, <1>14, <1>15, <1>16, <1>17, <1>18, <1>19, <1>20,
      <1>21, <1>22, <1>23, <1>24, <1>25, <1>26, <1>27, <1>28, <1>29, <1>30,
      <1>31, <1>32, <1>33, <1>34, <1>35, <1>36 DEF Next, HostStep, WorkerStep,
      Reader

\* An acknowledged band is in the image.
LEMMA AckedBand ==
  ASSUME Typed, Outputs, Handover, wpc = "ack", ~bad, open = {}
  PROVE  Len(collected) = band + 1 /\ "output" \notin Tags(toHost)
  BY DEF Outputs, Handover

\* A worker that waits for nothing left nothing in the pipes.
LEMMA QuietPipes ==
  ASSUME Typed, Pending, wpc # "exited", ~bad, open = {}
  PROVE  /\ Tags(toHost) \cap {"band", "output"} = {} /\ cur.tag = "none"
         /\ Tags(toWorker) \cap {"reply", "refusal", "ack"} = {}
  BY NothingAwaited DEF Pending, Typed

\* The bands come one at a time and in order.
LEMMA OutputsStep ==
  JobInv /\ Typed /\ Places /\ Pending /\ Ending /\ Outputs /\ Handover /\
    [Next]_vars => Outputs'
  <1> SUFFICES ASSUME JobInv, Typed, Places, Pending, Ending, Outputs,
                      Handover, [Next]_vars
               PROVE  Outputs'
    OBVIOUS
  <1> USE DEF At, Running, Goto, Fine, Failing, Step, Serving, Receive,
              Reading, hostVars, cancelVars, osVars, workerVars, pipes,
              Outputs, Typed, Places, JobInv, Ending
  <1>1. CASE CancelFlag BY <1>1 DEF CancelFlag
  <1>2. CASE CancelWrite BY <1>2, Answers DEF CancelWrite, Puts
  <1>3. CASE CreateShm BY <1>3 DEF CreateShm
  <1>4. CASE Spawn BY <1>4, NoTags DEF Spawn
  <1>5. CASE SendInit BY <1>5, Answers DEF SendInit, Puts
  <1>6. CASE SendLateCancel BY <1>6, Answers DEF SendLateCancel, Frame, Puts
  <1>7. CASE TakeRequest
    <2>1. /\ toHost # <<>> /\ toHost' = Tail(toHost) /\ cur' = Head(toHost)
          /\ Head(toHost).tag \in {"band", "output"} /\ hpc = "serve"
          /\ UNCHANGED <<wpc, band, last>>
      BY <1>7 DEF TakeRequest
    <2>2. Gets(toHost, Head(toHost), toHost') BY <2>1, Pipes
    <2>3. last # "done" BY <2>1, Pipes
    <2>4. CASE Head(toHost).tag = "band"
      <3>1. UNCHANGED collected BY <1>7, <2>4 DEF TakeRequest
      <3> QED BY <2>1, <2>2, <2>3, <3>1 DEF Gets
    <2>5. CASE Head(toHost).tag = "output"
      <3>1. /\ collected' = Append(collected, Head(toHost).n)
            /\ "output" \in Tags(toHost)
        BY <1>7, <2>1, <2>5, Pipes DEF TakeRequest
      <3>2. Len(collected') = Len(collected) + 1 /\ Len(collected) \in Nat
        <4>a. Head(toHost) \in ToHost BY <2>1, PipeFrames
        <4>1. Head(toHost).n \in Nat BY <4>a DEF ToHost
        <4> QED BY <3>1, <4>1, PutFrame
      <3>3. "output" \notin Tags(toHost') BY <2>2, <2>5 DEF Gets
      <3> QED BY <2>1, <2>3, <3>1, <3>2, <3>3, NoTags
    <2> QED BY <2>1, <2>4, <2>5
  <1>8. CASE AnswerBand
    <2>0. /\ cur.tag # "none"
          /\ UNCHANGED <<cancelVars, saw, window, outcome, collected>>
          /\ (trouble => trouble') /\ hpc \in {"fill", "store"}
      BY <1>8 DEF AnswerBand, Reply
    <2>1. CASE Throw /\ child # "running"
      BY <2>0, <2>1, NoTags DEF Throw
    <2>2. CASE UNCHANGED <<ran, osVars, workerVars, toHost>> /\ hpc' = "serve"
      <3>1. PICK m : /\ m.tag \in {"reply", "refusal"}
                     /\ m.tag = "refusal" => trouble'
                     /\ Puts(toWorker, m, toWorker')
        BY <1>8, <2>2, <2>0, Answers DEF Throw
      <3> QED BY <2>0, <2>2, <3>1 DEF Puts
    <2> QED BY <1>8, <2>1, <2>2 DEF AnswerBand, Reply
  <1>9. CASE AnswerOutput
    <2>0. /\ cur.tag # "none"
          /\ UNCHANGED <<cancelVars, saw, window, outcome, collected>>
          /\ (trouble => trouble') /\ hpc \in {"fill", "store"}
      BY <1>9 DEF AnswerOutput, Reply
    <2>1. CASE Throw /\ child # "running"
      BY <2>0, <2>1, NoTags DEF Throw
    <2>2. CASE UNCHANGED <<ran, osVars, workerVars, toHost>> /\ hpc' = "serve"
      <3>1. PICK m : /\ m.tag \in {"ack"}
                     /\ m.tag = "refusal" => trouble'
                     /\ Puts(toWorker, m, toWorker')
        BY <1>9, <2>2, <2>0, Answers DEF Throw
      <3> QED BY <2>0, <2>2, <3>1 DEF Puts
    <2> QED BY <1>9, <2>1, <2>2 DEF AnswerOutput, Reply
  <1>10. CASE TakeBegin
    <2>1. CASE Failing("collector") /\ Throw
      BY <1>10, <2>1, NoTags DEF TakeBegin, Throw
    <2>2. CASE /\ Fine /\ window' = "hidden" /\ toHost' = Tail(toHost)
               /\ UNCHANGED <<hpc, ran, osVars, workerVars, toWorker>>
      BY <1>10, <2>2, Pipes DEF TakeBegin, Gets
    <2> QED BY <1>10, <2>1, <2>2 DEF TakeBegin
  <1>11. CASE TakeDone BY <1>11, Pipes, NoTags DEF TakeDone, Gets
  <1>12. CASE TakeError
    BY <1>12, Pipes, NoTags DEF TakeError, Throw, Acknowledges, Gets
  <1>13. CASE LeaveLoop BY <1>13, NoTags DEF LeaveLoop, EndOfStdout
  <1>14. CASE Reap BY <1>14 DEF Reap, EndOfRun
  <1>15. CASE DriveHost BY <1>15 DEF DriveHost, Closed
  <1>16. CASE HostDies BY <1>16, NoTags DEF HostDies
  <1>17. CASE Boot BY <1>17, Booted DEF Boot, Puts, Gets
  <1>18. CASE BootEof BY <1>18, Connected DEF BootEof
  <1>19. CASE RequestBand
    BY <1>19, Offers, Connected DEF RequestBand, AsksIn, Request, FailsAtOnce,
      Sends, Puts
  <1>20. CASE Analyzed BY <1>20 DEF Analyzed
  <1>21. CASE AnalysisFails BY <1>21 DEF AnalysisFails
  <1>22. CASE CancelCheck BY <1>22 DEF CancelCheck
  <1>23. CASE BeginOutput
    <2>1. /\ wpc = "begin" /\ wpc' \in {"rows", "failed"}
          /\ UNCHANGED <<collected, band, last, cur>>
      BY <1>23 DEF BeginOutput
    <2>2. CASE UNCHANGED toHost
      BY <2>1, <2>2, IpcRunAssumption
    <2>3. CASE \E m : m.tag = "begin" /\ Puts(toHost, m, toHost')
      <3>1. PICK m : m.tag = "begin" /\ Puts(toHost, m, toHost') BY <2>3
      <3> QED BY <2>1, <3>1, IpcRunAssumption DEF Puts
    <2> QED BY <1>23, <2>2, <2>3, Offers
  <1>24. CASE RowsDone BY <1>24 DEF RowsDone
  <1>25. CASE RowsPanic BY <1>25, NoTags DEF RowsPanic, Dies
  <1>26. CASE SendBand
    BY <1>26, Offers, Connected DEF SendBand, Request, FailsAtOnce, Sends, Puts
  <1>27. CASE BandAcked
    BY <1>27, AckedBand, IpcRunAssumption DEF BandAcked, NextBand
  <1>28. CASE FinishOk
    BY <1>28, QuietPipes, Offers, Connected DEF FinishOk, Sends, Puts
  <1>29. CASE FinishErr
    BY <1>29, Pipes, WrittenFrames, MessageFields DEF FinishErr, Sends, Puts
  <1>30. CASE Exit BY <1>30, NoTags DEF Exit, Dies, ExitCode
  <1>31. CASE ReadReply BY <1>31, Pipes, Connected DEF ReadReply, Gets
  <1>32. CASE ReadCancel
    BY <1>32, Pipes, Connected DEF ReadCancel, ShutDown, StillWaiting, Gets
  <1>33. CASE ReadEof BY <1>33, Connected DEF ReadEof, ShutDown, StillWaiting
  <1>34. CASE Crash BY <1>34, NoTags DEF Crash, Dies
  <1>35. CASE UNCHANGED vars BY <1>35 DEF vars
  <1>36. CASE Over BY <1>35, <1>36 DEF Over
  <1> QED BY <1>1, <1>2, <1>3, <1>4, <1>5, <1>6, <1>7, <1>8, <1>9, <1>10,
      <1>11, <1>12, <1>13, <1>14, <1>15, <1>16, <1>17, <1>18, <1>19, <1>20,
      <1>21, <1>22, <1>23, <1>24, <1>25, <1>26, <1>27, <1>28, <1>29, <1>30,
      <1>31, <1>32, <1>33, <1>34, <1>35, <1>36 DEF Next, HostStep, WorkerStep,
      Reader

\* Nothing else is under way while a band is handed over.
LEMMA HandoverStep ==
  JobInv /\ Typed /\ Places /\ Pending /\ Outputs /\ Handover /\ [Next]_vars =>
    Handover'
  <1> SUFFICES ASSUME JobInv, Typed, Places, Pending, Outputs, Handover,
                      [Next]_vars
               PROVE  Handover'
    OBVIOUS
  <1> USE DEF At, Running, Goto, Fine, Failing, Step, Serving, Receive,
              Reading, hostVars, cancelVars, osVars, workerVars, pipes,
              Handover, Typed, Places, JobInv, Outputs
  <1>1. CASE CancelFlag BY <1>1 DEF CancelFlag
  <1>2. CASE CancelWrite BY <1>2, Answers DEF CancelWrite, Puts
  <1>3. CASE CreateShm BY <1>3 DEF CreateShm
  <1>4. CASE Spawn BY <1>4, NoTags DEF Spawn
  <1>5. CASE SendInit BY <1>5, Answers DEF SendInit, Puts
  <1>6. CASE SendLateCancel BY <1>6, Answers DEF SendLateCancel, Frame, Puts
  <1>7. CASE TakeRequest BY <1>7, Pipes, NoTags DEF TakeRequest, Gets
  <1>8. CASE AnswerBand
    <2>1. cur.tag = "band" BY <1>8 DEF AnswerBand
    <2>2. CASE Throw BY <2>2 DEF Throw
    <2>3. CASE ~Throw
      <3>1. UNCHANGED <<wpc, bad>> BY <1>8, <2>3 DEF AnswerBand, Reply
      <3> QED BY <2>1, <3>1
    <2> QED BY <2>2, <2>3
  <1>9. CASE AnswerOutput
    <2>1. cur.tag = "output" /\ cur' = NoFrame /\ UNCHANGED collected
      BY <1>9 DEF AnswerOutput, Reply
    <2>2. CASE Throw BY <2>2 DEF Throw
    <2>3. CASE ~Throw
      <3>1. UNCHANGED <<wpc, bad, band, open, asked, toHost>>
        BY <1>9, <2>3 DEF AnswerOutput, Reply
      <3>2. PICK m : m.tag = "ack" /\ Puts(toWorker, m, toWorker')
        BY <1>9, <2>3, Answers
      <3> QED BY <2>1, <3>1, <3>2, MessageFields DEF Puts
    <2> QED BY <2>2, <2>3
  <1>10. CASE TakeBegin
    <2>1. CASE Failing("collector") /\ Throw
      BY <1>10, <2>1, NoTags DEF TakeBegin, Throw
    <2>2. CASE /\ Fine /\ window' = "hidden" /\ toHost' = Tail(toHost)
               /\ UNCHANGED <<hpc, ran, osVars, workerVars, toWorker>>
      BY <1>10, <2>2, Pipes DEF TakeBegin, Gets
    <2> QED BY <1>10, <2>1, <2>2 DEF TakeBegin
  <1>11. CASE TakeDone BY <1>11, Pipes, NoTags DEF TakeDone, Gets
  <1>12. CASE TakeError
    <2>1. toHost # <<>> /\ UNCHANGED <<cur, collected>>
      BY <1>12 DEF TakeError
    <2>2. CASE Throw BY <2>2 DEF Throw
    <2>3. CASE ~Throw
      <3>1. /\ UNCHANGED <<wpc, bad, band, open, asked, toWorker>>
            /\ toHost' = Tail(toHost)
        BY <1>12, <2>3 DEF TakeError
      <3> QED BY <2>1, <3>1, Pipes DEF Gets
    <2> QED BY <2>2, <2>3
  <1>13. CASE LeaveLoop BY <1>13, NoTags DEF LeaveLoop, EndOfStdout
  <1>14. CASE Reap BY <1>14 DEF Reap, EndOfRun
  <1>15. CASE DriveHost BY <1>15 DEF DriveHost, Closed
  <1>16. CASE HostDies BY <1>16, NoTags DEF HostDies
  <1>17. CASE Boot BY <1>17, Booted DEF Boot, Puts, Gets
  <1>18. CASE BootEof BY <1>18, Connected DEF BootEof
  <1>19. CASE RequestBand
    BY <1>19, Offers, Connected DEF RequestBand, AsksIn, Request, FailsAtOnce,
      Sends, Puts
  <1>20. CASE Analyzed BY <1>20 DEF Analyzed
  <1>21. CASE AnalysisFails BY <1>21 DEF AnalysisFails
  <1>22. CASE CancelCheck BY <1>22 DEF CancelCheck
  <1>23. CASE BeginOutput
    BY <1>23, Offers, Connected DEF BeginOutput, Sends, Puts
  <1>24. CASE RowsDone BY <1>24 DEF RowsDone
  <1>25. CASE RowsPanic BY <1>25, NoTags DEF RowsPanic, Dies
  <1>26. CASE SendBand
    BY <1>26, QuietPipes, Offers, Connected DEF SendBand, Request, FailsAtOnce,
      Sends, Puts
  <1>27. CASE BandAcked BY <1>27 DEF BandAcked, NextBand
  <1>28. CASE FinishOk BY <1>28, Offers, Connected DEF FinishOk, Sends, Puts
  <1>29. CASE FinishErr
    BY <1>29, Pipes, WrittenFrames, MessageFields DEF FinishErr, Sends, Puts
  <1>30. CASE Exit BY <1>30, NoTags DEF Exit, Dies, ExitCode
  <1>31. CASE ReadReply BY <1>31, Pipes, Connected DEF ReadReply, Gets
  <1>32. CASE ReadCancel
    BY <1>32, Pipes, Connected DEF ReadCancel, ShutDown, StillWaiting, Gets
  <1>33. CASE ReadEof BY <1>33, Connected DEF ReadEof, ShutDown, StillWaiting
  <1>34. CASE Crash BY <1>34, NoTags DEF Crash, Dies
  <1>35. CASE UNCHANGED vars BY <1>35 DEF vars
  <1>36. CASE Over BY <1>35, <1>36 DEF Over
  <1> QED BY <1>1, <1>2, <1>3, <1>4, <1>5, <1>6, <1>7, <1>8, <1>9, <1>10,
      <1>11, <1>12, <1>13, <1>14, <1>15, <1>16, <1>17, <1>18, <1>19, <1>20,
      <1>21, <1>22, <1>23, <1>24, <1>25, <1>26, <1>27, <1>28, <1>29, <1>30,
      <1>31, <1>32, <1>33, <1>34, <1>35, <1>36 DEF Next, HostStep, WorkerStep,
      Reader

\* The window is there for the first band.
LEMMA WindowedStep ==
  JobInv /\ Typed /\ Places /\ Ending /\ Outputs /\ Handover /\ Windowed /\
    [Next]_vars => Windowed'
  <1> SUFFICES ASSUME JobInv, Typed, Places, Ending, Outputs, Handover,
                      Windowed, [Next]_vars
               PROVE  Windowed'
    OBVIOUS
  <1> USE DEF At, Running, Goto, Fine, Failing, Step, Serving, Receive,
              Reading, hostVars, cancelVars, osVars, workerVars, pipes,
              Windowed, Typed, Places, JobInv, Ending, Outputs
  <1>1. CASE CancelFlag BY <1>1 DEF CancelFlag
  <1>2. CASE CancelWrite BY <1>2, Answers DEF CancelWrite, Puts
  <1>3. CASE CreateShm BY <1>3 DEF CreateShm
  <1>4. CASE Spawn BY <1>4, NoTags DEF Spawn
  <1>5. CASE SendInit BY <1>5, Answers DEF SendInit, Puts
  <1>6. CASE SendLateCancel BY <1>6, Answers DEF SendLateCancel, Frame, Puts
  <1>7. CASE TakeRequest BY <1>7, Pipes, NoTags DEF TakeRequest, Gets
  <1>8. CASE AnswerBand
    <2>0. /\ cur.tag # "none"
          /\ UNCHANGED <<cancelVars, saw, window, outcome, collected>>
          /\ (trouble => trouble') /\ hpc \in {"fill", "store"}
      BY <1>8 DEF AnswerBand, Reply
    <2>1. CASE Throw /\ child # "running"
      BY <2>0, <2>1, NoTags DEF Throw
    <2>2. CASE UNCHANGED <<ran, osVars, workerVars, toHost>> /\ hpc' = "serve"
      <3>1. PICK m : /\ m.tag \in {"reply", "refusal"}
                     /\ m.tag = "refusal" => trouble'
                     /\ Puts(toWorker, m, toWorker')
        BY <1>8, <2>2, <2>0, Answers DEF Throw
      <3> QED BY <2>0, <2>2, <3>1 DEF Puts
    <2> QED BY <1>8, <2>1, <2>2 DEF AnswerBand, Reply
  <1>9. CASE AnswerOutput
    <2>0. /\ cur.tag # "none"
          /\ UNCHANGED <<cancelVars, saw, window, outcome, collected>>
          /\ (trouble => trouble') /\ hpc \in {"fill", "store"}
      BY <1>9 DEF AnswerOutput, Reply
    <2>1. CASE Throw /\ child # "running"
      BY <2>0, <2>1, NoTags DEF Throw
    <2>2. CASE UNCHANGED <<ran, osVars, workerVars, toHost>> /\ hpc' = "serve"
      <3>1. PICK m : /\ m.tag \in {"ack"}
                     /\ m.tag = "refusal" => trouble'
                     /\ Puts(toWorker, m, toWorker')
        BY <1>9, <2>2, <2>0, Answers DEF Throw
      <3> QED BY <2>0, <2>2, <3>1 DEF Puts
    <2> QED BY <1>9, <2>1, <2>2 DEF AnswerOutput, Reply
  <1>10. CASE TakeBegin
    <2>1. CASE Failing("collector") /\ Throw
      BY <1>10, <2>1, NoTags DEF TakeBegin, Throw
    <2>2. CASE /\ Fine /\ window' = "hidden" /\ toHost' = Tail(toHost)
               /\ UNCHANGED <<hpc, ran, osVars, workerVars, toWorker>>
      BY <1>10, <2>2, Pipes DEF TakeBegin, Gets
    <2> QED BY <1>10, <2>1, <2>2 DEF TakeBegin
  <1>11. CASE TakeDone BY <1>11, Pipes, NoTags DEF TakeDone, Gets
  <1>12. CASE TakeError
    BY <1>12, Pipes, NoTags DEF TakeError, Throw, Acknowledges, Gets
  <1>13. CASE LeaveLoop BY <1>13, NoTags DEF LeaveLoop, EndOfStdout
  <1>14. CASE Reap BY <1>14 DEF Reap, EndOfRun
  <1>15. CASE DriveHost BY <1>15 DEF DriveHost, Closed
  <1>16. CASE HostDies BY <1>16, NoTags DEF HostDies
  <1>17. CASE Boot BY <1>17, Booted DEF Boot, Puts, Gets
  <1>18. CASE BootEof BY <1>18, Connected DEF BootEof
  <1>19. CASE RequestBand
    BY <1>19, Offers, Connected DEF RequestBand, AsksIn, Request, FailsAtOnce,
      Sends, Puts
  <1>20. CASE Analyzed BY <1>20 DEF Analyzed
  <1>21. CASE AnalysisFails BY <1>21 DEF AnalysisFails
  <1>22. CASE CancelCheck BY <1>22 DEF CancelCheck
  <1>23. CASE BeginOutput
    <2>1. /\ wpc = "begin" /\ wpc' \in {"rows", "failed"} /\ last = "none"
          /\ "output" \notin Tags(toHost) /\ UNCHANGED <<window, last>>
          /\ wpc' = "rows" => toHost' = Append(toHost, Frame("begin"))
      BY <1>23 DEF BeginOutput, Sends
    <2>2. CASE UNCHANGED toHost /\ wpc' # "rows"
      BY <2>1, <2>2
    <2>3. CASE \E m : m.tag = "begin" /\ Puts(toHost, m, toHost')
      <3>1. PICK m : m.tag = "begin" /\ Puts(toHost, m, toHost') BY <2>3
      <3> QED BY <2>1, <3>1 DEF Puts
    <2>4. wpc' = "rows" => Puts(toHost, Frame("begin"), toHost')
      BY <2>1, Pipes, WrittenFrames
    <2> QED BY <1>23, <2>2, <2>3, <2>4, Offers, MessageFields
  <1>24. CASE RowsDone BY <1>24 DEF RowsDone
  <1>25. CASE RowsPanic BY <1>25, NoTags DEF RowsPanic, Dies
  <1>26. CASE SendBand
    <2>1. /\ wpc = "band" /\ wpc' = "ack" /\ last = "none"
          /\ Len(collected) = band /\ band \in Nat
          /\ UNCHANGED <<window, last, collected, band, trouble>>
      BY <1>26 DEF SendBand
    <2>2. CASE UNCHANGED toHost BY <2>1, <2>2
    <2>3. CASE \E m : m.tag = "output" /\ Puts(toHost, m, toHost')
      <3>1. PICK m : m.tag = "output" /\ Puts(toHost, m, toHost') BY <2>3
      <3> QED BY <2>1, <3>1 DEF Puts
    <2> QED BY <1>26, <2>2, <2>3, Offers
  <1>27. CASE BandAcked BY <1>27, AckedBand DEF BandAcked, NextBand
  <1>28. CASE FinishOk BY <1>28, Offers, Connected DEF FinishOk, Sends, Puts
  <1>29. CASE FinishErr
    BY <1>29, Pipes, WrittenFrames, MessageFields DEF FinishErr, Sends, Puts
  <1>30. CASE Exit BY <1>30, NoTags DEF Exit, Dies, ExitCode
  <1>31. CASE ReadReply BY <1>31, Pipes, Connected DEF ReadReply, Gets
  <1>32. CASE ReadCancel
    BY <1>32, Pipes, Connected DEF ReadCancel, ShutDown, StillWaiting, Gets
  <1>33. CASE ReadEof BY <1>33, Connected DEF ReadEof, ShutDown, StillWaiting
  <1>34. CASE Crash BY <1>34, NoTags DEF Crash, Dies
  <1>35. CASE UNCHANGED vars BY <1>35 DEF vars
  <1>36. CASE Over BY <1>35, <1>36 DEF Over
  <1> QED BY <1>1, <1>2, <1>3, <1>4, <1>5, <1>6, <1>7, <1>8, <1>9, <1>10,
      <1>11, <1>12, <1>13, <1>14, <1>15, <1>16, <1>17, <1>18, <1>19, <1>20,
      <1>21, <1>22, <1>23, <1>24, <1>25, <1>26, <1>27, <1>28, <1>29, <1>30,
      <1>31, <1>32, <1>33, <1>34, <1>35, <1>36 DEF Next, HostStep, WorkerStep,
      Reader

\* An early cancel() stays ahead of every acknowledgement.
LEMMA EarlyStep ==
  JobInv /\ Typed /\ Places /\ Asking /\ Outputs /\ Handover /\ Early /\
    [Next]_vars => Early'
  <1> SUFFICES ASSUME JobInv, Typed, Places, Asking, Outputs, Handover, Early,
                      [Next]_vars
               PROVE  Early'
    OBVIOUS
  <1> USE DEF At, Running, Goto, Fine, Failing, Step, Serving, Receive,
              Reading, hostVars, cancelVars, osVars, workerVars, pipes, Early,
              Typed, Places, JobInv, Outputs, Handover, Asking
  <1>1. CASE CancelFlag
    <2>1. CASE hpc = "start"
      BY <1>1, <2>1, NoTags DEF CancelFlag
    <2>2. CASE hpc # "start"
      BY <1>1, <2>2 DEF CancelFlag
    <2> QED BY <2>1, <2>2
  <1>2. CASE CancelWrite BY <1>2, Answers DEF CancelWrite, Puts
  <1>3. CASE CreateShm BY <1>3 DEF CreateShm
  <1>4. CASE Spawn BY <1>4, NoTags DEF Spawn
  <1>5. CASE SendInit BY <1>5, Answers DEF SendInit, Puts
  <1>6. CASE SendLateCancel
    <2>1. /\ UNCHANGED <<early, wpc, last, bad, shut, asked, open, child>>
          /\ hpc' = "serve" /\ child \in {"running", "dead"}
      BY <1>6 DEF SendLateCancel
    <2>2. CASE early /\ child = "running"
      <3>1. toWorker' = Append(toWorker, Frame("cancel"))
        BY <1>6, <2>2 DEF SendLateCancel, DueCancel
      <3>2. /\ Puts(toWorker, Frame("cancel"), toWorker')
            /\ Frame("cancel").tag = "cancel"
        BY <3>1, Pipes, WrittenFrames, MessageFields
      <3> QED BY <2>1, <2>2, <3>2 DEF Puts
    <2>3. CASE ~(early /\ child = "running")
      BY <2>1, <2>3
    <2> QED BY <2>2, <2>3
  <1>7. CASE TakeRequest BY <1>7, Pipes, NoTags DEF TakeRequest, Gets
  <1>8. CASE AnswerBand
    <2>0. /\ cur.tag # "none"
          /\ UNCHANGED <<cancelVars, saw, window, outcome, collected>>
          /\ (trouble => trouble') /\ hpc \in {"fill", "store"}
      BY <1>8 DEF AnswerBand, Reply
    <2>1. CASE Throw /\ child # "running"
      BY <2>0, <2>1, NoTags DEF Throw
    <2>2. CASE UNCHANGED <<ran, osVars, workerVars, toHost>> /\ hpc' = "serve"
      <3>1. PICK m : /\ m.tag \in {"reply", "refusal"}
                     /\ m.tag = "refusal" => trouble'
                     /\ Puts(toWorker, m, toWorker')
        BY <1>8, <2>2, <2>0, Answers DEF Throw
      <3> QED BY <2>0, <2>2, <3>1 DEF Puts
    <2> QED BY <1>8, <2>1, <2>2 DEF AnswerBand, Reply
  <1>9. CASE AnswerOutput
    <2>0. /\ cur.tag # "none"
          /\ UNCHANGED <<cancelVars, saw, window, outcome, collected>>
          /\ (trouble => trouble') /\ hpc \in {"fill", "store"}
      BY <1>9 DEF AnswerOutput, Reply
    <2>1. CASE Throw /\ child # "running"
      BY <2>0, <2>1, NoTags DEF Throw
    <2>2. CASE UNCHANGED <<ran, osVars, workerVars, toHost>> /\ hpc' = "serve"
      <3>1. PICK m : /\ m.tag \in {"ack"}
                     /\ m.tag = "refusal" => trouble'
                     /\ Puts(toWorker, m, toWorker')
        BY <1>9, <2>2, <2>0, Answers DEF Throw
      <3> QED BY <2>0, <2>2, <3>1 DEF Puts
    <2> QED BY <1>9, <2>1, <2>2 DEF AnswerOutput, Reply
  <1>10. CASE TakeBegin
    <2>1. CASE Failing("collector") /\ Throw
      BY <1>10, <2>1, NoTags DEF TakeBegin, Throw
    <2>2. CASE /\ Fine /\ window' = "hidden" /\ toHost' = Tail(toHost)
               /\ UNCHANGED <<hpc, ran, osVars, workerVars, toWorker>>
      BY <1>10, <2>2, Pipes DEF TakeBegin, Gets
    <2> QED BY <1>10, <2>1, <2>2 DEF TakeBegin
  <1>11. CASE TakeDone BY <1>11, Pipes, NoTags DEF TakeDone, Gets
  <1>12. CASE TakeError
    BY <1>12, Pipes, NoTags DEF TakeError, Throw, Acknowledges, Gets
  <1>13. CASE LeaveLoop BY <1>13, NoTags DEF LeaveLoop, EndOfStdout
  <1>14. CASE Reap BY <1>14 DEF Reap, EndOfRun
  <1>15. CASE DriveHost BY <1>15 DEF DriveHost, Closed
  <1>16. CASE HostDies BY <1>16, NoTags DEF HostDies
  <1>17. CASE Boot
    <2>1. /\ wpc = "boot" /\ UNCHANGED <<early, hpc, asked, bad, open, shut>>
          /\ last' = last \/ last' = "error"
          /\ \/ wpc' = "exiting"
             \/ wpc' = "analyze" /\ Head(toWorker).tag = "init"
      BY <1>17 DEF Boot
    <2>2. Gets(toWorker, Head(toWorker), toWorker') BY <1>17, Booted
    <2>3. CASE wpc' = "exiting" BY <2>1, <2>3
    <2>4. CASE wpc' = "analyze" /\ Head(toWorker).tag = "init"
      BY <2>1, <2>2, <2>4 DEF Gets
    <2> QED BY <2>1, <2>3, <2>4
  <1>18. CASE BootEof BY <1>18, Connected DEF BootEof
  <1>19. CASE RequestBand
    BY <1>19, Offers, Connected DEF RequestBand, AsksIn, Request, FailsAtOnce,
      Sends, Puts
  <1>20. CASE Analyzed BY <1>20 DEF Analyzed
  <1>21. CASE AnalysisFails BY <1>21 DEF AnalysisFails
  <1>22. CASE CancelCheck BY <1>22 DEF CancelCheck
  <1>23. CASE BeginOutput
    BY <1>23, Offers, Connected DEF BeginOutput, Sends, Puts
  <1>24. CASE RowsDone BY <1>24 DEF RowsDone
  <1>25. CASE RowsPanic BY <1>25, NoTags DEF RowsPanic, Dies
  <1>26. CASE SendBand
    BY <1>26, Offers, Connected DEF SendBand, Request, FailsAtOnce, Sends, Puts
  <1>27. CASE BandAcked BY <1>27 DEF BandAcked, NextBand
  <1>28. CASE FinishOk BY <1>28, Offers, Connected DEF FinishOk, Sends, Puts
  <1>29. CASE FinishErr
    BY <1>29, Pipes, WrittenFrames, MessageFields DEF FinishErr, Sends, Puts
  <1>30. CASE Exit BY <1>30, NoTags DEF Exit, Dies, ExitCode
  <1>31. CASE ReadReply
    <2>1. /\ toWorker # <<>> /\ toWorker' = Tail(toWorker)
          /\ Head(toWorker).tag \in {"reply", "refusal", "ack"}
          /\ UNCHANGED <<early, wpc, last, shut, asked, hpc>>
          /\ wpc \notin {"boot", "exiting", "exited", "none"}
          /\ bad => bad'
      BY <1>31 DEF ReadReply
    <2>2. Gets(toWorker, Head(toWorker), toWorker') BY <2>1, Pipes
    <2>3. early /\ ~shut => wpc # "ack" \/ bad
      BY <2>1, <2>2, Pipes DEF Gets
    <2> QED BY <2>1, <2>2, <2>3 DEF Gets
  <1>32. CASE ReadCancel
    BY <1>32, Pipes, Connected DEF ReadCancel, ShutDown, StillWaiting, Gets
  <1>33. CASE ReadEof BY <1>33, Connected DEF ReadEof, ShutDown, StillWaiting
  <1>34. CASE Crash BY <1>34, NoTags DEF Crash, Dies
  <1>35. CASE UNCHANGED vars BY <1>35 DEF vars
  <1>36. CASE Over BY <1>35, <1>36 DEF Over
  <1> QED BY <1>1, <1>2, <1>3, <1>4, <1>5, <1>6, <1>7, <1>8, <1>9, <1>10,
      <1>11, <1>12, <1>13, <1>14, <1>15, <1>16, <1>17, <1>18, <1>19, <1>20,
      <1>21, <1>22, <1>23, <1>24, <1>25, <1>26, <1>27, <1>28, <1>29, <1>30,
      <1>31, <1>32, <1>33, <1>34, <1>35, <1>36 DEF Next, HostStep, WorkerStep,
      Reader

-----------------------------------------------------------------------------
\* The inductive invariant of a job.
IInv ==
  /\ JobInv /\ Typed /\ Queue /\ Pending /\ Places /\ Ending /\ Finishing
  /\ Outputs /\ Handover /\ Windowed /\ Asking /\ Quiet /\ Early

\* A job that has not started.
LEMMA IInvInit == Init => IInv
  <1> SUFFICES ASSUME Init PROVE IInv
    OBVIOUS
  <1>1. JobInv BY JobInit
  <1>2. Typed BY WrittenFrames DEF Init, Typed, WorkerPlaces
  <1>3. Len(toHost) = 0 /\ Len(toWorker) = 0 /\ Len(collected) = 0
    BY DEF Init
  <1>4. cur.tag = "none" /\ cancelRequested = FALSE
    BY MessageFields DEF Init
  <1>5. Queue /\ Pending
    BY <1>3, <1>4 DEF Init, Queue, Pending, Ordered, Awaited, Within, Rising,
           Before, Among
  <1>6. Places BY <1>4 DEF Init, Places
  <1>7. Outputs /\ Handover /\ Windowed
    BY <1>3, <1>4, NoTags DEF Init, Outputs, Handover, Windowed
  <1>8. Ending /\ Finishing BY NoTags DEF Init, Ending, Finishing
  <1>9. Asking /\ Quiet /\ Early BY NoTags DEF Init, Asking, Quiet, Early
  <1> QED BY <1>1, <1>2, <1>5, <1>6, <1>7, <1>8, <1>9 DEF IInv

\* Every step keeps it.
LEMMA IInvStep == IInv /\ [Next]_vars => IInv'
  BY JobStep, TypedStep, QueueStep, PendingStep, PlacesStep, EndingStep,
     FinishingStep, OutputsStep, HandoverStep, WindowedStep, AskingStep,
     QuietStep, EarlyStep DEF IInv

\* So it holds at all times.
LEMMA IInvAlways == Spec => []IInv
  BY IInvInit, IInvStep, PTL DEF Spec

\* What run() and DriveHost report is what happened, with every race of the
\* two pipes, cancel() from any thread, failures and deaths: no order of the
\* frames alone makes a job fail, a Done that was written is not lost to a
\* late cancel(), and an early cancel() never ends in a finished mosaic.
THEOREM OutcomeAlwaysTrue == Spec => []OutcomeIsTrue
  <1>1. IInv => OutcomeIsTrue
    <2> SUFFICES ASSUME IInv PROVE OutcomeIsTrue
      OBVIOUS
    <2> USE DEF IInv
    <2>1. FaultHasCause
      <3> SUFFICES ASSUME outcome = "error", ~trouble, ~cancelRequested
                   PROVE  FALSE
        BY DEF FaultHasCause
      <3>1. hpc = "done" BY DEF JobInv
      <3>2. last = "done" BY <3>1 DEF Quiet
      <3> QED BY <3>1, <3>2 DEF Finishing
    <2>2. DoneWins
      <3> SUFFICES ASSUME last = "done", ~trouble, outcome # "none"
                   PROVE  outcome = "shown"
        BY DEF DoneWins
      <3>1. hpc = "done" BY DEF JobInv
      <3> QED BY <3>1 DEF Finishing
    <2>3. EarlyCancelHonoured
      BY DEF EarlyCancelHonoured, Ending, Early
    <2> QED BY <2>1, <2>2, <2>3 DEF OutcomeIsTrue
  <1> QED BY IInvAlways, <1>1, PTL

-----------------------------------------------------------------------------
\* A step of the host that takes a band delivers the next one.
LEMMA TakenBand ==
  ASSUME IInv, TakeRequest, collected' # collected
  PROVE  Stream!Deliver
  <1> USE DEF IInv
  <1>1. /\ toHost # <<>> /\ Head(toHost).tag = "output" /\ hpc = "serve"
        /\ collected' = Append(collected, Head(toHost).n)
        /\ toHost' = Tail(toHost)
        /\ UNCHANGED <<cancelRequested, outcome>>
    BY DEF TakeRequest, Receive, Serving, cancelVars
  <1>2. outcome = "none" BY <1>1 DEF JobInv
  <1>3. Head(toHost).n = Len(collected) + 1
    BY <1>1, Pipes DEF Gets, Outputs
  <1>4. Len(collected) < Bands BY <1>1, Pipes DEF Outputs
  <1> QED BY <1>1, <1>2, <1>3, <1>4 DEF Stream!Deliver

\* Every step of the two processes is a step of RowStream, or changes nothing
\* its user sees.
LEMMA StreamStep == IInv /\ [Next]_vars => [Stream!Next]_(Stream!vars)
  <1> SUFFICES ASSUME IInv, [Next]_vars
               PROVE  [Stream!Next]_(Stream!vars)
    OBVIOUS
  <1> USE DEF At, Running, Goto, Fine, Failing, Step, Serving, Receive,
              Reading, hostVars, cancelVars, osVars, workerVars, pipes,
              Stream!vars
  <1>1. CASE CancelFlag
    <2>1. Stream!Ask BY <1>1 DEF CancelFlag, Stream!Ask
    <2> QED BY <2>1 DEF Stream!Next
  <1>2. CASE CancelWrite BY <1>2 DEF CancelWrite
  <1>3. CASE CreateShm BY <1>3 DEF CreateShm
  <1>4. CASE Spawn BY <1>4 DEF Spawn
  <1>5. CASE SendInit BY <1>5 DEF SendInit
  <1>6. CASE SendLateCancel BY <1>6 DEF SendLateCancel, Frame
  <1>7. CASE TakeRequest
    <2>1. CASE collected' # collected BY <1>7, <2>1, TakenBand DEF Stream!Next
    <2>2. CASE UNCHANGED collected
      BY <1>7, <2>2 DEF TakeRequest
    <2> QED BY <2>1, <2>2
  <1>8. CASE AnswerBand BY <1>8 DEF AnswerBand, Reply, Throw
  <1>9. CASE AnswerOutput BY <1>9 DEF AnswerOutput, Reply, Throw
  <1>10. CASE TakeBegin BY <1>10 DEF TakeBegin, Throw
  <1>11. CASE TakeDone BY <1>11 DEF TakeDone
  <1>12. CASE TakeError BY <1>12 DEF TakeError, Throw, Acknowledges
  <1>13. CASE LeaveLoop BY <1>13 DEF LeaveLoop, EndOfStdout
  <1>14. CASE Reap BY <1>14 DEF Reap, EndOfRun
  <1>15. CASE DriveHost
    <2>1. outcome = "none" /\ UNCHANGED <<collected, cancelRequested>>
      BY <1>15 DEF DriveHost, IInv, JobInv
    <2>2. CASE outcome' = "error"
      BY <2>1, <2>2 DEF Stream!Next, Stream!Fail, Stream!End
    <2>3. CASE ran = "cancelled" /\ outcome' = "aborted"
      <3>1. cancelRequested BY <2>3 DEF IInv, Ending
      <3> QED
        BY <2>1, <2>3, <3>1 DEF Stream!Next, Stream!Abort, Stream!End
    <2>4. CASE ran = "ok" /\ outcome' = "shown"
      <3>1. Len(collected) = Bands BY <2>4 DEF IInv, Ending, Outputs
      <3> QED BY <2>1, <2>4, <3>1 DEF Stream!Next, Stream!Show, Stream!End
    <2> QED BY <1>15, <2>2, <2>3, <2>4 DEF DriveHost
  <1>16. CASE HostDies BY <1>16 DEF HostDies
  <1>17. CASE Boot BY <1>17 DEF Boot, Sends
  <1>18. CASE BootEof BY <1>18 DEF BootEof
  <1>19. CASE RequestBand
    BY <1>19 DEF RequestBand, AsksIn, Request, FailsAtOnce, Sends
  <1>20. CASE Analyzed BY <1>20 DEF Analyzed
  <1>21. CASE AnalysisFails BY <1>21 DEF AnalysisFails
  <1>22. CASE CancelCheck BY <1>22 DEF CancelCheck
  <1>23. CASE BeginOutput BY <1>23 DEF BeginOutput, Sends
  <1>24. CASE RowsDone BY <1>24 DEF RowsDone
  <1>25. CASE RowsPanic BY <1>25 DEF RowsPanic, Dies
  <1>26. CASE SendBand BY <1>26 DEF SendBand, Request, FailsAtOnce, Sends
  <1>27. CASE BandAcked BY <1>27 DEF BandAcked, NextBand
  <1>28. CASE FinishOk BY <1>28 DEF FinishOk, Sends
  <1>29. CASE FinishErr BY <1>29 DEF FinishErr, Sends
  <1>30. CASE Exit BY <1>30 DEF Exit, Dies, ExitCode
  <1>31. CASE ReadReply BY <1>31 DEF ReadReply
  <1>32. CASE ReadCancel BY <1>32 DEF ReadCancel, ShutDown, StillWaiting
  <1>33. CASE ReadEof BY <1>33 DEF ReadEof, ShutDown, StillWaiting
  <1>34. CASE Crash BY <1>34 DEF Crash, Dies
  <1>35. CASE UNCHANGED vars BY <1>35 DEF vars
  <1>36. CASE Over BY <1>35, <1>36 DEF Over
  <1> QED BY <1>1, <1>2, <1>3, <1>4, <1>5, <1>6, <1>7, <1>8, <1>9, <1>10,
      <1>11, <1>12, <1>13, <1>14, <1>15, <1>16, <1>17, <1>18, <1>19, <1>20,
      <1>21, <1>22, <1>23, <1>24, <1>25, <1>26, <1>27, <1>28, <1>29, <1>30,
      <1>31, <1>32, <1>33, <1>34, <1>35, <1>36 DEF Next, HostStep, WorkerStep,
      Reader

\* Host::run and DriveHost with the worker they drive implement RowStream, for
\* every number of bands and threads, every cancel() and every failure: the
\* bands reach the image in order, the window is shown only with all of them,
\* and a job is aborted only if the user asked for it.
THEOREM JobIsRowStream == Spec => StreamSpec
  <1>1. Init => Stream!Init BY DEF Init, Stream!Init
  <1> QED BY <1>1, IInvAlways, StreamStep, PTL DEF Spec, StreamSpec, Stream!Spec
=============================================================================

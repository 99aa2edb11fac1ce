------------------------------ MODULE HostLink ------------------------------
(***************************************************************************)
(* The worker's end of the IPC transport (crates/mmm-core/src/ipc/         *)
(* client.rs): the threads inside request_band and send_output_band, the   *)
(* two slot pools, the table of pending replies, the reader thread that    *)
(* demultiplexes what the host writes, and a host that serves one request  *)
(* at a time through shared memory.                                        *)
(*                                                                         *)
(* Both condition variables are modelled with their mutex: a thread that   *)
(* found nothing to take first holds the mutex ("poolDoze", "doze"), then  *)
(* gives it up and sleeps in one step, as Condvar::wait does.  Whoever     *)
(* needs that mutex waits until then.                                      *)
(***************************************************************************)
EXTENDS Naturals, Sequences, FiniteSets

CONSTANTS
  Threads,     \* the threads that share the link
  InputSlots,  \* input_slots of the Init job
  OutputSlots, \* output_slots of the Init job
  MaxCalls,    \* bound: calls made in a behaviour
  MaxCancels,  \* bound: Cancel frames the host writes
  MaxSpurious, \* bound: wakeups without cause
  PipeCap      \* bound: frames a pipe holds before a writer blocks

ASSUME HostLinkAssumption ==
  /\ MaxCalls \in Nat
  /\ MaxCancels \in Nat
  /\ MaxSpurious \in Nat
  /\ PipeCap \in Nat \ {0}
  /\ 0 \notin InputSlots \cup OutputSlots

Calls == 1 .. MaxCalls
Ids == 0 .. MaxCalls   \* enough: a call takes at most one request id
Kinds == {"band", "output"}
Slots(k) == IF k = "band" THEN InputSlots ELSE OutputSlots
AllSlots == InputSlots \cup OutputSlots

\* Contents of a slot: the call whose samples it holds, or one of these.
Empty == 0
Torn == MaxCalls + 1
Contents == 0 .. MaxCalls + 1

\* What a host can answer to a request of each kind (mmm_host.cpp serves a
\* BandRequest with a BandReply of status 0 or 1, an OutputBand with an ack).
Answers(k) == IF k = "band" THEN {"band", "bandError"} ELSE {"ack"}
AllAnswers == {"band", "bandError", "ack"}

PCs == {"idle", "acquire", "poolDoze", "poolSleep", "check", "fill",
        "register", "send", "wait", "doze", "asleep", "unregister",
        "take", "release"}

VARIABLES
  \* the caller threads
  pc,        \* where the thread is inside its call
  kind,      \* request_band or send_output_band
  call,      \* the work asked for: which rows of which panel, which output rows
  slot,      \* slot_id held, 0 when none
  rid,       \* request_id of the call
  verdict,   \* what the wait for the reply, or the check before it, concluded
  outcome,   \* Ok or Err of every call that returned
  dst,       \* what the caller of request_band found in its buffer
  ncalls,
  nspurious,
  \* HostLink
  free,          \* SlotPool.free of the two pools
  nextRequestId,
  pending,       \* request ids in the pending table
  box,           \* ReplySlot.slot by request id
  cancelled,
  shutdown,
  \* the reader thread
  rpc,
  delivering,    \* <<id, answer>> taken off the pipe, its ReplySlot in hand
  toWake,        \* drained ReplySlots still to be notified
  \* the pipes, shared memory and the host
  outPipe,       \* worker to host
  inPipe,        \* host to worker
  shm,           \* slot contents, by kind
  hostCur,       \* requests the serve loop is working on (none or one)
  outOpen,       \* the host reads outPipe
  inOpen,        \* the host can write inPipe
  answered,      \* what the host decided about each call
  collected,     \* what PixelCollector::band saw for each call
  ncancels

threadVars == <<pc, kind, call, slot, rid, verdict, outcome, dst, ncalls, nspurious>>
linkVars == <<free, nextRequestId, pending, box, cancelled, shutdown>>
readerVars == <<rpc, delivering, toWake>>
hostVars == <<hostCur, outOpen, inOpen, answered, collected, ncancels>>
vars == <<threadVars, linkVars, readerVars, outPipe, inPipe, shm, hostVars>>

Requests == [id : Ids, call : Calls, kind : Kinds, slot : AllSlots]
Replies == [type : {"reply"}, id : Ids, answer : AllAnswers]
Cancel == [type |-> "cancel"]
Eof == [type |-> "eof"]
HostFrames == Replies \cup {Cancel, Eof}

Init ==
  /\ pc = [t \in Threads |-> "idle"]
  /\ kind = [t \in Threads |-> "band"]
  /\ call = [t \in Threads |-> 0]
  /\ slot = [t \in Threads |-> 0]
  /\ rid = [t \in Threads |-> 0]
  /\ verdict = [t \in Threads |-> "none"]
  /\ outcome = [c \in Calls |-> "none"]
  /\ dst = [c \in Calls |-> Empty]
  /\ ncalls = 0
  /\ nspurious = 0
  /\ free = [k \in Kinds |-> Slots(k)]
  /\ nextRequestId = 0
  /\ pending = {}
  /\ box = [i \in Ids |-> "none"]
  /\ cancelled = FALSE
  /\ shutdown = FALSE
  /\ rpc = "read"
  /\ delivering = <<0, "none">>
  /\ toWake = {}
  /\ outPipe = <<>>
  /\ inPipe = <<>>
  /\ shm = [k \in Kinds |-> [s \in AllSlots |-> Empty]]
  /\ hostCur = {}
  /\ outOpen = TRUE
  /\ inOpen = TRUE
  /\ answered = [c \in Calls |-> "none"]
  /\ collected = [c \in Calls |-> Empty]
  /\ ncancels = 0

-----------------------------------------------------------------------------
(* The mutexes: only a thread between its check and its sleep keeps one.   *)

PoolMutexFree(k) == \A t \in Threads : ~(pc[t] = "poolDoze" /\ kind[t] = k)
SlotMutexFree(i) == \A t \in Threads : ~(pc[t] = "doze" /\ rid[t] = i)

\* notify_all on the pool's condition variable.
NotifyPool(k) ==
  [t \in Threads |->
     IF pc[t] = "poolSleep" /\ kind[t] = k THEN "acquire" ELSE pc[t]]

\* notify_all on a ReplySlot's condition variable.
NotifySlot(i) ==
  [t \in Threads |->
     IF pc[t] = "asleep" /\ rid[t] = i THEN "wait" ELSE pc[t]]

-----------------------------------------------------------------------------
(* SlotPool                                                                *)

\* The locals of a call end with it.
LeaveCall(t) ==
  /\ kind' = [kind EXCEPT ![t] = "band"]
  /\ call' = [call EXCEPT ![t] = 0]
  /\ rid' = [rid EXCEPT ![t] = 0]
  /\ verdict' = [verdict EXCEPT ![t] = "none"]

\* A thread enters request_band (k = "band") or send_output_band.
Call(t, k) ==
  /\ pc[t] = "idle"
  /\ ncalls < MaxCalls
  /\ ncalls' = ncalls + 1
  /\ call' = [call EXCEPT ![t] = ncalls + 1]
  /\ kind' = [kind EXCEPT ![t] = k]
  /\ pc' = [pc EXCEPT ![t] = "acquire"]
  /\ UNCHANGED <<slot, rid, verdict, outcome, dst, nspurious>>
  /\ UNCHANGED <<linkVars, readerVars, outPipe, inPipe, shm, hostVars>>

\* A free slot wins over both flags.
AcquireSlot(t) ==
  /\ pc[t] = "acquire"
  /\ PoolMutexFree(kind[t])
  /\ \E s \in free[kind[t]] :
       /\ slot' = [slot EXCEPT ![t] = s]
       /\ free' = [free EXCEPT ![kind[t]] = @ \ {s}]
  /\ pc' = [pc EXCEPT ![t] = "check"]
  /\ UNCHANGED <<kind, call, rid, verdict, outcome, dst, ncalls, nspurious>>
  /\ UNCHANGED <<nextRequestId, pending, box, cancelled, shutdown>>
  /\ UNCHANGED <<readerVars, outPipe, inPipe, shm, hostVars>>

\* No slot and the link has stopped: the call fails without ever holding one.
AcquireStopped(t) ==
  /\ pc[t] = "acquire"
  /\ PoolMutexFree(kind[t])
  /\ free[kind[t]] = {}
  /\ shutdown \/ cancelled
  /\ outcome' = [outcome EXCEPT ![call[t]] = "err"]
  /\ pc' = [pc EXCEPT ![t] = "idle"]
  /\ LeaveCall(t)
  /\ UNCHANGED <<slot, dst, ncalls, nspurious>>
  /\ UNCHANGED <<linkVars, readerVars, outPipe, inPipe, shm, hostVars>>

\* No slot and both flags read false, still under the pool's mutex.
AcquireDoze(t) ==
  /\ pc[t] = "acquire"
  /\ PoolMutexFree(kind[t])
  /\ free[kind[t]] = {}
  /\ ~shutdown /\ ~cancelled
  /\ pc' = [pc EXCEPT ![t] = "poolDoze"]
  /\ UNCHANGED <<kind, call, slot, rid, verdict, outcome, dst, ncalls, nspurious>>
  /\ UNCHANGED <<linkVars, readerVars, outPipe, inPipe, shm, hostVars>>

\* Condvar::wait gives the mutex up and sleeps in one step.
PoolSleep(t) ==
  /\ pc[t] = "poolDoze"
  /\ pc' = [pc EXCEPT ![t] = "poolSleep"]
  /\ UNCHANGED <<kind, call, slot, rid, verdict, outcome, dst, ncalls, nspurious>>
  /\ UNCHANGED <<linkVars, readerVars, outPipe, inPipe, shm, hostVars>>

GivesBackOnOk(t) == IF verdict[t] = "good" THEN {slot[t]} ELSE {}   \* mutant
GivesBack(t) == {slot[t]}

\* SlotPool::release, then the result goes to the caller.
Release(t) ==
  /\ pc[t] = "release"
  /\ PoolMutexFree(kind[t])
  /\ free' = [free EXCEPT ![kind[t]] = @ \cup GivesBack(t)]
  /\ slot' = [slot EXCEPT ![t] = 0]
  /\ outcome' = [outcome EXCEPT ![call[t]] =
                   IF verdict[t] = "good" THEN "ok" ELSE "err"]
  /\ pc' = [NotifyPool(kind[t]) EXCEPT ![t] = "idle"]
  /\ LeaveCall(t)
  /\ UNCHANGED <<dst, ncalls, nspurious>>
  /\ UNCHANGED <<nextRequestId, pending, box, cancelled, shutdown>>
  /\ UNCHANGED <<readerVars, outPipe, inPipe, shm, hostVars>>

-----------------------------------------------------------------------------
(* request_band_inner and send_output_band_inner                           *)

NeverFailFast == FALSE   \* mutant
FailFast == cancelled

\* Fail fast once cancelled; shutdown is not looked at here.
CheckCancelled(t) ==
  /\ pc[t] = "check"
  /\ IF FailFast
     THEN /\ pc' = [pc EXCEPT ![t] = "release"]
          /\ verdict' = [verdict EXCEPT ![t] = "stopped"]
     ELSE /\ pc' = [pc EXCEPT ![t] =
                      IF kind[t] = "output" THEN "fill" ELSE "register"]
          /\ UNCHANGED verdict
  /\ UNCHANGED <<kind, call, slot, rid, outcome, dst, ncalls, nspurious>>
  /\ UNCHANGED <<linkVars, readerVars, outPipe, inPipe, shm, hostVars>>

\* send_output_band copies the rows into its output slot.
FillOutput(t) ==
  /\ pc[t] = "fill"
  /\ shm' = [shm EXCEPT !["output"][slot[t]] = call[t]]
  /\ pc' = [pc EXCEPT ![t] = "register"]
  /\ UNCHANGED <<kind, call, slot, rid, verdict, outcome, dst, ncalls, nspurious>>
  /\ UNCHANGED <<linkVars, readerVars, outPipe, inPipe, hostVars>>

\* A fresh request id, its ReplySlot entered in the pending table.  The bound
\* on the id never blocks: there are no more requests than calls.
Register(t) ==
  /\ pc[t] = "register"
  /\ nextRequestId < MaxCalls
  /\ rid' = [rid EXCEPT ![t] = nextRequestId]
  /\ nextRequestId' = nextRequestId + 1
  /\ pending' = pending \cup {nextRequestId}
  /\ pc' = [pc EXCEPT ![t] = "send"]
  /\ UNCHANGED <<kind, call, slot, verdict, outcome, dst, ncalls, nspurious>>
  /\ UNCHANGED <<free, box, cancelled, shutdown>>
  /\ UNCHANGED <<readerVars, outPipe, inPipe, shm, hostVars>>

\* The frame goes out under the output mutex; a full pipe blocks its writer.
Send(t) ==
  /\ pc[t] = "send"
  /\ outOpen
  /\ Len(outPipe) < PipeCap
  /\ outPipe' = Append(outPipe, [id |-> rid[t], call |-> call[t],
                                 kind |-> kind[t], slot |-> slot[t]])
  /\ pc' = [pc EXCEPT ![t] = "wait"]
  /\ UNCHANGED <<kind, call, slot, rid, verdict, outcome, dst, ncalls, nspurious>>
  /\ UNCHANGED <<linkVars, readerVars, inPipe, shm, hostVars>>

\* The write fails because the host closed its end.
SendFails(t) ==
  /\ pc[t] = "send"
  /\ ~outOpen
  /\ verdict' = [verdict EXCEPT ![t] = "stopped"]
  /\ pc' = [pc EXCEPT ![t] = "unregister"]
  /\ UNCHANGED <<kind, call, slot, rid, outcome, dst, ncalls, nspurious>>
  /\ UNCHANGED <<linkVars, readerVars, outPipe, inPipe, shm, hostVars>>

\* The answer the caller hoped for.
Good(k) == IF k = "band" THEN "band" ELSE "ack"

\* Whether the answer in hand lets the call return Ok.
AcceptsAnyStatus(k, a) == k = "band" \/ a = "ack"   \* mutant
Accepts(k, a) == a = Good(k)

\* A reply already in hand wins over both flags.
WaitReply(t) ==
  /\ pc[t] = "wait"
  /\ SlotMutexFree(rid[t])
  /\ box[rid[t]] # "none"
  /\ verdict' = [verdict EXCEPT ![t] =
                   IF Accepts(kind[t], box[rid[t]]) THEN "good" ELSE "bad"]
  /\ box' = [box EXCEPT ![rid[t]] = "none"]
  /\ pc' = [pc EXCEPT ![t] = "unregister"]
  /\ UNCHANGED <<kind, call, slot, rid, outcome, dst, ncalls, nspurious>>
  /\ UNCHANGED <<free, nextRequestId, pending, cancelled, shutdown>>
  /\ UNCHANGED <<readerVars, outPipe, inPipe, shm, hostVars>>

WaitStopped(t) ==
  /\ pc[t] = "wait"
  /\ SlotMutexFree(rid[t])
  /\ box[rid[t]] = "none"
  /\ shutdown \/ cancelled
  /\ verdict' = [verdict EXCEPT ![t] = "stopped"]
  /\ pc' = [pc EXCEPT ![t] = "unregister"]
  /\ UNCHANGED <<kind, call, slot, rid, outcome, dst, ncalls, nspurious>>
  /\ UNCHANGED <<linkVars, readerVars, outPipe, inPipe, shm, hostVars>>

WaitDoze(t) ==
  /\ pc[t] = "wait"
  /\ SlotMutexFree(rid[t])
  /\ box[rid[t]] = "none"
  /\ ~shutdown /\ ~cancelled
  /\ pc' = [pc EXCEPT ![t] = "doze"]
  /\ UNCHANGED <<kind, call, slot, rid, verdict, outcome, dst, ncalls, nspurious>>
  /\ UNCHANGED <<linkVars, readerVars, outPipe, inPipe, shm, hostVars>>

WaitSleep(t) ==
  /\ pc[t] = "doze"
  /\ pc' = [pc EXCEPT ![t] = "asleep"]
  /\ UNCHANGED <<kind, call, slot, rid, verdict, outcome, dst, ncalls, nspurious>>
  /\ UNCHANGED <<linkVars, readerVars, outPipe, inPipe, shm, hostVars>>

\* pending.remove after the wait, or after a failed send.
Unregister(t) ==
  /\ pc[t] = "unregister"
  /\ pending' = pending \ {rid[t]}
  /\ pc' = [pc EXCEPT ![t] =
              IF verdict[t] = "good" /\ kind[t] = "band" THEN "take" ELSE "release"]
  /\ UNCHANGED <<kind, call, slot, rid, verdict, outcome, dst, ncalls, nspurious>>
  /\ UNCHANGED <<free, nextRequestId, box, cancelled, shutdown>>
  /\ UNCHANGED <<readerVars, outPipe, inPipe, shm, hostVars>>

\* dst.copy_from_slice out of the input slot.
TakeBand(t) ==
  /\ pc[t] = "take"
  /\ dst' = [dst EXCEPT ![call[t]] = shm["band"][slot[t]]]
  /\ pc' = [pc EXCEPT ![t] = "release"]
  /\ UNCHANGED <<kind, call, slot, rid, verdict, outcome, ncalls, nspurious>>
  /\ UNCHANGED <<linkVars, readerVars, outPipe, inPipe, shm, hostVars>>

\* Both waits re-check their predicate, so a wakeup without cause is harmless.
SpuriousWake(t) ==
  /\ nspurious < MaxSpurious
  /\ nspurious' = nspurious + 1
  /\ \/ pc[t] = "poolSleep" /\ pc' = [pc EXCEPT ![t] = "acquire"]
     \/ pc[t] = "asleep" /\ pc' = [pc EXCEPT ![t] = "wait"]
  /\ UNCHANGED <<kind, call, slot, rid, verdict, outcome, dst, ncalls>>
  /\ UNCHANGED <<linkVars, readerVars, outPipe, inPipe, shm, hostVars>>

-----------------------------------------------------------------------------
(* The reader thread                                                       *)

\* The request a reply is delivered to.
OldestWaiter(m) == CHOOSE i \in pending : \A j \in pending : i <= j   \* mutant
WaiterOf(m) == m.id

\* A BandReply or OutputAck: its ReplySlot leaves the pending table; one
\* nobody waits for any more is dropped.
ReadReply ==
  /\ rpc = "read"
  /\ inPipe # <<>>
  /\ LET m == Head(inPipe) IN
       /\ m.type = "reply"
       /\ IF m.id \in pending
          THEN /\ rpc' = "deliver"
               /\ delivering' = <<WaiterOf(m), m.answer>>
               /\ pending' = pending \ {WaiterOf(m)}
          ELSE UNCHANGED <<rpc, delivering, pending>>
  /\ inPipe' = Tail(inPipe)
  /\ UNCHANGED <<threadVars, free, nextRequestId, box, cancelled, shutdown>>
  /\ UNCHANGED <<toWake, outPipe, shm, hostVars>>

\* ReplySlot::deliver.
Deliver ==
  /\ rpc = "deliver"
  /\ SlotMutexFree(delivering[1])
  /\ box' = [box EXCEPT ![delivering[1]] = delivering[2]]
  /\ pc' = NotifySlot(delivering[1])
  /\ rpc' = "read"
  /\ delivering' = <<0, "none">>
  /\ UNCHANGED <<kind, call, slot, rid, verdict, outcome, dst, ncalls, nspurious>>
  /\ UNCHANGED <<free, nextRequestId, pending, cancelled, shutdown>>
  /\ UNCHANGED <<toWake, outPipe, inPipe, shm, hostVars>>

\* notify_cancel stores its flag before it looks at any waiter.
ReadCancel ==
  /\ rpc = "read"
  /\ inPipe # <<>>
  /\ Head(inPipe).type = "cancel"
  /\ inPipe' = Tail(inPipe)
  /\ cancelled' = TRUE
  /\ rpc' = "drain"
  /\ UNCHANGED <<threadVars, free, nextRequestId, pending, box, shutdown>>
  /\ UNCHANGED <<delivering, toWake, outPipe, shm, hostVars>>

\* End of file: run_reader returns and ShutdownGuard calls shut_down.
ReadEof ==
  /\ rpc = "read"
  /\ inPipe # <<>>
  /\ Head(inPipe).type = "eof"
  /\ inPipe' = Tail(inPipe)
  /\ shutdown' = TRUE
  /\ rpc' = "drain"
  /\ UNCHANGED <<threadVars, free, nextRequestId, pending, box, cancelled>>
  /\ UNCHANGED <<delivering, toWake, outPipe, shm, hostVars>>

DrainedOnShutdown == IF shutdown THEN pending ELSE {}   \* mutant
Drained == pending

\* pending.drain(): every ReplySlot is taken out to be woken.
DrainPending ==
  /\ rpc = "drain"
  /\ toWake' = Drained
  /\ pending' = {}
  /\ rpc' = "wake"
  /\ UNCHANGED <<threadVars, free, nextRequestId, box, cancelled, shutdown>>
  /\ UNCHANGED <<delivering, outPipe, inPipe, shm, hostVars>>

\* ReplySlot::wake_for_shutdown takes the mutex once, then notifies.
WakeReplySlot ==
  /\ rpc = "wake"
  /\ \E i \in toWake :
       /\ SlotMutexFree(i)
       /\ pc' = NotifySlot(i)
       /\ toWake' = toWake \ {i}
  /\ UNCHANGED <<rpc, delivering, kind, call, slot, rid, verdict, outcome, dst, ncalls, nspurious>>
  /\ UNCHANGED <<linkVars, outPipe, inPipe, shm, hostVars>>

WakeInputPool ==
  /\ rpc = "wake"
  /\ toWake = {}
  /\ PoolMutexFree("band")
  /\ pc' = NotifyPool("band")
  /\ rpc' = "wakeOutput"
  /\ UNCHANGED <<kind, call, slot, rid, verdict, outcome, dst, ncalls, nspurious>>
  /\ UNCHANGED <<linkVars, delivering, toWake, outPipe, inPipe, shm, hostVars>>

\* After shut_down the thread is gone; after notify_cancel it reads on.
WakeOutputPool ==
  /\ rpc = "wakeOutput"
  /\ PoolMutexFree("output")
  /\ pc' = NotifyPool("output")
  /\ rpc' = IF shutdown THEN "done" ELSE "read"
  /\ UNCHANGED <<kind, call, slot, rid, verdict, outcome, dst, ncalls, nspurious>>
  /\ UNCHANGED <<linkVars, delivering, toWake, outPipe, inPipe, shm, hostVars>>

-----------------------------------------------------------------------------
(* The host, as the link sees it                                           *)

\* The serve loop takes the next request; a band is written into the slot
\* sample by sample, so until it answers the slot holds a torn band.
HostTake ==
  /\ outOpen
  /\ hostCur = {}
  /\ outPipe # <<>>
  /\ hostCur' = {Head(outPipe)}
  /\ outPipe' = Tail(outPipe)
  /\ shm' = IF Head(outPipe).kind = "band"
            THEN [shm EXCEPT !["band"][Head(outPipe).slot] = Torn]
            ELSE shm
  /\ UNCHANGED <<threadVars, linkVars, readerVars, inPipe>>
  /\ UNCHANGED <<outOpen, inOpen, answered, collected, ncancels>>

\* fill_band or PixelCollector::band has run; the reply goes out.
HostAnswer ==
  /\ inOpen
  /\ Len(inPipe) < PipeCap
  /\ \E r \in hostCur : \E a \in Answers(r.kind) :
       /\ shm' = IF a = "band"
                 THEN [shm EXCEPT !["band"][r.slot] = r.call]
                 ELSE shm
       /\ collected' = IF a = "ack"
                       THEN [collected EXCEPT ![r.call] = shm["output"][r.slot]]
                       ELSE collected
       /\ answered' = [answered EXCEPT ![r.call] =
                         IF a = Good(r.kind) THEN "good" ELSE "bad"]
       /\ inPipe' = Append(inPipe, [type |-> "reply", id |-> r.id, answer |-> a])
  /\ hostCur' = {}
  /\ UNCHANGED <<threadVars, linkVars, readerVars, outPipe>>
  /\ UNCHANGED <<outOpen, inOpen, ncancels>>

\* Host::cancel writes a Cancel frame, from any thread of the host.
HostCancel ==
  /\ inOpen
  /\ ncancels < MaxCancels
  /\ Len(inPipe) < PipeCap
  /\ ncancels' = ncancels + 1
  /\ inPipe' = Append(inPipe, Cancel)
  /\ UNCHANGED <<threadVars, linkVars, readerVars, outPipe, shm>>
  /\ UNCHANGED <<hostCur, outOpen, inOpen, answered, collected>>

\* The serve loop is over: the host closes the worker's stdout, then its stdin.
HostLeave ==
  /\ outOpen
  /\ hostCur = {}
  /\ outOpen' = FALSE
  /\ outPipe' = <<>>
  /\ UNCHANGED <<threadVars, linkVars, readerVars, inPipe, shm>>
  /\ UNCHANGED <<hostCur, inOpen, answered, collected, ncancels>>

HostCloseIn ==
  /\ ~outOpen
  /\ inOpen
  /\ inOpen' = FALSE
  /\ inPipe' = Append(inPipe, Eof)
  /\ UNCHANGED <<threadVars, linkVars, readerVars, outPipe, shm>>
  /\ UNCHANGED <<hostCur, outOpen, answered, collected, ncancels>>

\* The host dies, perhaps in the middle of a band: both pipes close.
HostCrash ==
  /\ outOpen
  /\ outOpen' = FALSE
  /\ inOpen' = FALSE
  /\ hostCur' = {}
  /\ outPipe' = <<>>
  /\ inPipe' = Append(inPipe, Eof)
  /\ UNCHANGED <<threadVars, linkVars, readerVars, shm>>
  /\ UNCHANGED <<answered, collected, ncancels>>

-----------------------------------------------------------------------------
ThreadStep(t) ==
  \/ AcquireSlot(t) \/ AcquireStopped(t) \/ AcquireDoze(t) \/ PoolSleep(t)
  \/ CheckCancelled(t) \/ FillOutput(t) \/ Register(t)
  \/ Send(t) \/ SendFails(t)
  \/ WaitReply(t) \/ WaitStopped(t) \/ WaitDoze(t) \/ WaitSleep(t)
  \/ Unregister(t) \/ TakeBand(t) \/ Release(t)

Reader ==
  \/ ReadReply \/ Deliver \/ ReadCancel \/ ReadEof
  \/ DrainPending \/ WakeReplySlot \/ WakeInputPool \/ WakeOutputPool

HostServe == HostTake \/ HostAnswer

\* Everybody is out of the link and the reader thread has ended.
Terminated ==
  /\ \A t \in Threads : pc[t] = "idle"
  /\ rpc = "done"
  /\ UNCHANGED vars

Next ==
  \/ \E t \in Threads : \E k \in Kinds : Call(t, k)
  \/ \E t \in Threads : ThreadStep(t) \/ SpuriousWake(t)
  \/ Reader
  \/ HostServe \/ HostCancel \/ HostLeave \/ HostCloseIn \/ HostCrash
  \/ Terminated

Spec == Init /\ [][Next]_vars

\* The scheduler runs every thread of the worker.
WorkerFairness ==
  /\ \A t \in Threads : WF_vars(ThreadStep(t))
  /\ WF_vars(Reader)

\* A host that has not cancelled and not left its serve loop serves; one that
\* left it closes stdin.  One that cancelled may never answer again.
HostFairness == WF_vars(HostServe /\ ncancels = 0) /\ WF_vars(HostCloseIn)

FairSpec == Spec /\ WorkerFairness /\ HostFairness

-----------------------------------------------------------------------------
(* Properties                                                              *)

\* Every variable stays in its set.
ThreadTypeOK ==
  /\ pc \in [Threads -> PCs]
  /\ kind \in [Threads -> Kinds]
  /\ call \in [Threads -> 0 .. MaxCalls]
  /\ slot \in [Threads -> AllSlots \cup {0}]
  /\ rid \in [Threads -> Ids]
  /\ verdict \in [Threads -> {"none", "good", "bad", "stopped"}]
  /\ outcome \in [Calls -> {"none", "ok", "err"}]
  /\ dst \in [Calls -> Contents]
  /\ ncalls \in 0 .. MaxCalls
  /\ nspurious \in 0 .. MaxSpurious

LinkTypeOK ==
  /\ free \in [Kinds -> SUBSET AllSlots]
  /\ nextRequestId \in Ids
  /\ pending \in SUBSET Ids
  /\ box \in [Ids -> AllAnswers \cup {"none"}]
  /\ cancelled \in BOOLEAN
  /\ shutdown \in BOOLEAN

ReaderTypeOK ==
  /\ rpc \in {"read", "deliver", "drain", "wake", "wakeOutput", "done"}
  /\ delivering \in Ids \X (AllAnswers \cup {"none"})
  /\ toWake \in SUBSET Ids

HostTypeOK ==
  /\ outPipe \in Seq(Requests)
  /\ inPipe \in Seq(HostFrames)
  /\ shm \in [Kinds -> [AllSlots -> Contents]]
  /\ hostCur \in SUBSET Requests
  /\ outOpen \in BOOLEAN
  /\ inOpen \in BOOLEAN
  /\ answered \in [Calls -> {"none", "good", "bad"}]
  /\ collected \in [Calls -> Contents]
  /\ ncancels \in 0 .. MaxCancels

TypeOK == ThreadTypeOK /\ LinkTypeOK /\ ReaderTypeOK /\ HostTypeOK

\* A thread holds a slot from the moment it acquired it to its release.
Holds(t) ==
  pc[t] \in {"check", "fill", "register", "send", "wait", "doze", "asleep",
            "unregister", "take", "release"}

\* The pools never lose or double a slot: a slot is free or held by exactly
\* one thread, whatever way the calls ended (PROTOCOL.md section 8).
SlotsAccounted ==
  /\ \A t \in Threads : Holds(t) => slot[t] \in Slots(kind[t]) \ free[kind[t]]
  /\ \A t, u \in Threads :
       t # u /\ Holds(t) /\ Holds(u) /\ kind[t] = kind[u] => slot[t] # slot[u]
  /\ \A k \in Kinds : \A s \in Slots(k) \ free[k] :
       \E t \in Threads : Holds(t) /\ kind[t] = k /\ slot[t] = s

\* The requests the host has yet to answer.
AtHost == {outPipe[i] : i \in 1 .. Len(outPipe)} \cup hostCur

\* No two requests in the host's hands name the same slot, not even when the
\* callers of some of them gave up after a Cancel and released their slot
\* while the host may still be writing into it.
OneRequestPerSlot ==
  \A r, q \in AtHost : r # q /\ r.kind = q.kind => r.slot # q.slot

\* A request_band that was told its band is there copies that very band: not
\* a torn one, nor the band of another request that used the slot.
BandIntact ==
  \A t \in Threads : pc[t] = "take" => shm["band"][slot[t]] = call[t]

\* The rows the host reads for an OutputBand are the rows its caller handed
\* over, from the frame's sending to the host's last look at the slot.
OutputIntact ==
  /\ \A r \in AtHost : r.kind = "output" => shm["output"][r.slot] = r.call
  /\ \A c \in Calls : collected[c] \in {Empty, c}

\* A call that returned Ok had its effect: the host collected the output
\* band, or the caller's buffer holds the band it asked for.
OkMeansDone ==
  \A c \in Calls : outcome[c] = "ok" =>
     /\ answered[c] = "good"
     /\ collected[c] = c \/ dst[c] = c

\* Pixels keep their place: through slots that are reused, replies in any
\* order and calls that give up, no band and no output row ends up in another
\* call, and Ok is never said of a band that did not arrive.
PixelsIntact == BandIntact /\ OutputIntact /\ OkMeansDone

\* HostLink implements the service the threads rely on.
Service == INSTANCE BandService WITH
  open <- [t \in Threads |-> IF pc[t] = "idle" THEN 0 ELSE call[t]],
  answer <- answered,
  outcome <- outcome,
  stopped <- cancelled \/ shutdown \/ ~outOpen

ServiceSpec == Service!Spec

\* The write of a frame is stuck in a pipe the host does not empty.
WriteBlocked(t) == pc[t] = "send" /\ outOpen /\ Len(outPipe) = PipeCap

\* Every call returns, under a host that serves what it reads or leaves or
\* cancels, and whatever a host does or omits after a Cancel, unless it stops
\* reading a pipe that is full.
EveryCallReturns ==
  \A t \in Threads : pc[t] # "idle" ~> pc[t] = "idle" \/ []WriteBlocked(t)
=============================================================================

--------------------------- MODULE HostLinkProofs ---------------------------
(***************************************************************************)
(* Proofs about HostLink, for every set of threads and slots and every     *)
(* bound, in four layers, each of which rests on those before it:          *)
(*                                                                         *)
(*   TypeOK, SlotInv   the types, and where every slot is                  *)
(*   RequestInv        whose the requests in the host's hands are          *)
(*   PixelInv          what is in the slots, and what a reply may say      *)
(*   Service           the link as an implementation of BandService        *)
(***************************************************************************)
EXTENDS HostLink, TLAPS

USE DEF Kinds, Calls, Ids, Contents, AllAnswers, PCs,
        FailFast, Accepts, GivesBack, WaiterOf, Drained

\* What a thread inside a call has: its work and, from the acquire on, a slot
\* of the right pool.
InCall ==
  /\ \A t \in Threads : pc[t] # "idle" => call[t] \in Calls
  /\ \A t \in Threads : Holds(t) => slot[t] \in Slots(kind[t])

\* What the constants are, in the forms the steps cite.
LEMMA AssumptionFacts ==
  /\ MaxCalls \in Nat /\ MaxCancels \in Nat /\ MaxSpurious \in Nat
  /\ PipeCap \in Nat \ {0}
  /\ \A k \in Kinds : Slots(k) \in SUBSET AllSlots
  /\ 0 \notin AllSlots
BY HostLinkAssumption DEF Slots, AllSlots

\* The wakeups only move sleepers back to their check.
LEMMA NotifyTypes ==
  ASSUME pc \in [Threads -> PCs]
  PROVE  /\ \A k \in Kinds : NotifyPool(k) \in [Threads -> PCs]
         /\ \A i \in Ids : NotifySlot(i) \in [Threads -> PCs]
BY DEF NotifyPool, NotifySlot

\* A frame that says it is a reply has the fields of one.
LEMMA ReplyFacts ==
  ASSUME NEW m \in HostFrames, m.type = "reply"
  PROVE  m \in Replies /\ m.id \in Ids /\ m.answer \in AllAnswers
BY DEF HostFrames, Replies, Cancel, Eof

\* Head, Tail and Append stay within a set of sequences.
LEMMA SeqTypes ==
  ASSUME NEW S, NEW q \in Seq(S), NEW e \in S
  PROVE  /\ Append(q, e) \in Seq(S)
         /\ q # <<>> => Head(q) \in S /\ Tail(q) \in Seq(S)
OBVIOUS

\* A link that has just been built has the types of all its parts.
LEMMA TypeInit == Init => TypeOK
<1> SUFFICES ASSUME Init PROVE TypeOK
  OBVIOUS
<1> USE AssumptionFacts
<1>1. ThreadTypeOK
  BY DEF Init, ThreadTypeOK, Empty
<1>2. LinkTypeOK
  <2>1. free \in [Kinds -> SUBSET AllSlots]
    BY DEF Init
  <2>2. box \in [Ids -> AllAnswers \cup {"none"}]
    BY DEF Init
  <2>3. nextRequestId \in Ids /\ pending \in SUBSET Ids
    BY DEF Init
  <2>4. cancelled \in BOOLEAN /\ shutdown \in BOOLEAN
    BY Zenon DEF Init
  <2> QED
    BY <2>1, <2>2, <2>3, <2>4 DEF LinkTypeOK
<1>3. ReaderTypeOK
  BY DEF Init, ReaderTypeOK
<1>4. HostTypeOK
  <2>1. shm \in [Kinds -> [AllSlots -> Contents]]
    <3>1. [s \in AllSlots |-> Empty] \in [AllSlots -> Contents]
      BY DEF Empty
    <3> QED
      BY <3>1, Zenon DEF Init
  <2>2. outPipe \in Seq(Requests) /\ inPipe \in Seq(HostFrames) /\ hostCur \in SUBSET Requests
    BY DEF Init
  <2> QED
    BY <2>1, <2>2 DEF Init, HostTypeOK, Empty
<1> QED
  BY <1>1, <1>2, <1>3, <1>4 DEF TypeOK

\* A step keeps the threads in their types.
LEMMA ThreadTypeNext ==
  ASSUME TypeOK, InCall, [Next]_vars
  PROVE  ThreadTypeOK'
<1> USE AssumptionFacts DEF TypeOK, ThreadTypeOK
<1>1. ASSUME NEW t \in Threads, NEW k \in Kinds, Call(t, k) PROVE ThreadTypeOK'
  BY <1>1 DEF Call, threadVars, linkVars, readerVars, hostVars, vars
<1>2. ASSUME NEW t \in Threads, AcquireSlot(t) PROVE ThreadTypeOK'
  BY <1>2
    DEF AcquireSlot, threadVars, linkVars, readerVars, hostVars, vars,
       LinkTypeOK
<1>3. ASSUME NEW t \in Threads, AcquireStopped(t) PROVE ThreadTypeOK'
  <2>1. call[t] \in Calls
    BY <1>3 DEF AcquireStopped, InCall, Holds
  <2>2. outcome' \in [Calls -> {"none", "ok", "err"}]
    BY <1>3, <2>1 DEF AcquireStopped
  <2>3. /\ kind' \in [Threads -> Kinds] /\ call' \in [Threads -> 0 .. MaxCalls]
        /\ rid' \in [Threads -> Ids] /\ verdict' \in [Threads -> {"none", "good", "bad", "stopped"}]
    BY <1>3 DEF AcquireStopped, LeaveCall
  <2>4. pc' \in [Threads -> PCs]
    BY <1>3 DEF AcquireStopped
  <2>5. slot' \in [Threads -> AllSlots \cup {0}]
    BY <1>3 DEF AcquireStopped
  <2> QED
    BY <1>3, <2>2, <2>3, <2>4, <2>5 DEF AcquireStopped
<1>4. ASSUME NEW t \in Threads, AcquireDoze(t) PROVE ThreadTypeOK'
  BY <1>4 DEF AcquireDoze, threadVars, linkVars, readerVars, hostVars, vars
<1>5. ASSUME NEW t \in Threads, PoolSleep(t) PROVE ThreadTypeOK'
  BY <1>5 DEF PoolSleep, threadVars, linkVars, readerVars, hostVars, vars
<1>6. ASSUME NEW t \in Threads, CheckCancelled(t) PROVE ThreadTypeOK'
  BY <1>6 DEF CheckCancelled, threadVars, linkVars, readerVars, hostVars, vars
<1>7. ASSUME NEW t \in Threads, FillOutput(t) PROVE ThreadTypeOK'
  BY <1>7 DEF FillOutput, threadVars, linkVars, readerVars, hostVars, vars
<1>8. ASSUME NEW t \in Threads, Register(t) PROVE ThreadTypeOK'
  BY <1>8
    DEF Register, threadVars, linkVars, readerVars, hostVars, vars, LinkTypeOK
<1>9. ASSUME NEW t \in Threads, Send(t) PROVE ThreadTypeOK'
  BY <1>9 DEF Send, threadVars, linkVars, readerVars, hostVars, vars
<1>10. ASSUME NEW t \in Threads, SendFails(t) PROVE ThreadTypeOK'
  BY <1>10 DEF SendFails, threadVars, linkVars, readerVars, hostVars, vars
<1>11. ASSUME NEW t \in Threads, WaitReply(t) PROVE ThreadTypeOK'
  BY <1>11 DEF WaitReply, threadVars, linkVars, readerVars, hostVars, vars
<1>12. ASSUME NEW t \in Threads, WaitStopped(t) PROVE ThreadTypeOK'
  BY <1>12 DEF WaitStopped, threadVars, linkVars, readerVars, hostVars, vars
<1>13. ASSUME NEW t \in Threads, WaitDoze(t) PROVE ThreadTypeOK'
  BY <1>13 DEF WaitDoze, threadVars, linkVars, readerVars, hostVars, vars
<1>14. ASSUME NEW t \in Threads, WaitSleep(t) PROVE ThreadTypeOK'
  BY <1>14 DEF WaitSleep, threadVars, linkVars, readerVars, hostVars, vars
<1>15. ASSUME NEW t \in Threads, Unregister(t) PROVE ThreadTypeOK'
  BY <1>15 DEF Unregister, threadVars, linkVars, readerVars, hostVars, vars
<1>16. ASSUME NEW t \in Threads, TakeBand(t) PROVE ThreadTypeOK'
  <2>1. slot[t] \in AllSlots
    BY <1>16 DEF TakeBand, InCall, Holds
  <2>2. shm["band"][slot[t]] \in Contents
    BY <2>1 DEF HostTypeOK
  <2> QED
    BY <1>16, <2>2
      DEF TakeBand, threadVars, linkVars, readerVars, hostVars, vars
<1>17. ASSUME NEW t \in Threads, Release(t) PROVE ThreadTypeOK'
  <2>1. call[t] \in Calls
    BY <1>17 DEF Release, InCall, Holds
  <2>2. outcome' \in [Calls -> {"none", "ok", "err"}]
    BY <1>17, <2>1 DEF Release
  <2>3. /\ kind' \in [Threads -> Kinds] /\ call' \in [Threads -> 0 .. MaxCalls]
        /\ rid' \in [Threads -> Ids] /\ verdict' \in [Threads -> {"none", "good", "bad", "stopped"}]
    BY <1>17 DEF Release, LeaveCall
  <2>4. pc' \in [Threads -> PCs]
    BY <1>17, NotifyTypes DEF Release
  <2>5. slot' \in [Threads -> AllSlots \cup {0}]
    BY <1>17 DEF Release
  <2> QED
    BY <1>17, <2>2, <2>3, <2>4, <2>5 DEF Release
<1>18. ASSUME NEW t \in Threads, SpuriousWake(t) PROVE ThreadTypeOK'
  <2>1. pc' = [pc EXCEPT ![t] = "acquire"] \/ pc' = [pc EXCEPT ![t] = "wait"]
    BY <1>18 DEF SpuriousWake
  <2>2. pc \in [Threads -> PCs] /\ "acquire" \in PCs /\ "wait" \in PCs
    BY DEF PCs
  <2>3. nspurious' \in 0 .. MaxSpurious
    BY <1>18 DEF SpuriousWake
  <2>4. pc' \in [Threads -> PCs]
    BY <2>1, <2>2
  <2> QED
    BY <1>18, <2>3, <2>4 DEF SpuriousWake
<1>19. CASE ReadReply
  BY <1>19 DEF ReadReply, threadVars, linkVars, readerVars, hostVars, vars
<1>20. CASE Deliver
  <2>1. delivering[1] \in Ids
    BY DEF ReaderTypeOK
  <2> QED
    BY <1>20, <2>1, NotifyTypes
      DEF Deliver, threadVars, linkVars, readerVars, hostVars, vars
<1>21. CASE ReadCancel
  BY <1>21 DEF ReadCancel, threadVars, linkVars, readerVars, hostVars, vars
<1>22. CASE ReadEof
  BY <1>22 DEF ReadEof, threadVars, linkVars, readerVars, hostVars, vars
<1>23. CASE DrainPending
  BY <1>23 DEF DrainPending, threadVars, linkVars, readerVars, hostVars, vars
<1>24. CASE WakeReplySlot
  <2>1. pc' \in [Threads -> PCs]
    BY <1>24, NotifyTypes DEF WakeReplySlot, ReaderTypeOK
  <2> QED
    BY <1>24, <2>1
      DEF WakeReplySlot, threadVars, linkVars, readerVars, hostVars, vars
<1>25. CASE WakeInputPool
  BY <1>25, NotifyTypes
    DEF WakeInputPool, threadVars, linkVars, readerVars, hostVars, vars
<1>26. CASE WakeOutputPool
  BY <1>26, NotifyTypes
    DEF WakeOutputPool, threadVars, linkVars, readerVars, hostVars, vars
<1>27. CASE HostTake
  BY <1>27 DEF HostTake, threadVars, linkVars, readerVars, hostVars, vars
<1>28. CASE HostAnswer
  BY <1>28 DEF HostAnswer, threadVars, linkVars, readerVars, hostVars, vars
<1>29. CASE HostCancel
  BY <1>29 DEF HostCancel, threadVars, linkVars, readerVars, hostVars, vars
<1>30. CASE HostLeave
  BY <1>30 DEF HostLeave, threadVars, linkVars, readerVars, hostVars, vars
<1>31. CASE HostCloseIn
  BY <1>31 DEF HostCloseIn, threadVars, linkVars, readerVars, hostVars, vars
<1>32. CASE HostCrash
  BY <1>32 DEF HostCrash, threadVars, linkVars, readerVars, hostVars, vars
<1>33. CASE Terminated
  BY <1>33 DEF Terminated, threadVars, linkVars, readerVars, hostVars, vars
<1>34. CASE UNCHANGED vars
  BY <1>34 DEF threadVars, linkVars, readerVars, hostVars, vars
<1> QED
  BY <1>1, <1>2, <1>3, <1>4, <1>5, <1>6, <1>7, <1>8, <1>9, <1>10, <1>11,
     <1>12, <1>13, <1>14, <1>15, <1>16, <1>17, <1>18, <1>19, <1>20,
     <1>21, <1>22, <1>23, <1>24, <1>25, <1>26, <1>27, <1>28, <1>29, <1>30,
     <1>31, <1>32, <1>33, <1>34
  DEF Next, ThreadStep, Reader, HostServe

\* A step keeps the link in its types.
LEMMA LinkTypeNext ==
  ASSUME TypeOK, InCall, [Next]_vars
  PROVE  LinkTypeOK'
<1> USE AssumptionFacts DEF TypeOK, LinkTypeOK
<1>1. ASSUME NEW t \in Threads, NEW k \in Kinds, Call(t, k) PROVE LinkTypeOK'
  BY <1>1 DEF Call, threadVars, linkVars, readerVars, hostVars, vars
<1>2. ASSUME NEW t \in Threads, AcquireSlot(t) PROVE LinkTypeOK'
  BY <1>2 DEF AcquireSlot, threadVars, linkVars, readerVars, hostVars, vars
<1>3. ASSUME NEW t \in Threads, AcquireStopped(t) PROVE LinkTypeOK'
  BY <1>3 DEF AcquireStopped, threadVars, linkVars, readerVars, hostVars, vars
<1>4. ASSUME NEW t \in Threads, AcquireDoze(t) PROVE LinkTypeOK'
  BY <1>4 DEF AcquireDoze, threadVars, linkVars, readerVars, hostVars, vars
<1>5. ASSUME NEW t \in Threads, PoolSleep(t) PROVE LinkTypeOK'
  BY <1>5 DEF PoolSleep, threadVars, linkVars, readerVars, hostVars, vars
<1>6. ASSUME NEW t \in Threads, CheckCancelled(t) PROVE LinkTypeOK'
  BY <1>6 DEF CheckCancelled, threadVars, linkVars, readerVars, hostVars, vars
<1>7. ASSUME NEW t \in Threads, FillOutput(t) PROVE LinkTypeOK'
  BY <1>7 DEF FillOutput, threadVars, linkVars, readerVars, hostVars, vars
<1>8. ASSUME NEW t \in Threads, Register(t) PROVE LinkTypeOK'
  BY <1>8
    DEF Register, threadVars, linkVars, readerVars, hostVars, vars, ThreadTypeOK
<1>9. ASSUME NEW t \in Threads, Send(t) PROVE LinkTypeOK'
  BY <1>9 DEF Send, threadVars, linkVars, readerVars, hostVars, vars
<1>10. ASSUME NEW t \in Threads, SendFails(t) PROVE LinkTypeOK'
  BY <1>10 DEF SendFails, threadVars, linkVars, readerVars, hostVars, vars
<1>11. ASSUME NEW t \in Threads, WaitReply(t) PROVE LinkTypeOK'
  BY <1>11 DEF WaitReply, threadVars, linkVars, readerVars, hostVars, vars
<1>12. ASSUME NEW t \in Threads, WaitStopped(t) PROVE LinkTypeOK'
  BY <1>12 DEF WaitStopped, threadVars, linkVars, readerVars, hostVars, vars
<1>13. ASSUME NEW t \in Threads, WaitDoze(t) PROVE LinkTypeOK'
  BY <1>13 DEF WaitDoze, threadVars, linkVars, readerVars, hostVars, vars
<1>14. ASSUME NEW t \in Threads, WaitSleep(t) PROVE LinkTypeOK'
  BY <1>14 DEF WaitSleep, threadVars, linkVars, readerVars, hostVars, vars
<1>15. ASSUME NEW t \in Threads, Unregister(t) PROVE LinkTypeOK'
  BY <1>15 DEF Unregister, threadVars, linkVars, readerVars, hostVars, vars
<1>16. ASSUME NEW t \in Threads, TakeBand(t) PROVE LinkTypeOK'
  BY <1>16 DEF TakeBand, threadVars, linkVars, readerVars, hostVars, vars
<1>17. ASSUME NEW t \in Threads, Release(t) PROVE LinkTypeOK'
  <2>1. slot[t] \in AllSlots
    BY <1>17 DEF Release, InCall, Holds, ThreadTypeOK
  <2>2. free' \in [Kinds -> SUBSET AllSlots]
    BY <1>17, <2>1 DEF Release
  <2> QED
    BY <1>17, <2>2 DEF Release, threadVars, linkVars, readerVars, hostVars, vars
<1>18. ASSUME NEW t \in Threads, SpuriousWake(t) PROVE LinkTypeOK'
  BY <1>18 DEF SpuriousWake, threadVars, linkVars, readerVars, hostVars, vars
<1>19. CASE ReadReply
  BY <1>19 DEF ReadReply, threadVars, linkVars, readerVars, hostVars, vars
<1>20. CASE Deliver
  <2>1. delivering[2] \in AllAnswers \cup {"none"}
    BY DEF ReaderTypeOK
  <2> QED
    BY <1>20, <2>1 DEF Deliver, threadVars, linkVars, readerVars, hostVars, vars
<1>21. CASE ReadCancel
  BY <1>21 DEF ReadCancel, threadVars, linkVars, readerVars, hostVars, vars
<1>22. CASE ReadEof
  BY <1>22 DEF ReadEof, threadVars, linkVars, readerVars, hostVars, vars
<1>23. CASE DrainPending
  BY <1>23 DEF DrainPending, threadVars, linkVars, readerVars, hostVars, vars
<1>24. CASE WakeReplySlot
  BY <1>24 DEF WakeReplySlot, threadVars, linkVars, readerVars, hostVars, vars
<1>25. CASE WakeInputPool
  BY <1>25 DEF WakeInputPool, threadVars, linkVars, readerVars, hostVars, vars
<1>26. CASE WakeOutputPool
  BY <1>26 DEF WakeOutputPool, threadVars, linkVars, readerVars, hostVars, vars
<1>27. CASE HostTake
  BY <1>27 DEF HostTake, threadVars, linkVars, readerVars, hostVars, vars
<1>28. CASE HostAnswer
  BY <1>28 DEF HostAnswer, threadVars, linkVars, readerVars, hostVars, vars
<1>29. CASE HostCancel
  BY <1>29 DEF HostCancel, threadVars, linkVars, readerVars, hostVars, vars
<1>30. CASE HostLeave
  BY <1>30 DEF HostLeave, threadVars, linkVars, readerVars, hostVars, vars
<1>31. CASE HostCloseIn
  BY <1>31 DEF HostCloseIn, threadVars, linkVars, readerVars, hostVars, vars
<1>32. CASE HostCrash
  BY <1>32 DEF HostCrash, threadVars, linkVars, readerVars, hostVars, vars
<1>33. CASE Terminated
  BY <1>33 DEF Terminated, threadVars, linkVars, readerVars, hostVars, vars
<1>34. CASE UNCHANGED vars
  BY <1>34 DEF threadVars, linkVars, readerVars, hostVars, vars
<1> QED
  BY <1>1, <1>2, <1>3, <1>4, <1>5, <1>6, <1>7, <1>8, <1>9, <1>10, <1>11,
     <1>12, <1>13, <1>14, <1>15, <1>16, <1>17, <1>18, <1>19, <1>20,
     <1>21, <1>22, <1>23, <1>24, <1>25, <1>26, <1>27, <1>28, <1>29, <1>30,
     <1>31, <1>32, <1>33, <1>34
  DEF Next, ThreadStep, Reader, HostServe

\* A step keeps the reader thread in its types.
LEMMA ReaderTypeNext ==
  ASSUME TypeOK, InCall, [Next]_vars
  PROVE  ReaderTypeOK'
<1> USE AssumptionFacts DEF TypeOK, ReaderTypeOK
<1>1. ASSUME NEW t \in Threads, NEW k \in Kinds, Call(t, k) PROVE ReaderTypeOK'
  BY <1>1 DEF Call, threadVars, linkVars, readerVars, hostVars, vars
<1>2. ASSUME NEW t \in Threads, AcquireSlot(t) PROVE ReaderTypeOK'
  BY <1>2 DEF AcquireSlot, threadVars, linkVars, readerVars, hostVars, vars
<1>3. ASSUME NEW t \in Threads, AcquireStopped(t) PROVE ReaderTypeOK'
  BY <1>3 DEF AcquireStopped, threadVars, linkVars, readerVars, hostVars, vars
<1>4. ASSUME NEW t \in Threads, AcquireDoze(t) PROVE ReaderTypeOK'
  BY <1>4 DEF AcquireDoze, threadVars, linkVars, readerVars, hostVars, vars
<1>5. ASSUME NEW t \in Threads, PoolSleep(t) PROVE ReaderTypeOK'
  BY <1>5 DEF PoolSleep, threadVars, linkVars, readerVars, hostVars, vars
<1>6. ASSUME NEW t \in Threads, CheckCancelled(t) PROVE ReaderTypeOK'
  BY <1>6 DEF CheckCancelled, threadVars, linkVars, readerVars, hostVars, vars
<1>7. ASSUME NEW t \in Threads, FillOutput(t) PROVE ReaderTypeOK'
  BY <1>7 DEF FillOutput, threadVars, linkVars, readerVars, hostVars, vars
<1>8. ASSUME NEW t \in Threads, Register(t) PROVE ReaderTypeOK'
  BY <1>8 DEF Register, threadVars, linkVars, readerVars, hostVars, vars
<1>9. ASSUME NEW t \in Threads, Send(t) PROVE ReaderTypeOK'
  BY <1>9 DEF Send, threadVars, linkVars, readerVars, hostVars, vars
<1>10. ASSUME NEW t \in Threads, SendFails(t) PROVE ReaderTypeOK'
  BY <1>10 DEF SendFails, threadVars, linkVars, readerVars, hostVars, vars
<1>11. ASSUME NEW t \in Threads, WaitReply(t) PROVE ReaderTypeOK'
  BY <1>11 DEF WaitReply, threadVars, linkVars, readerVars, hostVars, vars
<1>12. ASSUME NEW t \in Threads, WaitStopped(t) PROVE ReaderTypeOK'
  BY <1>12 DEF WaitStopped, threadVars, linkVars, readerVars, hostVars, vars
<1>13. ASSUME NEW t \in Threads, WaitDoze(t) PROVE ReaderTypeOK'
  BY <1>13 DEF WaitDoze, threadVars, linkVars, readerVars, hostVars, vars
<1>14. ASSUME NEW t \in Threads, WaitSleep(t) PROVE ReaderTypeOK'
  BY <1>14 DEF WaitSleep, threadVars, linkVars, readerVars, hostVars, vars
<1>15. ASSUME NEW t \in Threads, Unregister(t) PROVE ReaderTypeOK'
  BY <1>15 DEF Unregister, threadVars, linkVars, readerVars, hostVars, vars
<1>16. ASSUME NEW t \in Threads, TakeBand(t) PROVE ReaderTypeOK'
  BY <1>16 DEF TakeBand, threadVars, linkVars, readerVars, hostVars, vars
<1>17. ASSUME NEW t \in Threads, Release(t) PROVE ReaderTypeOK'
  BY <1>17 DEF Release, threadVars, linkVars, readerVars, hostVars, vars
<1>18. ASSUME NEW t \in Threads, SpuriousWake(t) PROVE ReaderTypeOK'
  BY <1>18 DEF SpuriousWake, threadVars, linkVars, readerVars, hostVars, vars
<1>19. CASE ReadReply
  <2>1. Head(inPipe) \in HostFrames
    BY <1>19 DEF ReadReply, HostTypeOK
  <2>2. Head(inPipe).id \in Ids /\ Head(inPipe).answer \in AllAnswers
    BY <1>19, <2>1, ReplyFacts DEF ReadReply
  <2> QED
    BY <1>19, <2>2
      DEF ReadReply, threadVars, linkVars, readerVars, hostVars, vars
<1>20. CASE Deliver
  BY <1>20 DEF Deliver, threadVars, linkVars, readerVars, hostVars, vars
<1>21. CASE ReadCancel
  BY <1>21 DEF ReadCancel, threadVars, linkVars, readerVars, hostVars, vars
<1>22. CASE ReadEof
  BY <1>22 DEF ReadEof, threadVars, linkVars, readerVars, hostVars, vars
<1>23. CASE DrainPending
  BY <1>23
    DEF DrainPending, threadVars, linkVars, readerVars, hostVars, vars,
       LinkTypeOK
<1>24. CASE WakeReplySlot
  BY <1>24 DEF WakeReplySlot, threadVars, linkVars, readerVars, hostVars, vars
<1>25. CASE WakeInputPool
  BY <1>25 DEF WakeInputPool, threadVars, linkVars, readerVars, hostVars, vars
<1>26. CASE WakeOutputPool
  BY <1>26 DEF WakeOutputPool, threadVars, linkVars, readerVars, hostVars, vars
<1>27. CASE HostTake
  BY <1>27 DEF HostTake, threadVars, linkVars, readerVars, hostVars, vars
<1>28. CASE HostAnswer
  BY <1>28 DEF HostAnswer, threadVars, linkVars, readerVars, hostVars, vars
<1>29. CASE HostCancel
  BY <1>29 DEF HostCancel, threadVars, linkVars, readerVars, hostVars, vars
<1>30. CASE HostLeave
  BY <1>30 DEF HostLeave, threadVars, linkVars, readerVars, hostVars, vars
<1>31. CASE HostCloseIn
  BY <1>31 DEF HostCloseIn, threadVars, linkVars, readerVars, hostVars, vars
<1>32. CASE HostCrash
  BY <1>32 DEF HostCrash, threadVars, linkVars, readerVars, hostVars, vars
<1>33. CASE Terminated
  BY <1>33 DEF Terminated, threadVars, linkVars, readerVars, hostVars, vars
<1>34. CASE UNCHANGED vars
  BY <1>34 DEF threadVars, linkVars, readerVars, hostVars, vars
<1> QED
  BY <1>1, <1>2, <1>3, <1>4, <1>5, <1>6, <1>7, <1>8, <1>9, <1>10, <1>11,
     <1>12, <1>13, <1>14, <1>15, <1>16, <1>17, <1>18, <1>19, <1>20,
     <1>21, <1>22, <1>23, <1>24, <1>25, <1>26, <1>27, <1>28, <1>29, <1>30,
     <1>31, <1>32, <1>33, <1>34
  DEF Next, ThreadStep, Reader, HostServe

\* A step keeps the pipes and the host in their types.
LEMMA HostTypeNext ==
  ASSUME TypeOK, InCall, [Next]_vars
  PROVE  HostTypeOK'
<1> USE AssumptionFacts DEF TypeOK, HostTypeOK
<1>1. ASSUME NEW t \in Threads, NEW k \in Kinds, Call(t, k) PROVE HostTypeOK'
  BY <1>1 DEF Call, threadVars, linkVars, readerVars, hostVars, vars
<1>2. ASSUME NEW t \in Threads, AcquireSlot(t) PROVE HostTypeOK'
  BY <1>2 DEF AcquireSlot, threadVars, linkVars, readerVars, hostVars, vars
<1>3. ASSUME NEW t \in Threads, AcquireStopped(t) PROVE HostTypeOK'
  BY <1>3 DEF AcquireStopped, threadVars, linkVars, readerVars, hostVars, vars
<1>4. ASSUME NEW t \in Threads, AcquireDoze(t) PROVE HostTypeOK'
  BY <1>4 DEF AcquireDoze, threadVars, linkVars, readerVars, hostVars, vars
<1>5. ASSUME NEW t \in Threads, PoolSleep(t) PROVE HostTypeOK'
  BY <1>5 DEF PoolSleep, threadVars, linkVars, readerVars, hostVars, vars
<1>6. ASSUME NEW t \in Threads, CheckCancelled(t) PROVE HostTypeOK'
  BY <1>6 DEF CheckCancelled, threadVars, linkVars, readerVars, hostVars, vars
<1>7. ASSUME NEW t \in Threads, FillOutput(t) PROVE HostTypeOK'
  <2>1. call[t] \in Contents
    BY DEF ThreadTypeOK
  <2>2. shm' \in [Kinds -> [AllSlots -> Contents]]
    BY <1>7, <2>1 DEF FillOutput
  <2> QED
    BY <1>7, <2>2
      DEF FillOutput, threadVars, linkVars, readerVars, hostVars, vars
<1>8. ASSUME NEW t \in Threads, Register(t) PROVE HostTypeOK'
  BY <1>8 DEF Register, threadVars, linkVars, readerVars, hostVars, vars
<1>9. ASSUME NEW t \in Threads, Send(t) PROVE HostTypeOK'
  <2>1. [id |-> rid[t], call |-> call[t], kind |-> kind[t], slot |-> slot[t]] \in Requests
    BY <1>9 DEF Send, InCall, Holds, ThreadTypeOK, Requests
  <2>2. outPipe' \in Seq(Requests)
    BY <1>9, <2>1, SeqTypes DEF Send
  <2> QED
    BY <1>9, <2>2 DEF Send, threadVars, linkVars, readerVars, hostVars, vars
<1>10. ASSUME NEW t \in Threads, SendFails(t) PROVE HostTypeOK'
  BY <1>10 DEF SendFails, threadVars, linkVars, readerVars, hostVars, vars
<1>11. ASSUME NEW t \in Threads, WaitReply(t) PROVE HostTypeOK'
  BY <1>11 DEF WaitReply, threadVars, linkVars, readerVars, hostVars, vars
<1>12. ASSUME NEW t \in Threads, WaitStopped(t) PROVE HostTypeOK'
  BY <1>12 DEF WaitStopped, threadVars, linkVars, readerVars, hostVars, vars
<1>13. ASSUME NEW t \in Threads, WaitDoze(t) PROVE HostTypeOK'
  BY <1>13 DEF WaitDoze, threadVars, linkVars, readerVars, hostVars, vars
<1>14. ASSUME NEW t \in Threads, WaitSleep(t) PROVE HostTypeOK'
  BY <1>14 DEF WaitSleep, threadVars, linkVars, readerVars, hostVars, vars
<1>15. ASSUME NEW t \in Threads, Unregister(t) PROVE HostTypeOK'
  BY <1>15 DEF Unregister, threadVars, linkVars, readerVars, hostVars, vars
<1>16. ASSUME NEW t \in Threads, TakeBand(t) PROVE HostTypeOK'
  BY <1>16 DEF TakeBand, threadVars, linkVars, readerVars, hostVars, vars
<1>17. ASSUME NEW t \in Threads, Release(t) PROVE HostTypeOK'
  BY <1>17 DEF Release, threadVars, linkVars, readerVars, hostVars, vars
<1>18. ASSUME NEW t \in Threads, SpuriousWake(t) PROVE HostTypeOK'
  BY <1>18 DEF SpuriousWake, threadVars, linkVars, readerVars, hostVars, vars
<1>19. CASE ReadReply
  <2>1. inPipe' \in Seq(HostFrames)
    BY <1>19 DEF ReadReply
  <2> QED
    BY <1>19, <2>1
      DEF ReadReply, threadVars, linkVars, readerVars, hostVars, vars
<1>20. CASE Deliver
  BY <1>20 DEF Deliver, threadVars, linkVars, readerVars, hostVars, vars
<1>21. CASE ReadCancel
  BY <1>21 DEF ReadCancel, threadVars, linkVars, readerVars, hostVars, vars
<1>22. CASE ReadEof
  BY <1>22 DEF ReadEof, threadVars, linkVars, readerVars, hostVars, vars
<1>23. CASE DrainPending
  BY <1>23 DEF DrainPending, threadVars, linkVars, readerVars, hostVars, vars
<1>24. CASE WakeReplySlot
  BY <1>24 DEF WakeReplySlot, threadVars, linkVars, readerVars, hostVars, vars
<1>25. CASE WakeInputPool
  BY <1>25 DEF WakeInputPool, threadVars, linkVars, readerVars, hostVars, vars
<1>26. CASE WakeOutputPool
  BY <1>26 DEF WakeOutputPool, threadVars, linkVars, readerVars, hostVars, vars
<1>27. CASE HostTake
  <2>1. Head(outPipe) \in Requests /\ outPipe' \in Seq(Requests)
    BY <1>27 DEF HostTake
  <2>2. Torn \in Contents
    BY DEF Torn
  <2>3. shm' \in [Kinds -> [AllSlots -> Contents]]
    BY <1>27, <2>1, <2>2 DEF HostTake
  <2> QED
    BY <1>27, <2>1, <2>3
      DEF HostTake, threadVars, linkVars, readerVars, hostVars, vars
<1>28. CASE HostAnswer
  <2>1. PICK r \in hostCur : \E a \in Answers(r.kind) :
           /\ shm' = IF a = "band"
                     THEN [shm EXCEPT !["band"][r.slot] = r.call]
                     ELSE shm
           /\ collected' = IF a = "ack"
                           THEN [collected EXCEPT ![r.call] = shm["output"][r.slot]]
                           ELSE collected
           /\ answered' = [answered EXCEPT ![r.call] =
                             IF a = Good(r.kind) THEN "good" ELSE "bad"]
           /\ inPipe' = Append(inPipe, [type |-> "reply", id |-> r.id, answer |-> a])
    BY <1>28 DEF HostAnswer
  <2>2. PICK a \in Answers(r.kind) :
           /\ shm' = IF a = "band"
                     THEN [shm EXCEPT !["band"][r.slot] = r.call]
                     ELSE shm
           /\ collected' = IF a = "ack"
                           THEN [collected EXCEPT ![r.call] = shm["output"][r.slot]]
                           ELSE collected
           /\ answered' = [answered EXCEPT ![r.call] =
                             IF a = Good(r.kind) THEN "good" ELSE "bad"]
           /\ inPipe' = Append(inPipe, [type |-> "reply", id |-> r.id, answer |-> a])
    BY <2>1
  <2>3. r \in Requests /\ a \in AllAnswers
    BY <2>2 DEF Answers
  <2>4. r.id \in Ids /\ r.call \in Contents /\ r.slot \in AllSlots
    BY <2>3 DEF Requests
  <2>5. shm' \in [Kinds -> [AllSlots -> Contents]]
    BY <2>2, <2>4
  <2>6. collected' \in [Calls -> Contents]
    BY <2>2, <2>4
  <2>7. [type |-> "reply", id |-> r.id, answer |-> a] \in HostFrames
    BY <2>3, <2>4 DEF HostFrames, Replies
  <2>8. inPipe' \in Seq(HostFrames)
    BY <2>2, <2>7, SeqTypes
  <2> QED
    BY <1>28, <2>2, <2>5, <2>6, <2>8
      DEF HostAnswer, threadVars, linkVars, readerVars, hostVars, vars
<1>29. CASE HostCancel
  <2>1. Cancel \in HostFrames
    BY DEF HostFrames
  <2> QED
    BY <1>29, <2>1, SeqTypes
      DEF HostCancel, threadVars, linkVars, readerVars, hostVars, vars
<1>30. CASE HostLeave
  <2>1. outPipe' \in Seq(Requests)
    BY <1>30 DEF HostLeave
  <2> QED
    BY <1>30, <2>1
      DEF HostLeave, threadVars, linkVars, readerVars, hostVars, vars
<1>31. CASE HostCloseIn
  <2>1. Eof \in HostFrames
    BY DEF HostFrames
  <2> QED
    BY <1>31, <2>1, SeqTypes
      DEF HostCloseIn, threadVars, linkVars, readerVars, hostVars, vars
<1>32. CASE HostCrash
  <2>1. Eof \in HostFrames
    BY DEF HostFrames
  <2>2. outPipe' \in Seq(Requests) /\ inPipe' \in Seq(HostFrames) /\ hostCur' \in SUBSET Requests
    BY <1>32, <2>1, SeqTypes DEF HostCrash
  <2> QED
    BY <1>32, <2>2
      DEF HostCrash, threadVars, linkVars, readerVars, hostVars, vars
<1>33. CASE Terminated
  BY <1>33 DEF Terminated, threadVars, linkVars, readerVars, hostVars, vars
<1>34. CASE UNCHANGED vars
  BY <1>34 DEF threadVars, linkVars, readerVars, hostVars, vars
<1> QED
  BY <1>1, <1>2, <1>3, <1>4, <1>5, <1>6, <1>7, <1>8, <1>9, <1>10, <1>11,
     <1>12, <1>13, <1>14, <1>15, <1>16, <1>17, <1>18, <1>19, <1>20,
     <1>21, <1>22, <1>23, <1>24, <1>25, <1>26, <1>27, <1>28, <1>29, <1>30,
     <1>31, <1>32, <1>33, <1>34
  DEF Next, ThreadStep, Reader, HostServe

\* What an acquire, a check and a release rely on, besides SlotsAccounted.
FreeInPool == \A k \in Kinds : free[k] \subseteq Slots(k)

SlotInv == InCall /\ FreeInPool /\ SlotsAccounted

\* A step that moves no slot, and no thread in or out of its hold on one.
LEMMA SlotFrame ==
  ASSUME TypeOK, SlotInv, UNCHANGED <<free, slot, kind, call>>,
         \A t \in Threads : (Holds(t)' <=> Holds(t)) /\ (pc'[t] # "idle" => pc[t] # "idle")
  PROVE  SlotInv'
<1>1. InCall'
  BY DEF SlotInv, InCall, Slots
<1>2. FreeInPool'
  BY DEF SlotInv, FreeInPool, Slots
<1>3. SlotsAccounted'
  BY DEF SlotInv, SlotsAccounted, Slots
<1> QED
  BY <1>1, <1>2, <1>3 DEF SlotInv

\* The wakeups change no hold.
LEMMA NotifyHolds ==
  ASSUME TypeOK, NEW t \in Threads
  PROVE  /\ \A k \in Kinds :
              /\ NotifyPool(k)[t] # pc[t] => pc[t] = "poolSleep" /\ NotifyPool(k)[t] = "acquire"
         /\ \A i \in Ids :
              /\ NotifySlot(i)[t] # pc[t] => pc[t] = "asleep" /\ NotifySlot(i)[t] = "wait"
BY DEF NotifyPool, NotifySlot, TypeOK, ThreadTypeOK

\* A step keeps the accounts of the pools.
LEMMA SlotNext ==
  ASSUME TypeOK, SlotInv, [Next]_vars
  PROVE  SlotInv'
<1> USE DEF TypeOK
<1>1. ASSUME NEW t \in Threads, NEW k \in Kinds, Call(t, k) PROVE SlotInv'
  <2> USE <1>1 DEF Call, linkVars
  <2>1. InCall'
    BY AssumptionFacts
      DEF SlotInv, InCall, Holds, Slots, ThreadTypeOK, LinkTypeOK
  <2>2. FreeInPool'
    BY DEF SlotInv, FreeInPool, Slots
  <2>3. \A u \in Threads : Holds(u)' <=> Holds(u)
    BY DEF Holds, ThreadTypeOK
  <2>4. \A u \in Threads : Holds(u) => kind'[u] = kind[u] /\ slot'[u] = slot[u]
    BY DEF Holds, ThreadTypeOK
  <2>5. SlotsAccounted'
    BY <2>3, <2>4 DEF SlotInv, SlotsAccounted, Slots
  <2> QED
    BY <2>1, <2>2, <2>5 DEF SlotInv
<1>2. ASSUME NEW t \in Threads, AcquireSlot(t) PROVE SlotInv'
  <2> USE <1>2 DEF AcquireSlot
  <2>1. PICK s \in free[kind[t]] :
          /\ slot' = [slot EXCEPT ![t] = s]
          /\ free' = [free EXCEPT ![kind[t]] = free[kind[t]] \ {s}]
    OBVIOUS
  <2>2. kind[t] \in Kinds /\ s \in Slots(kind[t])
    BY DEF ThreadTypeOK, SlotInv, FreeInPool
  <2>3. \A u \in Threads : Holds(u)' <=> Holds(u) \/ u = t
    BY DEF Holds, ThreadTypeOK
  <2>4. slot'[t] = s /\ \A u \in Threads \ {t} : slot'[u] = slot[u]
    BY <2>1 DEF ThreadTypeOK
  <2>5. ~Holds(t)
    BY DEF Holds
  <2>6. free'[kind[t]] = free[kind[t]] \ {s} /\ \A k \in Kinds \ {kind[t]} : free'[k] = free[k]
    BY <2>1, <2>2 DEF LinkTypeOK
  <2>7. InCall'
    BY <2>2, <2>3, <2>4 DEF SlotInv, InCall, ThreadTypeOK, Slots
  <2>8. FreeInPool'
    BY <2>6 DEF SlotInv, FreeInPool, Slots
  <2>9. \A u \in Threads : Holds(u)' => slot'[u] \in Slots(kind[u]) \ free'[kind[u]]
    BY <2>2, <2>3, <2>4, <2>6 DEF SlotInv, SlotsAccounted, ThreadTypeOK
  <2>10. \A u, w \in Threads :
           u # w /\ Holds(u)' /\ Holds(w)' /\ kind[u] = kind[w] => slot'[u] # slot'[w]
    BY <2>3, <2>4 DEF SlotInv, SlotsAccounted
  <2>11. ASSUME NEW k \in Kinds, NEW r \in Slots(k) \ free'[k]
         PROVE  \E u \in Threads : Holds(u)' /\ kind[u] = k /\ slot'[u] = r
    <3>1. CASE k = kind[t] /\ r = s
      BY <3>1, <2>3, <2>4
    <3>2. CASE ~(k = kind[t] /\ r = s)
      <4>1. r \in Slots(k) \ free[k]
        BY <3>2, <2>6, <2>11
      <4> QED
        BY <4>1, <2>3, <2>4, <2>5 DEF SlotInv, SlotsAccounted
    <3> QED
      BY <3>1, <3>2
  <2>12. SlotsAccounted'
    BY <2>9, <2>10, <2>11 DEF SlotsAccounted, Slots
  <2> QED
    BY <2>7, <2>8, <2>12 DEF SlotInv
<1>3. ASSUME NEW t \in Threads, AcquireStopped(t) PROVE SlotInv'
  <2> USE <1>3 DEF AcquireStopped, LeaveCall, linkVars
  <2>1. \A u \in Threads : Holds(u)' <=> Holds(u)
    BY DEF Holds, ThreadTypeOK
  <2>2. \A u \in Threads : Holds(u) => kind'[u] = kind[u] /\ slot'[u] = slot[u]
    BY DEF Holds, ThreadTypeOK
  <2>3. InCall'
    BY <2>1, <2>2 DEF SlotInv, InCall, Slots, ThreadTypeOK
  <2>4. FreeInPool'
    BY DEF SlotInv, FreeInPool, Slots
  <2>5. SlotsAccounted'
    BY <2>1, <2>2 DEF SlotInv, SlotsAccounted, Slots
  <2> QED
    BY <2>3, <2>4, <2>5 DEF SlotInv
<1>4. ASSUME NEW t \in Threads, AcquireDoze(t) PROVE SlotInv'
  BY <1>4, SlotFrame
    DEF AcquireDoze, threadVars, linkVars, readerVars, hostVars, vars, Holds,
       ThreadTypeOK
<1>5. ASSUME NEW t \in Threads, PoolSleep(t) PROVE SlotInv'
  BY <1>5, SlotFrame
    DEF PoolSleep, threadVars, linkVars, readerVars, hostVars, vars, Holds,
       ThreadTypeOK
<1>6. ASSUME NEW t \in Threads, CheckCancelled(t) PROVE SlotInv'
  BY <1>6, SlotFrame
    DEF CheckCancelled, threadVars, linkVars, readerVars, hostVars, vars,
       Holds, ThreadTypeOK
<1>7. ASSUME NEW t \in Threads, FillOutput(t) PROVE SlotInv'
  BY <1>7, SlotFrame
    DEF FillOutput, threadVars, linkVars, readerVars, hostVars, vars, Holds,
       ThreadTypeOK
<1>8. ASSUME NEW t \in Threads, Register(t) PROVE SlotInv'
  BY <1>8, SlotFrame
    DEF Register, threadVars, linkVars, readerVars, hostVars, vars, Holds,
       ThreadTypeOK
<1>9. ASSUME NEW t \in Threads, Send(t) PROVE SlotInv'
  BY <1>9, SlotFrame
    DEF Send, threadVars, linkVars, readerVars, hostVars, vars, Holds,
       ThreadTypeOK
<1>10. ASSUME NEW t \in Threads, SendFails(t) PROVE SlotInv'
  BY <1>10, SlotFrame
    DEF SendFails, threadVars, linkVars, readerVars, hostVars, vars, Holds,
       ThreadTypeOK
<1>11. ASSUME NEW t \in Threads, WaitReply(t) PROVE SlotInv'
  BY <1>11, SlotFrame
    DEF WaitReply, threadVars, linkVars, readerVars, hostVars, vars, Holds,
       ThreadTypeOK
<1>12. ASSUME NEW t \in Threads, WaitStopped(t) PROVE SlotInv'
  BY <1>12, SlotFrame
    DEF WaitStopped, threadVars, linkVars, readerVars, hostVars, vars, Holds,
       ThreadTypeOK
<1>13. ASSUME NEW t \in Threads, WaitDoze(t) PROVE SlotInv'
  BY <1>13, SlotFrame
    DEF WaitDoze, threadVars, linkVars, readerVars, hostVars, vars, Holds,
       ThreadTypeOK
<1>14. ASSUME NEW t \in Threads, WaitSleep(t) PROVE SlotInv'
  BY <1>14, SlotFrame
    DEF WaitSleep, threadVars, linkVars, readerVars, hostVars, vars, Holds,
       ThreadTypeOK
<1>15. ASSUME NEW t \in Threads, Unregister(t) PROVE SlotInv'
  BY <1>15, SlotFrame
    DEF Unregister, threadVars, linkVars, readerVars, hostVars, vars, Holds,
       ThreadTypeOK
<1>16. ASSUME NEW t \in Threads, TakeBand(t) PROVE SlotInv'
  BY <1>16, SlotFrame
    DEF TakeBand, threadVars, linkVars, readerVars, hostVars, vars, Holds,
       ThreadTypeOK
<1>17. ASSUME NEW t \in Threads, Release(t) PROVE SlotInv'
  <2> USE <1>17 DEF Release, LeaveCall
  <2>1. kind[t] \in Kinds /\ Holds(t) /\ slot[t] \in Slots(kind[t])
    BY DEF ThreadTypeOK, Holds, SlotInv, InCall
  <2>2. \A u \in Threads : Holds(u)' <=> Holds(u) /\ u # t
    <3>1. NotifyPool(kind[t]) \in [Threads -> PCs]
      BY <2>1, NotifyTypes DEF ThreadTypeOK
    <3>2. pc'[t] = "idle" /\ \A u \in Threads \ {t} : pc'[u] = NotifyPool(kind[t])[u]
      BY <3>1
    <3> QED
      BY <3>2, <2>1, NotifyHolds DEF Holds
  <2>3. \A u \in Threads \ {t} :
          slot'[u] = slot[u] /\ kind'[u] = kind[u] /\ call'[u] = call[u]
    BY DEF ThreadTypeOK
  <2>4. free'[kind[t]] = free[kind[t]] \cup {slot[t]} /\ \A k \in Kinds \ {kind[t]} : free'[k] = free[k]
    BY <2>1 DEF LinkTypeOK
  <2>5. pc'[t] = "idle" /\ \A u \in Threads \ {t} : pc'[u] # "idle" => pc[u] # "idle"
    BY <2>1, NotifyHolds, NotifyTypes DEF ThreadTypeOK
  <2>6. InCall'
    BY <2>2, <2>3, <2>5 DEF SlotInv, InCall, Slots
  <2>7. FreeInPool'
    BY <2>1, <2>4 DEF SlotInv, FreeInPool, Slots
  <2>8. ASSUME NEW u \in Threads, Holds(u)' PROVE slot'[u] \in Slots(kind'[u]) \ free'[kind'[u]]
    <3>1. u # t /\ Holds(u) /\ kind[u] \in Kinds
      BY <2>8, <2>2 DEF ThreadTypeOK
    <3>2. slot[u] \in Slots(kind[u]) \ free[kind[u]]
      BY <3>1 DEF SlotInv, SlotsAccounted
    <3>3. kind[u] = kind[t] => slot[u] # slot[t]
      BY <3>1, <2>1 DEF SlotInv, SlotsAccounted
    <3> QED
      BY <3>1, <3>2, <3>3, <2>3, <2>4
  <2>9. \A u, w \in Threads :
           u # w /\ Holds(u)' /\ Holds(w)' /\ kind'[u] = kind'[w] => slot'[u] # slot'[w]
    BY <2>2, <2>3 DEF SlotInv, SlotsAccounted
  <2>10. ASSUME NEW k \in Kinds, NEW r \in Slots(k) \ free'[k]
         PROVE  \E u \in Threads : Holds(u)' /\ kind'[u] = k /\ slot'[u] = r
    <3>1. r \in Slots(k) \ free[k] /\ ~(k = kind[t] /\ r = slot[t])
      BY <2>10, <2>4
    <3>2. PICK u \in Threads : Holds(u) /\ kind[u] = k /\ slot[u] = r
      BY <3>1 DEF SlotInv, SlotsAccounted
    <3> QED
      BY <3>1, <3>2, <2>2, <2>3
  <2>11. SlotsAccounted'
    BY <2>8, <2>9, <2>10 DEF SlotsAccounted, Slots
  <2> QED
    BY <2>6, <2>7, <2>11 DEF SlotInv
<1>18. ASSUME NEW t \in Threads, SpuriousWake(t) PROVE SlotInv'
  BY <1>18, SlotFrame
    DEF SpuriousWake, threadVars, linkVars, readerVars, hostVars, vars, Holds,
       ThreadTypeOK
<1>19. CASE ReadReply
  BY <1>19, SlotFrame
    DEF ReadReply, threadVars, linkVars, readerVars, hostVars, vars, Holds
<1>20. CASE Deliver
  BY <1>20, SlotFrame, NotifyHolds DEF Deliver, linkVars, Holds, ReaderTypeOK
<1>21. CASE ReadCancel
  BY <1>21, SlotFrame
    DEF ReadCancel, threadVars, linkVars, readerVars, hostVars, vars, Holds
<1>22. CASE ReadEof
  BY <1>22, SlotFrame
    DEF ReadEof, threadVars, linkVars, readerVars, hostVars, vars, Holds
<1>23. CASE DrainPending
  BY <1>23, SlotFrame
    DEF DrainPending, threadVars, linkVars, readerVars, hostVars, vars, Holds
<1>24. CASE WakeReplySlot
  BY <1>24, SlotFrame, NotifyHolds
    DEF WakeReplySlot, linkVars, Holds, ReaderTypeOK
<1>25. CASE WakeInputPool
  BY <1>25, SlotFrame, NotifyHolds DEF WakeInputPool, linkVars, Holds
<1>26. CASE WakeOutputPool
  BY <1>26, SlotFrame, NotifyHolds DEF WakeOutputPool, linkVars, Holds
<1>27. CASE HostTake
  BY <1>27, SlotFrame
    DEF HostTake, threadVars, linkVars, readerVars, hostVars, vars, Holds
<1>28. CASE HostAnswer
  BY <1>28, SlotFrame
    DEF HostAnswer, threadVars, linkVars, readerVars, hostVars, vars, Holds
<1>29. CASE HostCancel
  BY <1>29, SlotFrame
    DEF HostCancel, threadVars, linkVars, readerVars, hostVars, vars, Holds
<1>30. CASE HostLeave
  BY <1>30, SlotFrame
    DEF HostLeave, threadVars, linkVars, readerVars, hostVars, vars, Holds
<1>31. CASE HostCloseIn
  BY <1>31, SlotFrame
    DEF HostCloseIn, threadVars, linkVars, readerVars, hostVars, vars, Holds
<1>32. CASE HostCrash
  BY <1>32, SlotFrame
    DEF HostCrash, threadVars, linkVars, readerVars, hostVars, vars, Holds
<1>33. CASE Terminated
  BY <1>33, SlotFrame
    DEF Terminated, threadVars, linkVars, readerVars, hostVars, vars, Holds
<1>34. CASE UNCHANGED vars
  BY <1>34, SlotFrame
    DEF threadVars, linkVars, readerVars, hostVars, vars, Holds
<1> QED
  BY <1>1, <1>2, <1>3, <1>4, <1>5, <1>6, <1>7, <1>8, <1>9, <1>10, <1>11,
     <1>12, <1>13, <1>14, <1>15, <1>16, <1>17, <1>18, <1>19, <1>20,
     <1>21, <1>22, <1>23, <1>24, <1>25, <1>26, <1>27, <1>28, <1>29, <1>30,
     <1>31, <1>32, <1>33, <1>34
  DEF Next, ThreadStep, Reader, HostServe

\* At first nobody holds a slot and the pools hold all of them.
LEMMA SlotInit == Init => SlotInv
BY DEF Init, SlotInv, InCall, FreeInPool, SlotsAccounted, Holds, Slots

\* The type invariant and the accounts of the pools hold together: the types
\* of what a thread writes follow from the slot and the call it holds.
LEMMA SlotStep ==
  ASSUME TypeOK, SlotInv, [Next]_vars
  PROVE  TypeOK' /\ SlotInv'
<1>1. InCall
  BY DEF SlotInv
<1>2. TypeOK'
  BY <1>1, ThreadTypeNext, LinkTypeNext, ReaderTypeNext, HostTypeNext DEF TypeOK
<1> QED
  BY <1>2, SlotNext

\* The types and the accounts of the two SlotPools hold in every state: a slot
\* is in the pool or with the one thread between acquire and release.
THEOREM SlotsInductive == Spec => [](TypeOK /\ SlotInv)
<1>1. Init => TypeOK /\ SlotInv
  BY TypeInit, SlotInit
<1>2. TypeOK /\ SlotInv /\ [Next]_vars => (TypeOK /\ SlotInv)'
  BY SlotStep
<1> QED
  BY <1>1, <1>2, PTL DEF Spec

\* Every variable stays in its set: request ids, slots and frames included.
THEOREM TypeCorrect == Spec => []TypeOK
BY SlotsInductive, PTL

\* No slot is ever lost or held twice, for any number of threads, slots and
\* calls, and whatever the host does: request_band and send_output_band give
\* back what acquire gave them on every one of their exits.
THEOREM SlotsAlwaysAccounted == Spec => []SlotsAccounted
<1>1. TypeOK /\ SlotInv => SlotsAccounted
  BY DEF SlotInv
<1> QED
  BY <1>1, SlotsInductive, PTL

-----------------------------------------------------------------------------
(***************************************************************************)
(* No two requests in the host's hands ever name the same slot.  The       *)
(* argument: a request the host has not answered belongs to a thread that  *)
(* still waits for it, and so still holds its slot, until the link is      *)
(* cancelled; after that no thread that acquires the slot sends anything,  *)
(* because it finds the flag raised, and the threads that had passed the   *)
(* check hold slots no request in the host's hands names.                  *)
(***************************************************************************)

Waiting(t) == pc[t] \in {"wait", "doze", "asleep"}
Unsent(t) == pc[t] \in {"fill", "register", "send"}

\* The ids of the requests the host has yet to answer, and of the replies on
\* their way: in the pipe, in the reader thread's hands, in a ReplySlot.
RequestIds == {r.id : r \in AtHost}
Replied(i) ==
  \/ box[i] # "none"
  \/ rpc = "deliver" /\ delivering[1] = i
  \/ \E n \in 1 .. Len(inPipe) : inPipe[n].type = "reply" /\ inPipe[n].id = i
ReplyIds == {i \in Ids : Replied(i)}

Closed ==
  /\ ~outOpen => outPipe = <<>> /\ hostCur = {}
  /\ ~inOpen => ~outOpen
  /\ \A i \in 1 .. Len(inPipe) : inPipe[i].type = "eof" => ~outOpen
  /\ shutdown => ~outOpen

Owned ==
  \A r \in AtHost :
    \/ cancelled
    \/ \E t \in Threads :
         Waiting(t) /\ rid[t] = r.id /\ slot[t] = r.slot /\ kind[t] = r.kind

SlotUnsent ==
  \A t \in Threads : Unsent(t) =>
     \A r \in AtHost : r.kind = kind[t] => r.slot # slot[t]

Distinct ==
  /\ \A i, j \in 1 .. Len(outPipe) : i # j => outPipe[i].id # outPipe[j].id
  /\ \A i \in 1 .. Len(outPipe) : \A r \in hostCur : outPipe[i].id # r.id
  /\ \A r, q \in hostCur : r = q

Fresh ==
  /\ RequestIds \cap ReplyIds = {}
  /\ \A i \in RequestIds \cup ReplyIds : i < nextRequestId
  /\ \A t \in Threads : pc[t] = "send" =>
       rid[t] < nextRequestId /\ rid[t] \notin RequestIds \cup ReplyIds
  /\ \A t, u \in Threads :
       t # u /\ pc[t] = "send" /\ pc[u] = "send" => rid[t] # rid[u]

RequestInv == Closed /\ Owned /\ SlotUnsent /\ Distinct /\ Fresh /\ OneRequestPerSlot

-----------------------------------------------------------------------------
\* What the steps do to the requests and the replies on their way.

\* What the host holds are requests, and their ids are request ids.
LEMMA AtHostType ==
  ASSUME TypeOK
  PROVE  AtHost \in SUBSET Requests /\ RequestIds \in SUBSET Ids
<1>1. AtHost \in SUBSET Requests
  BY DEF TypeOK, HostTypeOK, AtHost
<1> QED
  BY <1>1 DEF RequestIds, Requests

\* The sender's request is the one the host has more.
LEMMA SendGrows ==
  ASSUME TypeOK, SlotInv, NEW t \in Threads, Send(t)
  PROVE  /\ AtHost' = AtHost \cup {[id |-> rid[t], call |-> call[t],
                                    kind |-> kind[t], slot |-> slot[t]]}
         /\ ReplyIds' = ReplyIds
<1> DEFINE m == [id |-> rid[t], call |-> call[t], kind |-> kind[t], slot |-> slot[t]]
<1>1. m \in Requests
  BY
    DEF Send, SlotInv, InCall, Holds, TypeOK, ThreadTypeOK, Requests, Slots,
       AllSlots
<1>2. outPipe \in Seq(Requests) /\ outPipe' = Append(outPipe, m) /\ hostCur' = hostCur
  BY DEF Send, TypeOK, HostTypeOK, hostVars
<1>3. /\ Len(outPipe') = Len(outPipe) + 1
      /\ \A i \in 1 .. Len(outPipe) : outPipe'[i] = outPipe[i]
      /\ outPipe'[Len(outPipe) + 1] = m
      /\ Len(outPipe) \in Nat
  BY <1>1, <1>2
<1>4. {outPipe'[i] : i \in 1 .. Len(outPipe')} = {outPipe[i] : i \in 1 .. Len(outPipe)} \cup {m}
  BY <1>3
<1>5. AtHost' = AtHost \cup {m}
  BY <1>2, <1>4 DEF AtHost
<1>6. ReplyIds' = ReplyIds
  BY DEF Send, linkVars, readerVars, ReplyIds, Replied
<1> QED
  BY <1>5, <1>6

\* The serve loop moves its next request from the pipe to its hands.
LEMMA TakeKeeps ==
  ASSUME TypeOK, HostTake
  PROVE  AtHost' = AtHost
<1>1. /\ outPipe \in Seq(Requests) /\ outPipe # <<>> /\ hostCur = {}
      /\ outPipe' = Tail(outPipe) /\ hostCur' = {Head(outPipe)}
  BY DEF HostTake, TypeOK, HostTypeOK
<1>2. /\ Len(outPipe) \in Nat \ {0}
      /\ Len(outPipe') = Len(outPipe) - 1
      /\ \A i \in 1 .. Len(outPipe') : outPipe'[i] = outPipe[i + 1]
      /\ Head(outPipe) = outPipe[1]
  BY <1>1
<1>3. ASSUME NEW i \in 1 .. Len(outPipe), i # 1
      PROVE  i - 1 \in 1 .. Len(outPipe') /\ outPipe'[i - 1] = outPipe[i]
  <2>1. i - 1 \in 1 .. Len(outPipe') /\ (i - 1) + 1 = i
    BY <1>2, <1>3
  <2> QED
    BY <1>2, <2>1
<1>4. {outPipe[i] : i \in 1 .. Len(outPipe)} = {outPipe'[i] : i \in 1 .. Len(outPipe')} \cup {outPipe[1]}
  <2>1. ASSUME NEW x \in {outPipe[i] : i \in 1 .. Len(outPipe)}
        PROVE  x \in {outPipe'[i] : i \in 1 .. Len(outPipe')} \cup {outPipe[1]}
    BY <2>1, <1>3
  <2>2. ASSUME NEW x \in {outPipe'[i] : i \in 1 .. Len(outPipe')} \cup {outPipe[1]}
        PROVE  x \in {outPipe[i] : i \in 1 .. Len(outPipe)}
    BY <2>2, <1>2
  <2> QED
    BY <2>1, <2>2
<1> QED
  BY <1>1, <1>2, <1>4 DEF AtHost

\* An answer leaves the host's hands with its id, which becomes a reply.
LEMMA AnswerMoves ==
  ASSUME TypeOK, Distinct, HostAnswer
  PROVE  \E i \in RequestIds :
           /\ AtHost' \subseteq AtHost
           /\ RequestIds' \subseteq RequestIds \ {i}
           /\ ReplyIds' \subseteq ReplyIds \cup {i}
<1>1. PICK r \in hostCur : \E a \in Answers(r.kind) :
         inPipe' = Append(inPipe, [type |-> "reply", id |-> r.id, answer |-> a])
  BY DEF HostAnswer
<1>2. PICK a \in Answers(r.kind) :
         inPipe' = Append(inPipe, [type |-> "reply", id |-> r.id, answer |-> a])
  BY <1>1
<1> DEFINE m == [type |-> "reply", id |-> r.id, answer |-> a]
<1>3. r \in Requests /\ r.id \in Ids /\ a \in AllAnswers
  BY DEF TypeOK, HostTypeOK, Requests, Answers
<1>4. m \in HostFrames
  BY <1>3 DEF HostFrames, Replies
<1>5. inPipe \in Seq(HostFrames) /\ inPipe' = Append(inPipe, m)
  BY <1>2 DEF TypeOK, HostTypeOK
<1>6. /\ Len(inPipe) \in Nat /\ Len(inPipe') = Len(inPipe) + 1
      /\ \A n \in 1 .. Len(inPipe) : inPipe'[n] = inPipe[n]
      /\ inPipe'[Len(inPipe) + 1] = m
  BY <1>4, <1>5
<1>7. hostCur' = {} /\ outPipe' = outPipe
  BY DEF HostAnswer
<1>8. AtHost' = {outPipe[i] : i \in 1 .. Len(outPipe)}
  BY <1>7 DEF AtHost
<1>9. AtHost' \subseteq AtHost /\ RequestIds' \subseteq RequestIds
  BY <1>8 DEF AtHost, RequestIds
<1>10. r.id \notin RequestIds' /\ r.id \in RequestIds
  BY <1>8 DEF Distinct, RequestIds, AtHost
<1>11. ASSUME NEW i \in ReplyIds' PROVE i \in ReplyIds \cup {r.id}
  <2>1. i \in Ids /\ Replied(i)'
    BY DEF ReplyIds
  <2>2. box' = box /\ rpc' = rpc /\ delivering' = delivering
    BY DEF HostAnswer, linkVars, readerVars
  <2>3. CASE box[i] # "none" \/ (rpc = "deliver" /\ delivering[1] = i)
    BY <2>1, <2>3 DEF ReplyIds, Replied
  <2>4. CASE \E n \in 1 .. Len(inPipe') : inPipe'[n].type = "reply" /\ inPipe'[n].id = i
    <3>1. PICK n \in 1 .. Len(inPipe') : inPipe'[n].type = "reply" /\ inPipe'[n].id = i
      BY <2>4
    <3>2. CASE n = Len(inPipe) + 1
      BY <3>1, <3>2, <1>6
    <3>3. CASE n # Len(inPipe) + 1
      <4>1. n \in 1 .. Len(inPipe)
        BY <3>3, <1>6
      <4>2. inPipe[n].type = "reply" /\ inPipe[n].id = i
        BY <4>1, <3>1, <1>6
      <4> QED
        BY <4>1, <4>2, <2>1 DEF ReplyIds, Replied
    <3> QED
      BY <3>2, <3>3
  <2>5. \/ box[i] # "none" \/ (rpc = "deliver" /\ delivering[1] = i)
        \/ \E n \in 1 .. Len(inPipe') : inPipe'[n].type = "reply" /\ inPipe'[n].id = i
    BY <2>1, <2>2 DEF Replied
  <2> QED
    BY <2>3, <2>4, <2>5
<1> QED
  BY <1>9, <1>10, <1>11

\* A frame leaves the host's pipe, or one that is no reply enters it: no
\* reply is born.
LEMMA TailReplies ==
  ASSUME TypeOK, inPipe # <<>>, inPipe' = Tail(inPipe),
         NEW i, \E n \in 1 .. Len(inPipe') : inPipe'[n].type = "reply" /\ inPipe'[n].id = i
  PROVE  \E n \in 1 .. Len(inPipe) : inPipe[n].type = "reply" /\ inPipe[n].id = i
<1>1. /\ Len(inPipe) \in Nat \ {0} /\ Len(inPipe') = Len(inPipe) - 1
      /\ \A n \in 1 .. Len(inPipe') : inPipe'[n] = inPipe[n + 1]
  BY DEF TypeOK, HostTypeOK
<1>2. PICK n \in 1 .. Len(inPipe') : inPipe'[n].type = "reply" /\ inPipe'[n].id = i
  OBVIOUS
<1>3. n + 1 \in 1 .. Len(inPipe) /\ inPipe[n + 1] = inPipe'[n]
  BY <1>1
<1> QED
  BY <1>2, <1>3

\* A Cancel or the end of the pipe behind the replies adds no reply.
LEMMA AppendReplies ==
  ASSUME TypeOK, NEW e \in {Cancel, Eof}, inPipe' = Append(inPipe, e),
         NEW i, \E n \in 1 .. Len(inPipe') : inPipe'[n].type = "reply" /\ inPipe'[n].id = i
  PROVE  \E n \in 1 .. Len(inPipe) : inPipe[n].type = "reply" /\ inPipe[n].id = i
<1>1. e \in HostFrames /\ e.type # "reply"
  BY DEF HostFrames, Cancel, Eof
<1>2. /\ Len(inPipe) \in Nat /\ Len(inPipe') = Len(inPipe) + 1
      /\ \A n \in 1 .. Len(inPipe) : inPipe'[n] = inPipe[n]
      /\ inPipe'[Len(inPipe) + 1] = e
  BY <1>1 DEF TypeOK, HostTypeOK
<1>3. PICK n \in 1 .. Len(inPipe') : inPipe'[n].type = "reply" /\ inPipe'[n].id = i
  OBVIOUS
<1>4. n # Len(inPipe) + 1
  BY <1>1, <1>2, <1>3
<1>5. n \in 1 .. Len(inPipe)
  BY <1>2, <1>4
<1> QED
  BY <1>2, <1>3, <1>5

\* No other step gives the host a request or makes a reply.
LEMMA OthersShrink ==
  ASSUME TypeOK, [Next]_vars, \A t \in Threads : ~Send(t), ~HostAnswer
  PROVE  AtHost' \subseteq AtHost /\ ReplyIds' \subseteq ReplyIds
<1>1. ASSUME NEW t \in Threads, NEW k \in Kinds, Call(t, k) PROVE AtHost' \subseteq AtHost /\ ReplyIds' \subseteq ReplyIds
  BY <1>1 DEF Call, linkVars, readerVars, hostVars, AtHost, ReplyIds, Replied
<1>2. ASSUME NEW t \in Threads, AcquireSlot(t) PROVE AtHost' \subseteq AtHost /\ ReplyIds' \subseteq ReplyIds
  BY <1>2
    DEF AcquireSlot, linkVars, readerVars, hostVars, AtHost, ReplyIds, Replied
<1>3. ASSUME NEW t \in Threads, AcquireStopped(t) PROVE AtHost' \subseteq AtHost /\ ReplyIds' \subseteq ReplyIds
  BY <1>3
    DEF AcquireStopped, linkVars, readerVars, hostVars, AtHost, ReplyIds,
       Replied
<1>4. ASSUME NEW t \in Threads, AcquireDoze(t) PROVE AtHost' \subseteq AtHost /\ ReplyIds' \subseteq ReplyIds
  BY <1>4
    DEF AcquireDoze, linkVars, readerVars, hostVars, AtHost, ReplyIds, Replied
<1>5. ASSUME NEW t \in Threads, PoolSleep(t) PROVE AtHost' \subseteq AtHost /\ ReplyIds' \subseteq ReplyIds
  BY <1>5
    DEF PoolSleep, linkVars, readerVars, hostVars, AtHost, ReplyIds, Replied
<1>6. ASSUME NEW t \in Threads, CheckCancelled(t) PROVE AtHost' \subseteq AtHost /\ ReplyIds' \subseteq ReplyIds
  BY <1>6
    DEF CheckCancelled, linkVars, readerVars, hostVars, AtHost, ReplyIds,
       Replied
<1>7. ASSUME NEW t \in Threads, FillOutput(t) PROVE AtHost' \subseteq AtHost /\ ReplyIds' \subseteq ReplyIds
  BY <1>7
    DEF FillOutput, linkVars, readerVars, hostVars, AtHost, ReplyIds, Replied
<1>8. ASSUME NEW t \in Threads, Register(t) PROVE AtHost' \subseteq AtHost /\ ReplyIds' \subseteq ReplyIds
  BY <1>8
    DEF Register, linkVars, readerVars, hostVars, AtHost, ReplyIds, Replied
<1>9. ASSUME NEW t \in Threads, SendFails(t) PROVE AtHost' \subseteq AtHost /\ ReplyIds' \subseteq ReplyIds
  BY <1>9
    DEF SendFails, linkVars, readerVars, hostVars, AtHost, ReplyIds, Replied
<1>10. ASSUME NEW t \in Threads, WaitReply(t) PROVE AtHost' \subseteq AtHost /\ ReplyIds' \subseteq ReplyIds
  <2>1. \A i \in Ids : box'[i] # "none" => box[i] # "none"
    BY <1>10 DEF WaitReply, TypeOK, LinkTypeOK
  <2> QED
    BY <1>10, <2>1
      DEF WaitReply, linkVars, readerVars, hostVars, AtHost, ReplyIds, Replied
<1>11. ASSUME NEW t \in Threads, WaitStopped(t) PROVE AtHost' \subseteq AtHost /\ ReplyIds' \subseteq ReplyIds
  BY <1>11
    DEF WaitStopped, linkVars, readerVars, hostVars, AtHost, ReplyIds, Replied
<1>12. ASSUME NEW t \in Threads, WaitDoze(t) PROVE AtHost' \subseteq AtHost /\ ReplyIds' \subseteq ReplyIds
  BY <1>12
    DEF WaitDoze, linkVars, readerVars, hostVars, AtHost, ReplyIds, Replied
<1>13. ASSUME NEW t \in Threads, WaitSleep(t) PROVE AtHost' \subseteq AtHost /\ ReplyIds' \subseteq ReplyIds
  BY <1>13
    DEF WaitSleep, linkVars, readerVars, hostVars, AtHost, ReplyIds, Replied
<1>14. ASSUME NEW t \in Threads, Unregister(t) PROVE AtHost' \subseteq AtHost /\ ReplyIds' \subseteq ReplyIds
  BY <1>14
    DEF Unregister, linkVars, readerVars, hostVars, AtHost, ReplyIds, Replied
<1>15. ASSUME NEW t \in Threads, TakeBand(t) PROVE AtHost' \subseteq AtHost /\ ReplyIds' \subseteq ReplyIds
  BY <1>15
    DEF TakeBand, linkVars, readerVars, hostVars, AtHost, ReplyIds, Replied
<1>16. ASSUME NEW t \in Threads, Release(t) PROVE AtHost' \subseteq AtHost /\ ReplyIds' \subseteq ReplyIds
  BY <1>16
    DEF Release, linkVars, readerVars, hostVars, AtHost, ReplyIds, Replied
<1>17. ASSUME NEW t \in Threads, SpuriousWake(t) PROVE AtHost' \subseteq AtHost /\ ReplyIds' \subseteq ReplyIds
  BY <1>17
    DEF SpuriousWake, linkVars, readerVars, hostVars, AtHost, ReplyIds, Replied
<1>18. CASE ReadReply
  <2>1. ASSUME NEW i \in ReplyIds' PROVE i \in ReplyIds
    <3>1. i \in Ids /\ Replied(i)'
      BY <2>1 DEF ReplyIds
    <3>2. /\ inPipe \in Seq(HostFrames) /\ inPipe # <<>>
          /\ Head(inPipe).type = "reply" /\ box' = box
          /\ inPipe' = Tail(inPipe) /\ rpc = "read"
      BY <1>18 DEF ReadReply, TypeOK, HostTypeOK
    <3>3. Head(inPipe) = inPipe[1] /\ 1 \in 1 .. Len(inPipe)
      BY <3>2
    <3>4. rpc' = "deliver" => delivering'[1] = Head(inPipe).id
      BY <1>18, <3>2 DEF ReadReply
    <3>5. CASE box'[i] # "none"
      BY <3>1, <3>2, <3>5 DEF ReplyIds, Replied
    <3>6. CASE rpc' = "deliver" /\ delivering'[1] = i
      <4>1. inPipe[1].type = "reply" /\ inPipe[1].id = i
        BY <3>2, <3>3, <3>4, <3>6
      <4> QED
        BY <4>1, <3>1, <3>3 DEF ReplyIds, Replied
    <3>7. CASE \E n \in 1 .. Len(inPipe') : inPipe'[n].type = "reply" /\ inPipe'[n].id = i
      BY <3>1, <3>2, <3>7, TailReplies DEF ReplyIds, Replied
    <3> QED
      BY <3>1, <3>5, <3>6, <3>7 DEF Replied
  <2> QED
    BY <1>18, <2>1 DEF ReadReply, hostVars, AtHost
<1>19. CASE Deliver
  <2>1. ASSUME NEW i \in ReplyIds' PROVE i \in ReplyIds
    <3>1. i \in Ids /\ Replied(i)'
      BY <2>1 DEF ReplyIds
    <3>2. CASE i = delivering[1]
      BY <1>19, <3>1, <3>2 DEF Deliver, ReplyIds, Replied
    <3>3. CASE i # delivering[1]
      BY <1>19, <3>1, <3>3 DEF Deliver, ReplyIds, Replied, TypeOK, LinkTypeOK
    <3> QED
      BY <3>2, <3>3
  <2> QED
    BY <1>19, <2>1 DEF Deliver, hostVars, AtHost
<1>20. CASE ReadCancel
  BY <1>20, TailReplies DEF ReadCancel, hostVars, AtHost, ReplyIds, Replied
<1>21. CASE ReadEof
  BY <1>21, TailReplies DEF ReadEof, hostVars, AtHost, ReplyIds, Replied
<1>22. CASE DrainPending
  BY <1>22 DEF DrainPending, linkVars, hostVars, AtHost, ReplyIds, Replied
<1>23. CASE WakeReplySlot
  BY <1>23 DEF WakeReplySlot, linkVars, hostVars, AtHost, ReplyIds, Replied
<1>24. CASE WakeInputPool
  BY <1>24 DEF WakeInputPool, linkVars, hostVars, AtHost, ReplyIds, Replied
<1>25. CASE WakeOutputPool
  BY <1>25 DEF WakeOutputPool, linkVars, hostVars, AtHost, ReplyIds, Replied
<1>26. CASE HostTake
  <2>1. ReplyIds' = ReplyIds
    BY <1>26 DEF HostTake, linkVars, readerVars, ReplyIds, Replied
  <2> QED
    BY <1>26, <2>1, TakeKeeps
<1>27. CASE HostCancel
  <2>1. ReplyIds' \subseteq ReplyIds
    BY <1>27, AppendReplies
      DEF HostCancel, linkVars, readerVars, ReplyIds, Replied
  <2> QED
    BY <1>27, <2>1 DEF HostCancel, AtHost
<1>28. CASE HostLeave
  <2>1. AtHost' = {}
    BY <1>28 DEF HostLeave, AtHost
  <2>2. ReplyIds' = ReplyIds
    BY <1>28 DEF HostLeave, linkVars, readerVars, ReplyIds, Replied
  <2> QED
    BY <2>1, <2>2
<1>29. CASE HostCloseIn
  <2>1. ReplyIds' \subseteq ReplyIds
    BY <1>29, AppendReplies
      DEF HostCloseIn, linkVars, readerVars, ReplyIds, Replied
  <2> QED
    BY <1>29, <2>1 DEF HostCloseIn, AtHost
<1>30. CASE HostCrash
  <2>1. AtHost' = {}
    BY <1>30 DEF HostCrash, AtHost
  <2>2. ReplyIds' \subseteq ReplyIds
    BY <1>30, AppendReplies
      DEF HostCrash, linkVars, readerVars, ReplyIds, Replied
  <2> QED
    BY <2>1, <2>2
<1>31. CASE Terminated
  BY <1>31
    DEF Terminated, linkVars, readerVars, hostVars, AtHost, ReplyIds, Replied,
       threadVars, linkVars, readerVars, hostVars, vars
<1>32. CASE UNCHANGED vars
  BY <1>32
    DEF threadVars, linkVars, readerVars, hostVars, vars, AtHost, ReplyIds,
       Replied
<1> QED
  BY <1>1, <1>2, <1>3, <1>4, <1>5, <1>6, <1>7, <1>8, <1>9, <1>10, <1>11, <1>12,
     <1>13, <1>14, <1>15, <1>16, <1>17, <1>18, <1>19, <1>20, <1>21, <1>22,
     <1>23, <1>24,
     <1>25, <1>26, <1>27, <1>28, <1>29, <1>30, <1>31, <1>32
  DEF Next, ThreadStep, Reader, HostServe

-----------------------------------------------------------------------------
\* What the steps do to the threads.

\* Only a reply or a stop ends a wait.
LEMMA WaitersStay ==
  ASSUME TypeOK, [Next]_vars, \A t \in Threads : ~WaitReply(t) /\ ~WaitStopped(t)
  PROVE  /\ cancelled => cancelled'
         /\ \A u \in Threads : Waiting(u) =>
              Waiting(u)' /\ rid'[u] = rid[u] /\ slot'[u] = slot[u] /\ kind'[u] = kind[u]
<1> DEFINE Stay ==
      /\ cancelled => cancelled'
      /\ \A u \in Threads : Waiting(u) =>
           Waiting(u)' /\ rid'[u] = rid[u] /\ slot'[u] = slot[u] /\ kind'[u] = kind[u]
<1>1. ASSUME NEW t \in Threads, NEW k \in Kinds, Call(t, k) PROVE Stay
  BY <1>1
    DEF Call, threadVars, linkVars, readerVars, hostVars, vars, Waiting,
       LeaveCall, TypeOK, ThreadTypeOK
<1>2. ASSUME NEW t \in Threads, AcquireSlot(t) PROVE Stay
  BY <1>2
    DEF AcquireSlot, threadVars, linkVars, readerVars, hostVars, vars,
       Waiting, LeaveCall, TypeOK, ThreadTypeOK
<1>3. ASSUME NEW t \in Threads, AcquireStopped(t) PROVE Stay
  BY <1>3
    DEF AcquireStopped, threadVars, linkVars, readerVars, hostVars, vars,
       Waiting, LeaveCall, TypeOK, ThreadTypeOK
<1>4. ASSUME NEW t \in Threads, AcquireDoze(t) PROVE Stay
  BY <1>4
    DEF AcquireDoze, threadVars, linkVars, readerVars, hostVars, vars,
       Waiting, LeaveCall, TypeOK, ThreadTypeOK
<1>5. ASSUME NEW t \in Threads, PoolSleep(t) PROVE Stay
  BY <1>5
    DEF PoolSleep, threadVars, linkVars, readerVars, hostVars, vars, Waiting,
       LeaveCall, TypeOK, ThreadTypeOK
<1>6. ASSUME NEW t \in Threads, CheckCancelled(t) PROVE Stay
  BY <1>6
    DEF CheckCancelled, threadVars, linkVars, readerVars, hostVars, vars,
       Waiting, LeaveCall, TypeOK, ThreadTypeOK
<1>7. ASSUME NEW t \in Threads, FillOutput(t) PROVE Stay
  BY <1>7
    DEF FillOutput, threadVars, linkVars, readerVars, hostVars, vars, Waiting,
       LeaveCall, TypeOK, ThreadTypeOK
<1>8. ASSUME NEW t \in Threads, Register(t) PROVE Stay
  BY <1>8
    DEF Register, threadVars, linkVars, readerVars, hostVars, vars, Waiting,
       LeaveCall, TypeOK, ThreadTypeOK
<1>9. ASSUME NEW t \in Threads, Send(t) PROVE Stay
  BY <1>9
    DEF Send, threadVars, linkVars, readerVars, hostVars, vars, Waiting,
       LeaveCall, TypeOK, ThreadTypeOK
<1>10. ASSUME NEW t \in Threads, SendFails(t) PROVE Stay
  BY <1>10
    DEF SendFails, threadVars, linkVars, readerVars, hostVars, vars, Waiting,
       LeaveCall, TypeOK, ThreadTypeOK
<1>11. ASSUME NEW t \in Threads, WaitDoze(t) PROVE Stay
  BY <1>11
    DEF WaitDoze, threadVars, linkVars, readerVars, hostVars, vars, Waiting,
       LeaveCall, TypeOK, ThreadTypeOK
<1>12. ASSUME NEW t \in Threads, WaitSleep(t) PROVE Stay
  BY <1>12
    DEF WaitSleep, threadVars, linkVars, readerVars, hostVars, vars, Waiting,
       LeaveCall, TypeOK, ThreadTypeOK
<1>13. ASSUME NEW t \in Threads, Unregister(t) PROVE Stay
  BY <1>13
    DEF Unregister, threadVars, linkVars, readerVars, hostVars, vars, Waiting,
       LeaveCall, TypeOK, ThreadTypeOK
<1>14. ASSUME NEW t \in Threads, TakeBand(t) PROVE Stay
  BY <1>14
    DEF TakeBand, threadVars, linkVars, readerVars, hostVars, vars, Waiting,
       LeaveCall, TypeOK, ThreadTypeOK
<1>15. ASSUME NEW t \in Threads, Release(t) PROVE Stay
  <2>1. NotifyPool(kind[t]) \in [Threads -> PCs]
    BY NotifyTypes DEF TypeOK, ThreadTypeOK
  <2>2. pc'[t] = "idle" /\ \A u \in Threads \ {t} : pc'[u] = NotifyPool(kind[t])[u] /\ rid'[u] = rid[u] /\ slot'[u] = slot[u] /\ kind'[u] = kind[u]
    BY <1>15, <2>1 DEF Release, LeaveCall, TypeOK, ThreadTypeOK
  <2>3. pc[t] = "release" /\ kind[t] \in Kinds
    BY <1>15 DEF Release, TypeOK, ThreadTypeOK
  <2> QED
    BY <1>15, <2>2, <2>3, NotifyHolds
      DEF Release, hostVars, linkVars, Waiting, Unsent
<1>16. ASSUME NEW t \in Threads, SpuriousWake(t) PROVE Stay
  BY <1>16
    DEF SpuriousWake, threadVars, linkVars, readerVars, hostVars, vars,
       Waiting, LeaveCall, TypeOK, ThreadTypeOK
<1>17. CASE ReadReply
  BY <1>17
    DEF ReadReply, threadVars, linkVars, readerVars, hostVars, vars, Waiting,
       LeaveCall, TypeOK, ThreadTypeOK
<1>18. CASE Deliver
  BY <1>18, NotifyHolds
    DEF Deliver, hostVars, Waiting, Unsent, TypeOK, ReaderTypeOK
<1>19. CASE ReadCancel
  BY <1>19
    DEF ReadCancel, threadVars, linkVars, readerVars, hostVars, vars, Waiting,
       LeaveCall, TypeOK, ThreadTypeOK
<1>20. CASE ReadEof
  BY <1>20
    DEF ReadEof, threadVars, linkVars, readerVars, hostVars, vars, Waiting,
       LeaveCall, TypeOK, ThreadTypeOK
<1>21. CASE DrainPending
  BY <1>21
    DEF DrainPending, threadVars, linkVars, readerVars, hostVars, vars,
       Waiting, LeaveCall, TypeOK, ThreadTypeOK
<1>22. CASE WakeReplySlot
  BY <1>22, NotifyHolds
    DEF WakeReplySlot, hostVars, linkVars, Waiting, Unsent, TypeOK, ReaderTypeOK
<1>23. CASE WakeInputPool
  BY <1>23, NotifyHolds DEF WakeInputPool, hostVars, linkVars, Waiting, Unsent
<1>24. CASE WakeOutputPool
  BY <1>24, NotifyHolds DEF WakeOutputPool, hostVars, linkVars, Waiting, Unsent
<1>25. CASE HostTake
  BY <1>25
    DEF HostTake, threadVars, linkVars, readerVars, hostVars, vars, Waiting,
       LeaveCall, TypeOK, ThreadTypeOK
<1>26. CASE HostAnswer
  BY <1>26
    DEF HostAnswer, threadVars, linkVars, readerVars, hostVars, vars, Waiting,
       LeaveCall, TypeOK, ThreadTypeOK
<1>27. CASE HostCancel
  BY <1>27
    DEF HostCancel, threadVars, linkVars, readerVars, hostVars, vars, Waiting,
       LeaveCall, TypeOK, ThreadTypeOK
<1>28. CASE HostLeave
  BY <1>28
    DEF HostLeave, threadVars, linkVars, readerVars, hostVars, vars, Waiting,
       LeaveCall, TypeOK, ThreadTypeOK
<1>29. CASE HostCloseIn
  BY <1>29
    DEF HostCloseIn, threadVars, linkVars, readerVars, hostVars, vars,
       Waiting, LeaveCall, TypeOK, ThreadTypeOK
<1>30. CASE HostCrash
  BY <1>30
    DEF HostCrash, threadVars, linkVars, readerVars, hostVars, vars, Waiting,
       LeaveCall, TypeOK, ThreadTypeOK
<1>31. CASE Terminated
  BY <1>31
    DEF Terminated, threadVars, linkVars, readerVars, hostVars, vars, Waiting,
       LeaveCall, TypeOK, ThreadTypeOK
<1>32. CASE UNCHANGED vars
  BY <1>32 DEF threadVars, linkVars, readerVars, hostVars, vars, Waiting
<1> QED
  BY <1>1, <1>2, <1>3, <1>4, <1>5, <1>6, <1>7, <1>8, <1>9, <1>10, <1>11, <1>12,
     <1>13, <1>14, <1>15, <1>16, <1>17, <1>18, <1>19, <1>20, <1>21, <1>22,
     <1>23, <1>24,
     <1>25, <1>26, <1>27, <1>28, <1>29, <1>30, <1>31, <1>32
  DEF Next, ThreadStep, Reader, HostServe

\* Only the check lets a thread come to hold a slot it will send about.
LEMMA UnsentStay ==
  ASSUME TypeOK, [Next]_vars, NEW w \in Threads, Unsent(w)'
  PROVE  /\ slot'[w] = slot[w] /\ kind'[w] = kind[w] /\ Holds(w)
         /\ \/ Unsent(w)
            \/ pc[w] = "check" /\ ~cancelled
<1> DEFINE Stay ==
      /\ slot'[w] = slot[w] /\ kind'[w] = kind[w] /\ Holds(w)
      /\ \/ Unsent(w)
         \/ pc[w] = "check" /\ ~cancelled
<1>1. ASSUME NEW t \in Threads, NEW k \in Kinds, Call(t, k) PROVE Stay
  BY <1>1
    DEF Call, threadVars, linkVars, readerVars, hostVars, vars, Unsent, Holds,
       LeaveCall, TypeOK, ThreadTypeOK
<1>2. ASSUME NEW t \in Threads, AcquireSlot(t) PROVE Stay
  BY <1>2
    DEF AcquireSlot, threadVars, linkVars, readerVars, hostVars, vars, Unsent,
       Holds, LeaveCall, TypeOK, ThreadTypeOK
<1>3. ASSUME NEW t \in Threads, AcquireStopped(t) PROVE Stay
  BY <1>3
    DEF AcquireStopped, threadVars, linkVars, readerVars, hostVars, vars,
       Unsent, Holds, LeaveCall, TypeOK, ThreadTypeOK
<1>4. ASSUME NEW t \in Threads, AcquireDoze(t) PROVE Stay
  BY <1>4
    DEF AcquireDoze, threadVars, linkVars, readerVars, hostVars, vars, Unsent,
       Holds, LeaveCall, TypeOK, ThreadTypeOK
<1>5. ASSUME NEW t \in Threads, PoolSleep(t) PROVE Stay
  BY <1>5
    DEF PoolSleep, threadVars, linkVars, readerVars, hostVars, vars, Unsent,
       Holds, LeaveCall, TypeOK, ThreadTypeOK
<1>6. ASSUME NEW t \in Threads, CheckCancelled(t) PROVE Stay
  BY <1>6
    DEF CheckCancelled, threadVars, linkVars, readerVars, hostVars, vars,
       Unsent, Holds, LeaveCall, TypeOK, ThreadTypeOK
<1>7. ASSUME NEW t \in Threads, FillOutput(t) PROVE Stay
  BY <1>7
    DEF FillOutput, threadVars, linkVars, readerVars, hostVars, vars, Unsent,
       Holds, LeaveCall, TypeOK, ThreadTypeOK
<1>8. ASSUME NEW t \in Threads, Register(t) PROVE Stay
  BY <1>8
    DEF Register, threadVars, linkVars, readerVars, hostVars, vars, Unsent,
       Holds, LeaveCall, TypeOK, ThreadTypeOK
<1>9. ASSUME NEW t \in Threads, Send(t) PROVE Stay
  BY <1>9
    DEF Send, threadVars, linkVars, readerVars, hostVars, vars, Unsent, Holds,
       LeaveCall, TypeOK, ThreadTypeOK
<1>10. ASSUME NEW t \in Threads, SendFails(t) PROVE Stay
  BY <1>10
    DEF SendFails, threadVars, linkVars, readerVars, hostVars, vars, Unsent,
       Holds, LeaveCall, TypeOK, ThreadTypeOK
<1>11. ASSUME NEW t \in Threads, WaitReply(t) PROVE Stay
  BY <1>11
    DEF WaitReply, threadVars, linkVars, readerVars, hostVars, vars, Unsent,
       Holds, LeaveCall, TypeOK, ThreadTypeOK
<1>12. ASSUME NEW t \in Threads, WaitStopped(t) PROVE Stay
  BY <1>12
    DEF WaitStopped, threadVars, linkVars, readerVars, hostVars, vars, Unsent,
       Holds, LeaveCall, TypeOK, ThreadTypeOK
<1>13. ASSUME NEW t \in Threads, WaitDoze(t) PROVE Stay
  BY <1>13
    DEF WaitDoze, threadVars, linkVars, readerVars, hostVars, vars, Unsent,
       Holds, LeaveCall, TypeOK, ThreadTypeOK
<1>14. ASSUME NEW t \in Threads, WaitSleep(t) PROVE Stay
  BY <1>14
    DEF WaitSleep, threadVars, linkVars, readerVars, hostVars, vars, Unsent,
       Holds, LeaveCall, TypeOK, ThreadTypeOK
<1>15. ASSUME NEW t \in Threads, Unregister(t) PROVE Stay
  BY <1>15
    DEF Unregister, threadVars, linkVars, readerVars, hostVars, vars, Unsent,
       Holds, LeaveCall, TypeOK, ThreadTypeOK
<1>16. ASSUME NEW t \in Threads, TakeBand(t) PROVE Stay
  BY <1>16
    DEF TakeBand, threadVars, linkVars, readerVars, hostVars, vars, Unsent,
       Holds, LeaveCall, TypeOK, ThreadTypeOK
<1>17. ASSUME NEW t \in Threads, Release(t) PROVE Stay
  <2>1. NotifyPool(kind[t]) \in [Threads -> PCs]
    BY NotifyTypes DEF TypeOK, ThreadTypeOK
  <2>2. pc'[t] = "idle" /\ \A u \in Threads \ {t} : pc'[u] = NotifyPool(kind[t])[u] /\ rid'[u] = rid[u] /\ slot'[u] = slot[u] /\ kind'[u] = kind[u]
    BY <1>17, <2>1 DEF Release, LeaveCall, TypeOK, ThreadTypeOK
  <2>3. pc[t] = "release" /\ kind[t] \in Kinds
    BY <1>17 DEF Release, TypeOK, ThreadTypeOK
  <2> QED
    BY <1>17, <2>2, <2>3, NotifyHolds
      DEF Release, hostVars, linkVars, Holds, Unsent
<1>18. ASSUME NEW t \in Threads, SpuriousWake(t) PROVE Stay
  BY <1>18
    DEF SpuriousWake, threadVars, linkVars, readerVars, hostVars, vars,
       Unsent, Holds, LeaveCall, TypeOK, ThreadTypeOK
<1>19. CASE ReadReply
  BY <1>19
    DEF ReadReply, threadVars, linkVars, readerVars, hostVars, vars, Unsent,
       Holds, LeaveCall, TypeOK, ThreadTypeOK
<1>20. CASE Deliver
  BY <1>20, NotifyHolds
    DEF Deliver, hostVars, Holds, Unsent, TypeOK, ReaderTypeOK
<1>21. CASE ReadCancel
  BY <1>21
    DEF ReadCancel, threadVars, linkVars, readerVars, hostVars, vars, Unsent,
       Holds, LeaveCall, TypeOK, ThreadTypeOK
<1>22. CASE ReadEof
  BY <1>22
    DEF ReadEof, threadVars, linkVars, readerVars, hostVars, vars, Unsent,
       Holds, LeaveCall, TypeOK, ThreadTypeOK
<1>23. CASE DrainPending
  BY <1>23
    DEF DrainPending, threadVars, linkVars, readerVars, hostVars, vars,
       Unsent, Holds, LeaveCall, TypeOK, ThreadTypeOK
<1>24. CASE WakeReplySlot
  <2>1. PICK i \in Ids : pc' = NotifySlot(i)
    BY <1>24 DEF WakeReplySlot, TypeOK, ReaderTypeOK
  <2>2. slot' = slot /\ kind' = kind
    BY <1>24 DEF WakeReplySlot
  <2> QED
    BY <2>1, <2>2, NotifyHolds DEF Holds, Unsent
<1>25. CASE WakeInputPool
  BY <1>25, NotifyHolds DEF WakeInputPool, hostVars, linkVars, Holds, Unsent
<1>26. CASE WakeOutputPool
  BY <1>26, NotifyHolds DEF WakeOutputPool, hostVars, linkVars, Holds, Unsent
<1>27. CASE HostTake
  BY <1>27
    DEF HostTake, threadVars, linkVars, readerVars, hostVars, vars, Unsent,
       Holds, LeaveCall, TypeOK, ThreadTypeOK
<1>28. CASE HostAnswer
  BY <1>28
    DEF HostAnswer, threadVars, linkVars, readerVars, hostVars, vars, Unsent,
       Holds, LeaveCall, TypeOK, ThreadTypeOK
<1>29. CASE HostCancel
  BY <1>29
    DEF HostCancel, threadVars, linkVars, readerVars, hostVars, vars, Unsent,
       Holds, LeaveCall, TypeOK, ThreadTypeOK
<1>30. CASE HostLeave
  BY <1>30
    DEF HostLeave, threadVars, linkVars, readerVars, hostVars, vars, Unsent,
       Holds, LeaveCall, TypeOK, ThreadTypeOK
<1>31. CASE HostCloseIn
  BY <1>31
    DEF HostCloseIn, threadVars, linkVars, readerVars, hostVars, vars, Unsent,
       Holds, LeaveCall, TypeOK, ThreadTypeOK
<1>32. CASE HostCrash
  BY <1>32
    DEF HostCrash, threadVars, linkVars, readerVars, hostVars, vars, Unsent,
       Holds, LeaveCall, TypeOK, ThreadTypeOK
<1>33. CASE Terminated
  BY <1>33
    DEF Terminated, threadVars, linkVars, readerVars, hostVars, vars, Unsent,
       Holds, LeaveCall, TypeOK, ThreadTypeOK
<1>34. CASE UNCHANGED vars
  BY <1>34 DEF threadVars, linkVars, readerVars, hostVars, vars, Unsent, Holds
<1> QED
  BY <1>1, <1>2, <1>3, <1>4, <1>5, <1>6, <1>7, <1>8, <1>9, <1>10, <1>11, <1>12,
     <1>13, <1>14, <1>15, <1>16, <1>17, <1>18, <1>19, <1>20, <1>21, <1>22,
     <1>23, <1>24,
     <1>25, <1>26, <1>27, <1>28, <1>29, <1>30, <1>31, <1>32, <1>33, <1>34
  DEF Next, ThreadStep, Reader, HostServe

\* Only Register changes what a thread about to send has for an id.
LEMMA SendersStay ==
  ASSUME TypeOK, [Next]_vars, \A t \in Threads : ~Register(t)
  PROVE  /\ nextRequestId' = nextRequestId
         /\ \A u \in Threads : pc'[u] = "send" => pc[u] = "send" /\ rid'[u] = rid[u]
<1> DEFINE Stay ==
      /\ nextRequestId' = nextRequestId
      /\ \A u \in Threads : pc'[u] = "send" => pc[u] = "send" /\ rid'[u] = rid[u]
<1>1. ASSUME NEW t \in Threads, NEW k \in Kinds, Call(t, k) PROVE Stay
  BY <1>1
    DEF Call, threadVars, linkVars, readerVars, hostVars, vars, LeaveCall,
       TypeOK, ThreadTypeOK
<1>2. ASSUME NEW t \in Threads, AcquireSlot(t) PROVE Stay
  BY <1>2
    DEF AcquireSlot, threadVars, linkVars, readerVars, hostVars, vars,
       LeaveCall, TypeOK, ThreadTypeOK
<1>3. ASSUME NEW t \in Threads, AcquireStopped(t) PROVE Stay
  BY <1>3
    DEF AcquireStopped, threadVars, linkVars, readerVars, hostVars, vars,
       LeaveCall, TypeOK, ThreadTypeOK
<1>4. ASSUME NEW t \in Threads, AcquireDoze(t) PROVE Stay
  BY <1>4
    DEF AcquireDoze, threadVars, linkVars, readerVars, hostVars, vars,
       LeaveCall, TypeOK, ThreadTypeOK
<1>5. ASSUME NEW t \in Threads, PoolSleep(t) PROVE Stay
  BY <1>5
    DEF PoolSleep, threadVars, linkVars, readerVars, hostVars, vars,
       LeaveCall, TypeOK, ThreadTypeOK
<1>6. ASSUME NEW t \in Threads, CheckCancelled(t) PROVE Stay
  BY <1>6
    DEF CheckCancelled, threadVars, linkVars, readerVars, hostVars, vars,
       LeaveCall, TypeOK, ThreadTypeOK
<1>7. ASSUME NEW t \in Threads, FillOutput(t) PROVE Stay
  BY <1>7
    DEF FillOutput, threadVars, linkVars, readerVars, hostVars, vars,
       LeaveCall, TypeOK, ThreadTypeOK
<1>8. ASSUME NEW t \in Threads, Send(t) PROVE Stay
  BY <1>8
    DEF Send, threadVars, linkVars, readerVars, hostVars, vars, LeaveCall,
       TypeOK, ThreadTypeOK
<1>9. ASSUME NEW t \in Threads, SendFails(t) PROVE Stay
  BY <1>9
    DEF SendFails, threadVars, linkVars, readerVars, hostVars, vars,
       LeaveCall, TypeOK, ThreadTypeOK
<1>10. ASSUME NEW t \in Threads, WaitReply(t) PROVE Stay
  BY <1>10
    DEF WaitReply, threadVars, linkVars, readerVars, hostVars, vars,
       LeaveCall, TypeOK, ThreadTypeOK
<1>11. ASSUME NEW t \in Threads, WaitStopped(t) PROVE Stay
  BY <1>11
    DEF WaitStopped, threadVars, linkVars, readerVars, hostVars, vars,
       LeaveCall, TypeOK, ThreadTypeOK
<1>12. ASSUME NEW t \in Threads, WaitDoze(t) PROVE Stay
  BY <1>12
    DEF WaitDoze, threadVars, linkVars, readerVars, hostVars, vars, LeaveCall,
       TypeOK, ThreadTypeOK
<1>13. ASSUME NEW t \in Threads, WaitSleep(t) PROVE Stay
  BY <1>13
    DEF WaitSleep, threadVars, linkVars, readerVars, hostVars, vars,
       LeaveCall, TypeOK, ThreadTypeOK
<1>14. ASSUME NEW t \in Threads, Unregister(t) PROVE Stay
  BY <1>14
    DEF Unregister, threadVars, linkVars, readerVars, hostVars, vars,
       LeaveCall, TypeOK, ThreadTypeOK
<1>15. ASSUME NEW t \in Threads, TakeBand(t) PROVE Stay
  BY <1>15
    DEF TakeBand, threadVars, linkVars, readerVars, hostVars, vars, LeaveCall,
       TypeOK, ThreadTypeOK
<1>16. ASSUME NEW t \in Threads, Release(t) PROVE Stay
  <2>1. NotifyPool(kind[t]) \in [Threads -> PCs]
    BY NotifyTypes DEF TypeOK, ThreadTypeOK
  <2>2. pc'[t] = "idle" /\ \A u \in Threads \ {t} : pc'[u] = NotifyPool(kind[t])[u] /\ rid'[u] = rid[u] /\ slot'[u] = slot[u] /\ kind'[u] = kind[u]
    BY <1>16, <2>1 DEF Release, LeaveCall, TypeOK, ThreadTypeOK
  <2>3. pc[t] = "release" /\ kind[t] \in Kinds
    BY <1>16 DEF Release, TypeOK, ThreadTypeOK
  <2> QED
    BY <1>16, <2>2, <2>3, NotifyHolds DEF Release, hostVars, linkVars, Unsent
<1>17. ASSUME NEW t \in Threads, SpuriousWake(t) PROVE Stay
  BY <1>17
    DEF SpuriousWake, threadVars, linkVars, readerVars, hostVars, vars,
       LeaveCall, TypeOK, ThreadTypeOK
<1>18. CASE ReadReply
  BY <1>18
    DEF ReadReply, threadVars, linkVars, readerVars, hostVars, vars,
       LeaveCall, TypeOK, ThreadTypeOK
<1>19. CASE Deliver
  BY <1>19, NotifyHolds DEF Deliver, hostVars, Unsent, TypeOK, ReaderTypeOK
<1>20. CASE ReadCancel
  BY <1>20
    DEF ReadCancel, threadVars, linkVars, readerVars, hostVars, vars,
       LeaveCall, TypeOK, ThreadTypeOK
<1>21. CASE ReadEof
  BY <1>21
    DEF ReadEof, threadVars, linkVars, readerVars, hostVars, vars, LeaveCall,
       TypeOK, ThreadTypeOK
<1>22. CASE DrainPending
  BY <1>22
    DEF DrainPending, threadVars, linkVars, readerVars, hostVars, vars,
       LeaveCall, TypeOK, ThreadTypeOK
<1>23. CASE WakeReplySlot
  BY <1>23, NotifyHolds
    DEF WakeReplySlot, hostVars, linkVars, Unsent, TypeOK, ReaderTypeOK
<1>24. CASE WakeInputPool
  BY <1>24, NotifyHolds DEF WakeInputPool, hostVars, linkVars, Unsent
<1>25. CASE WakeOutputPool
  BY <1>25, NotifyHolds DEF WakeOutputPool, hostVars, linkVars, Unsent
<1>26. CASE HostTake
  BY <1>26
    DEF HostTake, threadVars, linkVars, readerVars, hostVars, vars, LeaveCall,
       TypeOK, ThreadTypeOK
<1>27. CASE HostAnswer
  BY <1>27
    DEF HostAnswer, threadVars, linkVars, readerVars, hostVars, vars,
       LeaveCall, TypeOK, ThreadTypeOK
<1>28. CASE HostCancel
  BY <1>28
    DEF HostCancel, threadVars, linkVars, readerVars, hostVars, vars,
       LeaveCall, TypeOK, ThreadTypeOK
<1>29. CASE HostLeave
  BY <1>29
    DEF HostLeave, threadVars, linkVars, readerVars, hostVars, vars,
       LeaveCall, TypeOK, ThreadTypeOK
<1>30. CASE HostCloseIn
  BY <1>30
    DEF HostCloseIn, threadVars, linkVars, readerVars, hostVars, vars,
       LeaveCall, TypeOK, ThreadTypeOK
<1>31. CASE HostCrash
  BY <1>31
    DEF HostCrash, threadVars, linkVars, readerVars, hostVars, vars,
       LeaveCall, TypeOK, ThreadTypeOK
<1>32. CASE Terminated
  BY <1>32
    DEF Terminated, threadVars, linkVars, readerVars, hostVars, vars,
       LeaveCall, TypeOK, ThreadTypeOK
<1>33. CASE UNCHANGED vars
  BY <1>33 DEF threadVars, linkVars, readerVars, hostVars, vars
<1> QED
  BY <1>1, <1>2, <1>3, <1>4, <1>5, <1>6, <1>7, <1>8, <1>9, <1>10, <1>11, <1>12,
     <1>13, <1>14, <1>15, <1>16, <1>17, <1>18, <1>19, <1>20, <1>21, <1>22,
     <1>23, <1>24,
     <1>25, <1>26, <1>27, <1>28, <1>29, <1>30, <1>31, <1>32, <1>33
  DEF Next, ThreadStep, Reader, HostServe

-----------------------------------------------------------------------------
\* The invariant, part by part.

\* Nobody gives a request up before its answer, unless the link stopped.
LEMMA OwnedNext ==
  ASSUME TypeOK, SlotInv, RequestInv, [Next]_vars
  PROVE  Owned'
<1> DEFINE Owner(r, u) ==
      Waiting(u) /\ rid[u] = r.id /\ slot[u] = r.slot /\ kind[u] = r.kind
<1> SUFFICES ASSUME NEW r \in AtHost', ~cancelled'
             PROVE  \E u \in Threads : Owner(r, u)'
  BY DEF Owned
<1>1. ASSUME NEW t \in Threads, Send(t), r \notin AtHost PROVE Owner(r, t)'
  <2>1. r = [id |-> rid[t], call |-> call[t], kind |-> kind[t], slot |-> slot[t]]
    BY <1>1, SendGrows
  <2>2. Waiting(t)'
    BY <1>1 DEF Send, Waiting, TypeOK, ThreadTypeOK
  <2> QED
    BY <1>1, <2>1, <2>2 DEF Send
<1>2. r \notin AtHost => \E t \in Threads : Send(t)
  BY OthersShrink, AnswerMoves DEF RequestInv
<1>3. CASE r \in AtHost /\ cancelled
  <2>1. cancelled'
    <3>1. CASE \E t \in Threads : WaitReply(t) \/ WaitStopped(t)
      BY <1>3, <3>1 DEF WaitReply, WaitStopped, linkVars
    <3>2. CASE ~\E t \in Threads : WaitReply(t) \/ WaitStopped(t)
      BY <1>3, <3>2, WaitersStay
    <3> QED
      BY <3>1, <3>2
  <2> QED
    BY <2>1
<1>4. CASE r \in AtHost /\ ~cancelled
  <2>1. PICK u \in Threads : Owner(r, u)
    BY <1>4 DEF RequestInv, Owned
  <2>2. r \in Requests /\ r.id \in RequestIds
    BY <1>4, AtHostType DEF RequestIds
  <2>3. ASSUME NEW t \in Threads, WaitReply(t) PROVE t # u
    <3>1. box[rid[t]] # "none" /\ rid[t] \in Ids
      BY <2>3 DEF WaitReply, TypeOK, ThreadTypeOK
    <3>2. rid[t] \in ReplyIds
      BY <3>1 DEF ReplyIds, Replied
    <3> QED
      BY <2>1, <2>2, <3>2 DEF RequestInv, Fresh
  <2>4. ASSUME NEW t \in Threads, WaitStopped(t) PROVE FALSE
    <3>1. shutdown
      BY <1>4, <2>4 DEF WaitStopped
    <3>2. outPipe = <<>> /\ hostCur = {}
      BY <3>1 DEF RequestInv, Closed
    <3> QED
      BY <3>2, <1>4 DEF AtHost
  <2>5. CASE \E t \in Threads : WaitReply(t)
    <3>1. PICK t \in Threads : WaitReply(t)
      BY <2>5
    <3>2. u # t
      BY <3>1, <2>3
    <3>3. pc'[u] = pc[u] /\ rid' = rid /\ slot' = slot /\ kind' = kind
      BY <3>1, <3>2 DEF WaitReply, TypeOK, ThreadTypeOK
    <3> QED
      BY <2>1, <3>3 DEF Waiting
  <2>6. CASE ~\E t \in Threads : WaitReply(t)
    BY <2>1, <2>4, <2>6, WaitersStay
  <2> QED
    BY <2>5, <2>6
<1> QED
  BY <1>1, <1>2, <1>3, <1>4

\* A thread passes the check only while every request has its owner, and an
\* owner's slot is not the one the thread acquired.
LEMMA SlotUnsentNext ==
  ASSUME TypeOK, SlotInv, RequestInv, [Next]_vars
  PROVE  SlotUnsent'
<1> SUFFICES ASSUME NEW w \in Threads, Unsent(w)', NEW r \in AtHost', r.kind = kind'[w]
             PROVE  r.slot # slot'[w]
  BY DEF SlotUnsent
<1>1. /\ slot'[w] = slot[w] /\ kind'[w] = kind[w] /\ Holds(w)
      /\ \/ Unsent(w)
         \/ pc[w] = "check" /\ ~cancelled
  BY UnsentStay
<1>2. CASE r \in AtHost /\ Unsent(w)
  BY <1>1, <1>2 DEF RequestInv, SlotUnsent
<1>3. CASE r \in AtHost /\ pc[w] = "check" /\ ~cancelled
  <2>1. PICK u \in Threads :
          Waiting(u) /\ rid[u] = r.id /\ slot[u] = r.slot /\ kind[u] = r.kind
    BY <1>3 DEF RequestInv, Owned
  <2>2. u # w /\ Holds(u)
    BY <1>3, <2>1 DEF Waiting, Holds
  <2> QED
    BY <1>1, <2>1, <2>2 DEF SlotInv, SlotsAccounted
<1>4. CASE r \notin AtHost
  <2>1. PICK t \in Threads : Send(t)
    BY <1>4, OthersShrink, AnswerMoves DEF RequestInv
  <2>2. r = [id |-> rid[t], call |-> call[t], kind |-> kind[t], slot |-> slot[t]]
    BY <1>4, <2>1, SendGrows
  <2>3. w # t /\ Holds(t)
    BY <2>1 DEF Send, Unsent, Holds, TypeOK, ThreadTypeOK
  <2> QED
    BY <1>1, <2>2, <2>3 DEF SlotInv, SlotsAccounted
<1> QED
  BY <1>1, <1>2, <1>3, <1>4

\* Only a send gives the host another request, and nothing it holds names the
\* slot of a thread that has yet to send.
LEMMA OneRequestPerSlotNext ==
  ASSUME TypeOK, SlotInv, RequestInv, [Next]_vars
  PROVE  OneRequestPerSlot'
<1>1. CASE ~\E t \in Threads : Send(t)
  <2>1. AtHost' \subseteq AtHost
    BY <1>1, OthersShrink, AnswerMoves DEF RequestInv
  <2> QED
    BY <2>1 DEF RequestInv, OneRequestPerSlot
<1>2. CASE \E t \in Threads : Send(t)
  <2>1. PICK t \in Threads : Send(t)
    BY <1>2
  <2> DEFINE m == [id |-> rid[t], call |-> call[t], kind |-> kind[t], slot |-> slot[t]]
  <2>2. AtHost' = AtHost \cup {m}
    BY <2>1, SendGrows
  <2>3. m.kind = kind[t] /\ m.slot = slot[t]
    OBVIOUS
  <2>4. \A r \in AtHost : r.kind = m.kind => r.slot # m.slot
    BY <2>1, <2>3 DEF RequestInv, SlotUnsent, Unsent, Send
  <2> HIDE DEF m
  <2> QED
    BY <2>2, <2>4 DEF RequestInv, OneRequestPerSlot
<1> QED
  BY <1>1, <1>2

\* Ids go from the senders to the host, and from there to the replies.
LEMMA FreshNext ==
  ASSUME TypeOK, SlotInv, RequestInv, [Next]_vars
  PROVE  Fresh'
<1>0. RequestIds \in SUBSET Ids /\ ReplyIds \in SUBSET Ids /\ nextRequestId \in Nat
  BY AtHostType, AssumptionFacts DEF ReplyIds, TypeOK, LinkTypeOK
<1>1. ASSUME NEW t \in Threads, Send(t) PROVE Fresh'
  <2>1. AtHost' = AtHost \cup {[id |-> rid[t], call |-> call[t],
                                kind |-> kind[t], slot |-> slot[t]]}
        /\ ReplyIds' = ReplyIds
    BY <1>1, SendGrows
  <2>2. RequestIds' = RequestIds \cup {rid[t]}
    <3> DEFINE m == [id |-> rid[t], call |-> call[t], kind |-> kind[t], slot |-> slot[t]]
    <3>1. m.id = rid[t] /\ AtHost' = AtHost \cup {m}
      BY <2>1
    <3> HIDE DEF m
    <3> QED
      BY <3>1 DEF RequestIds
  <2>3. nextRequestId' = nextRequestId /\ rid' = rid
    BY <1>1 DEF Send, linkVars
  <2>4. pc[t] = "send" /\ \A u \in Threads : pc'[u] = "send" => pc[u] = "send" /\ u # t
    BY <1>1 DEF Send, TypeOK, ThreadTypeOK
  <2> QED
    BY <2>1, <2>2, <2>3, <2>4 DEF RequestInv, Fresh
<1>2. CASE HostAnswer
  <2>1. PICK i \in RequestIds :
           /\ RequestIds' \subseteq RequestIds \ {i}
           /\ ReplyIds' \subseteq ReplyIds \cup {i}
    BY <1>2, AnswerMoves DEF RequestInv
  <2>2. pc' = pc /\ rid' = rid /\ nextRequestId' = nextRequestId
    BY <1>2 DEF HostAnswer, threadVars, linkVars
  <2> QED
    BY <2>1, <2>2 DEF RequestInv, Fresh
<1>3. CASE ~HostAnswer /\ ~\E t \in Threads : Send(t)
  <2>1. AtHost' \subseteq AtHost /\ ReplyIds' \subseteq ReplyIds
    BY <1>3, OthersShrink
  <2>2. RequestIds' \subseteq RequestIds
    BY <2>1 DEF RequestIds
  <2>3. CASE ~\E t \in Threads : Register(t)
    <3>1. /\ nextRequestId' = nextRequestId
          /\ \A u \in Threads : pc'[u] = "send" => pc[u] = "send" /\ rid'[u] = rid[u]
      BY <2>3, SendersStay
    <3> QED
      BY <2>1, <2>2, <3>1 DEF RequestInv, Fresh
  <2>4. ASSUME NEW t \in Threads, Register(t) PROVE Fresh'
    <3>1. /\ nextRequestId' = nextRequestId + 1
          /\ rid'[t] = nextRequestId
          /\ \A u \in Threads \ {t} : pc'[u] = pc[u] /\ rid'[u] = rid[u]
      BY <2>4 DEF Register, TypeOK, ThreadTypeOK
    <3>2. \A i \in RequestIds' \cup ReplyIds' : i < nextRequestId /\ i \in Nat
      BY <2>1, <2>2, <1>0, AssumptionFacts DEF RequestInv, Fresh
    <3>3. \A u \in Threads \ {t} : pc[u] = "send" => rid[u] < nextRequestId /\ rid[u] \in Nat
      BY AssumptionFacts DEF RequestInv, Fresh, TypeOK, ThreadTypeOK
    <3>4. \A u \in Threads : pc'[u] = "send" =>
             rid'[u] < nextRequestId' /\ rid'[u] \notin RequestIds' \cup ReplyIds'
      BY <1>0, <2>1, <2>2, <3>1, <3>2, <3>3 DEF RequestInv, Fresh
    <3>5. \A u, v \in Threads :
             u # v /\ pc'[u] = "send" /\ pc'[v] = "send" => rid'[u] # rid'[v]
      BY <1>0, <3>1, <3>3 DEF RequestInv, Fresh
    <3>6. RequestIds' \cap ReplyIds' = {} /\ \A i \in RequestIds' \cup ReplyIds' : i < nextRequestId'
      BY <1>0, <2>1, <2>2, <3>1, <3>2 DEF RequestInv, Fresh
    <3> QED
      BY <3>4, <3>5, <3>6 DEF Fresh
  <2> QED
    BY <2>3, <2>4
<1> QED
  BY <1>1, <1>2, <1>3

\* A request enters with an id that nothing in the host's hands carries.
LEMMA DistinctNext ==
  ASSUME TypeOK, SlotInv, RequestInv, [Next]_vars
  PROVE  Distinct'
<1>1. ASSUME NEW t \in Threads, Send(t) PROVE Distinct'
  <2> DEFINE m == [id |-> rid[t], call |-> call[t], kind |-> kind[t], slot |-> slot[t]]
  <2>1. m \in Requests /\ m.id = rid[t]
    BY <1>1
      DEF Send, SlotInv, InCall, Holds, TypeOK, ThreadTypeOK, Requests, Slots,
         AllSlots
  <2>2. outPipe \in Seq(Requests) /\ outPipe' = Append(outPipe, m) /\ hostCur' = hostCur
    BY <1>1 DEF Send, TypeOK, HostTypeOK, hostVars
  <2> HIDE DEF m
  <2>3. /\ Len(outPipe) \in Nat /\ Len(outPipe') = Len(outPipe) + 1
        /\ \A i \in 1 .. Len(outPipe) : outPipe'[i] = outPipe[i]
        /\ outPipe'[Len(outPipe) + 1] = m
    BY <2>1, <2>2
  <2>4. /\ \A i \in 1 .. Len(outPipe) : outPipe[i].id # m.id
        /\ \A r \in hostCur : r.id # m.id
    BY <1>1, <2>1 DEF Send, RequestInv, Fresh, RequestIds, AtHost
  <2>5. \A i \in 1 .. Len(outPipe') : i \in 1 .. Len(outPipe) \/ i = Len(outPipe) + 1
    BY <2>3
  <2> QED
    BY <2>2, <2>3, <2>4, <2>5 DEF RequestInv, Distinct
<1>2. CASE HostTake
  <2>1. /\ outPipe \in Seq(Requests) /\ outPipe # <<>> /\ hostCur = {}
        /\ outPipe' = Tail(outPipe) /\ hostCur' = {Head(outPipe)}
    BY <1>2 DEF HostTake, TypeOK, HostTypeOK
  <2>2. /\ Len(outPipe) \in Nat \ {0}
        /\ Len(outPipe') = Len(outPipe) - 1
        /\ \A i \in 1 .. Len(outPipe') : outPipe'[i] = outPipe[i + 1]
        /\ Head(outPipe) = outPipe[1]
    BY <2>1
  <2>3. \A i \in 1 .. Len(outPipe') : i + 1 \in 1 .. Len(outPipe) /\ i + 1 # 1
    BY <2>2
  <2>4. \A i, j \in 1 .. Len(outPipe') : i # j => outPipe'[i].id # outPipe'[j].id
    <3>1. \A i, j \in 1 .. Len(outPipe') : i # j => i + 1 # j + 1
      OBVIOUS
    <3> QED
      BY <3>1, <2>2, <2>3 DEF RequestInv, Distinct
  <2>5. \A i \in 1 .. Len(outPipe') : outPipe'[i].id # outPipe[1].id
    BY <2>2, <2>3 DEF RequestInv, Distinct
  <2> QED
    BY <2>1, <2>2, <2>4, <2>5 DEF Distinct
<1>3. CASE HostAnswer
  BY <1>3 DEF HostAnswer, RequestInv, Distinct
<1>4. CASE HostLeave \/ HostCrash
  BY <1>4 DEF HostLeave, HostCrash, Distinct
<1>5. CASE UNCHANGED <<outPipe, hostCur>>
  BY <1>5 DEF RequestInv, Distinct
<1>6. \/ \E t \in Threads : Send(t)
      \/ HostTake \/ HostAnswer \/ HostLeave \/ HostCrash
      \/ UNCHANGED <<outPipe, hostCur>>
  <2>1. ASSUME NEW t \in Threads, NEW k \in Kinds, Call(t, k) PROVE UNCHANGED <<outPipe, hostCur>>
    BY <2>1 DEF Call, hostVars
  <2>2. ASSUME NEW t \in Threads, AcquireSlot(t) PROVE UNCHANGED <<outPipe, hostCur>>
    BY <2>2 DEF AcquireSlot, hostVars
  <2>3. ASSUME NEW t \in Threads, AcquireStopped(t) PROVE UNCHANGED <<outPipe, hostCur>>
    BY <2>3 DEF AcquireStopped, hostVars
  <2>4. ASSUME NEW t \in Threads, AcquireDoze(t) PROVE UNCHANGED <<outPipe, hostCur>>
    BY <2>4 DEF AcquireDoze, hostVars
  <2>5. ASSUME NEW t \in Threads, PoolSleep(t) PROVE UNCHANGED <<outPipe, hostCur>>
    BY <2>5 DEF PoolSleep, hostVars
  <2>6. ASSUME NEW t \in Threads, CheckCancelled(t) PROVE UNCHANGED <<outPipe, hostCur>>
    BY <2>6 DEF CheckCancelled, hostVars
  <2>7. ASSUME NEW t \in Threads, FillOutput(t) PROVE UNCHANGED <<outPipe, hostCur>>
    BY <2>7 DEF FillOutput, hostVars
  <2>8. ASSUME NEW t \in Threads, Register(t) PROVE UNCHANGED <<outPipe, hostCur>>
    BY <2>8 DEF Register, hostVars
  <2>9. ASSUME NEW t \in Threads, SendFails(t) PROVE UNCHANGED <<outPipe, hostCur>>
    BY <2>9 DEF SendFails, hostVars
  <2>10. ASSUME NEW t \in Threads, WaitReply(t) PROVE UNCHANGED <<outPipe, hostCur>>
    BY <2>10 DEF WaitReply, hostVars
  <2>11. ASSUME NEW t \in Threads, WaitStopped(t) PROVE UNCHANGED <<outPipe, hostCur>>
    BY <2>11 DEF WaitStopped, hostVars
  <2>12. ASSUME NEW t \in Threads, WaitDoze(t) PROVE UNCHANGED <<outPipe, hostCur>>
    BY <2>12 DEF WaitDoze, hostVars
  <2>13. ASSUME NEW t \in Threads, WaitSleep(t) PROVE UNCHANGED <<outPipe, hostCur>>
    BY <2>13 DEF WaitSleep, hostVars
  <2>14. ASSUME NEW t \in Threads, Unregister(t) PROVE UNCHANGED <<outPipe, hostCur>>
    BY <2>14 DEF Unregister, hostVars
  <2>15. ASSUME NEW t \in Threads, TakeBand(t) PROVE UNCHANGED <<outPipe, hostCur>>
    BY <2>15 DEF TakeBand, hostVars
  <2>16. ASSUME NEW t \in Threads, Release(t) PROVE UNCHANGED <<outPipe, hostCur>>
    BY <2>16 DEF Release, hostVars
  <2>17. ASSUME NEW t \in Threads, SpuriousWake(t) PROVE UNCHANGED <<outPipe, hostCur>>
    BY <2>17 DEF SpuriousWake, hostVars
  <2>18. CASE ReadReply
    BY <2>18 DEF ReadReply, hostVars
  <2>19. CASE Deliver
    BY <2>19 DEF Deliver, hostVars
  <2>20. CASE ReadCancel
    BY <2>20 DEF ReadCancel, hostVars
  <2>21. CASE ReadEof
    BY <2>21 DEF ReadEof, hostVars
  <2>22. CASE DrainPending
    BY <2>22 DEF DrainPending, hostVars
  <2>23. CASE WakeReplySlot
    BY <2>23 DEF WakeReplySlot, hostVars
  <2>24. CASE WakeInputPool
    BY <2>24 DEF WakeInputPool, hostVars
  <2>25. CASE WakeOutputPool
    BY <2>25 DEF WakeOutputPool, hostVars
  <2>26. CASE HostCancel
    BY <2>26 DEF HostCancel, hostVars
  <2>27. CASE HostCloseIn
    BY <2>27 DEF HostCloseIn, hostVars
  <2>28. CASE Terminated
    BY <2>28 DEF Terminated, hostVars, vars
  <2>29. CASE UNCHANGED vars
    BY <2>29 DEF vars, hostVars
  <2> QED
    BY <2>1, <2>2, <2>3, <2>4, <2>5, <2>6, <2>7, <2>8, <2>9, <2>10, <2>11,
       <2>12,
       <2>13, <2>14, <2>15, <2>16, <2>17, <2>18, <2>19, <2>20, <2>21, <2>22,
       <2>23, <2>24,
       <2>25, <2>26, <2>27, <2>28, <2>29
    DEF Next, ThreadStep, Reader, HostServe
<1> QED
  BY <1>1, <1>2, <1>3, <1>4, <1>5, <1>6

\* The host closes the worker's stdout first, and an end of file is the last
\* thing the worker reads.
LEMMA ClosedNext ==
  ASSUME TypeOK, SlotInv, RequestInv, [Next]_vars
  PROVE  Closed'
<1> USE DEF RequestInv, Closed
<1>1. ASSUME NEW t \in Threads, NEW k \in Kinds, Call(t, k) PROVE Closed'
  BY <1>1 DEF Call, hostVars, linkVars
<1>2. ASSUME NEW t \in Threads, AcquireSlot(t) PROVE Closed'
  BY <1>2 DEF AcquireSlot, hostVars, linkVars
<1>3. ASSUME NEW t \in Threads, AcquireStopped(t) PROVE Closed'
  BY <1>3 DEF AcquireStopped, hostVars, linkVars
<1>4. ASSUME NEW t \in Threads, AcquireDoze(t) PROVE Closed'
  BY <1>4 DEF AcquireDoze, hostVars, linkVars
<1>5. ASSUME NEW t \in Threads, PoolSleep(t) PROVE Closed'
  BY <1>5 DEF PoolSleep, hostVars, linkVars
<1>6. ASSUME NEW t \in Threads, CheckCancelled(t) PROVE Closed'
  BY <1>6 DEF CheckCancelled, hostVars, linkVars
<1>7. ASSUME NEW t \in Threads, FillOutput(t) PROVE Closed'
  BY <1>7 DEF FillOutput, hostVars, linkVars
<1>8. ASSUME NEW t \in Threads, Register(t) PROVE Closed'
  BY <1>8 DEF Register, hostVars, linkVars
<1>9. ASSUME NEW t \in Threads, Send(t) PROVE Closed'
  BY <1>9 DEF Send, hostVars, linkVars
<1>10. ASSUME NEW t \in Threads, SendFails(t) PROVE Closed'
  BY <1>10 DEF SendFails, hostVars, linkVars
<1>11. ASSUME NEW t \in Threads, WaitReply(t) PROVE Closed'
  BY <1>11 DEF WaitReply, hostVars, linkVars
<1>12. ASSUME NEW t \in Threads, WaitStopped(t) PROVE Closed'
  BY <1>12 DEF WaitStopped, hostVars, linkVars
<1>13. ASSUME NEW t \in Threads, WaitDoze(t) PROVE Closed'
  BY <1>13 DEF WaitDoze, hostVars, linkVars
<1>14. ASSUME NEW t \in Threads, WaitSleep(t) PROVE Closed'
  BY <1>14 DEF WaitSleep, hostVars, linkVars
<1>15. ASSUME NEW t \in Threads, Unregister(t) PROVE Closed'
  BY <1>15 DEF Unregister, hostVars, linkVars
<1>16. ASSUME NEW t \in Threads, TakeBand(t) PROVE Closed'
  BY <1>16 DEF TakeBand, hostVars, linkVars
<1>17. ASSUME NEW t \in Threads, Release(t) PROVE Closed'
  BY <1>17 DEF Release, hostVars, linkVars
<1>18. ASSUME NEW t \in Threads, SpuriousWake(t) PROVE Closed'
  BY <1>18 DEF SpuriousWake, hostVars, linkVars
<1>19. CASE ReadReply
  <2>1. inPipe \in Seq(HostFrames) /\ inPipe # <<>> /\ inPipe' = Tail(inPipe)
    BY <1>19 DEF ReadReply, TypeOK, HostTypeOK
  <2>2. \A n \in 1 .. Len(inPipe') : n + 1 \in 1 .. Len(inPipe) /\ inPipe'[n] = inPipe[n + 1]
    BY <2>1
  <2> QED
    BY <1>19, <2>2 DEF ReadReply, hostVars, linkVars
<1>20. CASE Deliver
  BY <1>20 DEF Deliver, hostVars, linkVars
<1>21. CASE ReadCancel
  <2>1. inPipe \in Seq(HostFrames) /\ inPipe # <<>> /\ inPipe' = Tail(inPipe)
    BY <1>21 DEF ReadCancel, TypeOK, HostTypeOK
  <2>2. \A n \in 1 .. Len(inPipe') : n + 1 \in 1 .. Len(inPipe) /\ inPipe'[n] = inPipe[n + 1]
    BY <2>1
  <2> QED
    BY <1>21, <2>2 DEF ReadCancel, hostVars, linkVars
<1>22. CASE ReadEof
  <2>1. inPipe \in Seq(HostFrames) /\ inPipe # <<>> /\ inPipe' = Tail(inPipe)
    BY <1>22 DEF ReadEof, TypeOK, HostTypeOK
  <2>2. \A n \in 1 .. Len(inPipe') : n + 1 \in 1 .. Len(inPipe) /\ inPipe'[n] = inPipe[n + 1]
    BY <2>1
  <2>3. inPipe[1].type = "eof" /\ 1 \in 1 .. Len(inPipe)
    BY <1>22, <2>1 DEF ReadEof
  <2> QED
    BY <1>22, <2>2, <2>3 DEF ReadEof, hostVars, linkVars
<1>23. CASE DrainPending
  BY <1>23 DEF DrainPending, hostVars, linkVars
<1>24. CASE WakeReplySlot
  BY <1>24 DEF WakeReplySlot, hostVars, linkVars
<1>25. CASE WakeInputPool
  BY <1>25 DEF WakeInputPool, hostVars, linkVars
<1>26. CASE WakeOutputPool
  BY <1>26 DEF WakeOutputPool, hostVars, linkVars
<1>27. CASE HostTake
  BY <1>27 DEF HostTake, hostVars, linkVars
<1>28. CASE HostAnswer
  <2>1. PICK r \in hostCur, a \in AllAnswers :
           inPipe' = Append(inPipe, [type |-> "reply", id |-> r.id, answer |-> a])
    BY <1>28 DEF HostAnswer, Answers
  <2>2. r.id \in Ids
    BY DEF TypeOK, HostTypeOK, Requests
  <2> DEFINE e == [type |-> "reply", id |-> r.id, answer |-> a]
  <2>3. e \in HostFrames /\ e.type # "eof"
    BY <2>2 DEF HostFrames, Replies
  <2>4. inPipe \in Seq(HostFrames) /\ inPipe' = Append(inPipe, e)
    BY <2>1 DEF TypeOK, HostTypeOK
  <2> HIDE DEF e
  <2>5. \A n \in 1 .. Len(inPipe') : inPipe'[n] = e \/ (n \in 1 .. Len(inPipe) /\ inPipe'[n] = inPipe[n])
    BY <2>3, <2>4
  <2>6. inOpen /\ outOpen /\ outOpen' = outOpen /\ inOpen' = inOpen /\ shutdown' = shutdown
    BY <1>28 DEF HostAnswer, linkVars
  <2>7. \A n \in 1 .. Len(inPipe') : inPipe'[n].type # "eof"
    BY <2>3, <2>5, <2>6
  <2> QED
    BY <2>6, <2>7
<1>29. CASE HostCancel
  <2>1. PICK e \in HostFrames : inPipe' = Append(inPipe, e) /\ (e.type = "eof" => ~outOpen')
    BY <1>29 DEF HostCancel, HostFrames, Cancel, Eof
  <2>2. inPipe \in Seq(HostFrames)
    BY DEF TypeOK, HostTypeOK
  <2>3. \A n \in 1 .. Len(inPipe') : inPipe'[n] = e \/ (n \in 1 .. Len(inPipe) /\ inPipe'[n] = inPipe[n])
    BY <2>1, <2>2
  <2> QED
    BY <1>29, <2>1, <2>3 DEF HostCancel, linkVars
<1>30. CASE HostLeave
  BY <1>30 DEF HostLeave, hostVars, linkVars
<1>31. CASE HostCloseIn
  <2>1. PICK e \in HostFrames : inPipe' = Append(inPipe, e) /\ (e.type = "eof" => ~outOpen')
    BY <1>31 DEF HostCloseIn, HostFrames, Cancel, Eof
  <2>2. inPipe \in Seq(HostFrames)
    BY DEF TypeOK, HostTypeOK
  <2>3. \A n \in 1 .. Len(inPipe') : inPipe'[n] = e \/ (n \in 1 .. Len(inPipe) /\ inPipe'[n] = inPipe[n])
    BY <2>1, <2>2
  <2> QED
    BY <1>31, <2>1, <2>3 DEF HostCloseIn, linkVars
<1>32. CASE HostCrash
  <2>1. PICK e \in HostFrames : inPipe' = Append(inPipe, e) /\ (e.type = "eof" => ~outOpen')
    BY <1>32 DEF HostCrash, HostFrames, Cancel, Eof
  <2>2. inPipe \in Seq(HostFrames)
    BY DEF TypeOK, HostTypeOK
  <2>3. \A n \in 1 .. Len(inPipe') : inPipe'[n] = e \/ (n \in 1 .. Len(inPipe) /\ inPipe'[n] = inPipe[n])
    BY <2>1, <2>2
  <2> QED
    BY <1>32, <2>1, <2>3 DEF HostCrash, linkVars
<1>33. CASE Terminated
  BY <1>33 DEF Terminated, hostVars, linkVars, vars
<1>34. CASE UNCHANGED vars
  BY <1>34 DEF vars, hostVars, linkVars
<1> QED
  BY <1>1, <1>2, <1>3, <1>4, <1>5, <1>6, <1>7, <1>8, <1>9, <1>10, <1>11, <1>12,
     <1>13, <1>14, <1>15, <1>16, <1>17, <1>18, <1>19, <1>20, <1>21, <1>22,
     <1>23, <1>24,
     <1>25, <1>26, <1>27, <1>28, <1>29, <1>30, <1>31, <1>32, <1>33, <1>34
  DEF Next, ThreadStep, Reader, HostServe

\* At first the host holds no request and no reply is on its way.
LEMMA RequestInit == Init => RequestInv
<1> SUFFICES ASSUME Init PROVE RequestInv
  OBVIOUS
<1>1. AtHost = {} /\ RequestIds = {}
  BY DEF Init, AtHost, RequestIds
<1>2. ReplyIds = {}
  BY DEF Init, ReplyIds, Replied
<1> QED
  BY <1>1, <1>2 DEF Init, RequestInv, Closed, Owned, SlotUnsent, Unsent,
     Distinct, Fresh, OneRequestPerSlot

\* The parts together are inductive, given the types and the pools.
LEMMA RequestStep ==
  ASSUME TypeOK, SlotInv, RequestInv, [Next]_vars
  PROVE  RequestInv'
BY ClosedNext, OwnedNext, SlotUnsentNext, DistinctNext, FreshNext,
   OneRequestPerSlotNext
   DEF RequestInv

\* Whose a request in the host's hands is, holds in every state: it belongs to
\* a thread that waits with the slot it names, unless the link was cancelled.
THEOREM RequestsInductive == Spec => []RequestInv
<1>1. Init => RequestInv
  BY RequestInit
<1>2. TypeOK /\ SlotInv /\ RequestInv /\ [Next]_vars => RequestInv'
  BY RequestStep
<1> QED
  BY <1>1, <1>2, SlotsInductive, PTL DEF Spec

\* The host never has two requests of one kind that name the same slot, for
\* any number of threads, slots, calls and cancels: what makes it safe that
\* request_band and send_output_band release their slot after a Cancel while
\* the host may still be reading or writing it (client.rs 372-389, 477-482).
THEOREM SlotNeverShared == Spec => []OneRequestPerSlot
<1>1. RequestInv => OneRequestPerSlot
  BY DEF RequestInv
<1> QED
  BY <1>1, RequestsInductive, PTL

-----------------------------------------------------------------------------
(***************************************************************************)
(* Pixels keep their place.  The argument: a call, the thread inside it and *)
(* its request id belong together, so an answer says of a call that it was *)
(* served; from then on no request in the host's hands names the call or   *)
(* its slot, so what the answer promised stays in the slot until the call  *)
(* has taken it.                                                           *)
(***************************************************************************)

\* Where a thread is: inside a call; past the send; waiting to be named by a
\* reply.
Active(t) == pc[t] # "idle"
Past(t) ==
  pc[t] \in {"wait", "doze", "asleep", "unregister", "take", "release"}
Named(t) == pc[t] \in {"send", "wait", "doze", "asleep"}

\* The replies on their way to a thread, with what they say.
Letters ==
  {l \in Ids \X AllAnswers :
     \/ box[l[1]] = l[2]
     \/ rpc = "deliver" /\ delivering = l
     \/ \E n \in 1 .. Len(inPipe) :
          inPipe[n] = [type |-> "reply", id |-> l[1], answer |-> l[2]]}

\* The host has served the call, and the thread has not left with the result.
Served(t) == Past(t) /\ answered[call[t]] = "good"

\* A thread inside has a call of its own that has not returned, and nobody
\* answers a call before its request is sent.
CallsApart ==
  /\ \A t \in Threads : Active(t) =>
       call[t] <= ncalls /\ outcome[call[t]] = "none"
  /\ \A t, u \in Threads :
       t # u /\ Active(t) /\ Active(u) => call[t] # call[u]
  /\ \A c \in 1 .. ncalls : outcome[c] = "none" =>
       \E t \in Threads : Active(t) /\ call[t] = c
  /\ \A c \in Calls : c > ncalls => outcome[c] = "none" /\ answered[c] = "none"
  /\ \A t \in Threads : Active(t) /\ ~Past(t) => answered[call[t]] = "none"

\* Two threads whose replies may still come wait for different ids.
IdsApart ==
  /\ \A t \in Threads : Named(t) => rid[t] < nextRequestId
  /\ \A t, u \in Threads :
       t # u /\ Named(t) /\ Named(u) => rid[t] # rid[u]

\* A request the host still holds is the only one of its call and unanswered;
\* if the call's thread is still inside, it is past the send, with this slot.
Belongs ==
  \A r \in AtHost :
    /\ r.call <= ncalls /\ answered[r.call] = "none"
    /\ \A q \in AtHost : q # r => q.call # r.call
    /\ \A t \in Threads :
         /\ Active(t) /\ r.call = call[t] =>
              Past(t) /\ r.kind = kind[t] /\ r.slot = slot[t]
         /\ Waiting(t) /\ r.id = rid[t] => r.call = call[t]

\* No request the host still holds names the slot of a served call.
Alone ==
  \A t \in Threads : Served(t) =>
     \A r \in AtHost : r.kind = kind[t] => r.slot # slot[t]

\* A served call has its band in its slot, or its rows at the host.
Arrived ==
  \A t \in Threads : Served(t) =>
     /\ kind[t] = "band" /\ pc[t] # "release" => shm["band"][slot[t]] = call[t]
     /\ kind[t] = "output" => collected[call[t]] = call[t]

\* The link has stopped for one of three reasons.
Stopped == cancelled \/ shutdown \/ ~outOpen

\* What a thread concluded about its call is what the host answered, or that
\* the link stopped.
Judged ==
  \A t \in Threads :
     /\ pc[t] \in {"unregister", "take", "release"} =>
          \/ verdict[t] \in {"good", "bad"} /\ answered[call[t]] = verdict[t]
          \/ verdict[t] = "stopped" /\ Stopped
     /\ pc[t] = "take" => verdict[t] = "good" /\ kind[t] = "band"
     /\ pc[t] = "release" /\ verdict[t] = "good" /\ kind[t] = "band" =>
          dst[call[t]] = call[t]

\* A reply on its way to a thread says what the host answered its call.
Lettered ==
  \A t \in Threads : Waiting(t) => \A a \in AllAnswers :
     <<rid[t], a>> \in Letters =>
       answered[call[t]] = IF a = Good(kind[t]) THEN "good" ELSE "bad"

\* From the copy to the send, an output slot holds the rows of its call.
Filled ==
  \A t \in Threads :
     /\ pc[t] = "fill" => kind[t] = "output"
     /\ pc[t] \in {"register", "send"} /\ kind[t] = "output" =>
          shm["output"][slot[t]] = call[t]

\* Together they are inductive.
PixelInv ==
  /\ CallsApart /\ IdsApart /\ Belongs /\ Alone /\ Arrived /\ Judged
  /\ Lettered /\ Filled /\ OutputIntact /\ OkMeansDone

-----------------------------------------------------------------------------
\* A thread whose call did not move, apart from how it sleeps and wakes.
Still(u) ==
  /\ call'[u] = call[u] /\ kind'[u] = kind[u] /\ slot'[u] = slot[u]
  /\ rid'[u] = rid[u] /\ verdict'[u] = verdict[u]
  /\ \/ pc'[u] = pc[u]
     \/ Waiting(u) /\ pc'[u] \in {"wait", "doze", "asleep"}
     \/ /\ pc[u] \in {"acquire", "poolDoze", "poolSleep"}
        /\ pc'[u] \in {"acquire", "poolDoze", "poolSleep"}

\* The steps of a call.
Moves(t) ==
  \/ \E k \in Kinds : Call(t, k)
  \/ AcquireSlot(t) \/ AcquireStopped(t) \/ CheckCancelled(t)
  \/ FillOutput(t) \/ Register(t) \/ Send(t) \/ SendFails(t)
  \/ WaitReply(t) \/ WaitStopped(t) \/ Unregister(t) \/ TakeBand(t)
  \/ Release(t)

\* At most one call moves in a step.
LEMMA OthersStill ==
  ASSUME TypeOK, [Next]_vars
  PROVE  \/ \A u \in Threads : Still(u)
         \/ \E t \in Threads : Moves(t) /\ \A u \in Threads \ {t} : Still(u)
<1> DEFINE Rest == \A u \in Threads : Still(u)
           One(t) == Moves(t) /\ \A u \in Threads \ {t} : Still(u)
<1> USE DEF TypeOK, ThreadTypeOK, Still
<1>1. ASSUME NEW t \in Threads, NEW k \in Kinds, Call(t, k) PROVE One(t)
  BY <1>1 DEF Call, Moves
<1>2. ASSUME NEW t \in Threads, AcquireSlot(t) PROVE One(t)
  BY <1>2 DEF AcquireSlot, Moves
<1>3. ASSUME NEW t \in Threads, AcquireStopped(t) PROVE One(t)
  BY <1>3 DEF AcquireStopped, Moves, LeaveCall
<1>4. ASSUME NEW t \in Threads, CheckCancelled(t) PROVE One(t)
  BY <1>4 DEF CheckCancelled, Moves
<1>5. ASSUME NEW t \in Threads, FillOutput(t) PROVE One(t)
  BY <1>5 DEF FillOutput, Moves
<1>6. ASSUME NEW t \in Threads, Register(t) PROVE One(t)
  BY <1>6 DEF Register, Moves
<1>7. ASSUME NEW t \in Threads, Send(t) PROVE One(t)
  BY <1>7 DEF Send, Moves
<1>8. ASSUME NEW t \in Threads, SendFails(t) PROVE One(t)
  BY <1>8 DEF SendFails, Moves
<1>9. ASSUME NEW t \in Threads, WaitReply(t) PROVE One(t)
  BY <1>9 DEF WaitReply, Moves
<1>10. ASSUME NEW t \in Threads, WaitStopped(t) PROVE One(t)
  BY <1>10 DEF WaitStopped, Moves
<1>11. ASSUME NEW t \in Threads, Unregister(t) PROVE One(t)
  BY <1>11 DEF Unregister, Moves
<1>12. ASSUME NEW t \in Threads, TakeBand(t) PROVE One(t)
  BY <1>12 DEF TakeBand, Moves
<1>13. ASSUME NEW t \in Threads, Release(t) PROVE One(t)
  <2>1. \A u \in Threads : NotifyPool(kind[t])[u] # pc[u] =>
          pc[u] = "poolSleep" /\ NotifyPool(kind[t])[u] = "acquire"
    BY NotifyHolds
  <2>2. NotifyPool(kind[t]) \in [Threads -> PCs]
    BY NotifyTypes
  <2>3. \A u \in Threads \ {t} : pc'[u] = NotifyPool(kind[t])[u]
    BY <1>13, <2>2 DEF Release
  <2> QED
    BY <1>13, <2>1, <2>3 DEF Release, LeaveCall, Moves
<1>14. ASSUME NEW t \in Threads, AcquireDoze(t) PROVE Rest
  BY <1>14 DEF AcquireDoze, Waiting
<1>15. ASSUME NEW t \in Threads, PoolSleep(t) PROVE Rest
  BY <1>15 DEF PoolSleep, Waiting
<1>16. ASSUME NEW t \in Threads, WaitDoze(t) PROVE Rest
  BY <1>16 DEF WaitDoze, Waiting
<1>17. ASSUME NEW t \in Threads, WaitSleep(t) PROVE Rest
  BY <1>17 DEF WaitSleep, Waiting
<1>18. ASSUME NEW t \in Threads, SpuriousWake(t) PROVE Rest
  BY <1>18 DEF SpuriousWake, Waiting
<1>19. ASSUME ReadReply PROVE Rest
  BY <1>19 DEF ReadReply, threadVars
<1>20. ASSUME ReadCancel PROVE Rest
  BY <1>20 DEF ReadCancel, threadVars
<1>21. ASSUME ReadEof PROVE Rest
  BY <1>21 DEF ReadEof, threadVars
<1>22. ASSUME DrainPending PROVE Rest
  BY <1>22 DEF DrainPending, threadVars
<1>23. ASSUME HostTake PROVE Rest
  BY <1>23 DEF HostTake, threadVars
<1>24. ASSUME HostAnswer PROVE Rest
  BY <1>24 DEF HostAnswer, threadVars
<1>25. ASSUME HostCancel PROVE Rest
  BY <1>25 DEF HostCancel, threadVars
<1>26. ASSUME HostLeave PROVE Rest
  BY <1>26 DEF HostLeave, threadVars
<1>27. ASSUME HostCloseIn PROVE Rest
  BY <1>27 DEF HostCloseIn, threadVars
<1>28. ASSUME HostCrash PROVE Rest
  BY <1>28 DEF HostCrash, threadVars
<1>29. ASSUME Terminated PROVE Rest
  BY <1>29 DEF Terminated, threadVars, vars
<1>30. ASSUME Deliver PROVE Rest
  BY <1>30, NotifyHolds DEF Deliver, ReaderTypeOK, Waiting
<1>31. ASSUME WakeReplySlot PROVE Rest
  <2>1. PICK i \in toWake : pc' = NotifySlot(i)
    BY <1>31 DEF WakeReplySlot
  <2>2. i \in Ids
    BY DEF ReaderTypeOK
  <2> QED
    BY <1>31, <2>1, <2>2, NotifyHolds DEF WakeReplySlot, Waiting
<1>32. ASSUME WakeInputPool PROVE Rest
  BY <1>32, NotifyHolds DEF WakeInputPool
<1>33. ASSUME WakeOutputPool PROVE Rest
  BY <1>33, NotifyHolds DEF WakeOutputPool
<1>34. ASSUME UNCHANGED vars PROVE Rest
  BY <1>34 DEF vars, threadVars
<1> HIDE DEF TypeOK, ThreadTypeOK, Still
<1>35. ASSUME NEW t \in Threads, ThreadStep(t) PROVE One(t) \/ Rest
  BY <1>2, <1>3, <1>4, <1>5, <1>6, <1>7, <1>8, <1>9, <1>10, <1>11, <1>12,
     <1>13, <1>14, <1>15, <1>16, <1>17, <1>35
  DEF ThreadStep
<1>36. CASE Reader
  <2>1. Rest
    BY <1>19, <1>20, <1>21, <1>22, <1>23, <1>24, <1>25, <1>26, <1>27, <1>28,
     <1>29, <1>30, <1>31, <1>32, <1>33, <1>34, <1>36
    DEF Reader
  <2> QED
    BY <2>1 DEF Rest
<1>37. CASE HostServe \/ HostCancel \/ HostLeave \/ HostCloseIn
                \/ HostCrash \/ Terminated \/ UNCHANGED vars
  <2>1. Rest
    BY <1>19, <1>20, <1>21, <1>22, <1>23, <1>24, <1>25, <1>26, <1>27, <1>28,
     <1>29, <1>30, <1>31, <1>32, <1>33, <1>34, <1>37
    DEF HostServe
  <2> QED
    BY <2>1 DEF Rest
<1>38. CASE \E t \in Threads : \E k \in Kinds : Call(t, k)
  BY <1>38, <1>1 DEF One
<1>39. CASE \E t \in Threads : ThreadStep(t) \/ SpuriousWake(t)
  BY <1>39, <1>35, <1>18 DEF One, Rest
<1> QED
  BY <1>36, <1>37, <1>38, <1>39 DEF Next

\* What each variable that a call reads changes with.
LEMMA OnlyTheseChange ==
  ASSUME [Next]_vars
  PROVE  /\ ncalls' # ncalls => \E t \in Threads, k \in Kinds : Call(t, k)
         /\ outcome' # outcome =>
              \E t \in Threads : AcquireStopped(t) \/ Release(t)
         /\ dst' # dst => \E t \in Threads : TakeBand(t)
         /\ shm' # shm =>
              (\E t \in Threads : FillOutput(t)) \/ HostTake \/ HostAnswer
         /\ answered' # answered \/ collected' # collected => HostAnswer
         /\ nextRequestId' # nextRequestId => \E t \in Threads : Register(t)
<1> USE DEF vars, threadVars, linkVars, readerVars, hostVars
<1>1. CASE \E t \in Threads : \E k \in Kinds : Call(t, k)
  BY <1>1 DEF Call
<1>2. CASE \E t \in Threads : ThreadStep(t)
  <2>1. PICK t \in Threads : ThreadStep(t)
    BY <1>2
  <2> QED
    BY <2>1 DEF ThreadStep, AcquireSlot, AcquireStopped, AcquireDoze,
       PoolSleep, CheckCancelled, FillOutput, Register, Send, SendFails,
       WaitReply, WaitStopped, WaitDoze, WaitSleep, Unregister, TakeBand,
       Release
<1>3. CASE \E t \in Threads : SpuriousWake(t)
  BY <1>3 DEF SpuriousWake
<1>4. CASE Reader
  BY <1>4 DEF Reader, ReadReply, Deliver, ReadCancel, ReadEof, DrainPending,
     WakeReplySlot, WakeInputPool, WakeOutputPool
<1>5. CASE HostServe
  BY <1>5 DEF HostServe, HostTake, HostAnswer
<1>6. CASE HostCancel \/ HostLeave \/ HostCloseIn \/ HostCrash
  BY <1>6 DEF HostCancel, HostLeave, HostCloseIn, HostCrash
<1>7. CASE Terminated \/ UNCHANGED vars
  BY <1>7 DEF Terminated
<1> QED
  BY <1>1, <1>2, <1>3, <1>4, <1>5, <1>6, <1>7 DEF Next

\* Only the host's answer puts a reply on its way.
LEMMA LettersShrink ==
  ASSUME TypeOK, [Next]_vars, ~HostAnswer
  PROVE  Letters' \subseteq Letters
<1>1. CASE UNCHANGED <<box, rpc, delivering, inPipe>>
  BY <1>1 DEF Letters
<1>2. ASSUME inPipe # <<>>, inPipe' = Tail(inPipe), NEW l,
             NEW n \in 1 .. Len(inPipe'),
             inPipe'[n] = [type |-> "reply", id |-> l[1], answer |-> l[2]]
      PROVE  \E m \in 1 .. Len(inPipe) :
               inPipe[m] = [type |-> "reply", id |-> l[1], answer |-> l[2]]
  <2>1. n + 1 \in 1 .. Len(inPipe) /\ inPipe[n + 1] = inPipe'[n]
    BY <1>2 DEF TypeOK, HostTypeOK
  <2> QED
    BY <1>2, <2>1
<1>3. ASSUME NEW t \in Threads, WaitReply(t) PROVE Letters' \subseteq Letters
  BY <1>3 DEF WaitReply, readerVars, Letters, TypeOK, LinkTypeOK
<1>4. CASE ReadReply
  <2>1. /\ rpc = "read" /\ inPipe # <<>> /\ inPipe' = Tail(inPipe)
        /\ box' = box /\ Head(inPipe).type = "reply"
        /\ rpc' = "deliver" =>
             delivering' = <<Head(inPipe).id, Head(inPipe).answer>>
    BY <1>4 DEF ReadReply
  <2>2. inPipe \in Seq(HostFrames) /\ 1 \in 1 .. Len(inPipe)
        /\ Head(inPipe) = inPipe[1]
    BY <2>1 DEF TypeOK, HostTypeOK
  <2>3. /\ inPipe[1] \in HostFrames
        /\ inPipe[1] = [type |-> "reply", id |-> inPipe[1].id,
                        answer |-> inPipe[1].answer]
    BY <2>1, <2>2, ReplyFacts DEF Replies
  <2>4. ASSUME NEW l \in Letters' PROVE l \in Letters
    <3>1. CASE box'[l[1]] = l[2]
      BY <2>1, <2>4, <3>1 DEF Letters
    <3>2. CASE rpc' = "deliver" /\ delivering' = l
      <4>1. inPipe[1] = [type |-> "reply", id |-> l[1], answer |-> l[2]]
        BY <2>1, <2>2, <2>3, <3>2
      <4> QED
        BY <2>2, <2>4, <4>1 DEF Letters
    <3>3. CASE \E n \in 1 .. Len(inPipe') :
            inPipe'[n] = [type |-> "reply", id |-> l[1], answer |-> l[2]]
      BY <1>2, <2>1, <2>4, <3>3 DEF Letters
    <3> QED
      BY <2>4, <3>1, <3>2, <3>3 DEF Letters
  <2> QED
    BY <2>4
<1>5. CASE Deliver
  <2>1. /\ rpc = "deliver" /\ rpc' = "read" /\ inPipe' = inPipe
        /\ box' = [box EXCEPT ![delivering[1]] = delivering[2]]
    BY <1>5 DEF Deliver
  <2>2. /\ delivering \in Ids \X (AllAnswers \cup {"none"})
        /\ box \in [Ids -> AllAnswers \cup {"none"}]
    BY DEF TypeOK, ReaderTypeOK, LinkTypeOK
  <2>3. ASSUME NEW l \in Letters', box'[l[1]] = l[2] PROVE l \in Letters
    <3>1. l \in Ids \X AllAnswers
      BY <2>3 DEF Letters
    <3>2. CASE l[1] = delivering[1]
      <4>1. l = delivering
        BY <2>1, <2>2, <2>3, <3>1, <3>2
      <4> QED
        BY <2>1, <3>1, <4>1 DEF Letters
    <3>3. CASE l[1] # delivering[1]
      BY <2>1, <2>2, <2>3, <3>1, <3>3 DEF Letters
    <3> QED
      BY <3>2, <3>3
  <2> QED
    BY <2>1, <2>3 DEF Letters
<1>6. CASE ReadCancel \/ ReadEof
  <2>1. /\ inPipe # <<>> /\ inPipe' = Tail(inPipe) /\ box' = box
        /\ rpc' # "deliver"
    BY <1>6 DEF ReadCancel, ReadEof
  <2> QED
    BY <1>2, <2>1 DEF Letters
<1>7. CASE DrainPending \/ WakeReplySlot \/ WakeInputPool \/ WakeOutputPool
  BY <1>7 DEF DrainPending, WakeReplySlot, WakeInputPool, WakeOutputPool,
     linkVars, Letters
<1>8. CASE HostCancel \/ HostCloseIn \/ HostCrash
  <2>1. PICK e \in {Cancel, Eof} : inPipe' = Append(inPipe, e)
    BY <1>8 DEF HostCancel, HostCloseIn, HostCrash
  <2>2. UNCHANGED <<box, rpc, delivering>>
    BY <1>8 DEF HostCancel, HostCloseIn, HostCrash, linkVars, readerVars
  <2>3. e.type # "reply" /\ e \in HostFrames
    BY DEF Cancel, Eof, HostFrames
  <2>4. /\ Len(inPipe) \in Nat /\ Len(inPipe') = Len(inPipe) + 1
        /\ \A n \in 1 .. Len(inPipe) : inPipe'[n] = inPipe[n]
        /\ inPipe'[Len(inPipe) + 1] = e
    BY <2>1, <2>3 DEF TypeOK, HostTypeOK
  <2>5. ASSUME NEW l, NEW n \in 1 .. Len(inPipe'),
               inPipe'[n] = [type |-> "reply", id |-> l[1], answer |-> l[2]]
        PROVE  n \in 1 .. Len(inPipe) /\ inPipe[n] = inPipe'[n]
    <3>1. inPipe'[n].type = "reply"
      BY <2>5
    <3> QED
      BY <2>3, <2>4, <3>1
  <2> QED
    BY <2>2, <2>5 DEF Letters
<1> USE DEF vars, threadVars, linkVars, readerVars, hostVars
<1>9. CASE \E t \in Threads : \E k \in Kinds : Call(t, k)
  BY <1>1, <1>9 DEF Call
<1>10. CASE \E t \in Threads : ThreadStep(t)
  <2>1. PICK t \in Threads : ThreadStep(t)
    BY <1>10
  <2>2. WaitReply(t) \/ UNCHANGED <<box, rpc, delivering, inPipe>>
    BY <2>1 DEF ThreadStep, AcquireSlot, AcquireStopped, AcquireDoze,
       PoolSleep, CheckCancelled, FillOutput, Register, Send, SendFails,
       WaitStopped, WaitDoze, WaitSleep, Unregister, TakeBand, Release
  <2> QED
    BY <1>1, <1>3, <2>2
<1>11. CASE \E t \in Threads : SpuriousWake(t)
  BY <1>1, <1>11 DEF SpuriousWake
<1>12. CASE HostTake \/ HostLeave \/ Terminated \/ UNCHANGED vars
  BY <1>1, <1>12 DEF HostTake, HostLeave, Terminated
<1> QED
  BY <1>4, <1>5, <1>6, <1>7, <1>8, <1>9, <1>10, <1>11, <1>12
  DEF Next, Reader, HostServe

\* What an answer does: the host's one request is no longer in its hands.
LEMMA AnswerOf ==
  ASSUME TypeOK, Distinct, HostAnswer
  PROVE  \E r \in AtHost, a \in AllAnswers :
           /\ a \in Answers(r.kind)
           /\ AtHost' = AtHost \ {r}
           /\ Letters' \subseteq Letters \cup {<<r.id, a>>}
           /\ shm' = IF a = "band" THEN [shm EXCEPT !["band"][r.slot] = r.call]
                     ELSE shm
           /\ collected' = IF a = "ack"
                           THEN [collected EXCEPT ![r.call] =
                                   shm["output"][r.slot]]
                           ELSE collected
           /\ answered' = [answered EXCEPT ![r.call] =
                             IF a = Good(r.kind) THEN "good" ELSE "bad"]
<1>1. PICK r \in hostCur : \E a \in Answers(r.kind) :
         /\ shm' = IF a = "band" THEN [shm EXCEPT !["band"][r.slot] = r.call]
                   ELSE shm
         /\ collected' = IF a = "ack"
                         THEN [collected EXCEPT ![r.call] =
                                 shm["output"][r.slot]]
                         ELSE collected
         /\ answered' = [answered EXCEPT ![r.call] =
                           IF a = Good(r.kind) THEN "good" ELSE "bad"]
         /\ inPipe' = Append(inPipe, [type |-> "reply", id |-> r.id, answer |-> a])
  BY DEF HostAnswer
<1>2. PICK a \in Answers(r.kind) :
         /\ shm' = IF a = "band" THEN [shm EXCEPT !["band"][r.slot] = r.call]
                   ELSE shm
         /\ collected' = IF a = "ack"
                         THEN [collected EXCEPT ![r.call] =
                                 shm["output"][r.slot]]
                         ELSE collected
         /\ answered' = [answered EXCEPT ![r.call] =
                           IF a = Good(r.kind) THEN "good" ELSE "bad"]
         /\ inPipe' = Append(inPipe, [type |-> "reply", id |-> r.id, answer |-> a])
  BY <1>1
<1> DEFINE m == [type |-> "reply", id |-> r.id, answer |-> a]
<1>3. r \in AtHost /\ r.id \in Ids /\ a \in AllAnswers
  BY DEF AtHost, TypeOK, HostTypeOK, Requests, Answers
<1>4. AtHost' = AtHost \ {r}
  <2>1. hostCur' = {} /\ outPipe' = outPipe
    BY DEF HostAnswer
  <2>2. AtHost' = {outPipe[i] : i \in 1 .. Len(outPipe)}
    BY <2>1 DEF AtHost
  <2>3. hostCur = {r} /\ r \notin {outPipe[i] : i \in 1 .. Len(outPipe)}
    BY DEF Distinct
  <2> QED
    BY <2>2, <2>3 DEF AtHost
<1>5. Letters' \subseteq Letters \cup {<<r.id, a>>}
  <2>1. box' = box /\ rpc' = rpc /\ delivering' = delivering
    BY DEF HostAnswer, linkVars, readerVars
  <2>2. m \in HostFrames
    BY <1>3 DEF HostFrames, Replies
  <2>3. /\ Len(inPipe) \in Nat /\ Len(inPipe') = Len(inPipe) + 1
        /\ \A n \in 1 .. Len(inPipe) : inPipe'[n] = inPipe[n]
        /\ inPipe'[Len(inPipe) + 1] = m
    BY <1>2, <2>2 DEF TypeOK, HostTypeOK
  <2>4. ASSUME NEW l \in Ids \X AllAnswers, NEW n \in 1 .. Len(inPipe'),
               inPipe'[n] = [type |-> "reply", id |-> l[1], answer |-> l[2]]
        PROVE  l \in Letters \cup {<<r.id, a>>}
    <3>1. CASE n \in 1 .. Len(inPipe)
      BY <2>3, <2>4, <3>1 DEF Letters
    <3>2. CASE n = Len(inPipe) + 1
      <4>1. m = [type |-> "reply", id |-> l[1], answer |-> l[2]]
        BY <2>3, <2>4, <3>2
      <4>2. m.id = l[1] /\ m.answer = l[2]
        BY <4>1
      <4> QED
        BY <2>4, <4>2
    <3> QED
      BY <2>3, <3>1, <3>2
  <2> QED
    BY <2>1, <2>4 DEF Letters
<1> QED
  BY <1>2, <1>3, <1>4, <1>5

\* The link never comes back from a stop.
LEMMA StoppedStays ==
  ASSUME [Next]_vars, Stopped
  PROVE  Stopped'
<1> USE DEF Stopped, vars, threadVars, linkVars, readerVars, hostVars
<1>1. CASE \E t \in Threads : \E k \in Kinds : Call(t, k)
  BY <1>1 DEF Call
<1>2. CASE \E t \in Threads : ThreadStep(t)
  <2>1. PICK t \in Threads : ThreadStep(t)
    BY <1>2
  <2> QED
    BY <2>1 DEF ThreadStep, AcquireSlot, AcquireStopped, AcquireDoze,
       PoolSleep, CheckCancelled, FillOutput, Register, Send, SendFails,
       WaitReply, WaitStopped, WaitDoze, WaitSleep, Unregister, TakeBand,
       Release
<1>3. CASE \E t \in Threads : SpuriousWake(t)
  BY <1>3 DEF SpuriousWake
<1>4. CASE Reader
  BY <1>4 DEF Reader, ReadReply, Deliver, ReadCancel, ReadEof, DrainPending,
     WakeReplySlot, WakeInputPool, WakeOutputPool
<1>5. CASE HostServe
  BY <1>5 DEF HostServe, HostTake, HostAnswer
<1>6. CASE HostCancel \/ HostLeave \/ HostCloseIn \/ HostCrash
  BY <1>6 DEF HostCancel, HostLeave, HostCloseIn, HostCrash
<1>7. CASE Terminated \/ UNCHANGED vars
  BY <1>7 DEF Terminated
<1> QED
  BY <1>1, <1>2, <1>3, <1>4, <1>5, <1>6, <1>7 DEF Next

-----------------------------------------------------------------------------
\* What a step does to one call.

\* Whoever gives its slot back is out of request_band or send_output_band.
LEMMA ReleaseLeaves ==
  ASSUME TypeOK, NEW u \in Threads, Release(u)
  PROVE  pc[u] = "release" /\ pc'[u] = "idle"
BY NotifyTypes DEF Release, TypeOK, ThreadTypeOK

\* A call that moves keeps the others where they are.
LEMMA OneMoves ==
  ASSUME TypeOK, [Next]_vars, NEW t \in Threads, Moves(t)
  PROVE  \A u \in Threads \ {t} : Still(u)
<1>1. CASE Release(t)
  BY <1>1, ReleaseLeaves, OthersStill DEF Still, Waiting
<1>2. CASE ~Release(t)
  <2>1. ~Still(t)
    BY <1>2 DEF Moves, Still, Waiting, TypeOK, ThreadTypeOK, Call,
       AcquireSlot, AcquireStopped, CheckCancelled, FillOutput, Register,
       Send, SendFails, WaitReply, WaitStopped, Unregister, TakeBand
  <2> QED
    BY <2>1, OthersStill
<1> QED
  BY <1>1, <1>2

\* A thread in a call stays in it, until it leaves.
LEMMA SameCall ==
  ASSUME TypeOK, [Next]_vars, NEW u \in Threads,
         \A k \in Kinds : ~Call(u, k), ~AcquireStopped(u), ~Release(u)
  PROVE  /\ call'[u] = call[u] /\ kind'[u] = kind[u]
         /\ pc'[u] = "idle" <=> pc[u] = "idle"
         /\ Past(u) => Past(u)' /\ slot'[u] = slot[u]
         /\ pc[u] = "release" => pc'[u] = "release"
<1>1. CASE Still(u)
  BY <1>1 DEF Still, Past, Waiting
<1>2. CASE Moves(u)
  BY <1>2 DEF Moves, Past, TypeOK, ThreadTypeOK, AcquireSlot, CheckCancelled,
     FillOutput, Register, Send, SendFails, WaitReply, WaitStopped,
     Unregister, TakeBand
<1> QED
  BY <1>1, <1>2, OthersStill

\* Who enters a call is none of the threads that are past their request.
LEMMA PastFrom ==
  ASSUME TypeOK, [Next]_vars, NEW u \in Threads, Past(u)'
  PROVE  /\ Active(u) /\ call'[u] = call[u] /\ kind'[u] = kind[u]
         /\ slot'[u] = slot[u]
         /\ Past(u) \/ Send(u) \/ SendFails(u) \/ CheckCancelled(u)
         /\ pc'[u] # "release" => pc[u] # "release"
<1>1. CASE Still(u)
  BY <1>1 DEF Still, Past, Waiting, Active
<1>2. CASE Moves(u) /\ ~Release(u)
  BY <1>2 DEF Moves, Past, Active, TypeOK, ThreadTypeOK, Call, AcquireSlot,
     AcquireStopped, CheckCancelled, FillOutput, Register, Send, SendFails,
     WaitReply, WaitStopped, Unregister, TakeBand
<1>3. CASE Release(u)
  BY <1>3, ReleaseLeaves DEF Past, Active
<1> QED
  BY <1>1, <1>2, <1>3, OthersStill

\* A request id is taken at Register and kept until the wait is over.
LEMMA NamedFrom ==
  ASSUME TypeOK, [Next]_vars, NEW u \in Threads
  PROVE  /\ Named(u)' => Register(u) \/ (Named(u) /\ rid'[u] = rid[u])
         /\ Waiting(u)' => /\ Send(u) \/ Waiting(u)
                           /\ rid'[u] = rid[u] /\ call'[u] = call[u]
                           /\ kind'[u] = kind[u]
<1>1. CASE Still(u)
  BY <1>1 DEF Still, Named, Waiting
<1>2. CASE Moves(u) /\ ~Release(u)
  BY <1>2 DEF Moves, Named, Waiting, TypeOK, ThreadTypeOK, Call, AcquireSlot,
     AcquireStopped, CheckCancelled, FillOutput, Register, Send, SendFails,
     WaitReply, WaitStopped, Unregister, TakeBand
<1>3. CASE Release(u)
  BY <1>3, ReleaseLeaves DEF Named, Waiting
<1> QED
  BY <1>1, <1>2, <1>3, OthersStill

\* An answer of the host moves no thread.
LEMMA AnswerStill ==
  ASSUME HostAnswer
  PROVE  /\ UNCHANGED <<pc, kind, call, slot, rid, verdict>>
         /\ UNCHANGED <<outcome, dst, ncalls>>
BY DEF HostAnswer, threadVars

-----------------------------------------------------------------------------
\* The parts of PixelInv, one by one.

\* A new call has a number of its own; the others keep theirs.
LEMMA CallsApartNext ==
  ASSUME TypeOK, SlotInv, RequestInv, PixelInv, [Next]_vars
  PROVE  CallsApart'
<1>1. /\ ncalls \in 0 .. MaxCalls /\ outcome \in [Calls -> {"none", "ok", "err"}]
      /\ answered \in [Calls -> {"none", "good", "bad"}]
      /\ \A t \in Threads : Active(t) => call[t] \in Calls
      /\ CallsApart
  BY DEF TypeOK, ThreadTypeOK, HostTypeOK, SlotInv, InCall, Active, PixelInv
<1>2. ASSUME NEW t \in Threads, NEW k \in Kinds, Call(t, k) PROVE CallsApart'
  <2>1. \A u \in Threads \ {t} : Still(u)
    BY <1>2, OneMoves DEF Moves
  <2>2. /\ pc'[t] = "acquire" /\ call'[t] = ncalls + 1 /\ ncalls' = ncalls + 1
        /\ outcome' = outcome /\ answered' = answered /\ pc[t] = "idle"
    BY <1>2 DEF Call, hostVars, TypeOK, ThreadTypeOK
  <2>3. ncalls + 1 \in Calls
    BY <1>1, <1>2, AssumptionFacts DEF Call
  <2>4. \A u \in Threads \ {t} : /\ call'[u] = call[u]
                                 /\ Active(u)' <=> Active(u)
                                 /\ Past(u)' <=> Past(u)
    BY <2>1 DEF Still, Active, Past, Waiting
  <2>5. Active(t)' /\ ~Past(t)' /\ ~Active(t)
    BY <2>2 DEF Active, Past
  <2>6. \A u \in Threads : Active(u)' => call'[u] <= ncalls' /\ outcome'[call'[u]] = "none"
    BY <1>1, <2>2, <2>3, <2>4 DEF CallsApart
  <2>7. \A u, v \in Threads :
          u # v /\ Active(u)' /\ Active(v)' => call'[u] # call'[v]
    BY <1>1, <2>2, <2>4 DEF CallsApart
  <2>8. ASSUME NEW c \in 1 .. ncalls', outcome'[c] = "none"
        PROVE  \E u \in Threads : Active(u)' /\ call'[u] = c
    <3>1. CASE c = ncalls + 1
      BY <2>2, <2>5, <3>1
    <3>2. CASE c \in 1 .. ncalls
      <4>1. PICK u \in Threads : Active(u) /\ call[u] = c
        BY <1>1, <2>2, <2>8, <3>2 DEF CallsApart
      <4> QED
        BY <2>4, <2>5, <4>1
    <3> QED
      BY <1>1, <2>2, <3>1, <3>2
  <2>9. \A c \in Calls : c > ncalls' => outcome'[c] = "none" /\ answered'[c] = "none"
    BY <1>1, <2>2 DEF CallsApart
  <2>10. \A u \in Threads : Active(u)' /\ ~Past(u)' => answered'[call'[u]] = "none"
    BY <1>1, <2>2, <2>3, <2>4 DEF CallsApart
  <2> QED
    BY <2>6, <2>7, <2>8, <2>9, <2>10 DEF CallsApart
<1>3. ASSUME NEW t \in Threads, AcquireStopped(t) \/ Release(t) PROVE CallsApart'
  <2>1. \A u \in Threads \ {t} : Still(u)
    BY <1>3, OneMoves DEF Moves
  <2>2. /\ ncalls' = ncalls /\ answered' = answered /\ Active(t)
        /\ \E x \in {"ok", "err"} : outcome' = [outcome EXCEPT ![call[t]] = x]
    BY <1>3 DEF AcquireStopped, Release, hostVars, Active
  <2>3. pc'[t] = "idle"
    BY <1>3, ReleaseLeaves DEF AcquireStopped, TypeOK, ThreadTypeOK
  <2>4. \A u \in Threads \ {t} : /\ call'[u] = call[u]
                                 /\ Active(u)' <=> Active(u)
                                 /\ Past(u)' <=> Past(u)
    BY <2>1 DEF Still, Active, Past, Waiting
  <2>5. ~Active(t)'
    BY <2>3 DEF Active
  <2>6. /\ \A c \in Calls : c # call[t] => outcome'[c] = outcome[c]
        /\ outcome'[call[t]] # "none" /\ call[t] <= ncalls
    BY <1>1, <2>2 DEF CallsApart
  <2>7. \A u \in Threads : Active(u)' => call'[u] <= ncalls' /\ outcome'[call'[u]] = "none"
    BY <1>1, <2>2, <2>4, <2>5, <2>6 DEF CallsApart
  <2>8. \A u, v \in Threads :
          u # v /\ Active(u)' /\ Active(v)' => call'[u] # call'[v]
    BY <1>1, <2>4, <2>5 DEF CallsApart
  <2>9. ASSUME NEW c \in 1 .. ncalls', outcome'[c] = "none"
        PROVE  \E u \in Threads : Active(u)' /\ call'[u] = c
    <3>0. c # call[t]
      BY <2>6, <2>9
    <3>1. c \in Calls /\ c # call[t] /\ c \in 1 .. ncalls
      BY <1>1, <2>2, <3>0, AssumptionFacts
    <3>2. PICK u \in Threads : Active(u) /\ call[u] = c
      BY <1>1, <2>6, <2>9, <3>1 DEF CallsApart
    <3> QED
      BY <2>4, <3>1, <3>2
  <2>10. \A c \in Calls : c > ncalls' => outcome'[c] = "none" /\ answered'[c] = "none"
    BY <1>1, <2>2, <2>6 DEF CallsApart
  <2>11. \A u \in Threads : Active(u)' /\ ~Past(u)' => answered'[call'[u]] = "none"
    BY <1>1, <2>2, <2>4, <2>5 DEF CallsApart
  <2> QED
    BY <2>7, <2>8, <2>9, <2>10, <2>11 DEF CallsApart
<1>4. CASE /\ \A t \in Threads, k \in Kinds : ~Call(t, k)
           /\ \A t \in Threads : ~AcquireStopped(t) /\ ~Release(t)
  <2>1. ncalls' = ncalls /\ outcome' = outcome
    BY <1>4, OnlyTheseChange
  <2>2. \A u \in Threads : /\ call'[u] = call[u]
                           /\ Active(u)' <=> Active(u)
                           /\ Past(u) => Past(u)'
    BY <1>4, SameCall DEF Active
  <2>3. /\ \A c \in Calls : c > ncalls => answered'[c] = "none"
        /\ \A u \in Threads : Active(u) /\ ~Past(u) => answered'[call[u]] = "none"
    <3>1. CASE ~HostAnswer
      BY <1>1, <3>1, OnlyTheseChange DEF CallsApart
    <3>2. CASE HostAnswer
      <4>1. PICK r \in AtHost : \A c \in Calls : c # r.call => answered'[c] = answered[c]
        BY <1>1, <3>2, AnswerOf DEF RequestInv, PixelInv
      <4> QED
        BY <1>1, <4>1 DEF CallsApart, PixelInv, Belongs
    <3> QED
      BY <3>1, <3>2
  <2> QED
    BY <1>1, <2>1, <2>2, <2>3 DEF CallsApart
<1> QED
  BY <1>2, <1>3, <1>4

\* register() draws an id that no thread still uses.
LEMMA IdsApartNext ==
  ASSUME TypeOK, PixelInv, [Next]_vars
  PROVE  IdsApart'
<1>1. nextRequestId \in Nat /\ IdsApart
  BY AssumptionFacts DEF TypeOK, LinkTypeOK, PixelInv
<1>2. ASSUME NEW t \in Threads, Register(t) PROVE IdsApart'
  <2>1. \A u \in Threads \ {t} : Still(u)
    BY <1>2, OneMoves DEF Moves
  <2>2. rid'[t] = nextRequestId /\ nextRequestId' = nextRequestId + 1
    BY <1>2 DEF Register, TypeOK, ThreadTypeOK
  <2>3. \A u \in Threads \ {t} : Named(u)' => Named(u) /\ rid'[u] = rid[u]
    BY <2>1 DEF Still, Named, Waiting
  <2>4. \A u \in Threads : rid[u] \in Nat
    BY AssumptionFacts DEF TypeOK, ThreadTypeOK
  <2> QED
    BY <1>1, <2>2, <2>3, <2>4 DEF IdsApart
<1>3. CASE \A t \in Threads : ~Register(t)
  <2>1. nextRequestId' = nextRequestId
    BY <1>3, OnlyTheseChange
  <2>2. \A u \in Threads : Named(u)' => Named(u) /\ rid'[u] = rid[u]
    BY <1>3, NamedFrom
  <2> QED
    BY <1>1, <2>1, <2>2 DEF IdsApart
<1> QED
  BY <1>2, <1>3

\* Once the host answered, the request is not in its hands, and the thread
\* it was for is named by no other.
LEMMA BelongsNext ==
  ASSUME TypeOK, SlotInv, RequestInv, PixelInv, [Next]_vars
  PROVE  Belongs'
<1>1. /\ ncalls \in 0 .. MaxCalls
      /\ \A r \in AtHost : r.call \in Calls
      /\ \A t \in Threads : Active(t) => call[t] \in Calls
      /\ answered \in [Calls -> {"none", "good", "bad"}]
      /\ CallsApart /\ IdsApart /\ Belongs
  BY AtHostType DEF TypeOK, ThreadTypeOK, HostTypeOK, SlotInv, InCall, Active,
     PixelInv, Requests
<1>2. ASSUME NEW t \in Threads, Send(t) PROVE Belongs'
  <2> DEFINE m == [id |-> rid[t], call |-> call[t], kind |-> kind[t],
                   slot |-> slot[t]]
  <2>1. AtHost' = AtHost \cup {m}
    BY <1>2, SendGrows
  <2>2. \A u \in Threads \ {t} : Still(u)
    BY <1>2, OneMoves DEF Moves
  <2>3. /\ UNCHANGED <<kind, call, slot, rid, answered, ncalls>>
        /\ pc[t] = "send" /\ pc'[t] = "wait"
    BY <1>2 DEF Send, hostVars, TypeOK, ThreadTypeOK
  <2>4. Active(t) /\ ~Past(t) /\ Named(t) /\ ~Waiting(t) /\ Past(t)'
    BY <2>3 DEF Active, Past, Named, Waiting
  <2>5. \A u \in Threads \ {t} : /\ Active(u)' <=> Active(u)
                                 /\ Past(u)' <=> Past(u)
                                 /\ Waiting(u)' => Waiting(u) /\ Named(u)
    BY <2>2 DEF Still, Active, Past, Waiting, Named
  <2>6. m.call = call[t] /\ m.kind = kind[t] /\ m.slot = slot[t] /\ m.id = rid[t]
    OBVIOUS
  <2> HIDE DEF m
  <2>7. /\ m.call <= ncalls /\ answered[m.call] = "none"
        /\ \A r \in AtHost : r.call # m.call
    BY <1>1, <2>4, <2>6 DEF CallsApart, Belongs
  <2>8. \A u \in Threads :
          /\ Active(u)' /\ m.call = call[u] =>
               Past(u)' /\ m.kind = kind[u] /\ m.slot = slot[u]
          /\ Waiting(u)' /\ m.id = rid[u] => m.call = call[u]
    BY <1>1, <2>4, <2>5, <2>6 DEF CallsApart, IdsApart
  <2>9. \A r \in AtHost : r.id # rid[t]
    BY <2>3 DEF RequestInv, Fresh, RequestIds
  <2>10. ASSUME NEW r \in AtHost, NEW u \in Threads
         PROVE  /\ Active(u)' /\ r.call = call[u] =>
                     Past(u)' /\ r.kind = kind[u] /\ r.slot = slot[u]
                /\ Waiting(u)' /\ r.id = rid[u] => r.call = call[u]
    BY <1>1, <2>4, <2>5, <2>6, <2>7, <2>9 DEF Belongs
  <2>11. \A r \in AtHost :
           /\ r.call <= ncalls /\ answered[r.call] = "none"
           /\ \A q \in AtHost : q # r => q.call # r.call
    BY <1>1 DEF Belongs
  <2> QED
    BY <2>1, <2>3, <2>7, <2>8, <2>10, <2>11 DEF Belongs
<1>3. CASE HostAnswer
  <2>1. PICK r \in AtHost :
          /\ AtHost' = AtHost \ {r}
          /\ \A c \in Calls : c # r.call => answered'[c] = answered[c]
    BY <1>1, <1>3, AnswerOf DEF RequestInv
  <2>2. UNCHANGED <<pc, kind, call, slot, rid, ncalls>>
    BY <1>3, AnswerStill
  <2>3. \A u \in Threads : /\ Active(u)' <=> Active(u)
                           /\ Past(u)' <=> Past(u)
                           /\ Waiting(u)' <=> Waiting(u)
    BY <2>2 DEF Active, Past, Waiting
  <2> QED
    BY <1>1, <2>1, <2>2, <2>3 DEF Belongs
<1>4. CASE ~HostAnswer /\ \A t \in Threads : ~Send(t)
  <2>1. AtHost' \subseteq AtHost /\ answered' = answered
    BY <1>4, OthersShrink, OnlyTheseChange
  <2>2. ncalls' >= ncalls /\ ncalls' \in Nat
    <3>1. CASE \E t \in Threads, k \in Kinds : Call(t, k)
      BY <1>1, <3>1 DEF Call
    <3>2. CASE ncalls' = ncalls
      BY <1>1, <3>2
    <3> QED
      BY <3>1, <3>2, OnlyTheseChange
  <2>3. ASSUME NEW r \in AtHost, NEW u \in Threads, Active(u)', r.call = call'[u]
        PROVE  Past(u)' /\ r.kind = kind'[u] /\ r.slot = slot'[u]
    <3>1. \A k \in Kinds : ~Call(u, k)
      BY <1>1, <2>3 DEF Call, Belongs, TypeOK, ThreadTypeOK
    <3>2. ~AcquireStopped(u) /\ ~Release(u)
      BY <2>3, ReleaseLeaves DEF Active, AcquireStopped, TypeOK, ThreadTypeOK
    <3>3. /\ call'[u] = call[u] /\ kind'[u] = kind[u] /\ Active(u)
          /\ Past(u) => Past(u)' /\ slot'[u] = slot[u]
      BY <2>3, <3>1, <3>2, SameCall DEF Active
    <3> QED
      BY <1>1, <2>3, <3>3 DEF Belongs
  <2>4. ASSUME NEW r \in AtHost, NEW u \in Threads, Waiting(u)', r.id = rid'[u]
        PROVE  r.call = call'[u]
    BY <1>1, <1>4, <2>4, NamedFrom DEF Belongs
  <2>5. \A r \in AtHost :
           /\ r.call <= ncalls /\ answered[r.call] = "none"
           /\ \A q \in AtHost : q # r => q.call # r.call
    BY <1>1 DEF Belongs
  <2>6. \A r \in AtHost : r.call <= ncalls'
    BY <1>1, <2>2, <2>5
  <2> QED
    BY <2>1, <2>3, <2>4, <2>5, <2>6 DEF Belongs
<1> QED
  BY <1>2, <1>3, <1>4

\* Without an answer of the host nobody is served who was not.
LEMMA ServedFrom ==
  ASSUME TypeOK, SlotInv, PixelInv, [Next]_vars, ~HostAnswer,
         NEW u \in Threads, Served(u)'
  PROVE  /\ Served(u) /\ call'[u] = call[u] /\ kind'[u] = kind[u]
         /\ slot'[u] = slot[u]
         /\ pc'[u] # "release" => pc[u] # "release"
<1>1. /\ Active(u) /\ call'[u] = call[u] /\ kind'[u] = kind[u]
      /\ slot'[u] = slot[u]
      /\ pc'[u] # "release" => pc[u] # "release"
  BY PastFrom DEF Served
<1>2. answered[call[u]] = "good"
  BY <1>1, OnlyTheseChange DEF Served
<1>3. Past(u)
  BY <1>1, <1>2 DEF PixelInv, CallsApart
<1> QED
  BY <1>1, <1>2, <1>3 DEF Served

\* An answer serves the thread whose call it was, and no other.
LEMMA ServedBy ==
  ASSUME TypeOK, SlotInv, RequestInv, PixelInv, [Next]_vars, HostAnswer,
         NEW u \in Threads, Served(u)', NEW r \in AtHost,
         \A c \in Calls : c # r.call => answered'[c] = answered[c]
  PROVE  /\ Served(u) \/ (r.call = call[u] /\ r.kind = kind[u] /\ r.slot = slot[u])
         /\ r.call # call[u] => Served(u)
<1>1. Past(u) /\ Past(u)' /\ call'[u] = call[u] /\ answered'[call[u]] = "good"
  BY AnswerStill DEF Served, Past
<1>2. Active(u) /\ call[u] \in Calls
  BY <1>1 DEF Past, Active, SlotInv, InCall
<1>3. CASE r.call # call[u]
  BY <1>1, <1>2, <1>3 DEF Served
<1>4. CASE r.call = call[u]
  BY <1>2, <1>4 DEF PixelInv, Belongs
<1> QED
  BY <1>3, <1>4

\* Once a thread is served, no request in the host's hands names its slot:
\* only a send could add one, and a sender holds a slot of its own.
LEMMA AloneNext ==
  ASSUME TypeOK, SlotInv, RequestInv, PixelInv, [Next]_vars
  PROVE  Alone'
<1> SUFFICES ASSUME NEW u \in Threads, Served(u)', NEW q \in AtHost',
                    q.kind = kind'[u]
             PROVE  q.slot # slot'[u]
  BY DEF Alone
<1>1. CASE ~HostAnswer
  <2>1. Served(u) /\ kind'[u] = kind[u] /\ slot'[u] = slot[u]
    BY <1>1, ServedFrom
  <2>2. CASE q \in AtHost
    BY <2>1, <2>2 DEF PixelInv, Alone
  <2>3. CASE q \notin AtHost
    <3>1. PICK t \in Threads : Send(t)
      BY <1>1, <2>3, OthersShrink
    <3>2. q = [id |-> rid[t], call |-> call[t], kind |-> kind[t], slot |-> slot[t]]
      BY <2>3, <3>1, SendGrows
    <3>3. t # u /\ Holds(t) /\ Holds(u)
      BY <2>1, <3>1 DEF Send, Served, Past, Holds
    <3> QED
      BY <2>1, <3>2, <3>3 DEF SlotInv, SlotsAccounted
  <2> QED
    BY <2>2, <2>3
<1>2. CASE HostAnswer
  <2>1. PICK r \in AtHost :
          /\ AtHost' = AtHost \ {r}
          /\ \A c \in Calls : c # r.call => answered'[c] = answered[c]
    BY <1>2, AnswerOf DEF RequestInv, TypeOK, HostTypeOK
  <2>2. kind' = kind /\ slot' = slot
    BY <1>2, AnswerStill
  <2>3. CASE Served(u)
    BY <2>1, <2>2, <2>3 DEF PixelInv, Alone
  <2>4. CASE r.kind = kind[u] /\ r.slot = slot[u]
    BY <2>1, <2>2, <2>4 DEF RequestInv, OneRequestPerSlot
  <2> QED
    BY <1>2, <2>1, <2>3, <2>4, ServedBy
<1> QED
  BY <1>1, <1>2

\* What a served call was promised stays in its slot until it is taken.
LEMMA ArrivedNext ==
  ASSUME TypeOK, SlotInv, RequestInv, PixelInv, [Next]_vars
  PROVE  Arrived'
<1> SUFFICES ASSUME NEW u \in Threads, Served(u)'
             PROVE  /\ kind'[u] = "band" /\ pc'[u] # "release" =>
                         shm'["band"][slot'[u]] = call'[u]
                    /\ kind'[u] = "output" => collected'[call'[u]] = call'[u]
  BY DEF Arrived
<1>1. /\ shm \in [Kinds -> [AllSlots -> Contents]]
      /\ collected \in [Calls -> Contents]
      /\ answered \in [Calls -> {"none", "good", "bad"}]
      /\ AtHost \in SUBSET Requests
  BY AtHostType DEF TypeOK, HostTypeOK
<1>2. CASE ~HostAnswer
  <2>1. /\ Served(u) /\ call'[u] = call[u] /\ kind'[u] = kind[u]
        /\ slot'[u] = slot[u] /\ collected' = collected
        /\ pc'[u] # "release" => pc[u] # "release"
    BY <1>2, ServedFrom, OnlyTheseChange
  <2>2. kind[u] = "band" => shm'["band"][slot[u]] = shm["band"][slot[u]]
    <3>1. CASE shm' = shm
      BY <3>1
    <3>2. ASSUME NEW t \in Threads, FillOutput(t)
          PROVE  shm'["band"][slot[u]] = shm["band"][slot[u]]
      BY <1>1, <3>2 DEF FillOutput
    <3>3. CASE HostTake
      <4>1. Head(outPipe) \in AtHost
        BY <3>3 DEF HostTake, AtHost, TypeOK, HostTypeOK
      <4>2. CASE Head(outPipe).kind # "band"
        BY <3>3, <4>2 DEF HostTake
      <4>3. CASE Head(outPipe).kind = "band" /\ kind[u] = "band"
        <5>1. Head(outPipe).slot # slot[u] /\ Head(outPipe).slot \in AllSlots
          BY <1>1, <2>1, <4>1, <4>3 DEF PixelInv, Alone, Requests
        <5>2. shm' = [shm EXCEPT !["band"][Head(outPipe).slot] = Torn]
          BY <3>3, <4>3 DEF HostTake
        <5> QED
          BY <1>1, <5>1, <5>2
      <4> QED
        BY <4>2, <4>3
    <3> QED
      BY <1>2, <3>1, <3>2, <3>3, OnlyTheseChange
  <2> QED
    BY <2>1, <2>2 DEF PixelInv, Arrived
<1>3. CASE HostAnswer
  <2>1. PICK r \in AtHost, a \in AllAnswers :
          /\ a \in Answers(r.kind)
          /\ shm' = IF a = "band" THEN [shm EXCEPT !["band"][r.slot] = r.call]
                    ELSE shm
          /\ collected' = IF a = "ack"
                          THEN [collected EXCEPT ![r.call] = shm["output"][r.slot]]
                          ELSE collected
          /\ answered' = [answered EXCEPT ![r.call] =
                            IF a = Good(r.kind) THEN "good" ELSE "bad"]
    BY <1>3, AnswerOf DEF RequestInv
  <2>2. UNCHANGED <<pc, kind, call, slot>>
    BY <1>3, AnswerStill
  <2>3. /\ r \in Requests /\ r.call \in Calls /\ r.slot \in AllSlots
        /\ r.kind \in Kinds
        /\ a = "band" => r.kind = "band"
        /\ a = "ack" => r.kind = "output"
    BY <1>1, <2>1 DEF Requests, Answers
  <2>4. \A c \in Calls : c # r.call => answered'[c] = answered[c]
    BY <1>1, <2>1
  <2>5. CASE r.call = call[u]
    <3>1. r.kind = kind[u] /\ r.slot = slot[u]
      <4>1. Active(u)
        BY <2>2 DEF Served, Past, Active
      <4> QED
        BY <2>5, <4>1 DEF PixelInv, Belongs
    <3>2. answered'[r.call] = "good"
      BY <2>2, <2>5 DEF Served
    <3>3. a = Good(kind[u])
      BY <1>1, <2>1, <2>3, <3>1, <3>2
    <3>4. CASE kind[u] = "band"
      BY <1>1, <2>1, <2>2, <2>3, <2>5, <3>1, <3>3, <3>4 DEF Good
    <3>5. CASE kind[u] = "output"
      <4>1. shm["output"][r.slot] = r.call
        BY <3>1, <3>5 DEF PixelInv, OutputIntact
      <4> QED
        BY <1>1, <2>1, <2>2, <2>3, <2>5, <3>3, <3>5, <4>1 DEF Good
    <3> QED
      BY <2>2, <3>4, <3>5 DEF TypeOK, ThreadTypeOK
  <2>6. CASE r.call # call[u]
    <3>1. Served(u)
      BY <1>3, <2>4, <2>6, ServedBy
    <3>2. call[u] \in Calls
      BY <3>1 DEF Served, Past, SlotInv, InCall
    <3>3. r.kind = kind[u] => r.slot # slot[u]
      BY <3>1 DEF PixelInv, Alone
    <3>4. kind[u] = "band" => shm'["band"][slot[u]] = shm["band"][slot[u]]
      BY <1>1, <2>1, <2>3, <3>3
    <3>5. collected'[call[u]] = collected[call[u]]
      BY <1>1, <2>1, <2>3, <2>6, <3>2
    <3> QED
      BY <2>2, <3>1, <3>4, <3>5 DEF PixelInv, Arrived
  <2> QED
    BY <2>5, <2>6
<1> QED
  BY <1>2, <1>3

\* What a wait concluded is what the host decided, or the link stopped.
LEMMA JudgedNext ==
  ASSUME TypeOK, SlotInv, RequestInv, PixelInv, [Next]_vars
  PROVE  Judged'
<1> DEFINE Ends(v, c) == \/ v \in {"good", "bad"} /\ answered[c] = v
                         \/ v = "stopped" /\ Stopped
<1> SUFFICES ASSUME NEW u \in Threads
             PROVE  /\ pc'[u] \in {"unregister", "take", "release"} =>
                         Ends(verdict[u], call[u])'
                    /\ pc'[u] = "take" => verdict'[u] = "good" /\ kind'[u] = "band"
                    /\ pc'[u] = "release" /\ verdict'[u] = "good" /\ kind'[u] = "band"
                         => dst'[call'[u]] = call'[u]
  BY DEF Judged
<1>1. /\ pc \in [Threads -> PCs] /\ verdict \in [Threads -> {"none", "good", "bad", "stopped"}]
      /\ dst \in [Calls -> Contents] /\ box \in [Ids -> AllAnswers \cup {"none"}]
      /\ answered \in [Calls -> {"none", "good", "bad"}]
      /\ kind \in [Threads -> Kinds] /\ rid[u] \in Ids
  BY DEF TypeOK, ThreadTypeOK, HostTypeOK, LinkTypeOK
<1>2. pc[u] # "idle" => call[u] \in Calls
  BY DEF SlotInv, InCall
<1>3. ASSUME call[u] \in Calls, answered[call[u]] # "none"
      PROVE  answered'[call[u]] = answered[call[u]]
  <2>1. CASE HostAnswer
    <3>1. PICK r \in AtHost : \A c \in Calls : c # r.call => answered'[c] = answered[c]
      BY <1>1, <2>1, AnswerOf DEF RequestInv
    <3>2. r.call # call[u]
      BY <1>3 DEF PixelInv, Belongs
    <3> QED
      BY <1>3, <3>1, <3>2
  <2>2. CASE ~HostAnswer
    BY <2>2, OnlyTheseChange
  <2> QED
    BY <2>1, <2>2
<1>4. ASSUME pc[u] \in {"unregister", "take", "release"}, call'[u] = call[u],
             verdict'[u] = verdict[u]
      PROVE  Ends(verdict[u], call[u])'
  <2>1. Ends(verdict[u], call[u]) /\ call[u] \in Calls
    BY <1>2, <1>4 DEF PixelInv, Judged
  <2>2. Stopped => Stopped'
    BY StoppedStays
  <2> QED
    BY <1>3, <1>4, <2>1, <2>2
<1>5. ASSUME Still(u), pc'[u] \in {"unregister", "take", "release"}
      PROVE  /\ Ends(verdict[u], call[u])'
             /\ pc'[u] = "take" => verdict'[u] = "good" /\ kind'[u] = "band"
             /\ pc'[u] = "release" /\ verdict'[u] = "good" /\ kind'[u] = "band"
                  => dst'[call'[u]] = call'[u]
  <2>1. pc'[u] = pc[u] /\ UNCHANGED <<call[u], kind[u], verdict[u]>>
    BY <1>5 DEF Still
  <2>2. Ends(verdict[u], call[u])'
    BY <1>4, <1>5, <2>1
  <2>3. dst'[call[u]] = dst[call[u]]
    <3>1. ASSUME NEW t \in Threads, TakeBand(t) PROVE dst'[call[u]] = dst[call[u]]
      <4>1. t # u \/ pc[u] = "take"
        BY <3>1 DEF TakeBand
      <4>2. t # u
        BY <1>1, <1>5, <2>1, <3>1 DEF TakeBand, Still
      <4>3. call[t] # call[u]
        BY <1>5, <2>1, <3>1, <4>2 DEF TakeBand, PixelInv, CallsApart, Active
      <4>4. call[u] \in Calls
        BY <1>2, <1>5, <2>1
      <4> QED
        BY <1>1, <3>1, <4>3, <4>4 DEF TakeBand
    <3> QED
      BY <3>1, OnlyTheseChange
  <2> QED
    BY <1>5, <2>1, <2>2, <2>3 DEF PixelInv, Judged
<1>6. CASE WaitReply(u)
  <2> DEFINE a == box[rid[u]]
  <2>1. /\ Waiting(u) /\ a # "none" /\ pc'[u] = "unregister"
        /\ verdict'[u] = IF a = Good(kind[u]) THEN "good" ELSE "bad"
        /\ call' = call /\ answered' = answered
    BY <1>1, <1>6 DEF WaitReply, Waiting, hostVars
  <2>2. a \in AllAnswers /\ <<rid[u], a>> \in Letters
    BY <1>1, <2>1 DEF Letters
  <2>3. answered[call[u]] = IF a = Good(kind[u]) THEN "good" ELSE "bad"
    BY <2>1, <2>2 DEF PixelInv, Lettered
  <2> QED
    BY <2>1, <2>3
<1>7. CASE WaitStopped(u) \/ SendFails(u)
  <2>1. verdict'[u] = "stopped" /\ Stopped /\ pc'[u] = "unregister"
    BY <1>1, <1>7 DEF WaitStopped, SendFails, Stopped
  <2> QED
    BY <2>1, StoppedStays
<1>8. CASE CheckCancelled(u)
  <2>1. \/ pc'[u] \in {"fill", "register"}
        \/ verdict'[u] = "stopped" /\ Stopped /\ pc'[u] = "release"
    BY <1>1, <1>8 DEF CheckCancelled, Stopped
  <2> QED
    BY <2>1, StoppedStays
<1>9. CASE Unregister(u)
  <2>1. /\ pc[u] = "unregister" /\ UNCHANGED <<kind, call, verdict>>
        /\ pc'[u] = IF verdict[u] = "good" /\ kind[u] = "band" THEN "take"
                    ELSE "release"
    BY <1>1, <1>9 DEF Unregister
  <2> QED
    BY <1>4, <2>1
<1>10. CASE TakeBand(u)
  <2>1. /\ pc[u] = "take" /\ UNCHANGED <<kind, call, verdict, answered>>
        /\ pc'[u] = "release" /\ call[u] \in Calls
        /\ dst'[call[u]] = shm["band"][slot[u]]
    BY <1>1, <1>2, <1>10 DEF TakeBand, hostVars
  <2>2. verdict[u] = "good" /\ kind[u] = "band" /\ answered[call[u]] = "good"
    BY <2>1 DEF PixelInv, Judged
  <2>3. shm["band"][slot[u]] = call[u]
    BY <2>1, <2>2 DEF PixelInv, Arrived, Served, Past
  <2> QED
    BY <2>1, <2>2, <2>3
<1>11. CASE \/ \E k \in Kinds : Call(u, k)
            \/ AcquireSlot(u) \/ AcquireStopped(u) \/ FillOutput(u)
            \/ Register(u) \/ Send(u) \/ Release(u)
  <2>1. pc'[u] \notin {"unregister", "take", "release"}
    BY <1>1, <1>11, ReleaseLeaves DEF Call, AcquireSlot, AcquireStopped,
       FillOutput, Register, Send
  <2> QED
    BY <2>1
<1> QED
  BY <1>5, <1>6, <1>7, <1>8, <1>9, <1>10, <1>11, OthersStill DEF Moves

\* A letter on its way names the id of a reply.
LEMMA LetterIds ==
  ASSUME NEW l \in Letters
  PROVE  l[1] \in ReplyIds
BY DEF Letters, ReplyIds, Replied

\* A reply on its way to a thread says what the host decided of its call.
LEMMA LetteredNext ==
  ASSUME TypeOK, SlotInv, RequestInv, PixelInv, [Next]_vars
  PROVE  Lettered'
<1> SUFFICES ASSUME NEW u \in Threads, Waiting(u)', NEW a \in AllAnswers,
                    <<rid'[u], a>> \in Letters'
             PROVE  answered'[call'[u]] =
                      IF a = Good(kind'[u]) THEN "good" ELSE "bad"
  BY DEF Lettered, Good
<1>1. /\ rid'[u] = rid[u] /\ call'[u] = call[u] /\ kind'[u] = kind[u]
      /\ Send(u) \/ Waiting(u)
  BY NamedFrom
<1>2. CASE Send(u)
  <2>1. ~HostAnswer
    BY <1>2, AnswerStill DEF Send, TypeOK, ThreadTypeOK
  <2>2. rid[u] \in ReplyIds
    BY <1>1, <2>1, LettersShrink, LetterIds
  <2> QED
    BY <1>2, <2>2 DEF Send, RequestInv, Fresh
<1>3. CASE Waiting(u) /\ ~HostAnswer
  <2>1. <<rid[u], a>> \in Letters /\ answered' = answered
    BY <1>1, <1>3, LettersShrink, OnlyTheseChange
  <2> QED
    BY <1>1, <1>3, <2>1 DEF PixelInv, Lettered
<1>4. CASE Waiting(u) /\ HostAnswer
  <2>1. PICK r \in AtHost, b \in AllAnswers :
          /\ Letters' \subseteq Letters \cup {<<r.id, b>>}
          /\ answered' = [answered EXCEPT ![r.call] =
                            IF b = Good(r.kind) THEN "good" ELSE "bad"]
    BY <1>4, AnswerOf DEF RequestInv
  <2>2. /\ answered \in [Calls -> {"none", "good", "bad"}]
        /\ call[u] \in Calls /\ r.call \in Calls
    BY <1>4, AtHostType
      DEF TypeOK, HostTypeOK, Waiting, SlotInv, InCall, Requests
  <2>3. CASE <<rid[u], a>> \in Letters
    <3>1. answered[call[u]] = IF a = Good(kind[u]) THEN "good" ELSE "bad"
      BY <1>4, <2>3 DEF PixelInv, Lettered
    <3>2. r.call # call[u]
      BY <3>1 DEF PixelInv, Belongs
    <3> QED
      BY <1>1, <2>1, <2>2, <3>1, <3>2
  <2>4. CASE r.id = rid[u] /\ a = b
    <3>1. r.call = call[u] /\ r.kind = kind[u]
      BY <1>4, <2>4 DEF PixelInv, Belongs, Waiting, Active
    <3> QED
      BY <1>1, <2>1, <2>2, <2>4, <3>1
  <2> QED
    BY <1>1, <2>1, <2>3, <2>4
<1> QED
  BY <1>1, <1>2, <1>3, <1>4

\* Only the copy of the rows writes an output slot, and it writes that of a
\* thread whose request is not out yet.
LEMMA OutputSlotOf ==
  ASSUME TypeOK, [Next]_vars, NEW s \in AllSlots,
         shm'["output"][s] # shm["output"][s]
  PROVE  \E t \in Threads : FillOutput(t) /\ slot[t] = s
<1>1. shm \in [Kinds -> [AllSlots -> Contents]] /\ AtHost \in SUBSET Requests
  BY AtHostType DEF TypeOK, HostTypeOK
<1>2. ASSUME NEW t \in Threads, FillOutput(t) PROVE slot[t] = s
  BY <1>1, <1>2 DEF FillOutput
<1>3. CASE HostTake
  BY <1>1, <1>3 DEF HostTake
<1>4. CASE HostAnswer
  BY <1>1, <1>4 DEF HostAnswer
<1> QED
  BY <1>2, <1>3, <1>4, OnlyTheseChange

\* From the copy into the slot to the send, the slot holds what the call sends:
\* the host writes only where a request in its hands points.
LEMMA FilledNext ==
  ASSUME TypeOK, SlotInv, PixelInv, [Next]_vars
  PROVE  Filled'
<1>0. ASSUME NEW u \in Threads, pc'[u] = "fill" PROVE kind'[u] = "output"
  <2>1. CASE Still(u)
    BY <1>0, <2>1 DEF Still, Waiting, PixelInv, Filled
  <2>2. CASE Moves(u) /\ ~Release(u)
    BY <1>0, <2>2 DEF Moves, TypeOK, ThreadTypeOK, Call, AcquireSlot,
       AcquireStopped, CheckCancelled, FillOutput, Register, Send, SendFails,
       WaitReply, WaitStopped, Unregister, TakeBand
  <2> QED
    BY <1>0, <2>1, <2>2, ReleaseLeaves, OthersStill
<1> SUFFICES ASSUME NEW u \in Threads, pc'[u] \in {"register", "send"},
                    kind'[u] = "output"
             PROVE  shm'["output"][slot'[u]] = call'[u]
  BY <1>0 DEF Filled
<1>1. CASE FillOutput(u)
  <2>1. slot[u] \in AllSlots /\ shm \in [Kinds -> [AllSlots -> Contents]]
    BY <1>1, AssumptionFacts DEF FillOutput, SlotInv, InCall, Holds, TypeOK,
       HostTypeOK, ThreadTypeOK
  <2> QED
    BY <1>1, <2>1 DEF FillOutput
<1>2. CASE ~FillOutput(u)
  <2>1. /\ pc[u] \in {"register", "send"} /\ kind[u] = "output"
        /\ slot'[u] = slot[u] /\ call'[u] = call[u]
    <3>1. CASE Still(u)
      BY <3>1 DEF Still, Waiting
    <3>2. CASE Moves(u) /\ ~Release(u)
      BY <1>2, <3>2 DEF Moves, TypeOK, ThreadTypeOK, Call, AcquireSlot,
         AcquireStopped, CheckCancelled, Register, Send, SendFails,
         WaitReply, WaitStopped, Unregister, TakeBand
    <3> QED
      BY <3>1, <3>2, ReleaseLeaves, OthersStill
  <2>2. Holds(u) /\ slot[u] \in AllSlots
    BY <2>1, AssumptionFacts DEF Holds, SlotInv, InCall, TypeOK, ThreadTypeOK
  <2>3. ASSUME NEW t \in Threads, FillOutput(t) PROVE slot[t] # slot[u]
    <3>1. Holds(t) /\ t # u /\ kind[t] = "output"
      BY <1>2, <2>3 DEF FillOutput, Holds, PixelInv, Filled
    <3> QED
      BY <2>1, <2>2, <3>1 DEF SlotInv, SlotsAccounted
  <2> QED
    BY <2>1, <2>2, <2>3, OutputSlotOf DEF PixelInv, Filled
<1> QED
  BY <1>1, <1>2

\* The host reads from an output slot the rows its request is about.
LEMMA OutputIntactNext ==
  ASSUME TypeOK, SlotInv, RequestInv, PixelInv, [Next]_vars
  PROVE  OutputIntact'
<1>1. /\ AtHost \in SUBSET Requests /\ collected \in [Calls -> Contents]
      /\ shm \in [Kinds -> [AllSlots -> Contents]]
  BY AtHostType DEF TypeOK, HostTypeOK
<1>2. ASSUME NEW r \in AtHost', r.kind = "output"
      PROVE  shm'["output"][r.slot] = r.call
  <2>1. CASE r \in AtHost
    <3>1. shm["output"][r.slot] = r.call /\ r.slot \in AllSlots
      BY <1>1, <1>2, <2>1 DEF PixelInv, OutputIntact, Requests
    <3>2. ASSUME NEW t \in Threads, FillOutput(t) PROVE slot[t] # r.slot
      <4>1. Unsent(t) /\ kind[t] = r.kind
        BY <1>2, <3>2 DEF FillOutput, Unsent, PixelInv, Filled
      <4> QED
        BY <2>1, <4>1 DEF RequestInv, SlotUnsent
    <3> QED
      BY <3>1, <3>2, OutputSlotOf
  <2>2. CASE r \notin AtHost
    <3>1. PICK t \in Threads : Send(t)
      BY <2>2, OthersShrink, AnswerMoves DEF RequestInv
    <3>2. r = [id |-> rid[t], call |-> call[t], kind |-> kind[t], slot |-> slot[t]]
      BY <2>2, <3>1, SendGrows
    <3>3. shm' = shm /\ shm["output"][slot[t]] = call[t]
      BY <1>2, <3>1, <3>2 DEF Send, PixelInv, Filled
    <3> QED
      BY <3>2, <3>3
  <2> QED
    BY <2>1, <2>2
<1>3. ASSUME NEW c \in Calls PROVE collected'[c] \in {Empty, c}
  <2>1. collected[c] \in {Empty, c}
    BY DEF PixelInv, OutputIntact
  <2>2. CASE HostAnswer
    <3>1. PICK r \in AtHost, a \in AllAnswers :
            /\ a \in Answers(r.kind)
            /\ collected' = IF a = "ack"
                            THEN [collected EXCEPT ![r.call] = shm["output"][r.slot]]
                            ELSE collected
      BY <2>2, AnswerOf DEF RequestInv
    <3>2. a = "ack" => shm["output"][r.slot] = r.call
      BY <1>1, <3>1 DEF PixelInv, OutputIntact, Answers, Requests
    <3> QED
      BY <1>1, <2>1, <3>1, <3>2
  <2> QED
    BY <2>1, <2>2, OnlyTheseChange
<1> QED
  BY <1>2, <1>3 DEF OutputIntact

\* What is said of a call that returned Ok stays true.
LEMMA OkMeansDoneNext ==
  ASSUME TypeOK, SlotInv, RequestInv, PixelInv, [Next]_vars
  PROVE  OkMeansDone'
<1> SUFFICES ASSUME NEW c \in Calls, outcome'[c] = "ok"
             PROVE  answered'[c] = "good" /\ (collected'[c] = c \/ dst'[c] = c)
  BY DEF OkMeansDone
<1>1. /\ outcome \in [Calls -> {"none", "ok", "err"}]
      /\ answered \in [Calls -> {"none", "good", "bad"}]
      /\ collected \in [Calls -> Contents] /\ dst \in [Calls -> Contents]
  BY DEF TypeOK, ThreadTypeOK, HostTypeOK
<1>2. CASE outcome[c] = "ok"
  <2>1. answered[c] = "good" /\ (collected[c] = c \/ dst[c] = c)
    BY <1>2 DEF PixelInv, OkMeansDone
  <2>2. dst'[c] = dst[c]
    <3>1. ASSUME NEW t \in Threads, TakeBand(t) PROVE dst'[c] = dst[c]
      <4>1. call[t] # c
        BY <1>2, <3>1 DEF TakeBand, Active, PixelInv, CallsApart
      <4> QED
        BY <1>1, <3>1, <4>1 DEF TakeBand
    <3> QED
      BY <3>1, OnlyTheseChange
  <2>3. answered'[c] = answered[c] /\ collected'[c] = collected[c]
    <3>1. CASE HostAnswer
      <4>1. PICK r \in AtHost, a \in AllAnswers :
              /\ collected' = IF a = "ack"
                              THEN [collected EXCEPT ![r.call] = shm["output"][r.slot]]
                              ELSE collected
              /\ answered' = [answered EXCEPT ![r.call] =
                                IF a = Good(r.kind) THEN "good" ELSE "bad"]
        BY <3>1, AnswerOf DEF RequestInv
      <4>2. r.call # c
        BY <2>1 DEF PixelInv, Belongs
      <4> QED
        BY <1>1, <4>1, <4>2
    <3> QED
      BY <3>1, OnlyTheseChange
  <2> QED
    BY <2>1, <2>2, <2>3
<1>3. CASE outcome[c] # "ok"
  <2>1. PICK t \in Threads : AcquireStopped(t) \/ Release(t)
    BY <1>3, OnlyTheseChange
  <2>2. Release(t) /\ c = call[t] /\ verdict[t] = "good"
    BY <1>1, <1>3, <2>1 DEF AcquireStopped, Release
  <2>3. pc[t] = "release" /\ UNCHANGED <<dst, answered, collected>>
    BY <2>2 DEF Release, hostVars
  <2>4. answered[c] = "good" /\ Served(t)
    BY <2>2, <2>3 DEF PixelInv, Judged, Served, Past
  <2>5. kind[t] = "band" => dst[c] = c
    BY <2>2, <2>3 DEF PixelInv, Judged
  <2>6. kind[t] = "output" => collected[c] = c
    BY <2>2, <2>4 DEF PixelInv, Arrived
  <2> QED
    BY <2>3, <2>4, <2>5, <2>6 DEF TypeOK, ThreadTypeOK
<1> QED
  BY <1>2, <1>3

\* At first there is no call to be wrong about.
LEMMA PixelInit == Init => PixelInv
<1> SUFFICES ASSUME Init PROVE PixelInv
  OBVIOUS
<1>1. AtHost = {} /\ \A t \in Threads : pc[t] = "idle"
  BY DEF Init, AtHost
<1>2. CallsApart
  BY <1>1, AssumptionFacts DEF Init, CallsApart, Active, Past
<1>3. IdsApart /\ Belongs /\ Alone /\ Arrived /\ Judged /\ Lettered /\ Filled
  BY <1>1 DEF IdsApart, Named, Belongs, Alone, Arrived, Served, Past, Judged,
     Lettered, Waiting, Filled
<1>4. OutputIntact /\ OkMeansDone
  BY <1>1 DEF Init, OutputIntact, OkMeansDone
<1> QED
  BY <1>2, <1>3, <1>4 DEF PixelInv

\* The parts together are inductive, given the types, the pools and the
\* requests.
LEMMA PixelStep ==
  ASSUME TypeOK, SlotInv, RequestInv, PixelInv, [Next]_vars
  PROVE  PixelInv'
BY CallsApartNext, IdsApartNext, BelongsNext, AloneNext, ArrivedNext,
   JudgedNext, LetteredNext, FilledNext, OutputIntactNext, OkMeansDoneNext
   DEF PixelInv

\* What the host promised of a call stays true until its thread has taken it:
\* a call, its thread and its id belong together, and an answered call has no
\* request left that could overwrite its slot.
THEOREM PixelsInductive == Spec => []PixelInv
<1>1. Init => PixelInv
  BY PixelInit
<1>2. TypeOK /\ SlotInv /\ RequestInv /\ PixelInv /\ [Next]_vars => PixelInv'
  BY PixelStep
<1> QED
  BY <1>1, <1>2, SlotsInductive, RequestsInductive, PTL DEF Spec

\* Pixels keep their place, for any number of threads, slots, calls, cancels
\* and lost hosts: request_band copies the very band it asked for, the host
\* collects the very rows send_output_band was given, and a call that says Ok
\* had its effect, though slots are reused, replies come in any order and
\* callers give up while the host is still at work.
THEOREM PixelsAlwaysIntact == Spec => []PixelsIntact
<1>1. TypeOK /\ PixelInv => PixelsIntact
  <2> SUFFICES ASSUME TypeOK, PixelInv PROVE PixelsIntact
    OBVIOUS
  <2>1. ASSUME NEW t \in Threads, pc[t] = "take"
        PROVE  shm["band"][slot[t]] = call[t]
    <3>1. Served(t) /\ kind[t] = "band"
      BY <2>1 DEF PixelInv, Judged, Served, Past
    <3> QED
      BY <2>1, <3>1 DEF PixelInv, Arrived
  <2> QED
    BY <2>1 DEF PixelsIntact, BandIntact, PixelInv
<1> QED
  BY <1>1, SlotsInductive, PixelsInductive, PTL

-----------------------------------------------------------------------------
(***************************************************************************)
(* HostLink implements BandService: what a thread is told of a call is     *)
(* what the host decided of that call, or that the link stopped.           *)
(***************************************************************************)

OpenCalls == [t \in Threads |-> IF pc[t] = "idle" THEN 0 ELSE call[t]]

\* A link without calls is a service without calls.
LEMMA ServiceInit == Init => Service!Init
BY DEF Init, Service!Init, Calls, Service!Calls

\* Entering a call opens it: nobody has done this work yet.
LEMMA CallOpens ==
  ASSUME TypeOK, SlotInv, RequestInv, PixelInv, [Next]_vars,
         NEW t \in Threads, NEW k \in Kinds, Call(t, k)
  PROVE  Service!Open(t)
<1> DEFINE c == ncalls + 1
<1>1. /\ pc[t] = "idle" /\ pc'[t] = "acquire" /\ call'[t] = c
      /\ UNCHANGED <<outcome, answered, cancelled, shutdown, outOpen>>
      /\ c \in Calls
  BY AssumptionFacts DEF Call, linkVars, hostVars, TypeOK, ThreadTypeOK
<1>2. \A u \in Threads \ {t} : /\ call'[u] = call[u]
                               /\ pc'[u] = "idle" <=> pc[u] = "idle"
  BY OneMoves DEF Moves, Still, Waiting
<1>3. outcome[c] = "none" /\ answered[c] = "none"
  BY <1>1 DEF PixelInv, CallsApart, TypeOK, ThreadTypeOK
<1>4. \A u \in Threads : OpenCalls[u] # c
  BY <1>1 DEF OpenCalls, PixelInv, CallsApart, Active, TypeOK, ThreadTypeOK
<1>5. OpenCalls[t] = 0
  BY <1>1 DEF OpenCalls
<1>6. OpenCalls' = [OpenCalls EXCEPT ![t] = c]
  BY <1>1, <1>2 DEF OpenCalls
<1> HIDE DEF c
<1> QED
  BY <1>1, <1>3, <1>4, <1>5, <1>6 DEF Service!Open, OpenCalls, Service!Calls

\* Leaving it returns what the host decided, or Err of a link that stopped.
LEMMA LeavingReturns ==
  ASSUME TypeOK, SlotInv, RequestInv, PixelInv, [Next]_vars,
         NEW t \in Threads, AcquireStopped(t) \/ Release(t)
  PROVE  Service!Return(t)
<1>1. /\ pc[t] # "idle" /\ pc'[t] = "idle"
      /\ UNCHANGED <<answered, cancelled, shutdown, outOpen>>
  BY ReleaseLeaves DEF AcquireStopped, Release, linkVars, hostVars, TypeOK,
     ThreadTypeOK
<1>2. \A u \in Threads \ {t} : /\ call'[u] = call[u]
                               /\ pc'[u] = "idle" <=> pc[u] = "idle"
  BY OneMoves DEF Moves, Still, Waiting
<1>3. OpenCalls[t] = call[t] /\ call[t] # 0
  BY <1>1, AssumptionFacts DEF OpenCalls, SlotInv, InCall
<1>4. OpenCalls' = [OpenCalls EXCEPT ![t] = 0]
  BY <1>1, <1>2 DEF OpenCalls
<1>5. \/ /\ answered[call[t]] = "good"
         /\ outcome' = [outcome EXCEPT ![call[t]] = "ok"]
      \/ /\ answered[call[t]] = "bad" \/ Stopped
         /\ outcome' = [outcome EXCEPT ![call[t]] = "err"]
  <2>1. CASE AcquireStopped(t)
    BY <2>1 DEF AcquireStopped, Stopped
  <2>2. CASE Release(t)
    <3>1. \/ verdict[t] \in {"good", "bad"} /\ answered[call[t]] = verdict[t]
          \/ verdict[t] = "stopped" /\ Stopped
      BY <2>2 DEF Release, PixelInv, Judged
    <3> QED
      BY <2>2, <3>1 DEF Release
  <2> QED
    BY <2>1, <2>2
<1> QED
  BY <1>1, <1>3, <1>4, <1>5 DEF Service!Return, OpenCalls, Stopped

\* The host answers a call once, and only one that a thread asked for.
LEMMA AnswerAnswers ==
  ASSUME TypeOK, SlotInv, RequestInv, PixelInv, [Next]_vars, HostAnswer
  PROVE  \E c \in Calls : Service!Answer(c)
<1>1. PICK r \in AtHost :
        \E v \in {"good", "bad"} : answered' = [answered EXCEPT ![r.call] = v]
  BY AnswerOf DEF RequestInv
<1>2. UNCHANGED <<pc, call, outcome, cancelled, shutdown, outOpen>>
  BY DEF HostAnswer, threadVars, linkVars
<1>3. r.call \in Calls /\ answered[r.call] = "none" /\ r.call <= ncalls
  BY AtHostType DEF Requests, PixelInv, Belongs
<1>4. outcome[r.call] \in {"none", "err"}
  BY <1>3 DEF PixelInv, OkMeansDone, TypeOK, ThreadTypeOK
<1>5. outcome[r.call] = "none" => \E t \in Threads : OpenCalls[t] = r.call
  BY <1>3 DEF PixelInv, CallsApart, Active, OpenCalls, TypeOK, ThreadTypeOK
<1>6. OpenCalls' = OpenCalls
  BY <1>2 DEF OpenCalls
<1>7. Service!Answer(r.call)
  BY <1>1, <1>2, <1>3, <1>4, <1>5, <1>6 DEF Service!Answer, OpenCalls
<1> QED
  BY <1>3, <1>7

\* Every other step stops the link or changes nothing the service shows.
LEMMA OtherwiseStutters ==
  ASSUME TypeOK, SlotInv, RequestInv, PixelInv, [Next]_vars, ~HostAnswer,
         \A t \in Threads, k \in Kinds : ~Call(t, k),
         \A t \in Threads : ~AcquireStopped(t) /\ ~Release(t)
  PROVE  Service!Stop \/ UNCHANGED Service!vars
<1>1. answered' = answered /\ outcome' = outcome
  BY OnlyTheseChange
<1>2. OpenCalls' = OpenCalls
  BY SameCall DEF OpenCalls
<1>3. Stopped => Stopped'
  BY StoppedStays
<1>4. Stopped \in BOOLEAN /\ Stopped' \in BOOLEAN
  BY DEF Stopped
<1>5. Stopped' = TRUE \/ Stopped' = Stopped
  BY <1>3, <1>4
<1> QED
  BY <1>1, <1>2, <1>5 DEF Service!Stop, Service!vars, OpenCalls, Stopped

\* The link keeps the promise the worker's threads rely on, for any number of
\* threads, slots, calls and cancels: a call returns Ok only on a good answer
\* to that very call, and Err only if the host refused it or the link stopped;
\* the host answers a call once at most.
THEOREM LinkIsBandService == Spec => ServiceSpec
<1>1. ASSUME TypeOK, SlotInv, RequestInv, PixelInv, [Next]_vars
      PROVE  [Service!Next]_(Service!vars)
  <2>1. CASE \E t \in Threads, k \in Kinds : Call(t, k)
    BY <1>1, <2>1, CallOpens DEF Service!Next
  <2>2. CASE \E t \in Threads : AcquireStopped(t) \/ Release(t)
    BY <1>1, <2>2, LeavingReturns DEF Service!Next
  <2>3. CASE HostAnswer
    BY <1>1, <2>3, AnswerAnswers DEF Service!Next, Service!Calls
  <2> QED
    BY <1>1, <2>1, <2>2, <2>3, OtherwiseStutters DEF Service!Next
<1> QED
  BY <1>1, ServiceInit, SlotsInductive, RequestsInductive, PixelsInductive, PTL
  DEF Spec, ServiceSpec, Service!Spec
=============================================================================

---------------------------- MODULE DecodedCache ----------------------------
(* The decode cache (decoded.rs): panels that cannot be mapped as they are    *)
(* get decoded once into <session>/decoded/<key>.f32 and mapped from there.   *)
(* Threads of several processes open the same panel file, which may be        *)
(* replaced by a re-saved one at any moment; processes may be killed, and     *)
(* what they leave behind stays in the directory.  A file's content is the    *)
(* version of the panel it was decoded from.                                  *)
EXTENDS Integers, FiniteSets

CONSTANTS Procs, Threads,
          Owner,        \* [Threads -> Procs]
          PidsRecycle,  \* whether a new process may get a dead one's pid
          MaxSaves,     \* bound: versions of the panel file
          MaxKills,     \* bound: kills
          MaxFaults     \* bound: decodes that fail (bad block, full disk)

Nobody == "nobody"              \* holds no lock

ASSUME DecodedAssumption ==
    /\ Owner \in [Threads -> Procs]
    /\ PidsRecycle \in BOOLEAN
    /\ Nobody \notin Threads
    /\ MaxSaves \in Nat \ {0} /\ MaxKills \in Nat /\ MaxFaults \in Nat
    /\ IsFiniteSet(Procs) /\ IsFiniteSet(Threads)

Versions == 1 .. MaxSaves
Nothing  == 0                   \* no such file, or not of the panel's size
Partial  == -1                  \* reserved and mapped, not yet decoded

Pids  == 1 .. Cardinality(Procs) + MaxKills
Keys  == Versions \X (Versions \cup {Nothing})
Names == Keys \X Pids \X (0 .. Cardinality(Threads))
NoKey == <<Nothing, Nothing>>
NoName == <<NoKey, 0, 0>>

VARIABLES
    src,     \* the version the panel's path names now
    sums,    \* the versions whose block carries a checksum
    mixed,   \* history: the keys made of one version's path and another's header
    cache,   \* [Keys -> content of <key>.f32]
    tmps,    \* [Names -> content of <key>.<pid>.<count>.tmp]
    proc,    \* [Procs -> [pid, count, lock]]
    th,      \* [Threads -> [doing, opened, key, tmp, got, faulted]]
    used,    \* pids given out so far
    decodes, \* [Procs -> [Keys -> decodes this process completed]]
    kills, faults

cacheVars == <<src, sums, mixed, cache, tmps, proc, th, used, decodes, kills, faults>>

Idle == [doing |-> "idle", opened |-> Nothing, key |-> NoKey, tmp |-> NoName,
         got |-> Nothing, faulted |-> FALSE]

ProcOf(t) == proc[Owner[t]]

CacheInit ==
    /\ src = 1 /\ sums \in SUBSET Versions /\ mixed = {}
    /\ cache = [k \in Keys |-> Nothing]
    /\ tmps = [n \in Names |-> Nothing]
    /\ \E pid \in [Procs -> 1 .. Cardinality(Procs)] :
        /\ \A p, q \in Procs : p # q => pid[p] # pid[q]
        /\ proc = [p \in Procs |-> [pid |-> pid[p], count |-> 0, lock |-> Nobody]]
    /\ th = [t \in Threads |-> Idle]
    /\ used = 1 .. Cardinality(Procs)
    /\ decodes = [p \in Procs |-> [k \in Keys |-> 0]]
    /\ kills = 0 /\ faults = 0

-----------------------------------------------------------------------------
(* The source.                                                                *)

Resave ==
    /\ src < MaxSaves
    /\ src' = src + 1
    /\ UNCHANGED <<sums, mixed, cache, tmps, proc, th, used, decodes, kills, faults>>

(* XisfPanel::open maps the file the path names at this moment; the mapping   *)
(* stays with that file when the path is given another one.                   *)
Open(t) ==
    /\ th[t].doing = "idle"
    /\ th' = [th EXCEPT ![t].doing = "opened", ![t].opened = src]
    /\ UNCHANGED <<src, sums, mixed, cache, tmps, proc, used, decodes, kills, faults>>

(* The key: size and modification time are asked of the path, the checksum,   *)
(* where the block has one, comes from the header that was read when the      *)
(* panel was opened.                                                          *)
CacheKeyPathOnly(v) == <<1, Nothing>>                            \* mutant
CacheKey(opened) == <<src, IF opened \in sums THEN opened ELSE Nothing>>

Key(t) ==
    LET opened == th[t].opened IN
    /\ th[t].doing = "opened"
    /\ th' = [th EXCEPT ![t].doing = "keyed", ![t].key = CacheKey(opened)]
    /\ mixed' = IF opened # src /\ opened \notin sums
                THEN mixed \cup {<<src, Nothing>>} ELSE mixed
    /\ UNCHANGED <<src, sums, cache, tmps, proc, used, decodes, kills, faults>>

-----------------------------------------------------------------------------
(* decoded_planes_in: look, queue for the lock, look again, decode.           *)

Valid(k) == cache[k] # Nothing

Found(t) == [th[t] EXCEPT !.doing = "done", !.got = cache[th[t].key]]

Look(t) ==
    /\ th[t].doing = "keyed"
    /\ th' = [th EXCEPT ![t] = IF Valid(th[t].key) THEN Found(t)
                               ELSE [th[t] EXCEPT !.doing = "waiting"]]
    /\ UNCHANGED <<src, sums, mixed, cache, tmps, proc, used, decodes, kills, faults>>

LockFreeAlways(t) == TRUE                                        \* mutant
LockFree(t) == ProcOf(t).lock = Nobody

Lock(t) ==
    /\ th[t].doing = "waiting" /\ LockFree(t)
    /\ proc' = [proc EXCEPT ![Owner[t]].lock = t]
    /\ th' = [th EXCEPT ![t].doing = "locked"]
    /\ UNCHANGED <<src, sums, mixed, cache, tmps, used, decodes, kills, faults>>

Unlock(p, t) == [p EXCEPT ![Owner[t]].lock = Nobody]

ThereByNow(t) == Valid(th[t].key)

LookAgain(t) ==
    /\ th[t].doing = "locked" /\ ThereByNow(t)
    /\ th' = [th EXCEPT ![t] = Found(t)]
    /\ proc' = Unlock(proc, t)
    /\ UNCHANGED <<src, sums, mixed, cache, tmps, used, decodes, kills, faults>>

(* The temporary file is created under a name of this process and attempt,    *)
(* and only if there is none of that name.                                    *)
TmpName(t) == <<th[t].key, ProcOf(t).pid, ProcOf(t).count>>

CreateTmp(t) ==
    /\ th[t].doing = "locked" /\ ~ThereByNow(t)
    /\ tmps[TmpName(t)] = Nothing
    /\ tmps' = [tmps EXCEPT ![TmpName(t)] = Partial]
    /\ th' = [th EXCEPT ![t].doing = "decoding", ![t].tmp = TmpName(t)]
    /\ proc' = [proc EXCEPT ![Owner[t]].count = @ + 1]
    /\ UNCHANGED <<src, sums, mixed, cache, used, decodes, kills, faults>>

(* create_new finds the name taken: the file is removed, the call fails.      *)
TmpTaken(t) ==
    /\ th[t].doing = "locked" /\ ~ThereByNow(t)
    /\ tmps[TmpName(t)] # Nothing
    /\ tmps' = [tmps EXCEPT ![TmpName(t)] = Nothing]
    /\ th' = [th EXCEPT ![t].doing = "failed"]
    /\ proc' = Unlock([proc EXCEPT ![Owner[t]].count = @ + 1], t)
    /\ UNCHANGED <<src, sums, mixed, cache, used, decodes, kills, faults>>

(* Decode into the mapping and write it out.                                  *)
Decode(t) ==
    /\ th[t].doing = "decoding"
    /\ tmps' = [tmps EXCEPT ![th[t].tmp] = th[t].opened]
    /\ th' = [th EXCEPT ![t].doing = "written"]
    /\ decodes' = [decodes EXCEPT ![Owner[t]][th[t].key] = @ + 1]
    /\ UNCHANGED <<src, sums, mixed, cache, proc, used, kills, faults>>

LeftBehind(n) == tmps[n]                                         \* mutant
Cleaned(n) == Nothing

DecodeFails(t) ==
    /\ th[t].doing = "decoding" /\ faults < MaxFaults
    /\ faults' = faults + 1
    /\ tmps' = [tmps EXCEPT ![th[t].tmp] = Cleaned(th[t].tmp)]
    /\ th' = [th EXCEPT ![t].doing = "failed", ![t].faulted = TRUE]
    /\ proc' = Unlock(proc, t)
    /\ UNCHANGED <<src, sums, mixed, cache, used, decodes, kills>>

Ready(t) == th[t].doing = "written"

Rename(t) ==
    /\ Ready(t)
    /\ cache' = [cache EXCEPT ![th[t].key] = tmps[th[t].tmp]]
    /\ tmps' = [tmps EXCEPT ![th[t].tmp] = Nothing]
    /\ th' = [th EXCEPT ![t].doing = "done", ![t].got = tmps[th[t].tmp]]
    /\ proc' = Unlock(proc, t)
    /\ UNCHANGED <<src, sums, mixed, used, decodes, kills, faults>>

(* Windows refuses to replace a file another process has mapped: that file is *)
(* used instead.                                                              *)
RenameRefused(t) ==
    /\ Ready(t) /\ Valid(th[t].key)
    /\ \E u \in Threads : Owner[u] # Owner[t] /\ th[u].doing = "done" /\ th[u].key = th[t].key
    /\ tmps' = [tmps EXCEPT ![th[t].tmp] = Nothing]
    /\ th' = [th EXCEPT ![t] = Found(t)]
    /\ proc' = Unlock(proc, t)
    /\ UNCHANGED <<src, sums, mixed, cache, used, decodes, kills, faults>>

(* A process is killed and started anew; its files stay.                      *)
Kill(p) ==
    /\ kills < MaxKills
    /\ kills' = kills + 1
    /\ \E pid \in Pids :
        /\ \A q \in Procs \ {p} : proc[q].pid # pid
        /\ PidsRecycle \/ pid \notin used
        /\ proc' = [proc EXCEPT ![p] = [pid |-> pid, count |-> 0, lock |-> Nobody]]
        /\ used' = used \cup {pid}
    /\ th' = [t \in Threads |-> IF Owner[t] = p THEN Idle ELSE th[t]]
    /\ decodes' = [decodes EXCEPT ![p] = [k \in Keys |-> 0]]
    /\ UNCHANGED <<src, sums, mixed, cache, tmps, faults>>

Step(t) ==
    \/ Open(t) \/ Key(t) \/ Look(t) \/ Lock(t) \/ LookAgain(t) \/ CreateTmp(t) \/ TmpTaken(t)
    \/ Decode(t) \/ DecodeFails(t) \/ Rename(t) \/ RenameRefused(t)

CacheNext == Resave \/ (\E t \in Threads : Step(t)) \/ (\E p \in Procs : Kill(p))

CacheSpec == CacheInit /\ [][CacheNext]_cacheVars

-----------------------------------------------------------------------------
CacheTypeOK ==
    /\ src \in Versions /\ sums \subseteq Versions /\ mixed \subseteq Keys
    /\ cache \in [Keys -> Versions \cup {Nothing, Partial}]
    /\ tmps \in [Names -> Versions \cup {Nothing, Partial}]
    /\ \A p \in Procs :
        /\ proc[p].pid \in Pids /\ proc[p].count \in 0 .. Cardinality(Threads)
        /\ proc[p].lock \in Threads \cup {Nobody}
    /\ \A t \in Threads :
        /\ th[t].doing \in {"idle", "opened", "keyed", "waiting", "locked", "decoding",
                            "written", "done", "failed"}
        /\ th[t].opened \in Versions \cup {Nothing}
        /\ th[t].got \in Versions \cup {Nothing}
    /\ used \subseteq Pids

(* What a reader maps is the panel it opened: whole, however its decoder was  *)
(* stopped, and of the same version, although other processes decode, replace *)
(* and reuse files of the same directory.  The one exception is a panel       *)
(* without a checksum whose key some reader, itself or another, computed from *)
(* a path that had been given a newer file since the panel was opened.        *)
MappedIsOpened ==
    \A t \in Threads : th[t].doing = "done" =>
        \/ th[t].got = th[t].opened
        \/ th[t].opened \notin sums /\ th[t].key \in mixed

(* An interrupted decode never leaves a file that looks valid.                *)
CacheIsWhole == \A k \in Keys : cache[k] # Partial

(* One decode at a time in a process: it holds a panel's worth of memory.     *)
OneDecodeAtATime ==
    \A t, u \in Threads :
        /\ th[t].doing \in {"decoding", "written"} /\ th[u].doing \in {"decoding", "written"}
        /\ Owner[t] = Owner[u]
        => t = u

(* A panel is decoded once: threads that waited for the lock find the file.   *)
DecodedOnce == \A p \in Procs : \A k \in Keys : decodes[p][k] <= 1

(* No temporary file is left unless a process was killed.                     *)
NoLeftovers ==
    kills = 0 => \A n \in Names :
        tmps[n] # Nothing => \E t \in Threads : th[t].tmp = n /\ th[t].doing \in {"decoding", "written"}

(* The mutex is never left behind: its holder is a thread that is still on    *)
(* its way through the decode, whichever way the threads before it left.      *)
LockHasWorker ==
    \A p \in Procs : proc[p].lock # Nobody =>
        /\ Owner[proc[p].lock] = p
        /\ th[proc[p].lock].doing \in {"locked", "decoding", "written"}

(* The directory holds whole panels only, and nothing is left in it but by a  *)
(* kill.                                                                      *)
CacheStaysClean == CacheTypeOK /\ CacheIsWhole /\ NoLeftovers

(* A process decodes one panel at a time and each panel once, and the turn is *)
(* always handed on, whichever way a thread left its decode.                  *)
DecodedInTurn == OneDecodeAtATime /\ DecodedOnce /\ LockHasWorker
=============================================================================

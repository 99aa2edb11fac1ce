---------------------------- MODULE BandService ----------------------------
(***************************************************************************)
(* What HostLink promises the worker's threads, with no pipe, no slot and  *)
(* no reader thread in sight.  A thread opens a call; the host answers a   *)
(* call at most once; the link may stop (cancelled, or the host is gone),  *)
(* and stays stopped.  A call returns Ok only on a good answer to that     *)
(* very call, and Err only when the host refused that call or the link     *)
(* stopped.  HostLink is shown to implement this.                          *)
(***************************************************************************)
EXTENDS Naturals

CONSTANTS Threads, MaxCalls

Calls == 1 .. MaxCalls

VARIABLES
  open,      \* the call a thread is inside of, 0 when it is in none
  answer,    \* what the host decided about a call
  outcome,   \* what the call returned
  stopped    \* the link was cancelled or lost its host

vars == <<open, answer, outcome, stopped>>

Init ==
  /\ open = [t \in Threads |-> 0]
  /\ answer = [c \in Calls |-> "none"]
  /\ outcome = [c \in Calls |-> "none"]
  /\ stopped = FALSE

\* A thread calls request_band or send_output_band with work nobody did yet.
Open(t) ==
  /\ open[t] = 0
  /\ \E c \in Calls :
       /\ outcome[c] = "none"
       /\ answer[c] = "none"
       /\ \A u \in Threads : open[u] # c
       /\ open' = [open EXCEPT ![t] = c]
  /\ UNCHANGED <<answer, outcome, stopped>>

\* The host serves a call, once; perhaps after the caller gave up on it.
Answer(c) ==
  /\ answer[c] = "none"
  /\ outcome[c] = "err" \/ \E t \in Threads : open[t] = c
  /\ \E a \in {"good", "bad"} : answer' = [answer EXCEPT ![c] = a]
  /\ UNCHANGED <<open, outcome, stopped>>

Stop ==
  /\ stopped' = TRUE
  /\ UNCHANGED <<open, answer, outcome>>

Return(t) ==
  /\ open[t] # 0
  /\ \/ /\ answer[open[t]] = "good"
        /\ outcome' = [outcome EXCEPT ![open[t]] = "ok"]
     \/ /\ answer[open[t]] = "bad" \/ stopped
        /\ outcome' = [outcome EXCEPT ![open[t]] = "err"]
  /\ open' = [open EXCEPT ![t] = 0]
  /\ UNCHANGED <<answer, stopped>>

Next ==
  \/ \E t \in Threads : Open(t) \/ Return(t)
  \/ \E c \in Calls : Answer(c)
  \/ Stop

Spec == Init /\ [][Next]_vars
=============================================================================

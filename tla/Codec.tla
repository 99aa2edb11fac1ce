------------------------------- MODULE Codec --------------------------------
(* protocol.rs: the frames of the pipes between host and worker,              *)
(*     tag (1 byte), length of the payload, payload,                          *)
(* written by several threads of one process, read by one thread of the       *)
(* other.  Every byte is written and read in a step of its own, and the       *)
(* writing process can die between two of them.  Integers are little-endian   *)
(* in digits of Base (a byte of the code has 256 values), of the widths W32   *)
(* and W64.  A message is [kind, fields]: the integers of the binary kinds,   *)
(* and for the others the text that serde_json makes of it, which it reads    *)
(* back without loss.                                                         *)
EXTENDS Integers, Sequences, SequencesExt

CONSTANTS Base, W32, W64,
          Threads,      \* the threads that write
          Plans,        \* what each of them has to send: functions on Threads
          Room          \* bytes the pipe holds

VARIABLES todo,    \* thread -> the messages it still has to send
          lock,    \* the thread that holds the mutex of the pipe, or "free"
          frame,   \* thread -> the bytes of its frame it has still to write
          pipe,    \* the bytes in the pipe
          open,    \* the writing process has the pipe open
          rd,      \* the reader: [at, tag, len, buf]
          sent, got, end

pipeVars == <<todo, lock, frame, pipe, open, rd, sent, got, end>>

-----------------------------------------------------------------------------
(* Integers: the lowest digit first, and what is left of a number after each. *)

Rest(n, w) == LET rest[i \in 0 .. w] == IF i = 0 THEN n ELSE rest[i - 1] \div Base IN rest
Fits(n, w) == Rest(n, w)[w] = 0
to_le_bytes(n, w) == [i \in 1 .. w |-> Rest(n, w)[i - 1] % Base]
from_le_bytes(buf) ==
    LET val[i \in 0 .. Len(buf)] ==
            IF i = 0 THEN 0 ELSE buf[Len(buf) + 1 - i] + Base * val[i - 1]
    IN  val[Len(buf)]
read(buf, at, w)   == from_le_bytes(SubSeq(buf, at + 1, at + w))

(* Kinds and tags.                                                            *)

(* The widths of the fields of a binary kind, where they are in the payload,  *)
(* and how long it is.                                                        *)
Layout(kind) ==
    CASE kind = "BandRequest" -> <<W32, W32, W64, W64, W32>>
      [] kind = "BandReply"   -> <<W32, W32, 1>>
      [] kind = "OutputBand"  -> <<W32, W64, W64, W32>>
Offset(kind) ==
    CASE kind = "BandRequest" -> <<0, W32, 2 * W32, 2 * W32 + W64, 2 * W32 + 2 * W64>>
      [] kind = "BandReply"   -> <<0, W32, 2 * W32>>
      [] kind = "OutputBand"  -> <<0, W32, W32 + W64, W32 + 2 * W64>>
WIRE_LEN(kind) ==
    CASE kind = "BandRequest" -> 3 * W32 + 2 * W64
      [] kind = "BandReply"   -> 2 * W32 + 1
      [] kind = "OutputBand"  -> 2 * W32 + 2 * W64

Tags == [BandRequest |-> 1, Progress |-> 2, Begin |-> 3, OutputBand |-> 4, Done |-> 5, Error |-> 6,
         Init |-> 128, BandReply |-> 129, OutputAck |-> 130, Cancel |-> 131]
Binary == {"BandRequest", "OutputBand", "BandReply"}
Kinds  == DOMAIN Tags

to_bytes(m) ==
    LET buf[i \in 0 .. Len(m.fields)] ==
            IF i = 0 THEN <<>>
            ELSE buf[i - 1] \o to_le_bytes(m.fields[i], Layout(m.kind)[i])
    IN  buf[Len(m.fields)]

Garbled == [kind |-> "none", fields |-> <<>>]

from_bytes(kind, buf) ==
    IF Len(buf) # WIRE_LEN(kind) THEN Garbled
    ELSE [kind |-> kind,
          fields |-> [i \in DOMAIN Layout(kind) |->
                        read(buf, Offset(kind)[i], Layout(kind)[i])]]

(* The text names its variant: the tag is not needed to read it.              *)
json_payload(m) == <<Tags[m.kind]>> \o m.fields
from_slice(buf) ==
    IF buf = <<>> \/ ~\E k \in Kinds \ Binary : Tags[k] = buf[1] THEN Garbled
    ELSE [kind |-> CHOOSE k \in Kinds \ Binary : Tags[k] = buf[1], fields |-> Tail(buf)]

encode(m) == IF m.kind \in Binary THEN to_bytes(m) ELSE json_payload(m)

(* The bytes of a frame, or none if the length does not fit its field.        *)
write_frame(m) ==
    LET payload == encode(m)
    IN  IF ~Fits(Len(payload), W32) THEN <<>>
        ELSE <<Tags[m.kind]>> \o to_le_bytes(Len(payload), W32) \o payload

decode(tag, payload) ==
    IF ~\E k \in Kinds : Tags[k] = tag THEN Garbled
    ELSE LET kind == CHOOSE k \in Kinds : Tags[k] = tag
         IN  IF kind \in Binary THEN from_bytes(kind, payload) ELSE from_slice(payload)

-----------------------------------------------------------------------------
(* What the threads send are messages whose integers fit their fields.        *)
Planned == UNION {UNION {Range(plan[t]) : t \in Threads} : plan \in Plans}
IsMessage(m) ==
    /\ m \in [kind : Kinds, fields : Seq(Nat)]
    /\ m.kind \in Binary =>
          /\ Len(m.fields) = Len(Layout(m.kind))
          /\ \A i \in DOMAIN m.fields : Fits(m.fields[i], Layout(m.kind)[i])

ASSUME CodecAssumption ==
    /\ Base \in Nat \ {0, 1} /\ W32 \in Nat \ {0} /\ W64 \in Nat \ {0}
    /\ "free" \notin Threads
    /\ Plans \subseteq [Threads -> Seq(Planned)]
    /\ \A m \in Planned : IsMessage(m)

PipeInit ==
    /\ todo \in Plans /\ lock = "free" /\ frame = [t \in Threads |-> <<>>]
    /\ pipe = <<>> /\ open = TRUE
    /\ rd = [at |-> "tag", tag |-> 0, len |-> 0, buf |-> <<>>]
    /\ sent = <<>> /\ got = <<>> /\ end = "open"

(* HostLink::send: a thread takes the mutex for a whole frame.                *)
MutexIgnored(t) == TRUE

Mutex(t) == lock = "free"

Lock(t) ==
    /\ open /\ todo[t] # <<>> /\ frame[t] = <<>> /\ lock # t /\ Mutex(t)
    /\ lock' = t
    /\ frame' = [frame EXCEPT ![t] = write_frame(Head(todo[t]))]
    /\ UNCHANGED <<todo, pipe, open, rd, sent, got, end>>

Started(t) == frame[t] # write_frame(Head(todo[t]))

WriteByte(t) ==
    /\ open /\ frame[t] # <<>> /\ Len(pipe) < Room
    /\ pipe' = Append(pipe, Head(frame[t]))
    /\ frame' = [frame EXCEPT ![t] = Tail(@)]
    /\ sent' = IF Started(t) THEN sent ELSE Append(sent, Head(todo[t]))
    /\ UNCHANGED <<todo, lock, open, rd, got, end>>

(* The frame is out, or was refused: the mutex is released.                   *)
Unlock(t) ==
    /\ open /\ lock = t /\ frame[t] = <<>>
    /\ lock' = "free" /\ todo' = [todo EXCEPT ![t] = Tail(@)]
    /\ UNCHANGED <<frame, pipe, open, rd, sent, got, end>>

(* The process exits with nothing left to send, or dies.                      *)
Exit ==
    /\ open /\ \A t \in Threads : todo[t] = <<>>
    /\ open' = FALSE /\ UNCHANGED <<todo, lock, frame, pipe, rd, sent, got, end>>

Die == open /\ open' = FALSE /\ UNCHANGED <<todo, lock, frame, pipe, rd, sent, got, end>>

-----------------------------------------------------------------------------
AtEof == pipe = <<>> /\ ~open

(* No byte of a new frame: the other end closed the pipe.                     *)
read_tag ==
    /\ end = "open" /\ rd.at = "tag"
    /\ \/ /\ pipe # <<>>
          /\ rd' = [rd EXCEPT !.at = "len", !.tag = Head(pipe), !.buf = <<>>]
          /\ pipe' = Tail(pipe) /\ UNCHANGED end
       \/ /\ AtEof
          /\ end' = "eof" /\ UNCHANGED <<rd, pipe>>
    /\ UNCHANGED <<todo, lock, frame, open, sent, got>>

Need == IF rd.at = "len" THEN W32 ELSE rd.len

(* read_exact: an end of file before the last byte is an error.               *)
read_exactRetried ==
    /\ end = "open" /\ rd.at # "tag" /\ Len(rd.buf) < Need /\ pipe # <<>>
    /\ rd' = [rd EXCEPT !.buf = Append(@, Head(pipe))]
    /\ pipe' = Tail(pipe)
    /\ UNCHANGED <<todo, lock, frame, open, sent, got, end>>

read_exact ==
    /\ end = "open" /\ rd.at # "tag" /\ Len(rd.buf) < Need
    /\ \/ /\ pipe # <<>>
          /\ rd' = [rd EXCEPT !.buf = Append(@, Head(pipe))]
          /\ pipe' = Tail(pipe) /\ UNCHANGED end
       \/ /\ AtEof
          /\ end' = "cut" /\ UNCHANGED <<rd, pipe>>
    /\ UNCHANGED <<todo, lock, frame, open, sent, got>>

read_payload ==
    /\ end = "open" /\ rd.at = "len" /\ Len(rd.buf) = W32
    /\ rd' = [rd EXCEPT !.at = "payload", !.len = from_le_bytes(rd.buf), !.buf = <<>>]
    /\ UNCHANGED <<todo, lock, frame, pipe, open, sent, got, end>>

read_message ==
    /\ end = "open" /\ rd.at = "payload" /\ Len(rd.buf) = rd.len
    /\ LET m == decode(rd.tag, rd.buf)
       IN  IF m = Garbled
           THEN end' = "garbled" /\ UNCHANGED <<rd, got>>
           ELSE got' = Append(got, m) /\ rd' = [rd EXCEPT !.at = "tag"] /\ UNCHANGED end
    /\ UNCHANGED <<todo, lock, frame, pipe, open, sent>>

Reader == read_tag \/ read_exact \/ read_payload \/ read_message
Writer == \E t \in Threads : Lock(t) \/ WriteByte(t) \/ Unlock(t)

PipeNext == Writer \/ Reader \/ Exit \/ Die

(* Both processes run; nobody has to die.                                     *)
PipeSpec ==
    /\ PipeInit /\ [][PipeNext]_pipeVars
    /\ WF_pipeVars(Reader) /\ WF_pipeVars(Writer) /\ WF_pipeVars(Exit)

-----------------------------------------------------------------------------
(* The frames are a channel of messages: none is garbled, mixed with another  *)
(* thread's, altered, repeated or skipped, and a cut one is never taken for   *)
(* the end.                                                                   *)
Channel == INSTANCE MessageChannel WITH Messages <- Planned
ChannelSpec == Channel!ChannelSpec

(* The reader is never left waiting: it learns that the other process is gone *)
(* wherever in a frame that process stopped.                                  *)
EndIsNoticed == <>(end # "open")
=============================================================================

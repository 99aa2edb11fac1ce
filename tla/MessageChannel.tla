--------------------------- MODULE MessageChannel ---------------------------
(* What the framing of protocol.rs promises: the reader gets the messages of  *)
(* the other process whole and in the order they were written.  When that     *)
(* process is gone it learns so: by an end of file if it has got everything,  *)
(* by an error if a message was cut.                                          *)
EXTENDS Sequences, Naturals

CONSTANT Messages

VARIABLES sent,   \* the messages whose first byte was written
          got,    \* the messages the reader has returned
          end     \* "open", "eof" or "cut"

Init == sent = <<>> /\ got = <<>> /\ end = "open"

Send == \E m \in Messages : sent' = Append(sent, m) /\ UNCHANGED <<got, end>>

Deliver ==
    /\ end = "open" /\ Len(got) < Len(sent)
    /\ got' = Append(got, sent[Len(got) + 1])
    /\ UNCHANGED <<sent, end>>

(* Only the last message can be cut.                                          *)
End ==
    /\ end = "open"
    /\ end' = IF got = sent THEN "eof" ELSE "cut"
    /\ Len(got) + 1 >= Len(sent)
    /\ UNCHANGED <<sent, got>>

ChannelSpec == Init /\ [][Send \/ Deliver \/ End]_<<sent, got, end>>
=============================================================================

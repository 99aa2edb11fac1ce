------------------------------ MODULE MCCodec -------------------------------
(* Two threads with up to two messages each, of every kind and direction:     *)
(* empty and long texts, one too long for its length field, and integers at   *)
(* both ends of their ranges.                                                 *)
EXTENDS Codec

M(kind, fields) == [kind |-> kind, fields |-> fields]

Requests == {M("BandRequest", <<0, 15, 63, 9, 1>>), M("BandRequest", <<12, 0, 16, 0, 2>>)}
Bands    == {M("OutputBand", <<2, 63, 1, 15>>)}
Texts    == {M("Progress", <<2, 0, 5>>), M("Done", <<>>), M("Progress", [i \in 1 .. 3 |-> 1])}
TooLong  == M("Progress", [i \in 1 .. Base * Base |-> i % 4])
Replies  == {M("BandReply", <<15, 2, 1>>), M("BandReply", <<0, 0, 0>>)}
Acks     == {M("OutputAck", <<3, 1>>), M("Cancel", <<>>)}

Both(a, b) == [t \in Threads |-> IF t = "a" THEN a ELSE b]

MCPlans ==
    {Both(<<m, n>>, <<k>>) : m \in Requests, n \in Bands \cup Texts, k \in Requests \cup Texts}
    \cup {Both(<<m, TooLong>>, <<k>>) : m \in Requests, k \in Texts}
    \cup {Both(<<m, n>>, <<k>>) : m \in Replies, n \in Acks, k \in Replies \cup Acks}
=============================================================================

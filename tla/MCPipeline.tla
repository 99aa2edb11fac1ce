----------------------------- MODULE MCPipeline -----------------------------
(* Raw panels of four and six pixels, at distances that are not whole pixels, *)
(* and canvases of eight: with solutions that agree, nearly agree and do not, *)
(* without one, with two counts of channels, sparse and full, and one file    *)
(* that does not open.                                                        *)
EXTENDS Pipeline

Raw(w, ch, at) == [w |-> w, ch |-> ch, at |-> <<at>>, solved |-> TRUE, opens |-> TRUE,
                   content |-> 0 .. w - 1]
Canvas(ch, at, solved, from, to) ==
    [w |-> 8, ch |-> ch, at |-> at, solved |-> solved, opens |-> TRUE, content |-> from .. to]

RawA == Raw(4, 1, 0)
RawB == Raw(4, 1, 26)
RawC == Raw(4, 3, 10)
Wide == Raw(6, 1, -12)
Flat == [RawA EXCEPT !.solved = FALSE]       \* a linear solution, no model
Gone == [RawB EXCEPT !.opens = FALSE]
CanL == Canvas(1, <<0>>, TRUE, 0, 2)
CanR == Canvas(1, <<2>>, TRUE, 5, 7)
CanX == Canvas(1, <<4>>, TRUE, 3, 4)         \* within the tolerance of CanR only
CanN == Canvas(1, <<>>, FALSE, 2, 4)
Full == Canvas(1, <<>>, FALSE, 0, 7)
Half == Canvas(1, <<2>>, TRUE, 0, 4)         \* registered, but covers half
CanC == Canvas(3, <<0>>, TRUE, 4, 6)

Catalogue == {RawA, RawB, RawC, Wide, Flat, Gone, CanL, CanR, CanX, CanN, Full, Half, CanC}

Ones  == {<<p>> : p \in Catalogue}
Pairs == {<<p[1], p[2]>> : p \in {q \in Catalogue \X Catalogue : q[1] # q[2]}}
Seconds == Ones \cup {<<RawA, Wide>>, <<RawB, RawA>>, <<CanL, CanR>>, <<CanR, CanN>>,
                      <<CanN, CanX>>, <<RawC, CanC>>}

Inputs == {"Auto", "Aligned", "Solved"}

Scenes == {<<a>> : a \in Pairs} \cup {<<a, b>> : a \in Pairs \cup Ones, b \in Seconds}

Opens(groups) == \A i \in DOMAIN groups : \A n \in DOMAIN groups[i] : groups[i][n].opens

Fits(j) == \* framed jobs have two groups, views are open
    /\ j.how = "framed" => Len(j.groups) = 2
    /\ j.how = "views" => Opens(j.groups)

MCJobs == {j \in
    [how : {"batch", "framed", "files", "views"}, input : Inputs, groups : Scenes,
     extent : {"auto"}, skewed : {FALSE}]
    \cup [how : {"framed"}, input : Inputs, groups : Scenes,
          extent : {"union", "canvas"}, skewed : {FALSE}]
    \cup [how : {"files", "views"}, input : Inputs, groups : {<<a>> : a \in Pairs},
          extent : {"auto"}, skewed : {TRUE}] : Fits(j)}
=============================================================================

--------------------------- MODULE PipelineProofs ---------------------------
(***************************************************************************)
(* Theorems of the mosaic jobs, for all panels, groups and settings.       *)
(*                                                                         *)
(* A slot is sized by the host before the worker reads a panel and chooses *)
(* a frame: IInv says what the host knew when it sized it, and it is       *)
(* inductive, so what the worker then sends through a slot fits it.        *)
(*                                                                         *)
(* The frame of several groups is chosen once, over the panels of all. The *)
(* geometry below says that such a frame contains each panel, and all that *)
(* the kernel reaches of a panel lies in the frame. GridInv says of every  *)
(* session and every output which panels it was made of and on what frame: *)
(* with the geometry, the outputs of all groups share one grid, nothing a  *)
(* panel shows is clipped, and the cards of an output place its pixels     *)
(* where the sky is. GoodInv follows a set that is what the user says it   *)
(* is, and says that no step refuses it.                                   *)
(***************************************************************************)
EXTENDS Pipeline, FiniteSetTheorems, WellFoundedInduction, TLAPS

-----------------------------------------------------------------------------
(* A finite set of integers that is not empty has a largest and a smallest *)
(* member: what Max and Min choose exists.                                 *)

\* The finite sets for which it is not so: there are none.
NoMaximum == {U \in FiniteSubsetsOf(Int) : U # {} /\ ~ \E x \in U : \A y \in U : y <= x}

\* A smallest set without a largest member has a member too many.
LEMMA FiniteHasMaximum ==
  ASSUME NEW S \in SUBSET Int, IsFiniteSet(S), S # {}
  PROVE  \E x \in S : \A y \in S : y <= x
<1>1. NoMaximum = {}
  <2>1. SUFFICES ASSUME NoMaximum # {} PROVE FALSE
    OBVIOUS
  <2>2. PICK U \in NoMaximum : \A V \in NoMaximum : ~ (<<V, U>> \in StrictSubsetOrdering(Int))
    <3>1. NoMaximum \subseteq FiniteSubsetsOf(Int)
      BY DEF NoMaximum
    <3>. QED
      BY <2>1, <3>1, FS_StrictSubsetOrderingWellFounded, WFMin
  <2>3. PICK x \in U : TRUE
    BY DEF NoMaximum
  <2>4. U \in SUBSET Int /\ IsFiniteSet(U) /\ x \in Int
    BY <2>3 DEF NoMaximum, FiniteSubsetsOf
  <2>5. IsFiniteSet(U \ {x}) /\ U \ {x} \in FiniteSubsetsOf(Int)
    BY <2>4, FS_RemoveElement DEF FiniteSubsetsOf
  <2>6. <<U \ {x}, U>> \in StrictSubsetOrdering(Int)
    BY <2>3, <2>4 DEF StrictSubsetOrdering
  <2>7. U \ {x} \notin NoMaximum
    BY <2>2, <2>6
  <2>8. CASE U \ {x} = {}
    BY <2>3, <2>4, <2>8 DEF NoMaximum
  <2>9. CASE U \ {x} # {}
    <3>1. PICK m \in U \ {x} : \A y \in U \ {x} : y <= m
      BY <2>5, <2>7, <2>9 DEF NoMaximum
    <3>2. \E z \in U : \A y \in U : y <= z
      <4>1. CASE x <= m
        BY <2>4, <3>1, <4>1
      <4>2. CASE m <= x
        BY <2>3, <2>4, <3>1, <4>2
      <4>. QED
        BY <2>4, <3>1, <4>1, <4>2
    <3>. QED
      BY <3>2 DEF NoMaximum
  <2>. QED
    BY <2>8, <2>9
<1>2. S \in FiniteSubsetsOf(Int)
  BY DEF FiniteSubsetsOf
<1>. QED
  BY <1>1, <1>2 DEF NoMaximum

\* The smallest member is the largest one of the negated set.
LEMMA FiniteHasMinimum ==
  ASSUME NEW S \in SUBSET Int, IsFiniteSet(S), S # {}
  PROVE  \E x \in S : \A y \in S : x <= y
<1>. DEFINE T == {-x : x \in S}
            f == [x \in S |-> -x]
<1>1. f \in Surjection(S, T)
  BY DEF Surjection
<1>2. IsFiniteSet(T)
  <2>. HIDE DEF T, f
  <2>. QED
    BY <1>1, FS_Surjection
<1>3. T \in SUBSET Int /\ T # {}
  OBVIOUS
<1>4. PICK m \in T : \A y \in T : y <= m
  <2>. HIDE DEF T
  <2>. QED
    BY <1>2, <1>3, FiniteHasMaximum
<1>5. PICK x \in S : m = -x
  BY <1>4
<1>6. \A y \in S : x <= y
  <2>. TAKE y \in S
  <2>1. -y <= m
    BY <1>4
  <2>. QED
    BY <1>5, <2>1
<1>. QED
  BY <1>6

\* The values of a function over an interval, such as a field of the panels
\* of a sequence.
LEMMA IntervalImage ==
  ASSUME NEW n \in Nat \ {0}, NEW f \in [1 .. n -> Int]
  PROVE  LET S == {f[i] : i \in 1 .. n}
         IN  S \in SUBSET Int /\ S # {} /\ IsFiniteSet(S)
<1>. DEFINE S == {f[i] : i \in 1 .. n}
<1>1. S \in SUBSET Int /\ S # {}
  <2>1. f[1] \in S
    OBVIOUS
  <2>. QED
    BY <2>1
<1>2. f \in Surjection(1 .. n, S)
  BY DEF Surjection
<1>3. IsFiniteSet(1 .. n)
  BY FS_Interval
<1>. QED
  BY <1>1, <1>2, <1>3, FS_Surjection

\* So one of the values is the largest, and one the smallest.
LEMMA ImageHasMaximum ==
  ASSUME NEW n \in Nat \ {0}, NEW f \in [1 .. n -> Int]
  PROVE  \E x \in {f[i] : i \in 1 .. n} : \A y \in {f[i] : i \in 1 .. n} : y <= x
BY IntervalImage, FiniteHasMaximum

LEMMA ImageHasMinimum ==
  ASSUME NEW n \in Nat \ {0}, NEW f \in [1 .. n -> Int]
  PROVE  \E x \in {f[i] : i \in 1 .. n} : \A y \in {f[i] : i \in 1 .. n} : x <= y
BY IntervalImage, FiniteHasMinimum

-----------------------------------------------------------------------------
\* What groups are made of.
PanelSeqs == {ps \in Seq(PanelSet) : ps # <<>>}

\* A wider row takes more of a slot.
LEMMA WiderTimes ==
  ASSUME NEW a \in Int, NEW b \in Int, NEW c \in Nat, a <= b
  PROVE  a * c <= b * c
BY SMT

-----------------------------------------------------------------------------
(* What a set of panels has: a widest one, and a frame of integer width    *)

\* The fields of a panel, and that a solution is not empty.
LEMMA PanelFields ==
  ASSUME NEW p \in PanelSet
  PROVE  /\ p.w \in Nat /\ p.ch \in Nat /\ p.at \in Seq(Int)
         /\ p.solved => p.at # <<>>
BY DEF PanelSet

\* A sequence of panels is a function from its indices.
LEMMA PanelTypes ==
  ASSUME NEW ps \in PanelSeqs
  PROVE  /\ Len(ps) \in Nat \ {0} /\ DOMAIN ps = 1 .. Len(ps)
         /\ \A i \in 1 .. Len(ps) :
               ps[i] \in PanelSet /\ ps[i].w \in Nat /\ ps[i].ch \in Nat
<1>1. ps \in Seq(PanelSet) /\ ps # <<>>
  BY DEF PanelSeqs
<1>2. Len(ps) \in Nat \ {0} /\ DOMAIN ps = 1 .. Len(ps)
  BY <1>1
<1>3. \A i \in 1 .. Len(ps) : ps[i] \in PanelSet
  BY <1>1
<1>. QED
  BY <1>2, <1>3, PanelFields

\* One of the panels is the widest.
LEMMA WidestPanel ==
  ASSUME NEW ps \in PanelSeqs
  PROVE  LET m == Max({ps[i].w : i \in DOMAIN ps})
         IN  m \in Int /\ \A i \in DOMAIN ps : ps[i].w <= m
<1>. DEFINE f == [i \in 1 .. Len(ps) |-> ps[i].w]
            S == {ps[i].w : i \in DOMAIN ps}
<1>1. f \in [1 .. Len(ps) -> Int] /\ Len(ps) \in Nat \ {0}
  BY PanelTypes
<1>2. S = {f[i] : i \in 1 .. Len(ps)}
  BY PanelTypes
<1>3. \E x \in S : \A y \in S : y <= x
  <2>. HIDE DEF f, S
  <2>. QED
    BY <1>1, <1>2, ImageHasMaximum
<1>4. S \subseteq Int
  BY PanelTypes
<1>5. Max(S) \in S /\ \A y \in S : Max(S) >= y
  <2>1. \E x \in S : \A y \in S : x >= y
    BY <1>3, <1>4
  <2>. QED
    BY <2>1 DEF Max
<1>. QED
  BY <1>4, <1>5

-----------------------------------------------------------------------------
(* Positions on the sky, in steps, and pixels, Sub steps wide              *)

\* Rounding down takes less than one pixel away.
LEMMA FloorBounds ==
  ASSUME NEW x \in Int
  PROVE  Floor(x) \in Int /\ Floor(x) * Sub <= x /\ x < Floor(x) * Sub + Sub
<1>1. Floor(x) \in Int
  BY FramesAssumption DEF Floor
<1>2. Floor(x) * Sub <= x
  BY FramesAssumption DEF Floor
<1>3. x < Floor(x) * Sub + Sub
  BY FramesAssumption DEF Floor
<1>. QED
  BY <1>1, <1>2, <1>3

\* Positions are in parts of a pixel: Sub of them make one.
LEMMA Pixels ==
  ASSUME NEW a \in Int, NEW b \in Int
  PROVE  /\ a * Sub \in Int /\ Sub \in Int
         /\ a * Sub < b * Sub + Sub => a <= b
         /\ a <= b => a * Sub <= b * Sub
         /\ (a + b) * Sub = a * Sub + b * Sub
         /\ (-a) * Sub = -(a * Sub)
<1>1. a * Sub \in Int /\ Sub \in Int
  BY FramesAssumption
<1>2. a * Sub < b * Sub + Sub => a <= b
  BY FramesAssumption
<1>3. a <= b => a * Sub <= b * Sub
  BY FramesAssumption
<1>4. (a + b) * Sub = a * Sub + b * Sub
  BY FramesAssumption
<1>5. (-a) * Sub = -(a * Sub)
  BY FramesAssumption
<1>. QED
  BY <1>1, <1>2, <1>3, <1>4, <1>5

\* Whole pixels between two positions.
LEMMA PixelDifference ==
  ASSUME NEW a \in Int, NEW b \in Int
  PROVE  (a - b) * Sub = a * Sub - b * Sub /\ a * Sub \in Int
<1>. DEFINE c == -b
<1>1. c \in Int /\ a - b = a + c
  OBVIOUS
<1>2. c * Sub = -(b * Sub) /\ b * Sub \in Int /\ a * Sub \in Int
  BY Pixels
<1>. HIDE DEF c
<1>3. (a + c) * Sub = a * Sub + c * Sub
  BY <1>1, Pixels
<1>. QED
  BY <1>1, <1>2, <1>3

\* Rounding up adds less than one pixel.
LEMMA CeilBounds ==
  ASSUME NEW x \in Int
  PROVE  Ceil(x) \in Int /\ x <= Ceil(x) * Sub /\ Ceil(x) * Sub < x + Sub
<1>. DEFINE y == -x
<1>1. y \in Int /\ x = -y /\ Ceil(x) = -Floor(y)
  BY DEF Ceil, Floor
<1>. HIDE DEF y
<1>2. Floor(y) \in Int /\ Floor(y) * Sub <= y /\ y < Floor(y) * Sub + Sub
  BY <1>1, FloorBounds
<1>3. (-Floor(y)) * Sub = -(Floor(y) * Sub) /\ Floor(y) * Sub \in Int /\ Sub \in Int
  BY <1>2, Pixels
<1>. QED
  BY <1>1, <1>2, <1>3

\* A panel is placed by its centre: half of a pixel is whole parts.
LEMMA HalfPixel == Sub \div 2 \in Int /\ 2 * (Sub \div 2) = Sub /\ Sub \div 2 >= 1
  BY FramesAssumption

\* What a solution says of a panel: where it begins and ends.
LEMMA PanelEnds ==
  ASSUME NEW p \in PanelSet, p.at # None
  PROVE  /\ p.at[1] \in Int /\ p.w * Sub \in Int
         /\ Ends(p)[1] = p.at[1] /\ Ends(p)[2] = p.at[1] + p.w * Sub
         /\ Ends(p)[1] \in Int /\ Ends(p)[2] \in Int
<1>1. p.at \in Seq(Int) /\ p.w \in Int
  BY PanelFields
<1>2. p.at[1] \in Int
  BY <1>1 DEF None
<1>3. p.w * Sub \in Int
  BY <1>1, Pixels
<1>. QED
  BY <1>2, <1>3 DEF Ends

\* A frame: its width, and where it begins if it has a solution.
Placed(f) ==
  /\ f.w \in Int
  /\ f.at # None => f.at[1] \in Int
  /\ f.kind = "solved" => f.at # None

\* No boundary of the panel lies outside of the frame.
Contains(f, p) ==
  /\ f.at[1] <= p.at[1]
  /\ p.at[1] + p.w * Sub <= f.at[1] + f.w * Sub

\* The frame chosen over a set of panels contains each of them.
LEMMA ChosenFrame ==
  ASSUME NEW ps \in PanelSeqs, Solved(ps)
  PROVE  /\ Placed(choose_frame(ps)) /\ choose_frame(ps).kind = "solved"
         /\ \A i \in DOMAIN ps : Contains(choose_frame(ps), ps[i])
<1>. DEFINE n == Len(ps)
            f == [i \in 1 .. n |-> Ends(ps[i])[1]]
            h == [i \in 1 .. n |-> Ends(ps[i])[2]]
            L == {Ends(ps[i])[1] : i \in DOMAIN ps}
            R == {Ends(ps[i])[2] : i \in DOMAIN ps}
<1>1. n \in Nat \ {0} /\ DOMAIN ps = 1 .. n
  BY PanelTypes
<1>2. \A i \in 1 .. n :
        /\ Ends(ps[i])[1] \in Int /\ Ends(ps[i])[2] \in Int
        /\ Ends(ps[i])[1] = ps[i].at[1]
        /\ Ends(ps[i])[2] = ps[i].at[1] + ps[i].w * Sub
  <2>. TAKE i \in 1 .. n
  <2>1. ps[i] \in PanelSet /\ ps[i].at # None
    BY PanelTypes, PanelFields DEF Solved, None
  <2>. QED
    BY <2>1, PanelEnds
<1>3. f \in [1 .. n -> Int] /\ h \in [1 .. n -> Int]
  BY <1>2
<1>4. L = {f[i] : i \in 1 .. n} /\ R = {h[i] : i \in 1 .. n}
  BY <1>1
<1>5. Min(L) \in L /\ \A x \in L : Min(L) <= x
  <2>1. \E x \in L : \A y \in L : x <= y
    <3>. HIDE DEF f, h, L, R, n
    <3>. QED
      BY <1>1, <1>3, <1>4, ImageHasMinimum
  <2>. QED
    BY <2>1 DEF Min
<1>6. Max(R) \in R /\ \A x \in R : x <= Max(R)
  <2>1. \E x \in R : \A y \in R : y <= x
    <3>. HIDE DEF f, h, L, R, n
    <3>. QED
      BY <1>1, <1>3, <1>4, ImageHasMaximum
  <2>2. R \subseteq Int
    BY <1>1, <1>2
  <2>3. \E x \in R : \A y \in R : x >= y
    BY <2>1, <2>2
  <2>4. Max(R) \in R /\ \A y \in R : Max(R) >= y
    BY <2>3 DEF Max
  <2>. QED
    BY <2>2, <2>4
<1>. DEFINE lo == Min(L)
            hi == Max(R)
            w  == Ceil(hi - lo) + 2 * Margin
            at == ((lo + hi) - w * Sub) \div 2
<1>7. lo \in Int /\ hi \in Int
  BY <1>1, <1>2, <1>5, <1>6
<1>8. /\ choose_frame(ps).w = w /\ choose_frame(ps).at = Some(at)
      /\ choose_frame(ps).kind = "solved"
  BY DEF choose_frame
<1>9. \A i \in DOMAIN ps : lo <= ps[i].at[1] /\ ps[i].at[1] + ps[i].w * Sub <= hi
  BY <1>1, <1>2, <1>5, <1>6
<1>. HIDE DEF lo, hi, f, h, L, R, n
<1>10. w \in Int /\ w * Sub \in Int /\ hi - lo <= w * Sub
  <2>. DEFINE c == Ceil(hi - lo)
  <2>1. c \in Int /\ hi - lo <= c * Sub
    BY <1>7, CeilBounds
  <2>2. w = c + 2 * Margin /\ 2 * Margin \in Int /\ 0 <= 2 * Margin
    BY FramesAssumption
  <2>. HIDE DEF c, w
  <2>3. c <= w /\ w \in Int
    BY <2>1, <2>2
  <2>4. c * Sub <= w * Sub /\ w * Sub \in Int /\ c * Sub \in Int
    BY <2>1, <2>3, Pixels
  <2>. QED
    BY <1>7, <2>1, <2>3, <2>4
<1>11. at \in Int /\ at <= lo /\ hi <= at + w * Sub
  <2>. DEFINE ws == w * Sub
  <2>1. ws \in Int /\ hi - lo <= ws /\ at = ((lo + hi) - ws) \div 2
    BY <1>10
  <2>. HIDE DEF ws, at
  <2>2. at \in Int /\ 2 * at <= lo + hi - ws /\ lo + hi - ws <= 2 * at + 1
    BY <1>7, <2>1
  <2>3. at <= lo /\ hi <= at + ws
    BY <1>7, <2>1, <2>2
  <2>. QED
    BY <2>2, <2>3 DEF ws
<1>. HIDE DEF w, at
<1>12. Some(at)[1] = at /\ Some(at) # None
  BY DEF Some, None
<1>13. Placed(choose_frame(ps))
  BY <1>8, <1>10, <1>11, <1>12 DEF Placed
<1>14. ASSUME NEW i \in DOMAIN ps
       PROVE  Contains(choose_frame(ps), ps[i])
  <2>1. ps[i].at[1] \in Int /\ ps[i].w * Sub \in Int
    <3>1. ps[i] \in PanelSet /\ ps[i].at # None
      BY PanelTypes, PanelFields DEF Solved, None
    <3>. QED
      BY <3>1, PanelEnds
  <2>2. at <= ps[i].at[1] /\ ps[i].at[1] + ps[i].w * Sub <= at + w * Sub
    BY <1>7, <1>9, <1>10, <1>11, <2>1
  <2>. QED
    BY <1>8, <1>12, <2>2 DEF Contains
<1>. QED
  BY <1>8, <1>13, <1>14

IsFrame(ref) == ref = None \/ \E f : ref = Some(f) /\ Placed(f)

\* So is the frame chosen from the solutions alone.
LEMMA ModelFrame ==
  ASSUME NEW ps \in PanelSeqs
  PROVE  IsFrame(frame_from_models(ps))
BY ChosenFrame DEF frame_from_models, IsFrame, Some

\* A frame derived over a set, if there is one, is of integers.
LEMMA DerivedFrame ==
  ASSUME NEW ps \in PanelSeqs, NEW input
  PROVE  IsFrame(derive_items(ps, input))
<1>. DEFINE aligned == \/ input = "Aligned"
                       \/ /\ input = "Auto" /\ Len(ps) >= 2 /\ same_geometry(ps)
                          /\ same_geometry_reads_aligned(Solutions(ps))
            canvas == [kind |-> "aligned", w |-> ps[1].w, at |-> ps[1].at]
<1>1. ps # <<>>
  BY DEF PanelSeqs
<1>2. Placed(canvas)
  <2>1. ps[1] \in PanelSet /\ ps[1].w \in Int
    BY PanelTypes
  <2>2. ps[1].at # None => ps[1].at[1] \in Int
    BY <2>1, PanelEnds
  <2>. QED
    BY <2>1, <2>2 DEF Placed
<1>3. CASE aligned /\ ~same_geometry(ps)
  <2>1. derive_items(ps, input) = None
    BY <1>1, <1>3 DEF derive_items
  <2>. QED
    BY <2>1 DEF IsFrame
<1>4. CASE aligned /\ same_geometry(ps)
  <2>1. derive_items(ps, input) = Some(canvas)
    BY <1>1, <1>4 DEF derive_items
  <2>. QED
    BY <1>2, <2>1 DEF IsFrame
<1>5. CASE ~aligned /\ Solved(ps)
  <2>1. derive_items(ps, input) = Some(choose_frame(ps))
    BY <1>1, <1>5 DEF derive_items
  <2>. QED
    BY <1>5, <2>1, ChosenFrame DEF IsFrame
<1>6. CASE ~aligned /\ ~Solved(ps)
  <2>1. derive_items(ps, input) = None
    BY <1>1, <1>6 DEF derive_items
  <2>. QED
    BY <2>1 DEF IsFrame
<1>. QED
  BY <1>3, <1>4, <1>5, <1>6
-----------------------------------------------------------------------------
(* What reprojection makes of a panel that its frame contains              *)

\* A pixel the kernel can reach lies in the frame, and over the panel.
LEMMA Sampled ==
  ASSUME NEW p \in PanelSet, p.at # None, NEW f, Placed(f), f.at # None,
         Contains(f, p), NEW x \in Int, HasSupport(p, f, x)
  PROVE  /\ x \in 0 .. f.w - 1
         /\ Floor(Ends(p)[1] - f.at[1]) <= x
         /\ x < Ceil(Ends(p)[2] - f.at[1])
<1>. DEFINE k == Floor(f.at[1] + x * Sub - p.at[1] - Sub \div 2)
            from == Floor(Ends(p)[1] - f.at[1])
            to == Ceil(Ends(p)[2] - f.at[1])
            o == f.at[1]
            a == p.at[1]
            pw == p.w * Sub
            fw == f.w * Sub
            xs == x * Sub
            half == Sub \div 2
<1>1. /\ o \in Int /\ a \in Int /\ pw \in Int /\ fw \in Int /\ xs \in Int /\ half \in Int
      /\ p.w \in Int /\ f.w \in Int /\ Sub \in Int /\ 2 * half = Sub /\ half >= 1
      /\ Ends(p)[1] = a /\ Ends(p)[2] = a + pw
  <2>1. /\ a \in Int /\ pw \in Int /\ p.w \in Int
        /\ Ends(p)[1] = a /\ Ends(p)[2] = a + pw
    BY PanelEnds, PanelFields
  <2>2. o \in Int /\ f.w \in Int
    BY DEF Placed
  <2>3. fw \in Int /\ xs \in Int /\ Sub \in Int
    BY <2>2, Pixels
  <2>4. half \in Int /\ 2 * half = Sub /\ half >= 1
    BY HalfPixel
  <2>. QED
    BY <2>1, <2>2, <2>3, <2>4
<1>2. o <= a /\ a + pw <= o + fw
  BY DEF Contains
<1>3. k \in Int /\ 0 <= k /\ k + 1 <= p.w - 1
  <2>1. k \in Int
    BY <1>1, FloorBounds
  <2>2. Taps \in Int /\ Taps >= 1
    BY FramesAssumption
  <2>3. (k - (Taps - 1)) .. (k + Taps) \subseteq 0 .. p.w - 1
    BY DEF HasSupport, Tapped
  <2>. HIDE DEF k
  <2>4. k - (Taps - 1) \in 0 .. p.w - 1 /\ k + Taps \in 0 .. p.w - 1
    BY <2>1, <2>2, <2>3
  <2>. QED
    BY <1>1, <2>1, <2>2, <2>4
<1>4. 0 <= o + xs - a - half /\ o + xs - a - half < pw - Sub
  <2>. DEFINE e == o + xs - a - half
              ks == k * Sub
  <2>1. e \in Int
    BY <1>1
  <2>2. k = Floor(e)
    OBVIOUS
  <2>. HIDE DEF e
  <2>3. ks <= e /\ e < ks + Sub
    BY <2>1, <2>2, FloorBounds
  <2>. HIDE DEF k
  <2>4. 0 * Sub <= ks /\ 0 * Sub = 0 /\ ks \in Int
    <3>1. 0 * Sub <= k * Sub
      BY <1>3, Pixels
    <3>. QED
      BY <1>1, <1>3, <3>1, Pixels
  <2>5. ks + Sub <= pw - Sub
    <3>1. (k + 2) * Sub <= p.w * Sub
      BY <1>1, <1>3, Pixels
    <3>2. (k + 2) * Sub = k * Sub + 2 * Sub
      BY <1>3, Pixels
    <3>. QED
      BY <1>1, <1>3, <2>4, <3>1, <3>2
  <2>6. 0 <= e /\ e < pw - Sub
    BY <1>1, <2>1, <2>3, <2>4, <2>5
  <2>. QED
    BY <2>6 DEF e
<1>5. from \in Int /\ from * Sub \in Int /\ from * Sub <= a - o
  BY <1>1, FloorBounds, Pixels
<1>6. to \in Int /\ to * Sub \in Int /\ a + pw - o <= to * Sub
  BY <1>1, CeilBounds, Pixels
<1>. HIDE DEF from, to, k
<1>7. from <= x
  <2>1. from * Sub < xs + Sub
    BY <1>1, <1>4, <1>5
  <2>. QED
    BY <1>5, <2>1, Pixels
<1>8. x < to
  <2>1. (x + 1) * Sub = xs + Sub
    <3>1. (x + 1) * Sub = x * Sub + 1 * Sub
      BY Pixels
    <3>. QED
      BY <1>1, <3>1
  <2>2. (x + 1) * Sub < to * Sub + Sub
    BY <1>1, <1>4, <1>6, <2>1
  <2>3. x + 1 <= to
    BY <1>6, <2>2, Pixels
  <2>. QED
    BY <1>6, <2>3
<1>9. 0 <= x
  <2>1. 0 * Sub < xs + Sub
    BY <1>1, <1>2, <1>4
  <2>. QED
    BY <2>1, Pixels
<1>10. x <= f.w - 1
  <2>1. (x + 1) * Sub = xs + Sub
    <3>1. (x + 1) * Sub = x * Sub + 1 * Sub
      BY Pixels
    <3>. QED
      BY <1>1, <3>1
  <2>2. (x + 1) * Sub < fw + Sub
    BY <1>1, <1>2, <1>4, <2>1
  <2>3. x + 1 <= f.w
    BY <1>1, <2>2, Pixels
  <2>. QED
    BY <1>1, <2>3
<1>. QED
  BY <1>1, <1>7, <1>8, <1>9, <1>10 DEF from, to

\* The box that is reprojected leaves out nothing the kernel reaches.
LEMMA ReprojectedWhole ==
  ASSUME NEW p \in PanelSet, p.at # None, NEW f, Placed(f), f.at # None,
         Contains(f, p)
  PROVE  /\ reproject(p, f) = Everywhere(p, f)
         /\ reproject(p, f) \subseteq 0 .. f.w - 1
<1>. DEFINE from == Floor(Ends(p)[1] - f.at[1])
            to == Ceil(Ends(p)[2] - f.at[1])
            low == InsideOf(from - Pad, 0, f.w)
            high == InsideOf(to + 1 + Pad, 0, f.w)
            Reached(x) == HasSupport(p, f, x) /\ Tapped(p, f, x) \cap p.content # {}
<1>1. /\ from \in Int /\ to \in Int /\ f.w \in Int /\ Pad \in Nat /\ Taps \in Nat
  <2>1. Ends(p)[1] - f.at[1] \in Int /\ Ends(p)[2] - f.at[1] \in Int
    BY PanelEnds DEF Placed
  <2>. QED
    BY <2>1, FloorBounds, CeilBounds, FramesAssumption DEF Placed
<1>2. \A x \in Int : Reached(x) => x \in 0 .. f.w - 1 /\ from <= x /\ x < to
  BY Sampled
<1>3. reproject(p, f) = {x \in low .. high - 1 : Reached(x)}
  BY DEF reproject, cache_bbox
<1>4. Everywhere(p, f) = {x \in from - Taps .. to + Taps : Reached(x)}
  BY DEF Everywhere
<1>5. low \in Int /\ high \in Int
  BY <1>1 DEF InsideOf
<1>. HIDE DEF from, to, Reached
<1>6. \A x \in Int : x \in 0 .. f.w - 1 /\ from <= x /\ x < to
        => x \in low .. high - 1 /\ x \in from - Taps .. to + Taps
  BY <1>1 DEF InsideOf
<1>7. low .. high - 1 \subseteq Int /\ from - Taps .. to + Taps \subseteq Int
  BY <1>1, <1>5
<1>. HIDE DEF low, high
<1>. QED
  BY <1>2, <1>3, <1>4, <1>6, <1>7

\* The check of the footprints is that the frame contains the panels.
LEMMA FootprintsContained ==
  ASSUME NEW ps \in PanelSeqs, Solved(ps), NEW f, Placed(f), f.at # None
  PROVE  check_footprints(ps, f) <=> \A i \in DOMAIN ps : Contains(f, ps[i])
<1>1. ASSUME NEW i \in DOMAIN ps
      PROVE  (\A side \in 1 .. 2 : Overshoot(ps[i], f)[side] <= 0)
               <=> Contains(f, ps[i])
  <2>1. ps[i] \in PanelSet /\ ps[i].at # None
    BY PanelTypes, PanelFields DEF Solved, None
  <2>2. /\ ps[i].at[1] \in Int /\ ps[i].w * Sub \in Int
        /\ Ends(ps[i])[1] = ps[i].at[1] /\ Ends(ps[i])[2] = ps[i].at[1] + ps[i].w * Sub
        /\ f.at[1] \in Int /\ f.w * Sub \in Int
    BY <2>1, PanelEnds, Pixels DEF Placed
  <2>3. /\ Overshoot(ps[i], f)[1] = f.at[1] - ps[i].at[1]
        /\ Overshoot(ps[i], f)[2] = ps[i].at[1] + ps[i].w * Sub - (f.at[1] + f.w * Sub)
    BY <2>2 DEF Overshoot
  <2>4. (\A side \in 1 .. 2 : Overshoot(ps[i], f)[side] <= 0)
          <=> Overshoot(ps[i], f)[1] <= 0 /\ Overshoot(ps[i], f)[2] <= 0
    <3>1. 1 .. 2 = {1, 2}
      OBVIOUS
    <3>. QED
      BY <3>1
  <2>. QED
    BY <2>2, <2>3, <2>4 DEF Contains
<1>. QED
  BY <1>1 DEF check_footprints

\* The box of all data holds all data.
LEMMA BoxHoldsData ==
  ASSUME NEW w \in Int, NEW data, \A i \in DOMAIN data : data[i] \subseteq 0 .. w - 1,
         union_bbox(data) # None
  PROVE  LET box == union_bbox(data)[1]
         IN  /\ box[1] \in Int
             /\ \A i \in DOMAIN data : data[i] \cap box[1] .. box[2] - 1 = data[i]
<1>. DEFINE filled == UNION {data[i] : i \in DOMAIN data}
<1>1. filled \subseteq 0 .. w - 1
  OBVIOUS
<1>2. filled # {} /\ union_bbox(data)[1] = <<Min(filled), Max(filled) + 1>>
  BY DEF union_bbox, Some, None
<1>3. \A i \in DOMAIN data : data[i] \subseteq filled
  OBVIOUS
<1>. HIDE DEF filled
<1>4. IsFiniteSet(filled) /\ filled \in SUBSET Int
  <2>1. IsFiniteSet(0 .. w - 1) /\ 0 .. w - 1 \subseteq Int
    BY FS_Interval
  <2>. QED
    BY <1>1, <2>1, FS_Subset
<1>5. Max(filled) \in filled /\ \A x \in filled : x <= Max(filled)
  <2>1. \E x \in filled : \A y \in filled : y <= x
    BY <1>2, <1>4, FiniteHasMaximum
  <2>2. \E x \in filled : \A y \in filled : x >= y
    BY <1>4, <2>1
  <2>3. Max(filled) \in filled /\ \A y \in filled : Max(filled) >= y
    BY <2>2 DEF Max
  <2>. QED
    BY <1>4, <2>3
<1>6. Min(filled) \in filled /\ \A x \in filled : Min(filled) <= x
  <2>1. \E x \in filled : \A y \in filled : x <= y
    BY <1>2, <1>4, FiniteHasMinimum
  <2>. QED
    BY <2>1 DEF Min
<1>7. filled \subseteq Min(filled) .. (Max(filled) + 1) - 1 /\ Min(filled) \in Int
  <2>. DEFINE a == Min(filled)
              b == Max(filled)
  <2>1. a \in Int /\ b \in Int /\ \A x \in filled : x \in Int /\ a <= x /\ x <= b
    BY <1>4, <1>5, <1>6
  <2>. HIDE DEF a, b
  <2>2. filled \subseteq a .. (b + 1) - 1 /\ a \in Int
    BY <2>1
  <2>. QED
    BY <2>2 DEF a, b
<1>. QED
  BY <1>2, <1>3, <1>7

-----------------------------------------------------------------------------
(* The invariant                                                           *)

IsSeq(s) == \E S : s \in Seq(S)

TypeInv ==
  /\ job \in Jobs /\ g \in 1 .. Todo
  /\ IsFrame(reference) /\ IsSeq(sessions)

RowFits(w) == w * Panels[1].ch <= slot[1]

\* From Size to the session: the slot holds a row of the panels, and of every
\* frame the worker may still choose.
SlotInv ==
  /\ RowFits(Panels[1].w)
  /\ mode # "Files" =>
       \A i \in DOMAIN Panels : Panels[i].ch = Panels[1].ch /\ RowFits(Panels[i].w)
  /\ (mode = "Solved" \/ (mode = "Files" /\ job.input # "Aligned")) =>
       /\ Imposed => RowFits(reference[1].w)
       /\ (~Imposed /\ frame_from_models(Panels) # None)
            => RowFits(frame_from_models(Panels)[1].w)

\* The coverage sends no panels down the solved path if the user forbids it.
PathInv ==
  /\ stage \in {"scan", "reproject"} => mode = "Files"
  /\ stage = "reproject" => job.input # "Aligned"

IInv ==
  /\ TypeInv /\ PathInv
  /\ Hosted =>
       /\ stage \in {"derive", "size", "analyze", "scan", "reproject"}
            => Len(sessions) = g - 1
       /\ stage = "blend" => Len(sessions) = g
       /\ stage \in {"analyze", "scan", "reproject"} => SlotInv
       /\ SlotsFitTheMosaic

\* The group at work is one of the job, and a set of panels like the whole.
LEMMA GroupTypes ==
  ASSUME TypeInv
  PROVE  /\ Todo \in Nat /\ Todo \in 1 .. Len(job.groups) /\ g \in Nat
         /\ Hosted => Todo = Len(job.groups)
         /\ Panels \in PanelSeqs /\ All \in PanelSeqs
         /\ \A i \in 1 .. Len(job.groups) : job.groups[i] \in PanelSeqs
<1>1. /\ job.groups \in Seq(Seq(PanelSet)) /\ Len(job.groups) \in 1 .. 2
      /\ \A i \in 1 .. Len(job.groups) : job.groups[i] # <<>>
  BY JobsAssumption DEF TypeInv
<1>2. \A i \in 1 .. Len(job.groups) : job.groups[i] \in PanelSeqs
  BY <1>1 DEF PanelSeqs
<1>3. Todo \in 1 .. Len(job.groups) /\ (Hosted => Todo = Len(job.groups))
  <2>. DEFINE n == Len(job.groups)
  <2>1. n = 1 \/ n = 2
    BY <1>1
  <2>2. 1 \in 1 .. n /\ n \in 1 .. n
    BY <2>1
  <2>3. Todo = (IF job.how = "framed" THEN 1 ELSE n)
    BY DEF Todo
  <2>. HIDE DEF n
  <2>4. Todo \in 1 .. n
    BY <2>2, <2>3
  <2>5. Hosted => Todo = n
    BY <2>3 DEF Hosted
  <2>. QED
    BY <2>4, <2>5 DEF n
<1>4. Panels \in PanelSeqs
  BY <1>2, <1>3 DEF TypeInv, Panels
<1>5. All \in PanelSeqs
  <2>1. CASE Len(job.groups) = 1
    BY <1>2, <2>1 DEF All
  <2>2. CASE Len(job.groups) = 2
    <3>1. job.groups[1] \in Seq(PanelSet) /\ job.groups[2] \in Seq(PanelSet)
          /\ job.groups[1] # <<>>
      BY <1>1, <2>2
    <3>2. job.groups[1] \o job.groups[2] \in Seq(PanelSet)
          /\ job.groups[1] \o job.groups[2] # <<>>
      BY <3>1
    <3>. QED
      BY <2>2, <3>2 DEF All, PanelSeqs
  <2>. QED
    BY <1>1, <2>1, <2>2
<1>. QED
  BY <1>1, <1>2, <1>3, <1>4, <1>5 DEF TypeInv

-----------------------------------------------------------------------------
(* The two ways to size a slot                                             *)

\* What a width has to hold for the panels of the group.
HoldsRows(v, chosen) ==
  /\ v \in Int
  /\ \A i \in DOMAIN Panels : Panels[i].w <= v
  /\ chosen => /\ Imposed => reference[1].w <= v
               /\ (~Imposed /\ frame_from_models(Panels) # None)
                    => frame_from_models(Panels)[1].w <= v

\* Of two widths, the slot takes the wider.
LEMMA WiderHolds ==
  ASSUME NEW a \in Int, NEW b \in Int
  PROVE  Wider(a, b) \in Int /\ a <= Wider(a, b) /\ b <= Wider(a, b)
BY DEF Wider

\* A frame from outside and one chosen over the group are of integers.
LEMMA FrameHere ==
  ASSUME TypeInv
  PROVE  /\ Imposed => reference[1].w \in Int
         /\ frame_from_models(Panels) # None => frame_from_models(Panels)[1].w \in Int
<1>1. IsFrame(frame_from_models(Panels))
  BY GroupTypes, ModelFrame
<1>. QED
  BY <1>1 DEF TypeInv, IsFrame, Placed, Imposed, Some

\* Slots of a job that is given views hold what its panels need.
LEMMA ViewsSlot ==
  ASSUME TypeInv, ViewsWidth # None
  PROVE  /\ HoldsRows(ViewsWidth[1], ViewsAreSolved)
         /\ \A i \in DOMAIN Panels : Panels[i].ch = Panels[1].ch
<1>1. Panels \in PanelSeqs /\ Panels # <<>>
  BY GroupTypes DEF PanelSeqs
<1>2. Widest \in Int /\ \A i \in DOMAIN Panels : Panels[i].w <= Widest
  BY <1>1, WidestPanel DEF Widest
<1>3. \A i \in DOMAIN Panels : Panels[i].ch = Panels[1].ch
  BY DEF ViewsWidth
<1>4. CASE ~ViewsAreSolved
  <2>1. uniform /\ ViewsWidth = Some(Panels[1].w)
    BY <1>4 DEF ViewsWidth
  <2>2. Panels[1].w \in Int /\ \A i \in DOMAIN Panels : Panels[i].w <= Panels[1].w
    BY <1>1, <2>1, PanelTypes DEF uniform
  <2>. QED
    BY <1>3, <1>4, <2>1, <2>2 DEF HoldsRows, Some
<1>5. CASE ViewsAreSolved
  <2>. DEFINE frame == IF Imposed THEN reference ELSE probe_frame(Panels)
  <2>1. frame # None /\ ViewsWidth = Some(Wider(Widest, frame[1].w))
    BY <1>5 DEF ViewsWidth
  <2>2. ~Imposed => frame = frame_from_models(Panels)
    BY <1>1, <2>1 DEF probe_frame, Reply
  <2>3. frame[1].w \in Int
    BY <2>1, <2>2, FrameHere
  <2>4. Widest <= ViewsWidth[1] /\ frame[1].w <= ViewsWidth[1] /\ ViewsWidth[1] \in Int
    BY <1>2, <2>1, <2>3, WiderHolds DEF Some
  <2>5. \A i \in DOMAIN Panels : Panels[i].w <= ViewsWidth[1]
    <3>. TAKE i \in DOMAIN Panels
    <3>1. Panels[i].w \in Int
      BY <1>1, PanelTypes
    <3>. QED
      BY <1>2, <2>4, <3>1
  <2>. QED
    BY <1>3, <2>2, <2>4, <2>5 DEF HoldsRows
<1>. QED
  BY <1>4, <1>5

\* Slots of a job that is given files hold what its panels need.
LEMMA FilesSlot ==
  ASSUME TypeInv, FilesWidth # None
  PROVE  HoldsRows(FilesWidth[1], job.input # "Aligned")
<1>. DEFINE probe == worker_probe_panels(Panels, job.input)
<1>1. Panels \in PanelSeqs /\ Panels # <<>>
  BY GroupTypes DEF PanelSeqs
<1>2. Widest \in Int /\ \A i \in DOMAIN Panels : Panels[i].w <= Widest
  BY <1>1, WidestPanel DEF Widest
<1>3. probe # None
  BY DEF FilesWidth
<1>4. job.input # "Aligned" => probe[1].frame = frame_from_models(Panels)
  BY <1>3 DEF worker_probe_panels, probe_panels, Reply, Some
<1>5. probe[1].frame = None \/ probe[1].frame = frame_from_models(Panels)
  BY <1>3 DEF worker_probe_panels, probe_panels, Reply, Some
<1>6. /\ FilesWidth[1] \in Int /\ Widest <= FilesWidth[1]
      /\ Imposed => reference[1].w <= FilesWidth[1]
      /\ (~Imposed /\ probe[1].frame # None) => probe[1].frame[1].w <= FilesWidth[1]
  <2>. HIDE DEF probe
  <2>1. CASE Imposed
    <3>1. FilesWidth = Some(Wider(Widest, reference[1].w))
      BY <1>3, <2>1 DEF FilesWidth, probe
    <3>. QED
      BY <1>2, <2>1, <3>1, FrameHere, WiderHolds DEF Some
  <2>2. CASE ~Imposed /\ probe[1].frame # None
    <3>1. FilesWidth = Some(Wider(Widest, probe[1].frame[1].w))
      BY <1>3, <2>2 DEF FilesWidth, probe
    <3>2. probe[1].frame[1].w \in Int
      BY <1>5, <2>2, FrameHere
    <3>. QED
      BY <1>2, <2>2, <3>1, <3>2, WiderHolds DEF Some
  <2>3. CASE ~Imposed /\ probe[1].frame = None
    <3>1. FilesWidth = Some(Widest)
      BY <1>3, <2>3 DEF FilesWidth, probe
    <3>. QED
      BY <1>2, <2>3, <3>1 DEF Some
  <2>. QED
    BY <2>1, <2>2, <2>3
<1>7. \A i \in DOMAIN Panels : Panels[i].w <= FilesWidth[1]
  <2>. TAKE i \in DOMAIN Panels
  <2>1. Panels[i].w \in Int
    BY <1>1, PanelTypes
  <2>. QED
    BY <1>2, <1>6, <2>1
<1>. QED
  BY <1>4, <1>6, <1>7 DEF HoldsRows

-----------------------------------------------------------------------------
(* The invariant holds at the start and through every action               *)

\* The job begins with nothing that could overflow a slot.
LEMMA Initially ==
  ASSUME Init
  PROVE  IInv
<1>1. job \in Jobs /\ Len(job.groups) \in 1 .. 2 /\ g = 1 /\ sessions = <<>> /\ reference = None
  BY JobsAssumption DEF Init
<1>2. g \in 1 .. Todo
  BY <1>1 DEF Todo
<1>3. IsFrame(reference) /\ IsSeq(sessions) /\ Len(sessions) = g - 1
  BY <1>1 DEF IsFrame, IsSeq
<1>4. stage \in {"derive", "size"}
  BY DEF Init
<1>. QED
  BY <1>1, <1>2, <1>3, <1>4 DEF IInv, PathInv, TypeInv, SlotsFitTheMosaic

\* An end of the job leaves all but the stage as it was.
LEMMA JobEnds ==
  ASSUME IInv, UNCHANGED <<job, g, reference, mode, slot, sessions, outputs>>,
         stage' \in {"refused", "stopped"}
  PROVE  IInv'
BY DEF IInv, PathInv, TypeInv, Todo, Hosted, SlotsFitTheMosaic

\* Every way to ask for a frame gives one of integers, or none.
LEMMA FrameFound ==
  ASSUME NEW ps \in PanelSeqs, NEW input
  PROVE  /\ IsFrame(derive(ps, input)) /\ IsFrame(probe_reference(ps, input))
         /\ IsFrame(DeriveReferenceFromFiles(ps, input))
<1>1. IsFrame(derive_items(ps, input)) /\ IsFrame(None)
  BY DerivedFrame DEF IsFrame
<1>2. IsFrame(derive(ps, input))
  BY <1>1 DEF derive
<1>3. IsFrame(probe_reference(ps, input))
  BY <1>1 DEF probe_reference, Reply, derive_from_descs
<1>4. IsFrame(DeriveReferenceFromFiles(ps, input))
  <2>. DEFINE probe == worker_probe_panels(ps, input)
  <2>1. CASE probe = None
    BY <1>1, <2>1 DEF DeriveReferenceFromFiles
  <2>2. CASE probe # None
    <3>1. probe[1].reference = derive(ps, input)
      BY <2>2 DEF worker_probe_panels, probe_panels, Reply, Some
    <3>. QED
      BY <1>2, <2>2, <3>1 DEF DeriveReferenceFromFiles
  <2>. QED
    BY <2>1, <2>2
<1>. QED
  BY <1>2, <1>3, <1>4

\* Deriving the frame.
LEMMA DeriveKeeps ==
  ASSUME IInv, Derive
  PROVE  IInv'
<1>1. CASE Refuse
  BY <1>1, JobEnds DEF Refuse
<1>2. CASE /\ DerivedReference # None /\ reference' = DerivedReference
           /\ stage' = (IF Hosted THEN "size" ELSE "analyze")
           /\ UNCHANGED <<job, g, mode, slot, sessions, outputs>>
  <2>1. TypeInv /\ job \in Jobs
    BY DEF IInv, TypeInv
  <2>2. IsFrame(DerivedReference)
    <3>1. All \in PanelSeqs
      BY <2>1, GroupTypes
    <3>2. job.how = "framed" => job.groups[2] \in PanelSeqs
      BY <2>1, GroupTypes, JobsAssumption
    <3>3. job.how \in {"batch", "framed", "files", "views"}
      BY <2>1, JobsAssumption
    <3>. QED
      BY <3>1, <3>2, <3>3, FrameFound DEF DerivedReference
  <2>3. TypeInv'
    BY <1>2, <2>1, <2>2 DEF TypeInv, Todo
  <2>. QED
    BY <1>2, <2>3 DEF IInv, PathInv, Derive, Hosted, SlotsFitTheMosaic
<1>. QED
  BY <1>1, <1>2 DEF Derive

\* Sizing the slots from the headers.
LEMMA SizeKeeps ==
  ASSUME IInv, Size
  PROVE  IInv'
<1>. DEFINE width == IF job.how = "views" THEN ViewsWidth ELSE FilesWidth
<1>1. CASE Refuse
  BY <1>1, JobEnds DEF Refuse
<1>2. CASE /\ width # None /\ slot' = Some(width[1] * Panels[1].ch)
           /\ mode' = (IF job.how = "files" THEN "Files"
                        ELSE IF ViewsAreSolved THEN "Solved" ELSE "Aligned")
           /\ stage' = "analyze"
           /\ UNCHANGED <<job, g, reference, sessions, outputs>>
  <2>1. TypeInv
    BY DEF IInv
  <2>2. TypeInv'
    BY <1>2, <2>1 DEF TypeInv, Todo
  <2>3. Panels \in PanelSeqs
    BY <2>1, GroupTypes
  <2>4. /\ Panels' = Panels /\ Imposed' = Imposed /\ job' = job /\ reference' = reference
        /\ Hosted' = Hosted
    BY <1>2 DEF Panels, Imposed, Hosted
  <2>5. Hosted => SlotInv'
    <3>. SUFFICES ASSUME Hosted PROVE SlotInv'
      OBVIOUS
    <3>. DEFINE chosen == mode' = "Solved" \/ (mode' = "Files" /\ job.input # "Aligned")
    <3>1. /\ HoldsRows(width[1], chosen)
          /\ mode' # "Files" => \A i \in DOMAIN Panels : Panels[i].ch = Panels[1].ch
      <4>1. CASE job.how = "views"
        <5>1. width = ViewsWidth /\ (chosen <=> ViewsAreSolved)
          BY <1>2, <4>1
        <5>2. /\ HoldsRows(ViewsWidth[1], ViewsAreSolved)
              /\ \A i \in DOMAIN Panels : Panels[i].ch = Panels[1].ch
          BY <1>2, <2>1, <5>1, ViewsSlot
        <5>. QED
          BY <5>1, <5>2 DEF HoldsRows
      <4>2. CASE job.how = "files"
        <5>1. width = FilesWidth /\ (chosen <=> job.input # "Aligned") /\ mode' = "Files"
          BY <1>2, <4>2
        <5>. QED
          BY <1>2, <2>1, <5>1, FilesSlot
      <4>. QED
        BY <4>1, <4>2 DEF Hosted
    <3>2. slot'[1] = width[1] * Panels[1].ch
      BY <1>2 DEF Some
    <3>. DEFINE Holds(v) == v * Panels[1].ch <= slot'[1]
    <3>3. \A v \in Int : v <= width[1] => Holds(v)
      <4>1. width[1] \in Int /\ Panels[1].ch \in Nat
        BY <2>3, <3>1, PanelTypes DEF HoldsRows
      <4>. HIDE DEF width
      <4>. QED
        BY <3>2, <4>1, WiderTimes
    <3>. HIDE DEF Holds, width
    <3>4. \A i \in DOMAIN Panels : Holds(Panels[i].w)
      <4>1. \A i \in DOMAIN Panels : Panels[i].w \in Int
        BY <2>3, PanelTypes
      <4>. QED
        BY <3>1, <3>3, <4>1 DEF HoldsRows
    <3>5. 1 \in DOMAIN Panels
      BY <2>3, PanelTypes
    <3>6. chosen /\ Imposed => Holds(reference[1].w)
      BY <2>1, <3>1, <3>3, FrameHere DEF HoldsRows
    <3>7. chosen /\ ~Imposed /\ frame_from_models(Panels) # None
            => Holds(frame_from_models(Panels)[1].w)
      BY <2>1, <3>1, <3>3, FrameHere DEF HoldsRows
    <3>. QED
      BY <2>4, <3>1, <3>4, <3>5, <3>6, <3>7 DEF SlotInv, RowFits, Holds
  <2>. QED
    BY <1>2, <2>2, <2>4, <2>5 DEF IInv, Size, PathInv, SlotsFitTheMosaic
<1>. QED
  BY <1>1, <1>2 DEF Size

\* The steps that only choose the path, and the path they may choose.
LEMMA PathKeeps ==
  ASSUME IInv, stage \in {"analyze", "scan"}, stage' \in {"scan", "reproject"},
         UNCHANGED <<job, g, reference, mode, slot, sessions, outputs>>,
         mode = "Files", stage' = "reproject" => job.input # "Aligned"
  PROVE  IInv'
<1>1. /\ Panels' = Panels /\ Hosted' = Hosted /\ Todo' = Todo /\ Imposed' = Imposed
      /\ TypeInv'
  BY DEF IInv, TypeInv, Panels, Hosted, Todo, Imposed
<1>2. SlotInv' <=> SlotInv
  BY <1>1 DEF SlotInv, RowFits
<1>. QED
  BY <1>1, <1>2 DEF IInv, PathInv, SlotsFitTheMosaic

\* A session is whole: what a host will send of it fits the slot.
LEMMA SessionKeeps ==
  ASSUME IInv, stage \in {"analyze", "scan", "reproject"},
         NEW session, finish_session(session),
         Hosted => /\ session.ch = Panels[1].ch /\ RowFits(session.w)
  PROVE  IInv'
<1>. DEFINE S == Append(sessions, session)
<1>1. TypeInv /\ Todo \in Nat \ {0} /\ g \in Nat /\ Panels \in PanelSeqs
  <2>1. TypeInv
    BY DEF IInv
  <2>. QED
    BY <2>1, GroupTypes DEF TypeInv
<1>2. IsSeq(S) /\ Len(S) = Len(sessions) + 1 /\ S[Len(sessions) + 1] = session
  <2>1. PICK T : sessions \in Seq(T)
    BY <1>1 DEF TypeInv, IsSeq
  <2>2. sessions \in Seq(T \cup {session})
    BY <2>1
  <2>3. S \in Seq(T \cup {session}) /\ Len(S) = Len(sessions) + 1
        /\ S[Len(sessions) + 1] = session
    BY <2>2
  <2>. QED
    BY <2>3 DEF IsSeq
<1>3. /\ sessions' = S /\ job' = job /\ reference' = reference /\ mode' = mode /\ slot' = slot
      /\ Hosted' = Hosted /\ Todo' = Todo
  BY DEF finish_session, Hosted, Todo
<1>4. CASE Hosted
  <2>1. g' = g /\ stage' = "blend" /\ Panels' = Panels
    BY <1>3, <1>4 DEF finish_session, Panels
  <2>2. TypeInv'
    BY <1>1, <1>2, <1>3, <2>1 DEF TypeInv
  <2>3. Len(sessions) = g - 1 /\ SlotInv
    BY <1>4 DEF IInv
  <2>4. Len(S) = g /\ S[g] = session
    BY <1>1, <1>2, <2>3
  <2>5. S[g].w * S[g].ch <= slot[1]
    BY <1>4, <2>4 DEF RowFits
  <2>6. mode # "Files" => \A i \in DOMAIN Panels : Panels[i].w * Panels[i].ch <= slot[1]
    BY <2>3 DEF SlotInv, RowFits
  <2>7. SlotsFitTheMosaic'
    BY <1>3, <2>1, <2>5, <2>6 DEF SlotsFitTheMosaic
  <2>. HIDE DEF S
  <2>. QED
    BY <1>3, <2>1, <2>2, <2>4, <2>7 DEF IInv, PathInv
<1>5. CASE ~Hosted
  <2>1. g' \in 1 .. Todo /\ stage' \in {"analyze", "blend"}
    BY <1>1, <1>5 DEF finish_session, TypeInv
  <2>. QED
    BY <1>1, <1>2, <1>3, <1>5, <2>1 DEF IInv, PathInv, TypeInv
<1>. QED
  BY <1>4, <1>5

\* A session of registered canvases.
LEMMA AlignedKeeps ==
  ASSUME IInv, stage \in {"analyze", "scan"}, finish_session(AlignedSession)
  PROVE  IInv'
<1>1. Hosted => RowFits(Panels[1].w)
  BY DEF IInv, SlotInv
<1>2. AlignedSession.ch = Panels[1].ch /\ AlignedSession.w = Panels[1].w
  BY DEF AlignedSession
<1>. HIDE DEF AlignedSession
<1>. QED
  BY <1>1, <1>2, SessionKeeps

\* A session of reprojected panels.
LEMMA SolvedKeeps ==
  ASSUME IInv, SolvedSession # None, finish_session(SolvedSession[1]),
         stage \in {"analyze", "reproject"},
         mode = "Solved" \/ (mode = "Files" /\ job.input # "Aligned")
  PROVE  IInv'
<1>. DEFINE frame == IF Imposed THEN reference[1] ELSE frame_from_models(Panels)[1]
<1>1. /\ frame_from_models(Panels) # None
      /\ SolvedSession[1].w = frame.w /\ SolvedSession[1].ch = Panels[1].ch
  BY DEF SolvedSession, Some
<1>2. Hosted => RowFits(frame.w)
  BY <1>1 DEF IInv, SlotInv
<1>. QED
  BY <1>1, <1>2, SessionKeeps

\* Blending the group.
LEMMA BlendKeeps ==
  ASSUME IInv, blend
  PROVE  IInv'
<1>1. CASE Refuse
  BY <1>1, JobEnds DEF Refuse
<1>2. CASE /\ IF g = Todo
              THEN stage' = "done" /\ g' = g
              ELSE stage' = (IF Hosted THEN "size" ELSE "blend") /\ g' = g + 1
           /\ UNCHANGED <<job, reference, mode, slot, sessions>>
  <2>1. TypeInv
    BY DEF IInv
  <2>2. Todo \in Nat /\ g \in Nat /\ g \in 1 .. Todo
    BY <2>1, GroupTypes DEF TypeInv
  <2>3. Hosted' = Hosted /\ Todo' = Todo
    BY <1>2 DEF Hosted, Todo
  <2>4. g' \in 1 .. Todo
    BY <1>2, <2>2
  <2>5. TypeInv'
    BY <1>2, <2>1, <2>3, <2>4 DEF TypeInv
  <2>6. CASE g = Todo
    BY <1>2, <2>3, <2>5, <2>6 DEF IInv, PathInv, SlotsFitTheMosaic
  <2>7. CASE g # Todo
    <3>1. Hosted => stage' = "size" /\ Len(sessions') = g' - 1
      BY <1>2, <2>2, <2>7 DEF IInv, blend
    <3>2. stage' \in {"size", "blend"}
      BY <1>2, <2>7
    <3>. QED
      BY <2>3, <2>5, <3>1, <3>2 DEF IInv, PathInv, SlotsFitTheMosaic
  <2>. QED
    BY <2>6, <2>7
<1>. QED
  BY <1>1, <1>2 DEF blend

-----------------------------------------------------------------------------
(* IInv is inductive, and SlotsFitTheMosaic is a part of it.               *)

\* The invariant is inductive.
LEMMA StepKeeps ==
  ASSUME IInv, [Next]_vars
  PROVE  IInv'
<1>1. CASE Derive
  BY <1>1, DeriveKeeps
<1>2. CASE Size
  BY <1>2, SizeKeeps
<1>3. CASE RefuseInit \/ Stop
  BY <1>3, JobEnds DEF RefuseInit, Stop, Refuse
<1>4. CASE analyze_full
  <2>1. CASE Refuse
    BY <2>1, JobEnds DEF Refuse
  <2>2. CASE ~Refuse
    BY <1>4, <2>2, PathKeeps DEF analyze_full
  <2>. QED
    BY <2>1, <2>2
<1>5. CASE analyze_aligned
  <2>1. CASE Refuse
    BY <2>1, JobEnds DEF Refuse
  <2>2. CASE finish_session(AlignedSession)
    BY <1>5, <2>2, AlignedKeeps DEF analyze_aligned
  <2>3. CASE /\ job.input = "Auto" /\ stage' = "reproject"
             /\ UNCHANGED <<job, g, reference, mode, slot, sessions, outputs>>
    BY <1>5, <2>3, PathKeeps DEF analyze_aligned, IInv, PathInv
  <2>. QED
    BY <1>5, <2>1, <2>2, <2>3 DEF analyze_aligned
<1>6. CASE analyze_solved
  <2>1. CASE Refuse
    BY <2>1, JobEnds DEF Refuse
  <2>2. CASE SolvedSession # None /\ finish_session(SolvedSession[1])
    BY <1>6, <2>2, SolvedKeeps DEF analyze_solved, IInv, PathInv
  <2>. QED
    BY <1>6, <2>1, <2>2 DEF analyze_solved
<1>7. CASE analyze_ipc_aligned
  <2>1. CASE Refuse
    BY <2>1, JobEnds DEF Refuse
  <2>2. CASE finish_session(AlignedSession)
    BY <1>7, <2>2, AlignedKeeps DEF analyze_ipc_aligned
  <2>. QED
    BY <1>7, <2>1, <2>2 DEF analyze_ipc_aligned
<1>8. CASE analyze_ipc_solved
  <2>1. CASE Refuse
    BY <2>1, JobEnds DEF Refuse
  <2>2. CASE SolvedSession # None /\ finish_session(SolvedSession[1])
    BY <1>8, <2>2, SolvedKeeps DEF analyze_ipc_solved
  <2>. QED
    BY <1>8, <2>1, <2>2 DEF analyze_ipc_solved
<1>9. CASE blend
  BY <1>9, BlendKeeps
<1>10. CASE UNCHANGED vars
  BY <1>10 DEF vars, IInv, TypeInv, PathInv, SlotInv, RowFits, Panels, Hosted,
     Todo, Imposed,
               SlotsFitTheMosaic
<1>. QED
  BY <1>1, <1>2, <1>3, <1>4, <1>5, <1>6, <1>7, <1>8, <1>9, <1>10 DEF Next

(* For all jobs: what the worker sends through a slot in the blend of a    *)
(* group fits the slot the host sized from its own probes.                 *)
THEOREM SlotsAlwaysFit == Spec => []SlotsFitTheMosaic
<1>1. Init => IInv
  BY Initially
<1>2. IInv /\ [Next]_vars => IInv'
  BY StepKeeps
<1>3. IInv => SlotsFitTheMosaic
  BY DEF IInv, SlotsFitTheMosaic
<1>. QED
  BY <1>1, <1>2, <1>3, PTL DEF Spec

-----------------------------------------------------------------------------
(* What a session holds of its panels, and an output of its session        *)

HostedJob(j) == j.how \in {"files", "views"}

\* The session s of the panels ps, in the job j with the shared frame ref.
SessionTrue(j, ref, s, ps) ==
  /\ s.imposed = (ref # None) /\ s.w \in Int
  /\ \A n \in DOMAIN ps : ps[n].ch = s.ch
  /\ ref # None => s.w = ref[1].w
  /\ s.kind \in {"aligned", "solved"}
  /\ s.kind = "aligned" =>
       /\ s.frame = None
       /\ s.data = [n \in DOMAIN ps |-> ps[n].content]
       /\ \A n \in DOMAIN ps : ps[n].w = s.w
       /\ (ref # None /\ ps[1].at # None /\ ref[1].at # None)
            => Abs(ps[1].at[1] - ref[1].at[1]) <= Tol
       /\ (~HostedJob(j) /\ j.input = "Auto" /\ Len(ps) >= 2)
            => same_geometry_reads_aligned(Solutions(ps))
  /\ s.kind = "solved" =>
       /\ s.frame # None /\ Placed(s.frame[1]) /\ s.frame[1].at # None
       /\ s.w = s.frame[1].w
       /\ s.data = [n \in DOMAIN ps |-> reproject(ps[n], s.frame[1])]
       /\ Solved(ps) /\ \A n \in DOMAIN ps : Contains(s.frame[1], ps[n])
       /\ ref # None => s.frame[1] = ref[1]

\* The output o of that session.
OutputTrue(j, ref, o, s, ps) ==
  /\ o.bbox[1] \in Int /\ o.data = s.data
  /\ ref # None /\ j.extent # "union" => o.bbox = <<0, s.w>>
  /\ o.cards = IF HostedJob(j) THEN None
               ELSE wcs_cards(IF s.frame # None THEN s.frame[1].at ELSE ps[1].at,
                              o.bbox[1])

\* How far the job is: which groups have a session, and which an output.
Course ==
  /\ IsSeq(outputs)
  /\ Len(outputs) <= Len(sessions) /\ Len(sessions) <= Todo
  /\ stage \in {"derive", "size", "analyze", "scan", "reproject"}
       => Len(sessions) = g - 1
  /\ stage \notin Ended /\ (Hosted \/ stage = "blend") => Len(outputs) = g - 1
  /\ stage = "blend" => Len(sessions) = IF Hosted THEN g ELSE Todo
  /\ ~Hosted => /\ mode = "Files" /\ stage # "size"
                /\ stage \notin Ended \cup {"blend"} => Len(outputs) = 0
  /\ stage = "derive" => g = 1 /\ reference = None
  /\ stage = "scan" /\ job.input = "Auto" => auto_reads_aligned

GridInv ==
  /\ Course
  /\ \A i \in 1 .. Len(sessions) :
       SessionTrue(job, reference, sessions[i], job.groups[i])
  /\ \A i \in 1 .. Len(outputs) :
       OutputTrue(job, reference, outputs[i], sessions[i], job.groups[i])

\* A sequence that grew by one element.
LEMMA Appended ==
  ASSUME NEW s, IsSeq(s), NEW e
  PROVE  /\ IsSeq(Append(s, e)) /\ Len(s) \in Nat
         /\ Len(Append(s, e)) = Len(s) + 1 /\ Append(s, e)[Len(s) + 1] = e
         /\ \A i \in 1 .. Len(s) : Append(s, e)[i] = s[i]
<1>1. PICK T : s \in Seq(T)
  BY DEF IsSeq
<1>2. s \in Seq(T \cup {e})
  BY <1>1
<1>3. /\ Append(s, e) \in Seq(T \cup {e}) /\ Len(s) \in Nat
      /\ Len(Append(s, e)) = Len(s) + 1 /\ Append(s, e)[Len(s) + 1] = e
      /\ \A i \in 1 .. Len(s) : Append(s, e)[i] = s[i]
  BY <1>2
<1>. QED
  BY <1>3 DEF IsSeq

\* The job begins with neither session nor output.
LEMMA GridInitially ==
  ASSUME Init
  PROVE  GridInv
<1>1. /\ job \in Jobs /\ Len(job.groups) \in 1 .. 2 /\ g = 1 /\ reference = None
      /\ sessions = <<>> /\ outputs = <<>> /\ mode = "Files"
      /\ stage = IF Hosted /\ Len(job.groups) = 1 THEN "size" ELSE "derive"
  BY JobsAssumption DEF Init, Hosted
<1>2. IsSeq(outputs) /\ Len(sessions) = 0 /\ Len(outputs) = 0
  BY <1>1 DEF IsSeq
<1>3. Todo \in Nat /\ Todo >= 1
  BY <1>1 DEF Todo
<1>. QED
  BY <1>1, <1>2, <1>3 DEF GridInv, Course, Ended

\* A step that adds neither a session nor an output.
LEMMA GridKept ==
  ASSUME GridInv, UNCHANGED <<job, reference, sessions, outputs>>, Course'
  PROVE  GridInv'
BY DEF GridInv

\* Ending the job.
LEMMA GridEnds ==
  ASSUME GridInv, UNCHANGED <<job, g, reference, mode, slot, sessions, outputs>>,
         stage' \in {"refused", "stopped"}
  PROVE  GridInv'
<1>1. Course'
  BY DEF GridInv, Course, Ended, Hosted, Todo
<1>. QED
  BY <1>1, GridKept

\* Choosing the path.
LEMMA GridPath ==
  ASSUME GridInv, stage \in {"analyze", "scan"}, stage' \in {"scan", "reproject"},
         UNCHANGED <<job, g, reference, mode, slot, sessions, outputs>>,
         stage' = "scan" /\ job.input = "Auto" => auto_reads_aligned
  PROVE  GridInv'
<1>1. auto_reads_aligned' <=> auto_reads_aligned
  BY DEF auto_reads_aligned, Panels, Imposed
<1>2. Course'
  BY <1>1 DEF GridInv, Course, Ended, Hosted, Todo
<1>. QED
  BY <1>2, GridKept

\* Deriving the frame.
LEMMA GridDerive ==
  ASSUME IInv, GridInv, Derive
  PROVE  GridInv'
<1>1. CASE Refuse
  BY <1>1, GridEnds DEF Refuse
<1>2. CASE /\ stage' = (IF Hosted THEN "size" ELSE "analyze")
           /\ UNCHANGED <<job, g, mode, slot, sessions, outputs>>
  <2>1. Len(sessions) = 0 /\ Len(outputs) = 0
    <3>1. PICK T : outputs \in Seq(T)
      BY DEF GridInv, Course, IsSeq
    <3>. QED
      BY <3>1 DEF Derive, GridInv, Course
  <2>2. Course'
    BY <1>2, <2>1 DEF Derive, GridInv, Course, Ended, Hosted, Todo
  <2>. QED
    BY <1>2, <2>1, <2>2 DEF GridInv
<1>. QED
  BY <1>1, <1>2 DEF Derive

\* Sizing the slots.
LEMMA GridSize ==
  ASSUME GridInv, Size
  PROVE  GridInv'
<1>1. CASE Refuse
  BY <1>1, GridEnds DEF Refuse
<1>2. CASE stage' = "analyze" /\ UNCHANGED <<job, g, reference, sessions, outputs>>
  <2>1. Course'
    BY <1>2 DEF Size, GridInv, Course, Ended, Hosted, Todo
  <2>. QED
    BY <1>2, <2>1, GridKept
<1>. QED
  BY <1>1, <1>2 DEF Size

\* The session of the group is whole.
LEMMA GridSession ==
  ASSUME IInv, GridInv, stage \in {"analyze", "scan", "reproject"},
         NEW s, finish_session(s), SessionTrue(job, reference, s, Panels)
  PROVE  GridInv'
<1>. DEFINE S == Append(sessions, s)
<1>1. TypeInv /\ IsSeq(sessions) /\ g \in 1 .. Todo /\ Todo \in Nat
  <2>1. TypeInv
    BY DEF IInv
  <2>. QED
    BY <2>1, GroupTypes DEF TypeInv
<1>2. /\ Len(S) = Len(sessions) + 1 /\ Len(sessions) = g - 1 /\ S[g] = s
      /\ \A i \in 1 .. Len(sessions) : S[i] = sessions[i]
  <2>1. Len(sessions) = g - 1
    BY DEF GridInv, Course
  <2>. QED
    BY <1>1, <2>1, Appended
<1>3. /\ sessions' = S /\ UNCHANGED <<job, reference, mode, slot, outputs>>
      /\ stage' = (IF Hosted \/ g = Todo THEN "blend" ELSE "analyze")
      /\ g' = (IF Hosted THEN g ELSE IF g = Todo THEN 1 ELSE g + 1)
  BY DEF finish_session
<1>. HIDE DEF S
<1>4. \A i \in 1 .. Len(S) : SessionTrue(job, reference, S[i], job.groups[i])
  BY <1>1, <1>2 DEF GridInv, Panels
<1>5. Len(outputs) \in Nat /\ Len(outputs) <= Len(sessions)
  <2>1. PICK T : outputs \in Seq(T)
    BY DEF GridInv, Course, IsSeq
  <2>. QED
    BY <2>1 DEF GridInv, Course
<1>6. \A i \in 1 .. Len(outputs) :
        OutputTrue(job, reference, outputs[i], S[i], job.groups[i])
  BY <1>1, <1>2, <1>5 DEF GridInv
<1>7. Course'
  <2>1. IsSeq(outputs) /\ (~Hosted => mode = "Files" /\ Len(outputs) = 0)
        /\ (Hosted => Len(outputs) = g - 1)
    BY DEF GridInv, Course, Ended
  <2>2. Hosted' = Hosted /\ Todo' = Todo
    BY <1>3 DEF Hosted, Todo
  <2>3. CASE Hosted
    BY <1>1, <1>2, <1>3, <1>5, <2>1, <2>2, <2>3 DEF Course, Ended
  <2>4. CASE ~Hosted
    BY <1>1, <1>2, <1>3, <1>5, <2>1, <2>2, <2>4 DEF Course, Ended
  <2>. QED
    BY <2>3, <2>4
<1>. QED
  BY <1>3, <1>4, <1>6, <1>7 DEF GridInv

\* Registered canvases are taken as they are.
LEMMA AlignedTrue ==
  ASSUME IInv, one_canvas, MatchesReference,
         (~Hosted /\ job.input = "Auto" /\ Len(Panels) >= 2)
            => same_geometry_reads_aligned(Solutions(Panels))
  PROVE  SessionTrue(job, reference, AlignedSession, Panels)
<1>1. Panels \in PanelSeqs
  BY GroupTypes DEF IInv
<1>2. /\ 1 \in DOMAIN Panels /\ Panels[1].w \in Int
      /\ \A n \in DOMAIN Panels : Panels[n].w = Panels[1].w /\ Panels[n].ch = Panels[1].ch
  <2>1. 1 \in DOMAIN Panels /\ Panels[1].w \in Int
    BY <1>1, PanelTypes
  <2>2. \A n \in DOMAIN Panels :
          <<Panels[n].w, Panels[n].ch>> = <<Panels[1].w, Panels[1].ch>>
    BY DEF one_canvas, Geometries
  <2>. QED
    BY <2>1, <2>2
<1>3. Imposed => /\ Panels[1].w = reference[1].w
                 /\ (Panels[1].at # None /\ reference[1].at # None)
                      => Abs(Panels[1].at[1] - reference[1].at[1]) <= Tol
  BY DEF MatchesReference, check_aligned, wcs_displacement_px
<1>. DEFINE s == AlignedSession
<1>4. /\ s.kind = "aligned" /\ s.frame = None /\ s.imposed = Imposed
      /\ s.w = Panels[1].w /\ s.ch = Panels[1].ch
      /\ s.data = [n \in DOMAIN Panels |-> Panels[n].content]
  BY DEF AlignedSession
<1>. HIDE DEF s
<1>5. SessionTrue(job, reference, s, Panels)
  BY <1>2, <1>3, <1>4 DEF SessionTrue, HostedJob, Hosted, Imposed
<1>. QED
  BY <1>5 DEF s

\* The frame holds all there is of the panels that are put on it.
LEMMA SolvedTrue ==
  ASSUME IInv, SolvedSession # None
  PROVE  SessionTrue(job, reference, SolvedSession[1], Panels)
<1>. DEFINE own == frame_from_models(Panels)
            f == IF Imposed THEN reference[1] ELSE own[1]
            s == SolvedSession[1]
<1>1. Panels \in PanelSeqs /\ IsFrame(reference)
  BY GroupTypes DEF IInv, TypeInv
<1>2. /\ own # None
      /\ Imposed => reference[1].kind = "solved" /\ check_footprints(Panels, reference[1])
      /\ s.kind = "solved" /\ s.frame = Some(f) /\ s.imposed = Imposed
      /\ s.w = f.w /\ s.ch = Panels[1].ch
      /\ s.data = [n \in DOMAIN Panels |-> reproject(Panels[n], f)]
  BY DEF SolvedSession, Some
<1>3. /\ Solved(Panels) /\ own[1] = choose_frame(Panels)
      /\ \A n \in DOMAIN Panels : Panels[n].ch = Panels[1].ch
  BY <1>2 DEF frame_from_models, check_uniform_channels, Some
<1>4. /\ Placed(f) /\ f.at # None
      /\ \A n \in DOMAIN Panels : Contains(f, Panels[n])
  <2>1. CASE Imposed
    <3>1. Placed(reference[1]) /\ reference[1].at # None
      BY <1>1, <1>2, <2>1 DEF Imposed, IsFrame, Some, Placed
    <3>. QED
      BY <1>1, <1>2, <1>3, <2>1, <3>1, FootprintsContained
  <2>2. CASE ~Imposed
    BY <1>1, <1>3, <2>2, ChosenFrame DEF Placed
  <2>. QED
    BY <2>1, <2>2
<1>. HIDE DEF own, f, s
<1>5. s.frame[1] = f /\ s.frame # None /\ f.w \in Int
  BY <1>2, <1>4 DEF Some, None, Placed
<1>6. Imposed => f = reference[1]
  BY DEF f
<1>7. SessionTrue(job, reference, s, Panels)
  BY <1>2, <1>3, <1>4, <1>5, <1>6 DEF SessionTrue, Imposed
<1>. QED
  BY <1>7 DEF s

\* What a session holds lies in its grid.
LEMMA DataInGrid ==
  ASSUME NEW j, NEW ref, NEW s, NEW ps \in PanelSeqs, SessionTrue(j, ref, s, ps)
  PROVE  /\ s.w \in Int /\ DOMAIN s.data = DOMAIN ps
         /\ \A n \in DOMAIN ps : s.data[n] \subseteq 0 .. s.w - 1
<1>1. CASE s.kind = "aligned"
  <2>1. /\ s.w \in Int /\ s.data = [n \in DOMAIN ps |-> ps[n].content]
        /\ \A n \in DOMAIN ps : ps[n].w = s.w
    BY <1>1 DEF SessionTrue
  <2>2. \A n \in DOMAIN ps : ps[n].content \subseteq 0 .. ps[n].w - 1
    BY PanelTypes DEF PanelSet
  <2>. QED
    BY <2>1, <2>2
<1>2. CASE s.kind = "solved"
  <2>. DEFINE f == s.frame[1]
  <2>1. /\ s.w \in Int /\ s.w = f.w /\ Placed(f) /\ f.at # None /\ Solved(ps)
        /\ s.data = [n \in DOMAIN ps |-> reproject(ps[n], f)]
        /\ \A n \in DOMAIN ps : Contains(f, ps[n])
    BY <1>2 DEF SessionTrue
  <2>2. ASSUME NEW n \in DOMAIN ps
        PROVE  reproject(ps[n], f) \subseteq 0 .. f.w - 1
    <3>1. ps[n] \in PanelSet /\ ps[n].at # None
      BY <2>1, PanelTypes, PanelFields DEF Solved, None
    <3>. QED
      BY <2>1, <3>1, ReprojectedWhole
  <2>. QED
    BY <2>1, <2>2
<1>. QED
  BY <1>1, <1>2 DEF SessionTrue

\* Blending a group: its output is on the grid of its session.
LEMMA GridBlend ==
  ASSUME IInv, GridInv, blend
  PROVE  GridInv'
<1>1. CASE Refuse
  BY <1>1, GridEnds DEF Refuse
<1>2. CASE ~Refuse
  <2>. DEFINE s == sessions[g]
              bbox == output_bbox(s, job.extent)
              o == [bbox |-> bbox[1], ch |-> s.ch, cards |-> CardsOf(s, bbox[1]),
                    data |-> [i \in DOMAIN s.data |->
                                s.data[i] \cap bbox[1][1] .. bbox[1][2] - 1]]
              O == Append(outputs, o)
  <2>1. /\ bbox # None /\ outputs' = O /\ stage = "blend"
        /\ IF g = Todo
           THEN stage' = "done" /\ g' = g
           ELSE stage' = (IF Hosted THEN "size" ELSE "blend") /\ g' = g + 1
        /\ UNCHANGED <<job, reference, mode, slot, sessions>>
    BY <1>2 DEF blend
  <2>2. /\ TypeInv /\ IsSeq(sessions) /\ g \in 1 .. Todo /\ Todo \in Nat
        /\ Panels \in PanelSeqs
    <3>1. TypeInv
      BY DEF IInv
    <3>. QED
      BY <3>1, GroupTypes DEF TypeInv
  <2>3. /\ IsSeq(outputs) /\ Len(outputs) = g - 1
        /\ Len(sessions) = IF Hosted THEN g ELSE Todo
    BY <2>1 DEF GridInv, Course, Ended
  <2>4. g \in 1 .. Len(sessions)
    BY <2>2, <2>3
  <2>5. SessionTrue(job, reference, s, Panels)
    BY <2>4 DEF GridInv, Panels
  <2>6. /\ s.w \in Int /\ DOMAIN s.data = DOMAIN Panels
        /\ \A n \in DOMAIN Panels : s.data[n] \subseteq 0 .. s.w - 1
        /\ s.data = [n \in DOMAIN Panels |-> s.data[n]]
        /\ s.imposed = Imposed
    <3>1. s.data = [n \in DOMAIN Panels |-> s.data[n]]
      <4>. HIDE DEF s
      <4>. QED
        BY <2>5 DEF SessionTrue
    <3>2. s.imposed = Imposed
      <4>. HIDE DEF s
      <4>. QED
        BY <2>5 DEF SessionTrue, Imposed
    <3>3. /\ s.w \in Int /\ DOMAIN s.data = DOMAIN Panels
          /\ \A n \in DOMAIN Panels : s.data[n] \subseteq 0 .. s.w - 1
      <4>. HIDE DEF s
      <4>. QED
        BY <2>2, <2>5, DataInGrid
    <3>. QED
      BY <3>1, <3>2, <3>3
  <2>7. /\ bbox[1][1] \in Int
        /\ \A n \in DOMAIN Panels : s.data[n] \cap bbox[1][1] .. bbox[1][2] - 1 = s.data[n]
        /\ Imposed /\ job.extent # "union" => bbox[1] = <<0, s.w>>
    <3>. HIDE DEF s
    <3>1. CASE bbox = union_bbox(s.data)
      <4>1. Imposed /\ job.extent # "union" => bbox = Some(<<0, s.w>>)
        BY <2>6 DEF output_bbox
      <4>2. LET box == union_bbox(s.data)[1]
            IN  /\ box[1] \in Int
                /\ \A n \in DOMAIN s.data : s.data[n] \cap box[1] .. box[2] - 1 = s.data[n]
        <5>1. \A n \in DOMAIN s.data : s.data[n] \subseteq 0 .. s.w - 1
          BY <2>6
        <5>. QED
          BY <2>1, <2>6, <3>1, <5>1, BoxHoldsData
      <4>. QED
        BY <2>6, <3>1, <4>1, <4>2 DEF Some
    <3>2. CASE bbox = Some(<<0, s.w>>)
      BY <2>6, <3>2 DEF Some
    <3>. QED
      BY <3>1, <3>2 DEF output_bbox
  <2>8. OutputTrue(job, reference, o, s, Panels)
    <3>. HIDE DEF s, bbox
    <3>1. o.data = s.data
      BY <2>6, <2>7
    <3>2. /\ o.bbox = bbox[1]
          /\ o.cards = IF HostedJob(job) THEN None
                       ELSE wcs_cards(IF s.frame # None THEN s.frame[1].at
                                      ELSE Panels[1].at, bbox[1][1])
      BY DEF CardsOf, Hosted, HostedJob
    <3>. HIDE DEF o
    <3>. QED
      BY <2>7, <3>1, <3>2 DEF OutputTrue, Imposed
  <2>. HIDE DEF o, s, bbox
  <2>9. /\ IsSeq(O) /\ Len(O) = g /\ O[g] = o
        /\ \A i \in 1 .. g - 1 : O[i] = outputs[i]
    BY <2>2, <2>3, Appended
  <2>. HIDE DEF O
  <2>10. \A i \in 1 .. Len(O) :
           OutputTrue(job, reference, O[i], sessions[i], job.groups[i])
    BY <2>2, <2>3, <2>8, <2>9 DEF GridInv, Panels, s
  <2>11. Course'
    <3>1. Hosted' = Hosted /\ Todo' = Todo
      BY <2>1 DEF Hosted, Todo
    <3>2. ~Hosted => mode = "Files"
      BY DEF GridInv, Course
    <3>. QED
      BY <2>1, <2>2, <2>3, <2>9, <3>1, <3>2 DEF Course, Ended
  <2>. QED
    BY <2>1, <2>10, <2>11 DEF GridInv
<1>. QED
  BY <1>1, <1>2

\* The second invariant is inductive, given the first.
LEMMA GridStep ==
  ASSUME IInv, GridInv, [Next]_vars
  PROVE  GridInv'
<1>1. CASE Derive
  BY <1>1, GridDerive
<1>2. CASE Size
  BY <1>2, GridSize
<1>3. CASE RefuseInit \/ Stop
  BY <1>3, GridEnds DEF RefuseInit, Stop, Refuse
<1>4. CASE analyze_full
  <2>1. CASE Refuse
    BY <2>1, GridEnds DEF Refuse
  <2>2. CASE ~Refuse
    <3>1. stage' = "scan" /\ job.input = "Auto" => auto_reads_aligned
      BY <1>4, <2>2 DEF analyze_full
    <3>. QED
      BY <1>4, <2>2, <3>1, GridPath DEF analyze_full
  <2>. QED
    BY <2>1, <2>2
<1>5. CASE analyze_aligned
  <2>1. CASE Refuse
    BY <2>1, GridEnds DEF Refuse
  <2>2. CASE one_canvas /\ MatchesReference /\ finish_session(AlignedSession)
    <3>1. stage = "scan" /\ (job.input = "Auto" => auto_reads_aligned)
      BY <1>5 DEF analyze_aligned, GridInv, Course
    <3>2. job.input = "Auto" /\ Len(Panels) >= 2
            => same_geometry_reads_aligned(Solutions(Panels))
      BY <3>1 DEF auto_reads_aligned
    <3>3. SessionTrue(job, reference, AlignedSession, Panels)
      BY <2>2, <3>2, AlignedTrue
    <3>. HIDE DEF AlignedSession
    <3>. QED
      BY <2>2, <3>1, <3>3, GridSession
  <2>3. CASE /\ stage' = "reproject"
             /\ UNCHANGED <<job, g, reference, mode, slot, sessions, outputs>>
    BY <1>5, <2>3, GridPath DEF analyze_aligned
  <2>. QED
    BY <1>5, <2>1, <2>2, <2>3 DEF analyze_aligned
<1>6. CASE analyze_solved
  <2>1. CASE Refuse
    BY <2>1, GridEnds DEF Refuse
  <2>2. CASE SolvedSession # None /\ finish_session(SolvedSession[1])
    BY <1>6, <2>2, SolvedTrue, GridSession DEF analyze_solved
  <2>. QED
    BY <1>6, <2>1, <2>2 DEF analyze_solved
<1>7. CASE analyze_ipc_aligned
  <2>1. CASE Refuse
    BY <2>1, GridEnds DEF Refuse
  <2>2. CASE one_canvas /\ MatchesReference /\ finish_session(AlignedSession)
    <3>1. stage = "analyze" /\ Hosted
      BY <1>7 DEF analyze_ipc_aligned, GridInv, Course
    <3>2. SessionTrue(job, reference, AlignedSession, Panels)
      BY <2>2, <3>1, AlignedTrue
    <3>. QED
      BY <2>2, <3>1, <3>2, GridSession
  <2>. QED
    BY <1>7, <2>1, <2>2 DEF analyze_ipc_aligned
<1>8. CASE analyze_ipc_solved
  <2>1. CASE Refuse
    BY <2>1, GridEnds DEF Refuse
  <2>2. CASE SolvedSession # None /\ finish_session(SolvedSession[1])
    BY <1>8, <2>2, SolvedTrue, GridSession DEF analyze_ipc_solved
  <2>. QED
    BY <1>8, <2>1, <2>2 DEF analyze_ipc_solved
<1>9. CASE blend
  BY <1>9, GridBlend
<1>10. CASE UNCHANGED vars
  <2>1. Course'
    BY <1>10 DEF vars, GridInv, Course, Ended, Hosted, Todo,
       auto_reads_aligned, Panels,
                 Imposed
  <2>. QED
    BY <1>10, <2>1, GridKept DEF vars
<1>. QED
  BY <1>1, <1>2, <1>3, <1>4, <1>5, <1>6, <1>7, <1>8, <1>9, <1>10 DEF Next

\* Both invariants hold in every state.
LEMMA GridAlways == Spec => [](IInv /\ GridInv)
<1>1. Init => IInv /\ GridInv
  BY Initially, GridInitially
<1>2. IInv /\ GridInv /\ [Next]_vars => (IInv /\ GridInv)'
  BY StepKeeps, GridStep
<1>. QED
  BY <1>1, <1>2, PTL DEF Spec

\* The output of a group, with the session and the panels it is made of.
LEMMA OfGroup ==
  ASSUME IInv, GridInv, NEW i \in 1 .. Len(outputs)
  PROVE  /\ i \in 1 .. Len(sessions) /\ job.groups[i] \in PanelSeqs
         /\ SessionTrue(job, reference, sessions[i], job.groups[i])
         /\ OutputTrue(job, reference, outputs[i], sessions[i], job.groups[i])
<1>1. TypeInv /\ Len(outputs) <= Len(sessions) /\ Len(sessions) <= Todo
  BY DEF IInv, GridInv, Course
<1>2. Len(outputs) \in Nat /\ Len(sessions) \in Nat
  BY <1>1, Appended DEF TypeInv, GridInv, Course
<1>3. Todo \in 1 .. Len(job.groups) /\ \A n \in 1 .. Len(job.groups) : job.groups[n] \in PanelSeqs
  BY <1>1, GroupTypes
<1>4. i \in 1 .. Len(sessions) /\ i \in 1 .. Len(job.groups)
  <2>1. job.groups \in Seq(Seq(PanelSet))
    BY <1>1, JobsAssumption DEF TypeInv
  <2>2. Len(job.groups) \in Nat
    BY <2>1
  <2>. QED
    BY <1>1, <1>2, <1>3, <2>2
<1>. QED
  BY <1>3, <1>4 DEF GridInv

\* What the cards of an output say, if it has any.
LEMMA CardsAre ==
  ASSUME NEW j, NEW ref, NEW o, NEW s, NEW ps \in PanelSeqs,
         SessionTrue(j, ref, s, ps), OutputTrue(j, ref, o, s, ps), o.cards # None
  PROVE  /\ ~HostedJob(j) /\ o.bbox[1] * Sub \in Int
         /\ s.kind = "solved" => /\ s.frame[1].at[1] \in Int
                                 /\ o.cards[1] = s.frame[1].at[1] + o.bbox[1] * Sub
         /\ s.kind = "aligned" => /\ ps[1].at # None /\ ps[1].at[1] \in Int
                                  /\ o.cards[1] = ps[1].at[1] + o.bbox[1] * Sub
<1>1. o.bbox[1] \in Int /\ o.bbox[1] * Sub \in Int /\ ~HostedJob(j)
  BY Pixels DEF OutputTrue
<1>. DEFINE at == IF s.frame # None THEN s.frame[1].at ELSE ps[1].at
<1>2. at # None /\ o.cards[1] = at[1] + o.bbox[1] * Sub
  BY <1>1 DEF OutputTrue, wcs_cards, Some
<1>3. s.kind = "solved" => at = s.frame[1].at /\ s.frame[1].at[1] \in Int
  BY DEF SessionTrue, Placed
<1>4. s.kind = "aligned" => at = ps[1].at /\ (ps[1].at # None => ps[1].at[1] \in Int)
  <2>1. ps[1] \in PanelSet
    BY PanelTypes
  <2>. QED
    BY <2>1, PanelEnds DEF SessionTrue
<1>. HIDE DEF at
<1>. QED
  BY <1>1, <1>2, <1>3, <1>4

(* For all jobs: the outputs of the groups that share a frame have one     *)
(* grid, as wide as the frame, and cards that agree with it.               *)
THEOREM OutputsAlwaysShareTheGrid == Spec => []OutputsShareTheGrid
<1>1. ASSUME IInv, GridInv
      PROVE  OutputsShareTheGrid
  <2>. SUFFICES ASSUME Imposed, NEW i \in 1 .. Len(outputs)
                PROVE  /\ sessions[i].w = reference[1].w
                       /\ job.extent # "union" => outputs[i].bbox = <<0, reference[1].w>>
                       /\ (outputs[i].cards # None /\ reference[1].at # None) =>
                            Abs(outputs[i].cards[1] - outputs[i].bbox[1] * Sub
                                  - reference[1].at[1]) <= Tol
    BY DEF OutputsShareTheGrid
  <2>. DEFINE s  == sessions[i]
              o  == outputs[i]
              ps == job.groups[i]
  <2>1. /\ ps \in PanelSeqs /\ SessionTrue(job, reference, s, ps)
        /\ OutputTrue(job, reference, o, s, ps)
    BY <1>1, OfGroup
  <2>. HIDE DEF s, o, ps
  <2>2. s.w = reference[1].w /\ (job.extent # "union" => o.bbox = <<0, reference[1].w>>)
    BY <2>1 DEF SessionTrue, OutputTrue, Imposed
  <2>3. ASSUME o.cards # None, reference[1].at # None
        PROVE  Abs(o.cards[1] - o.bbox[1] * Sub - reference[1].at[1]) <= Tol
    <3>1. o.bbox[1] * Sub \in Int
      BY <2>1, <2>3, CardsAre
    <3>2. CASE s.kind = "solved"
      <4>1. s.frame[1] = reference[1]
        BY <2>1, <3>2 DEF SessionTrue, Imposed
      <4>2. /\ reference[1].at[1] \in Int
            /\ o.cards[1] = reference[1].at[1] + o.bbox[1] * Sub
        BY <2>1, <2>3, <3>2, <4>1, CardsAre
      <4>. QED
        BY <3>1, <4>2, FramesAssumption DEF Abs
    <3>3. CASE s.kind = "aligned"
      <4>1. /\ ps[1].at # None /\ ps[1].at[1] \in Int
            /\ o.cards[1] = ps[1].at[1] + o.bbox[1] * Sub
        BY <2>1, <2>3, <3>3, CardsAre
      <4>2. Abs(ps[1].at[1] - reference[1].at[1]) <= Tol
        BY <2>1, <2>3, <3>3, <4>1 DEF SessionTrue, Imposed
      <4>3. reference[1].at[1] \in Int
        BY <1>1, <2>3 DEF IInv, TypeInv, IsFrame, Placed, Imposed, Some
      <4>. QED
        BY <3>1, <4>1, <4>2, <4>3
    <3>. QED
      BY <2>1, <3>2, <3>3 DEF SessionTrue
  <2>. QED
    BY <2>2, <2>3 DEF s, o, ps
<1>. QED
  BY <1>1, GridAlways, PTL

(* For all jobs: no pixel a panel shows is lost on its way into the        *)
(* output.                                                                 *)
THEOREM NothingIsEverClipped == Spec => []NothingIsClipped
<1>1. ASSUME IInv, GridInv
      PROVE  NothingIsClipped
  <2>1. ASSUME NEW i \in 1 .. Len(sessions), NEW n \in DOMAIN sessions[i].data
        PROVE  /\ job.groups[i][n].ch = sessions[i].ch
               /\ sessions[i].data[n] \subseteq 0 .. sessions[i].w - 1
               /\ sessions[i].data[n] =
                    IF sessions[i].kind = "aligned" THEN job.groups[i][n].content
                    ELSE Everywhere(job.groups[i][n], sessions[i].frame[1])
    <3>. DEFINE s  == sessions[i]
                ps == job.groups[i]
    <3>1. ps \in PanelSeqs /\ SessionTrue(job, reference, s, ps)
      <4>1. TypeInv /\ IsSeq(sessions) /\ Len(sessions) <= Todo
        BY <1>1 DEF IInv, TypeInv, GridInv, Course
      <4>2. /\ Todo \in 1 .. Len(job.groups) /\ Len(sessions) \in Nat
            /\ job.groups \in Seq(Seq(PanelSet))
        BY <4>1, GroupTypes, Appended, JobsAssumption DEF TypeInv
      <4>3. i \in 1 .. Len(job.groups)
        BY <4>1, <4>2
      <4>. QED
        BY <1>1, <4>1, <4>3, GroupTypes DEF GridInv
    <3>. HIDE DEF s, ps
    <3>2. /\ s.w \in Int /\ DOMAIN s.data = DOMAIN ps
          /\ \A m \in DOMAIN ps : s.data[m] \subseteq 0 .. s.w - 1
      BY <3>1, DataInGrid
    <3>3. n \in DOMAIN ps
      BY <3>2 DEF s
    <3>4. CASE s.kind = "aligned"
      BY <3>1, <3>2, <3>3, <3>4 DEF SessionTrue, s, ps
    <3>5. CASE s.kind = "solved"
      <4>1. /\ Placed(s.frame[1]) /\ s.frame[1].at # None /\ Solved(ps)
            /\ Contains(s.frame[1], ps[n]) /\ s.data[n] = reproject(ps[n], s.frame[1])
        BY <3>1, <3>3, <3>5 DEF SessionTrue
      <4>2. ps[n] \in PanelSet /\ ps[n].at # None
        BY <3>1, <3>3, <4>1, PanelTypes, PanelFields DEF Solved, None
      <4>3. reproject(ps[n], s.frame[1]) = Everywhere(ps[n], s.frame[1])
        BY <4>1, <4>2, ReprojectedWhole
      <4>. QED
        BY <3>1, <3>2, <3>3, <3>5, <4>1, <4>3 DEF SessionTrue, s, ps
    <3>. QED
      BY <3>1, <3>4, <3>5 DEF SessionTrue
  <2>2. \A i \in 1 .. Len(outputs) : outputs[i].data = sessions[i].data
    BY <1>1, OfGroup DEF OutputTrue
  <2>. QED
    BY <2>1, <2>2 DEF NothingIsClipped
<1>. QED
  BY <1>1, GridAlways, PTL

\* A pixel of a reprojected panel comes from data around the sky it shows.
LEMMA NearSample ==
  ASSUME NEW p \in PanelSet, p.at # None, NEW f, Placed(f), f.at # None,
         Contains(f, p), NEW x \in reproject(p, f)
  PROVE  /\ x \in Int
         /\ \E k \in p.content : Abs(Centre(p, k) - (f.at[1] + x * Sub)) <= Taps * Sub
<1>1. x \in Int /\ f.at[1] \in Int /\ p.at[1] \in Int /\ f.w \in Int
  <2>1. f.w \in Int /\ f.at[1] \in Int /\ p.at[1] \in Int
    BY PanelEnds DEF Placed
  <2>. QED
    BY <2>1, ReprojectedWhole
<1>. DEFINE half == Sub \div 2
            xs == x * Sub
            e  == f.at[1] + xs - p.at[1] - half
            k0 == Floor(e)
<1>2. half \in Int /\ xs \in Int /\ Sub \in Int /\ e \in Int
  <2>1. half \in Int /\ xs \in Int /\ Sub \in Int
    BY <1>1, HalfPixel, Pixels
  <2>. QED
    BY <1>1, <2>1
<1>3. PICK k \in p.content : k \in (k0 - (Taps - 1)) .. (k0 + Taps)
  BY DEF reproject, Tapped
<1>. DEFINE ks == k * Sub
            fs == k0 * Sub
            ts == Taps * Sub
<1>4. /\ k0 \in Int /\ fs <= e /\ e < fs + Sub
      /\ k \in Int /\ ks \in Int /\ fs \in Int /\ ts \in Int
  <2>1. k0 \in Int /\ fs <= e /\ e < fs + Sub
    <3>. HIDE DEF e
    <3>. QED
      BY <1>2, FloorBounds
  <2>2. k \in Int /\ Taps \in Int
    BY FramesAssumption DEF PanelSet
  <2>. HIDE DEF k0
  <2>. QED
    BY <2>1, <2>2, Pixels
<1>5. Taps \in Int /\ k0 - Taps + 1 <= k /\ k <= k0 + Taps
  <2>. HIDE DEF k0
  <2>. QED
    BY <1>3, <1>4, FramesAssumption
<1>. HIDE DEF k0, e
<1>6. fs + Sub <= ks + ts
  <2>1. k0 + 1 <= k + Taps /\ k0 + 1 \in Int /\ k + Taps \in Int
    BY <1>4, <1>5
  <2>2. (k0 + 1) * Sub <= (k + Taps) * Sub
    BY <2>1, Pixels
  <2>3. (k0 + 1) * Sub = k0 * Sub + 1 * Sub /\ (k + Taps) * Sub = k * Sub + Taps * Sub
    BY <1>4, <1>5, Pixels
  <2>. QED
    BY <1>2, <1>4, <2>2, <2>3
<1>7. ks <= fs + ts
  <2>1. k * Sub <= (k0 + Taps) * Sub
    BY <1>4, <1>5, Pixels
  <2>2. (k0 + Taps) * Sub = k0 * Sub + Taps * Sub
    BY <1>4, <1>5, Pixels
  <2>. QED
    BY <1>4, <2>1, <2>2
<1>8. Centre(p, k) - (f.at[1] + xs) = ks - e
  <2>1. Centre(p, k) = p.at[1] + ks + half
    BY DEF Centre
  <2>. HIDE DEF ks, xs, half
  <2>2. e = f.at[1] + xs - p.at[1] - half
    BY DEF e
  <2>. QED
    BY <1>1, <1>2, <1>4, <2>1, <2>2
<1>. HIDE DEF ks, fs, ts, xs
<1>9. Abs(ks - e) <= ts
  BY <1>2, <1>4, <1>6, <1>7 DEF Abs
<1>10. Abs(Centre(p, k) - (f.at[1] + xs)) <= ts
  BY <1>8, <1>9
<1>. QED
  BY <1>1, <1>10 DEF xs, ts

(* For all jobs: the solution written into an output is true of every      *)
(* panel in it.                                                            *)
THEOREM CardsAlwaysTellTheTruth == Spec => []CardsTellTheTruth
<1>1. ASSUME IInv, GridInv
      PROVE  CardsTellTheTruth
  <2>. SUFFICES ASSUME NEW i \in 1 .. Len(outputs), outputs[i].cards # None,
                       NEW n \in DOMAIN outputs[i].data
                PROVE  LET p   == job.groups[i][n]
                           sky == [x \in outputs[i].data[n] |->
                                     outputs[i].cards[1] + (x - outputs[i].bbox[1]) * Sub]
                       IN  /\ sessions[i].kind = "solved" =>
                                \A x \in outputs[i].data[n] :
                                   \E k \in p.content : Abs(Centre(p, k) - sky[x]) <= Taps * Sub
                           /\ /\ sessions[i].kind = "aligned" /\ job.input = "Auto"
                              /\ \A m \in DOMAIN job.groups[i] : job.groups[i][m].at # None
                              => Abs(p.at[1] + outputs[i].bbox[1] * Sub
                                       - outputs[i].cards[1]) <= Tol
    BY DEF CardsTellTheTruth
  <2>. DEFINE s  == sessions[i]
              o  == outputs[i]
              ps == job.groups[i]
              p  == ps[n]
              bs == o.bbox[1] * Sub
  <2>1. /\ ps \in PanelSeqs /\ SessionTrue(job, reference, s, ps)
        /\ OutputTrue(job, reference, o, s, ps)
    BY <1>1, OfGroup
  <2>2. n \in DOMAIN ps /\ p \in PanelSet /\ o.data = s.data
    <3>. HIDE DEF s, o, ps
    <3>1. o.data = s.data /\ DOMAIN s.data = DOMAIN ps
      BY <2>1, DataInGrid DEF OutputTrue
    <3>2. n \in DOMAIN ps
      BY <3>1 DEF o
    <3>. QED
      BY <2>1, <3>1, <3>2, PanelTypes
  <2>3. ASSUME s.kind = "solved", NEW x \in o.data[n]
        PROVE  \E k \in p.content :
                  Abs(Centre(p, k) - (o.cards[1] + (x - o.bbox[1]) * Sub)) <= Taps * Sub
    <3>. DEFINE f == s.frame[1]
    <3>1. /\ Placed(f) /\ f.at # None /\ Solved(ps) /\ Contains(f, p)
          /\ x \in reproject(p, f)
      BY <2>1, <2>2, <2>3 DEF SessionTrue
    <3>2. p.at # None
      BY <2>2, <3>1, PanelFields DEF Solved, None
    <3>3. PICK k \in p.content : Abs(Centre(p, k) - (f.at[1] + x * Sub)) <= Taps * Sub
      BY <2>2, <3>1, <3>2, NearSample
    <3>4. x \in Int /\ o.bbox[1] \in Int
      BY <2>1, <2>2, <3>1, <3>2, NearSample DEF OutputTrue
    <3>5. f.at[1] \in Int /\ bs \in Int /\ o.cards[1] = f.at[1] + bs
      BY <2>1, <2>3, CardsAre
    <3>6. (x - o.bbox[1]) * Sub = x * Sub - bs /\ x * Sub \in Int
      BY <3>4, PixelDifference
    <3>7. o.cards[1] + (x - o.bbox[1]) * Sub = f.at[1] + x * Sub
      <4>. HIDE DEF bs
      <4>. QED
        BY <3>5, <3>6
    <3>. QED
      BY <3>3, <3>7
  <2>4. ASSUME s.kind = "aligned", job.input = "Auto",
               \A m \in DOMAIN ps : ps[m].at # None
        PROVE  Abs(p.at[1] + bs - o.cards[1]) <= Tol
    <3>. HIDE DEF s, o, ps
    <3>1. /\ ~HostedJob(job) /\ bs \in Int /\ ps[1].at[1] \in Int
          /\ o.cards[1] = ps[1].at[1] + bs
      BY <2>1, <2>4, CardsAre DEF o
    <3>2. p.at[1] \in Int
      BY <2>2, <2>4, PanelEnds
    <3>3. Abs(p.at[1] - ps[1].at[1]) <= Tol
      <4>1. CASE Len(ps) >= 2
        <5>1. same_geometry_reads_aligned(Solutions(ps))
          BY <2>1, <2>4, <3>1, <4>1 DEF SessionTrue
        <5>2. /\ DOMAIN Solutions(ps) = DOMAIN ps /\ 1 \in DOMAIN ps
              /\ \A m \in DOMAIN ps : Solutions(ps)[m] = ps[m].at
          BY <2>1, PanelTypes DEF Solutions
        <5>. QED
          BY <2>2, <2>4, <5>1, <5>2 DEF same_geometry_reads_aligned,
             wcs_displacement_px
      <4>2. CASE ~(Len(ps) >= 2)
        <5>1. n = 1
          BY <2>1, <2>2, <4>2, PanelTypes
        <5>. QED
          BY <3>1, <5>1, FramesAssumption DEF Abs
      <4>. QED
        BY <4>1, <4>2
    <3>. HIDE DEF bs, p
    <3>4. p.at[1] + bs - o.cards[1] = p.at[1] - ps[1].at[1]
      BY <3>1, <3>2
    <3>. QED
      BY <3>3, <3>4
  <2>. QED
    BY <2>3, <2>4
<1>. QED
  BY <1>1, GridAlways, PTL

-----------------------------------------------------------------------------
(* A set that is what the user says it is                                  *)

\* Every panel is as wide as the kernel, and shows something.
Showing ==
  \A j \in Jobs : \A i \in DOMAIN j.groups : \A n \in DOMAIN j.groups[i] :
    j.groups[i][n].w >= 2 * Taps /\ j.groups[i][n].content # {}

Good ==
  /\ AsTheUserSays
  /\ job.how \in {"batch", "views"} \/ (job.how = "files" /\ Uniform(All))

\* Under which the job goes on as the user says: no path the user did not ask
\* for, and the frame is the one over all groups.
GoodInv == Good =>
  /\ stage # "refused"
  /\ Imposed => reference = derive_items(All, job.input)
  /\ mode = "Aligned" => job.input = "Aligned"
  /\ mode = "Solved" => job.input = "Solved"
  /\ stage = "scan" => job.input = "Aligned"

\* A joined sequence holds both of its parts, one behind the other.
LEMMA Joined ==
  ASSUME NEW T, NEW a \in Seq(T), NEW b \in Seq(T)
  PROVE  /\ \A k \in DOMAIN a : k \in DOMAIN (a \o b) /\ (a \o b)[k] = a[k]
         /\ \A k \in DOMAIN b : /\ Len(a) + k \in DOMAIN (a \o b)
                               /\ (a \o b)[Len(a) + k] = b[k]
OBVIOUS

\* The panels of a group are among the panels of all groups.
LEMMA GroupInAll ==
  ASSUME TypeInv, NEW m \in 1 .. Len(job.groups), NEW i \in DOMAIN job.groups[m]
  PROVE  \E k \in DOMAIN All : All[k] = job.groups[m][i]
<1>1. /\ job.groups \in Seq(Seq(PanelSet)) /\ Len(job.groups) \in 1 .. 2
  BY JobsAssumption DEF TypeInv
<1>2. CASE Len(job.groups) = 1
  BY <1>2 DEF All
<1>3. CASE Len(job.groups) = 2
  <2>. DEFINE a == job.groups[1]
              b == job.groups[2]
  <2>1. a \in Seq(PanelSet) /\ b \in Seq(PanelSet) /\ All = a \o b /\ m \in {1, 2}
    BY <1>1, <1>3 DEF All
  <2>. HIDE DEF a, b
  <2>2. /\ \A k \in DOMAIN a : k \in DOMAIN All /\ All[k] = a[k]
        /\ \A k \in DOMAIN b : Len(a) + k \in DOMAIN All /\ All[Len(a) + k] = b[k]
    BY <2>1, Joined
  <2>3. CASE m = 1
    BY <2>2, <2>3 DEF a
  <2>4. CASE m = 2
    BY <2>2, <2>4 DEF b
  <2>. QED
    BY <2>1, <2>3, <2>4
<1>. QED
  BY <1>1, <1>2, <1>3

\* What a good set says of each of its groups, and of the frame over all.
LEMMA GoodGroup ==
  ASSUME TypeInv, Good
  PROVE  /\ ~job.skewed /\ job.input \in {"Solved", "Aligned"}
         /\ 1 \in DOMAIN Panels /\ Panels # <<>>
         /\ \A i \in DOMAIN Panels : Panels[i].opens /\ Panels[i].ch = Panels[1].ch
         /\ check_uniform_channels(Panels)
         /\ job.input = "Solved" => /\ Solved(Panels) /\ Solved(All)
                                    /\ frame_from_models(Panels) # None
                                    /\ derive_items(All, job.input) = Some(choose_frame(All))
                                    /\ derive_items(Panels, job.input) # None
         /\ job.input = "Aligned" =>
              /\ \A i \in DOMAIN Panels : Panels[i].w = Panels[1].w
              /\ Panels[1].w = All[1].w
              /\ (Panels[1].at # None /\ All[1].at # None)
                   => Abs(Panels[1].at[1] - All[1].at[1]) <= Tol
              /\ derive_items(All, job.input)
                   = Some([kind |-> "aligned", w |-> All[1].w, at |-> All[1].at])
              /\ derive_items(Panels, job.input) # None
<1>1. /\ Panels \in PanelSeqs /\ All \in PanelSeqs
      /\ Todo \in 1 .. Len(job.groups) /\ g \in 1 .. Len(job.groups)
  <2>1. /\ Panels \in PanelSeqs /\ All \in PanelSeqs /\ g \in 1 .. Todo
        /\ Todo \in 1 .. Len(job.groups) /\ job.groups \in Seq(Seq(PanelSet))
    BY GroupTypes, JobsAssumption DEF TypeInv
  <2>2. Len(job.groups) \in Nat
    BY <2>1
  <2>. QED
    BY <2>1, <2>2
<1>2. /\ 1 \in DOMAIN Panels /\ Panels # <<>> /\ All # <<>>
  BY <1>1, PanelTypes DEF PanelSeqs
<1>3. \A i \in DOMAIN Panels : \E k \in DOMAIN All : All[k] = Panels[i]
  BY <1>1, GroupInAll DEF Panels
<1>4. /\ ~job.skewed /\ \A k \in DOMAIN All : All[k].opens
      /\ \/ job.input = "Solved" /\ Solved(All)
         \/ job.input = "Aligned" /\ Registered(All)
  BY DEF Good, AsTheUserSays
<1>5. \A i \in DOMAIN Panels : Panels[i].ch = Panels[1].ch
  <2>1. job.groups \in Seq(Seq(PanelSet))
    BY JobsAssumption DEF TypeInv
  <2>2. g \in DOMAIN job.groups
    BY <1>1, <2>1
  <2>. QED
    BY <2>2 DEF Good, AsTheUserSays, Uniform, Panels
<1>6. check_uniform_channels(Panels) /\ \A i \in DOMAIN Panels : Panels[i].opens
  BY <1>2, <1>3, <1>4, <1>5 DEF check_uniform_channels
<1>7. ASSUME job.input = "Solved"
      PROVE  /\ Solved(Panels) /\ Solved(All) /\ frame_from_models(Panels) # None
             /\ derive_items(All, job.input) = Some(choose_frame(All))
             /\ derive_items(Panels, job.input) # None
  <2>1. Solved(All) /\ Solved(Panels)
    BY <1>3, <1>4, <1>7 DEF Solved
  <2>. QED
    BY <1>2, <1>6, <1>7, <2>1 DEF frame_from_models, derive_items, Some, None
<1>8. ASSUME job.input = "Aligned"
      PROVE  /\ \A i \in DOMAIN Panels : Panels[i].w = Panels[1].w
             /\ Panels[1].w = All[1].w
             /\ (Panels[1].at # None /\ All[1].at # None)
                  => Abs(Panels[1].at[1] - All[1].at[1]) <= Tol
             /\ derive_items(All, job.input)
                  = Some([kind |-> "aligned", w |-> All[1].w, at |-> All[1].at])
             /\ derive_items(Panels, job.input) # None
  <2>1. Registered(All)
    BY <1>4, <1>8
  <2>2. same_geometry(All)
    BY <2>1 DEF Registered, same_geometry
  <2>3. \A i \in DOMAIN Panels : Panels[i].w = All[1].w
    BY <1>3, <2>1 DEF Registered
  <2>4. same_geometry(Panels)
    BY <1>2, <2>3 DEF same_geometry
  <2>5. (Panels[1].at # None /\ All[1].at # None)
          => Abs(Panels[1].at[1] - All[1].at[1]) <= Tol
    BY <1>2, <1>3, <2>1 DEF Registered
  <2>6. derive_items(All, job.input)
          = Some([kind |-> "aligned", w |-> All[1].w, at |-> All[1].at])
    BY <1>2, <1>8, <2>2 DEF derive_items, None
  <2>7. derive_items(Panels, job.input) # None
    BY <1>2, <1>8, <2>4 DEF derive_items, Some, None
  <2>. QED
    BY <1>2, <2>3, <2>5, <2>6, <2>7
<1>. QED
  BY <1>2, <1>4, <1>5, <1>6, <1>7, <1>8

\* A shift by whole pixels.
LEMMA FloorShift ==
  ASSUME NEW e \in Int, NEW x \in Int
  PROVE  Floor(e + x * Sub) = Floor(e) + x
<1>. DEFINE a == Floor(e)
            xs == x * Sub
            b == Floor(e + xs)
<1>1. xs \in Int /\ Sub \in Int
  BY Pixels
<1>2. a \in Int /\ a * Sub <= e /\ e < a * Sub + Sub
  BY FloorBounds
<1>3. b \in Int /\ b * Sub <= e + xs /\ e + xs < b * Sub + Sub
  <2>1. e + xs \in Int
    BY <1>1
  <2>. HIDE DEF xs
  <2>. QED
    BY <2>1, FloorBounds
<1>. HIDE DEF a, b
<1>4. (a + x) * Sub = a * Sub + xs /\ a * Sub \in Int /\ b * Sub \in Int
  BY <1>2, <1>3, Pixels
<1>. HIDE DEF xs
<1>5. (a + x) * Sub < b * Sub + Sub /\ b * Sub < (a + x) * Sub + Sub
  BY <1>1, <1>2, <1>3, <1>4
<1>6. a + x \in Int
  BY <1>2
<1>7. a + x <= b /\ b <= a + x
  BY <1>3, <1>5, <1>6, Pixels
<1>. QED
  BY <1>3, <1>6, <1>7 DEF a, b, xs

\* A panel that shows something does so on its frame, too.
LEMMA StillShows ==
  ASSUME NEW p \in PanelSet, p.at # None, NEW f, Placed(f), f.at # None,
         Contains(f, p), p.w >= 2 * Taps, p.content # {}
  PROVE  reproject(p, f) # {}
<1>1. Taps \in Int /\ Taps >= 1 /\ p.w \in Int
  BY PanelFields, FramesAssumption
<1>2. PICK c \in p.content : c \in Int /\ 0 <= c /\ c <= p.w - 1
  BY <1>1 DEF PanelSet
<1>. DEFINE Around(k) == /\ 0 <= k - (Taps - 1) /\ k + Taps <= p.w - 1
                         /\ k - (Taps - 1) <= c /\ c <= k + Taps
<1>3. PICK k \in Int : Around(k)
  <2>1. /\ Taps - 1 \in Int /\ (c < Taps - 1 => Around(Taps - 1))
        /\ p.w - 1 - Taps \in Int
        /\ p.w - 1 - Taps < c => Around(p.w - 1 - Taps)
        /\ Taps - 1 <= c /\ c <= p.w - 1 - Taps => Around(c)
        /\ \/ c < Taps - 1 \/ p.w - 1 - Taps < c
           \/ Taps - 1 <= c /\ c <= p.w - 1 - Taps
    BY <1>1, <1>2
  <2>. HIDE DEF Around
  <2>. QED
    BY <1>2, <2>1
<1>. DEFINE e == f.at[1] - p.at[1] - Sub \div 2
            x == k - Floor(e)
<1>4. e \in Int /\ f.at[1] \in Int /\ p.at[1] \in Int /\ Sub \div 2 \in Int /\ f.w \in Int
  BY PanelEnds, HalfPixel DEF Placed
<1>5. x \in Int /\ Floor(e + x * Sub) = k
  <2>1. Floor(e) \in Int
    <3>. HIDE DEF e
    <3>. QED
      BY <1>4, FloorBounds
  <2>2. x \in Int /\ Floor(e) + x = k
    BY <2>1
  <2>. HIDE DEF e, x
  <2>. QED
    BY <1>4, <2>2, FloorShift
<1>6. f.at[1] + x * Sub - p.at[1] - Sub \div 2 = e + x * Sub
  <2>1. x * Sub \in Int
    <3>. HIDE DEF x
    <3>. QED
      BY <1>5, Pixels
  <2>. HIDE DEF x
  <2>. QED
    BY <1>4, <2>1
<1>. HIDE DEF e, x
<1>7. Tapped(p, f, x) = (k - (Taps - 1)) .. (k + Taps)
  BY <1>5, <1>6 DEF Tapped
<1>8. HasSupport(p, f, x) /\ c \in Tapped(p, f, x)
  BY <1>1, <1>2, <1>3, <1>7 DEF HasSupport
<1>9. x \in Everywhere(p, f)
  <2>. DEFINE from == Floor(Ends(p)[1] - f.at[1])
              to == Ceil(Ends(p)[2] - f.at[1])
  <2>1. from \in Int /\ to \in Int
    <3>1. Ends(p)[1] - f.at[1] \in Int /\ Ends(p)[2] - f.at[1] \in Int
      BY <1>4, PanelEnds
    <3>. QED
      BY <3>1, FloorBounds, CeilBounds
  <2>2. from <= x /\ x < to
    BY <1>5, <1>8, Sampled
  <2>3. Everywhere(p, f) = {z \in from - Taps .. to + Taps :
                              HasSupport(p, f, z) /\ Tapped(p, f, z) \cap p.content # {}}
    BY DEF Everywhere
  <2>. HIDE DEF from, to
  <2>4. x \in from - Taps .. to + Taps
    BY <1>1, <1>5, <2>1, <2>2
  <2>. QED
    BY <1>2, <1>8, <2>3, <2>4
<1>. QED
  BY <1>9, ReprojectedWhole

\* A panel inside of its frame has a box there.
LEMMA NotMissed ==
  ASSUME NEW p \in PanelSet, p.at # None, NEW f, Placed(f), f.at # None,
         Contains(f, p)
  PROVE  ~Misses(p, f)
<1>. DEFINE a == p.at[1]
            o == f.at[1]
            pw == p.w * Sub
            fw == f.w * Sub
            from == Floor(Ends(p)[1] - f.at[1])
            to == Ceil(Ends(p)[2] - f.at[1])
<1>1. /\ a \in Int /\ o \in Int /\ pw \in Int /\ fw \in Int /\ f.w \in Int
      /\ p.w \in Int /\ p.w >= 1 /\ Sub \in Int /\ Sub >= 1
      /\ Ends(p)[1] = a /\ Ends(p)[2] = a + pw
  <2>1. /\ a \in Int /\ pw \in Int /\ Ends(p)[1] = a /\ Ends(p)[2] = a + pw
    BY PanelEnds
  <2>2. o \in Int /\ f.w \in Int
    BY DEF Placed
  <2>3. fw \in Int /\ Sub \in Int /\ Sub >= 1
    BY <2>2, Pixels, FramesAssumption
  <2>4. p.w \in Int /\ p.w >= 1
    BY DEF PanelSet
  <2>. QED
    BY <2>1, <2>2, <2>3, <2>4
<1>2. o <= a /\ a + pw <= o + fw /\ Sub <= pw
  <2>1. 1 * Sub <= pw
    BY <1>1, Pixels
  <2>. QED
    BY <1>1, <2>1 DEF Contains
<1>3. from \in Int /\ from * Sub \in Int /\ from * Sub <= a - o /\ a - o < from * Sub + Sub
  BY <1>1, FloorBounds, Pixels
<1>4. to \in Int /\ to * Sub \in Int /\ a + pw - o <= to * Sub /\ to * Sub < a + pw - o + Sub
  BY <1>1, CeilBounds, Pixels
<1>5. cache_bbox(p, f) = <<InsideOf(from - Pad, 0, f.w), InsideOf(to + 1 + Pad, 0, f.w)>>
  BY DEF cache_bbox
<1>. HIDE DEF from, to
<1>6. 0 <= from
  <2>1. 0 * Sub < from * Sub + Sub
    BY <1>1, <1>2, <1>3
  <2>. QED
    BY <1>3, <2>1, Pixels
<1>7. to <= f.w
  <2>1. to * Sub < fw + Sub
    BY <1>1, <1>2, <1>4
  <2>. QED
    BY <1>1, <1>4, <2>1, Pixels
<1>8. from + 1 <= to
  <2>1. (from + 1) * Sub = from * Sub + 1 * Sub
    BY <1>3, Pixels
  <2>2. (from + 1) * Sub < to * Sub + Sub
    BY <1>1, <1>2, <1>3, <1>4, <2>1
  <2>. QED
    BY <1>3, <1>4, <2>2, Pixels
<1>9. Pad \in Int /\ Pad >= 0
  BY FramesAssumption
<1>10. InsideOf(from - Pad, 0, f.w) < InsideOf(to + 1 + Pad, 0, f.w)
  BY <1>1, <1>3, <1>4, <1>6, <1>7, <1>8, <1>9 DEF InsideOf
<1>. QED
  BY <1>1, <1>3, <1>4, <1>5, <1>9, <1>10 DEF Misses, InsideOf

\* Deriving the frame of a good set.
LEMMA GoodDerive ==
  ASSUME IInv, GoodInv, Good, Derive
  PROVE  GoodInv' /\ stage' # "refused"
<1>. DEFINE D == derive_items(All, job.input)
<1>1. TypeInv /\ job \in Jobs
  BY DEF IInv, TypeInv
<1>2. /\ ~job.skewed /\ (\A k \in DOMAIN All : All[k].opens) /\ All # <<>>
      /\ job.input \in {"Solved", "Aligned"} /\ D # None
      /\ job.input = "Solved" => Solved(All)
  <2>1. \A k \in DOMAIN All : All[k].opens
    BY DEF Good, AsTheUserSays
  <2>2. D # None
    BY <1>1, GoodGroup DEF Some, None
  <2>. QED
    BY <1>1, <2>1, <2>2, GoodGroup, GroupTypes DEF PanelSeqs
<1>3. derive(All, job.input) = D /\ probe_reference(All, job.input) = D
  BY <1>2 DEF derive, probe_reference, Reply, derive_from_descs
<1>4. job.how = "files" => DeriveReferenceFromFiles(All, job.input) = D
  <2>. SUFFICES ASSUME job.how = "files"
                PROVE  DeriveReferenceFromFiles(All, job.input) = D
    OBVIOUS
  <2>1. check_uniform_channels(All)
    BY <1>2 DEF Good, Uniform, check_uniform_channels
  <2>2. job.input = "Solved" => frame_from_models(All) # None
    BY <1>2, <2>1 DEF frame_from_models, Some, None
  <2>3. \E fr : worker_probe_panels(All, job.input) = Some([frame |-> fr, reference |-> D])
    BY <1>2, <1>3, <2>1, <2>2 DEF worker_probe_panels, probe_panels, Reply
  <2>. QED
    BY <2>3 DEF DeriveReferenceFromFiles, Some, None
<1>5. DerivedReference = D
  BY <1>3, <1>4 DEF DerivedReference, Good
<1>. HIDE DEF D
<1>6. reference' = D /\ stage' \in {"size", "analyze"} /\ UNCHANGED <<job, mode>>
  BY <1>2, <1>5 DEF Derive
<1>7. reference' = derive_items(All, job.input)' /\ stage' # "refused"
  BY <1>6 DEF D, All
<1>. QED
  BY <1>6, <1>7 DEF GoodInv, Good

\* A step that keeps what the job was told.
LEMMA GoodKept ==
  ASSUME GoodInv, Good, UNCHANGED <<job, reference, mode>>,
         stage' # "refused", stage' = "scan" => job.input = "Aligned"
  PROVE  GoodInv'
BY DEF GoodInv, Good, AsTheUserSays, Imposed, All

\* Sizing the slots of a good set.
LEMMA GoodSize ==
  ASSUME IInv, GridInv, GoodInv, Good, Size
  PROVE  GoodInv' /\ stage' # "refused"
<1>1. TypeInv /\ Hosted /\ job.how \in {"views", "files"}
  BY DEF IInv, GridInv, Course, Size, Hosted
<1>2. /\ ~job.skewed /\ job.input \in {"Solved", "Aligned"} /\ Panels # <<>>
      /\ \A i \in DOMAIN Panels : Panels[i].opens /\ Panels[i].ch = Panels[1].ch
      /\ check_uniform_channels(Panels)
      /\ job.input = "Solved" => Solved(Panels) /\ frame_from_models(Panels) # None
      /\ job.input = "Aligned" => \A i \in DOMAIN Panels : Panels[i].w = Panels[1].w
      /\ derive_items(Panels, job.input) # None
  BY <1>1, GoodGroup
<1>3. ViewsAreSolved <=> job.input = "Solved"
  <2>1. CASE Imposed
    <3>1. reference = derive_items(All, job.input)
      BY <2>1 DEF GoodInv
    <3>2. job.input = "Solved" => reference[1].kind = "solved"
      BY <1>1, <3>1, GoodGroup DEF Some, choose_frame
    <3>3. job.input = "Aligned" => reference[1].kind = "aligned"
      BY <1>1, <3>1, GoodGroup DEF Some
    <3>. QED
      BY <1>2, <2>1, <3>2, <3>3 DEF ViewsAreSolved
  <2>2. CASE ~Imposed
    BY <1>2, <2>2 DEF ViewsAreSolved
  <2>. QED
    BY <2>1, <2>2
<1>4. job.how = "views" => ViewsWidth # None
  <2>1. ~ProbeFails
    BY <1>2 DEF ProbeFails
  <2>2. CASE job.input = "Aligned"
    <3>1. uniform /\ ~ViewsAreSolved
      BY <1>2, <1>3, <2>2 DEF uniform
    <3>. QED
      BY <1>2, <2>1, <3>1 DEF ViewsWidth, Some, None
  <2>3. CASE job.input = "Solved"
    <3>1. (IF Imposed THEN reference ELSE probe_frame(Panels)) # None
      BY <1>2, <2>3 DEF Imposed, probe_frame, Reply
    <3>. QED
      BY <1>2, <1>3, <2>1, <2>3, <3>1 DEF ViewsWidth, Some, None
  <2>. QED
    BY <1>2, <2>2, <2>3
<1>5. job.how = "files" => FilesWidth # None
  <2>1. derive(Panels, job.input) = derive_items(Panels, job.input)
    BY <1>2 DEF derive
  <2>2. worker_probe_panels(Panels, job.input) # None
    BY <1>2, <2>1 DEF worker_probe_panels, probe_panels, Reply, Some, None
  <2>. QED
    BY <2>2 DEF FilesWidth, Some, None
<1>6. /\ stage' = "analyze" /\ UNCHANGED <<job, reference>>
      /\ mode' = IF job.how = "files" THEN "Files"
                 ELSE IF ViewsAreSolved THEN "Solved" ELSE "Aligned"
  BY <1>1, <1>4, <1>5 DEF Size
<1>. QED
  BY <1>2, <1>3, <1>6 DEF GoodInv, Good, AsTheUserSays, Imposed, All

\* What the worker checks of a good set.
LEMMA GoodChecks ==
  ASSUME IInv, GoodInv, Good
  PROVE  /\ job.input = "Aligned" => one_canvas /\ MatchesReference
         /\ job.input = "Solved" => SolvedSession # None
         /\ readable /\ check_uniform_channels(Panels) /\ HeadersFit
<1>1. TypeInv /\ Panels \in PanelSeqs /\ All \in PanelSeqs
  BY GroupTypes DEF IInv
<1>2. job.input = "Aligned" => one_canvas
  BY <1>1, GoodGroup DEF one_canvas, Geometries
<1>3. Imposed => reference = derive_items(All, job.input)
  BY DEF GoodInv
<1>4. job.input = "Aligned" /\ Imposed =>
        /\ reference[1].kind = "aligned" /\ Panels[1].w = reference[1].w
        /\ MatchesReference
  <2>. SUFFICES ASSUME job.input = "Aligned", Imposed
                PROVE  /\ reference[1].kind = "aligned" /\ Panels[1].w = reference[1].w
                       /\ MatchesReference
    OBVIOUS
  <2>1. /\ reference[1].kind = "aligned" /\ reference[1].w = All[1].w
        /\ reference[1].at = All[1].at
    BY <1>1, <1>3, GoodGroup DEF Some
  <2>. QED
    BY <1>1, <2>1, GoodGroup DEF MatchesReference, check_aligned,
       wcs_displacement_px
<1>5. job.input = "Aligned" => MatchesReference
  BY <1>4 DEF MatchesReference
<1>6. job.input = "Solved" => SolvedSession # None
  <2>. SUFFICES ASSUME job.input = "Solved" PROVE SolvedSession # None
    OBVIOUS
  <2>. DEFINE own == frame_from_models(Panels)
              f == IF Imposed THEN reference[1] ELSE own[1]
  <2>1. Solved(Panels) /\ own # None /\ own[1] = choose_frame(Panels) /\ Solved(All)
    BY <1>1, GoodGroup DEF frame_from_models, Some
  <2>2. Imposed => reference[1] = choose_frame(All)
    BY <1>1, <1>3, GoodGroup DEF Some
  <2>3. \A i \in DOMAIN Panels : Contains(choose_frame(All), Panels[i])
    <3>1. \A i \in DOMAIN Panels : \E k \in DOMAIN All : All[k] = Panels[i]
      <4>1. g \in 1 .. Len(job.groups)
        <5>1. Todo \in 1 .. Len(job.groups) /\ job.groups \in Seq(Seq(PanelSet))
              /\ g \in 1 .. Todo
          BY <1>1, GroupTypes, JobsAssumption DEF TypeInv
        <5>2. Len(job.groups) \in Nat
          BY <5>1
        <5>. QED
          BY <5>1, <5>2
      <4>. QED
        BY <1>1, <4>1, GroupInAll DEF Panels
    <3>. QED
      BY <1>1, <2>1, <3>1, ChosenFrame
  <2>4. /\ Placed(f) /\ f.at # None /\ f.kind = "solved"
        /\ \A i \in DOMAIN Panels : Contains(f, Panels[i])
    <3>1. CASE Imposed
      BY <1>1, <2>1, <2>2, <2>3, <3>1, ChosenFrame DEF Placed
    <3>2. CASE ~Imposed
      BY <1>1, <2>1, <3>2, ChosenFrame DEF Placed
    <3>. QED
      BY <3>1, <3>2
  <2>5. Imposed => reference[1].kind = "solved" /\ check_footprints(Panels, reference[1])
    BY <1>1, <2>1, <2>4, FootprintsContained
  <2>6. \A i \in DOMAIN Panels : ~Misses(Panels[i], f)
    <3>. TAKE i \in DOMAIN Panels
    <3>1. Panels[i] \in PanelSet /\ Panels[i].at # None
      BY <1>1, <2>1, PanelTypes, PanelFields DEF Solved, None
    <3>. HIDE DEF f
    <3>. QED
      BY <2>4, <3>1, NotMissed
  <2>. QED
    BY <2>1, <2>5, <2>6 DEF SolvedSession, Some, None
<1>7. readable /\ check_uniform_channels(Panels) /\ job.input \in {"Solved", "Aligned"}
  BY <1>1, GoodGroup DEF readable
<1>8. HeadersFit
  <2>1. CASE job.input = "Aligned"
    BY <1>4, <2>1 DEF HeadersFit
  <2>2. CASE job.input = "Solved"
    BY <2>2 DEF HeadersFit, auto_reads_aligned
  <2>. QED
    BY <1>7, <2>1, <2>2
<1>. QED
  BY <1>2, <1>5, <1>6, <1>7, <1>8

\* What a group shows reaches its session.
LEMMA GoodBlend ==
  ASSUME Showing, IInv, GridInv, Good, stage = "blend"
  PROVE  output_bbox(sessions[g], job.extent) # None
<1>. DEFINE s == sessions[g]
<1>1. /\ TypeInv /\ g \in 1 .. Todo /\ Todo \in 1 .. Len(job.groups)
      /\ Panels \in PanelSeqs /\ job.groups \in Seq(Seq(PanelSet)) /\ job \in Jobs
  <2>1. TypeInv
    BY DEF IInv
  <2>. QED
    BY <2>1, GroupTypes, JobsAssumption DEF TypeInv
<1>2. g \in 1 .. Len(sessions) /\ g \in DOMAIN job.groups
  <2>1. Len(sessions) = IF Hosted THEN g ELSE Todo
    BY DEF GridInv, Course
  <2>2. Len(job.groups) \in Nat /\ DOMAIN job.groups = 1 .. Len(job.groups)
    BY <1>1
  <2>. QED
    BY <1>1, <2>1, <2>2
<1>3. SessionTrue(job, reference, s, Panels)
  BY <1>2 DEF GridInv, Panels
<1>4. /\ 1 \in DOMAIN Panels /\ Panels[1] \in PanelSet
      /\ Panels[1].w >= 2 * Taps /\ Panels[1].content # {}
  <2>1. 1 \in DOMAIN Panels /\ Panels[1] \in PanelSet
    BY <1>1, PanelTypes
  <2>. QED
    BY <1>1, <1>2, <2>1 DEF Showing, Panels
<1>. HIDE DEF s
<1>5. 1 \in DOMAIN s.data /\ s.data[1] # {}
  <2>1. CASE s.kind = "aligned"
    BY <1>3, <1>4, <2>1 DEF SessionTrue
  <2>2. CASE s.kind = "solved"
    <3>1. /\ Placed(s.frame[1]) /\ s.frame[1].at # None /\ Solved(Panels)
          /\ Contains(s.frame[1], Panels[1])
          /\ 1 \in DOMAIN s.data /\ s.data[1] = reproject(Panels[1], s.frame[1])
      BY <1>3, <1>4, <2>2 DEF SessionTrue
    <3>2. Panels[1].at # None
      BY <1>4, <3>1, PanelFields DEF Solved, None
    <3>. QED
      BY <1>4, <3>1, <3>2, StillShows
  <2>. QED
    BY <1>3, <2>1, <2>2 DEF SessionTrue
<1>6. union_bbox(s.data) # None
  BY <1>5 DEF union_bbox, Some, None
<1>7. output_bbox(s, job.extent) # None
  BY <1>6 DEF output_bbox, Some, None
<1>. QED
  BY <1>7 DEF s

\* No step of a job on a good set refuses it.
LEMMA GoodStep ==
  ASSUME Showing, IInv, GridInv, GoodInv, [Next]_vars
  PROVE  GoodInv'
<1>1. CASE ~Good
  <2>1. job' = job
    BY DEF Next, vars, Derive, Size, RefuseInit, analyze_full, analyze_aligned,
           analyze_solved, analyze_ipc_aligned, analyze_ipc_solved, blend, Stop, Refuse,
           finish_session
  <2>2. ~Good'
    BY <1>1, <2>1 DEF Good, AsTheUserSays, All
  <2>. QED
    BY <2>2 DEF GoodInv
<1>2. CASE Good
  <2>1. /\ job.input = "Aligned" => one_canvas /\ MatchesReference
        /\ job.input = "Solved" => SolvedSession # None
        /\ readable /\ check_uniform_channels(Panels) /\ HeadersFit
        /\ ~job.skewed /\ job.input \in {"Solved", "Aligned"}
    BY <1>2, GoodChecks, GoodGroup DEF IInv
  <2>2. ASSUME NEW s, finish_session(s)
        PROVE  GoodInv'
    <3>1. stage' \in {"blend", "analyze"} /\ UNCHANGED <<job, reference, mode>>
      BY <2>2 DEF finish_session
    <3>. QED
      BY <1>2, <3>1, GoodKept
  <2>3. CASE Derive
    BY <1>2, <2>3, GoodDerive
  <2>4. CASE Size
    BY <1>2, <2>4, GoodSize
  <2>5. CASE Stop
    BY <1>2, <2>5, GoodKept DEF Stop
  <2>6. CASE RefuseInit
    BY <2>1, <2>6 DEF RefuseInit
  <2>7. CASE analyze_full
    <3>1. stage' = (IF job.input = "Aligned" \/ auto_reads_aligned THEN "scan" ELSE "reproject")
          /\ UNCHANGED <<job, reference, mode>>
      BY <2>1, <2>7 DEF analyze_full
    <3>2. job.input # "Aligned" => ~auto_reads_aligned
      BY <2>1 DEF auto_reads_aligned
    <3>. QED
      BY <1>2, <3>1, <3>2, GoodKept
  <2>8. CASE analyze_aligned
    <3>1. job.input = "Aligned"
      BY <1>2, <2>8 DEF analyze_aligned, GoodInv
    <3>2. finish_session(AlignedSession)
      BY <2>1, <2>8, <3>1 DEF analyze_aligned
    <3>. QED
      BY <2>2, <3>2
  <2>9. CASE analyze_solved
    <3>1. job.input = "Solved"
      BY <2>1, <2>9 DEF analyze_solved, IInv, PathInv
    <3>. QED
      BY <2>1, <2>2, <2>9, <3>1 DEF analyze_solved
  <2>10. CASE analyze_ipc_aligned
    <3>1. job.input = "Aligned"
      BY <1>2, <2>10 DEF analyze_ipc_aligned, GoodInv
    <3>2. finish_session(AlignedSession)
      BY <2>1, <2>10, <3>1 DEF analyze_ipc_aligned
    <3>. QED
      BY <2>2, <3>2
  <2>11. CASE analyze_ipc_solved
    <3>1. job.input = "Solved"
      BY <1>2, <2>11 DEF analyze_ipc_solved, GoodInv
    <3>. QED
      BY <2>1, <2>2, <2>11, <3>1 DEF analyze_ipc_solved
  <2>12. CASE blend
    <3>1. /\ stage' \in {"done", "size", "blend"} /\ UNCHANGED <<job, reference, mode>>
      <4>1. output_bbox(sessions[g], job.extent) # None
        BY <1>2, <2>12, GoodBlend DEF blend
      <4>. QED
        BY <2>12, <4>1 DEF blend
    <3>. QED
      BY <1>2, <3>1, GoodKept
  <2>13. CASE UNCHANGED vars
    BY <1>2, <2>13, GoodKept DEF vars, GoodInv
  <2>. QED
    BY <2>3, <2>4, <2>5, <2>6, <2>7, <2>8, <2>9, <2>10, <2>11, <2>12, <2>13
       DEF Next
<1>. QED
  BY <1>1, <1>2

(* For all jobs over panels that show something: a set that is what the    *)
(* user says it is is never refused, in whatever groups it comes.          *)
THEOREM GoodSetsAlwaysAccepted ==
  ASSUME Showing
  PROVE  Spec => []GoodSetsAreAccepted
<1>1. Init => GoodInv
  BY DEF Init, GoodInv, Imposed
<1>2. IInv /\ GridInv /\ GoodInv /\ [Next]_vars => GoodInv'
  BY GoodStep
<1>3. GoodInv => GoodSetsAreAccepted
  BY DEF GoodInv, GoodSetsAreAccepted, Good
<1>. QED
  BY <1>1, <1>2, <1>3, GridAlways, PTL DEF Spec
=============================================================================

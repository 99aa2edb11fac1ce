----------------------------- MODULE BlendProofs -----------------------------
(* The grids of a blend, for canvases, panels and planes of any size and      *)
(* value: what the folds and floods over cells compute, and from that the     *)
(* invariants of Kernels and of Compositor.                                   *)
EXTENDS PyramidProofs, Compositor

\* Planes of distances, and the neighbours a sweep may look at.
Plane == [Cells -> Nat]

Neighbourly(settled) == \A c \in Cells : settled[c] \in SUBSET Cells

\* A step to a neighbour costs at least a straight one.
LEMMA StepNat == \A c, d : Step(c, d) \in Nat /\ Step(c, d) >= Straight
BY OverlapAssumption DEF Step

\* Relaxing a cell changes no other one, and takes the best of what it had and
\* what its settled neighbours offer.
LEMMA RelaxFacts ==
  ASSUME NEW dist \in Plane, NEW c \in Cells, NEW S \in SUBSET Cells
  PROVE  LET new == Relax(dist, c, S)
         IN  /\ new \in Plane
             /\ \A d \in Cells : d # c => new[d] = dist[d]
             /\ new[c] <= dist[c]
             /\ \A d \in S : new[c] <= Lesser(dist[d] + Step(c, d), Far)
             /\ \/ new[c] = dist[c]
                \/ \E d \in S : new[c] = Lesser(dist[d] + Step(c, d), Far)
<1> DEFINE offers == {dist[c]} \cup {Lesser(dist[d] + Step(c, d), Far) : d \in S}
<1>1. Far \in Nat
  BY OverlapAssumption
<1>2. \A d \in S : Lesser(dist[d] + Step(c, d), Far) \in Nat
  BY <1>1, StepNat DEF Lesser, Plane
<1>3. offers \in SUBSET Nat /\ offers # {}
  BY <1>2 DEF Plane
<1>4. Min(offers) \in offers /\ \A y \in offers : Min(offers) <= y
  <2> HIDE DEF offers
  <2> QED
    BY <1>3, LeastNatural DEF Min
<1>5. Relax(dist, c, S) = [dist EXCEPT ![c] = Min(offers)]
  BY DEF Relax
<1>6. Min(offers) \in Nat
  <2> HIDE DEF offers
  <2> QED
    BY <1>3, <1>4
<1> DEFINE m == Min(offers)
<1>7. /\ m \in Nat /\ m <= dist[c] /\ \A d \in S : m <= Lesser(dist[d] + Step(c, d), Far)
      /\ m = dist[c] \/ \E d \in S : m = Lesser(dist[d] + Step(c, d), Far)
  BY <1>4, <1>6
<1> HIDE DEF offers, m
<1>8. Relax(dist, c, S) = [dist EXCEPT ![c] = m]
  BY <1>5 DEF m
<1>9. Relax(dist, c, S)[c] = m
  BY <1>8 DEF Plane
<1> QED
  BY <1>7, <1>8, <1>9 DEF Plane

\* A sweep relaxes the cells one after the other.
IsSweep(r, n, start, order, settled) ==
  /\ r[0] = start
  /\ \A i \in 0 .. n : r[i] \in Plane
  /\ \A i \in 1 .. n : r[i] = Relax(r[i - 1], order[i], settled[order[i]])

\* A sweep is its relaxations, one cell after the other.
LEMMA Sweeping ==
  ASSUME NEW start \in Plane, NEW n \in Nat, NEW order \in [1 .. n -> Cells],
         NEW settled, Neighbourly(settled)
  PROVE  \E r : r[n] = Sweep(start, order, settled) /\ IsSweep(r, n, start, order, settled)
<1> DEFINE D == 1 .. n
           ch == [s \in SUBSET D |-> Max(s)]
           st == [p \in D \X Plane |-> Relax(p[2], order[p[1]], settled[order[p[1]]])]
           P(g) == g = [s \in SUBSET D |-> IF s = {} THEN start
                     ELSE Relax(g[s \ {Max(s)}], order[Max(s)], settled[order[Max(s)]])]
<1>1. Choice(D, ch) /\ IsFiniteSet(D) /\ \A s \in SUBSET D : s # {} => Max(s) \in s
  BY LastIndex
<1>2. ASSUME NEW i \in D, NEW d \in Plane
      PROVE  Relax(d, order[i], settled[order[i]]) \in Plane
  <2>1. order[i] \in Cells /\ settled[order[i]] \in SUBSET Cells
    BY DEF Neighbourly
  <2> QED
    BY <2>1, RelaxFacts
<1>3. st \in [D \X Plane -> Plane]
  BY <1>2
<1>4. PICK g \in [SUBSET D -> Plane] : Folding(D, start, ch, st, g)
  <2> HIDE DEF ch, st, D, Plane
  <2> QED
    BY <1>1, <1>3, FoldDefined
<1>5. P(g)
  <2>1. ASSUME NEW s \in SUBSET D, s # {}
        PROVE  st[<<ch[s], g[s \ {ch[s]}]>>]
                 = Relax(g[s \ {Max(s)}], order[Max(s)], settled[order[Max(s)]])
    <3>1. ch[s] = Max(s) /\ Max(s) \in D /\ g[s \ {Max(s)}] \in Plane
      BY <1>1, <1>4, <2>1
    <3> HIDE DEF ch, D, Plane
    <3> QED
      BY <3>1
  <2> DEFINE f == [s \in SUBSET D |-> IF s = {} THEN start
                     ELSE Relax(g[s \ {Max(s)}], order[Max(s)], settled[order[Max(s)]])]
  <2> HIDE DEF ch, st, D, Plane
  <2>2. \A s \in SUBSET D : g[s] = f[s]
    BY <1>4, <2>1 DEF Folding
  <2>3. f = [s \in SUBSET D |-> f[s]]
    OBVIOUS
  <2>4. g = [s \in SUBSET D |-> g[s]]
    BY <1>4
  <2>5. g = f
    <3> HIDE DEF f
    <3> QED
      BY <2>2, <2>3, <2>4
  <2> QED
    BY <2>5
<1>6. PICK k : P(k) /\ Sweep(start, order, settled) = k[D]
  <2>1. DOMAIN order = D
    OBVIOUS
  <2> QED
  BY <1>5, <2>1 DEF Sweep, FoldLeft, MapThenFoldSet
<1> DEFINE r == [i \in 0 .. n |-> k[1 .. i]]
<1>7. r[0] = start
  <2>1. 1 .. 0 = {} /\ {} \in SUBSET D
    OBVIOUS
  <2> QED
    BY <1>6, <2>1
<1>8. ASSUME NEW i \in 1 .. n
      PROVE  r[i] = Relax(r[i - 1], order[i], settled[order[i]])
  <2>0. i \in 0 .. n /\ i > 0 /\ i # 0
    OBVIOUS
  <2>1. /\ 1 .. i \in SUBSET D /\ 1 .. i # {} /\ Max(1 .. i) = i
        /\ (1 .. i) \ {i} = 1 .. (i - 1) /\ i - 1 \in 0 .. n /\ i \in 0 .. n
    <3> HIDE DEF r, st, P, ch
    <3>1. PrefixOf(n, i)
      BY <2>0, PrefixesOf
    <3> QED
      BY <3>1, <2>0 DEF PrefixOf
  <2>2. k[1 .. i] = Relax(k[(1 .. i) \ {Max(1 .. i)}], order[Max(1 .. i)],
                          settled[order[Max(1 .. i)]])
    BY <1>6, <2>1
  <2> QED
    BY <2>1, <2>2
<1>9. \A i \in 0 .. n : r[i] \in Plane
  <2> DEFINE B == {i \in Nat : i <= n => r[i] \in Plane}
  <2>1. 0 \in B
    BY <1>7
  <2>2. ASSUME NEW i \in Nat, i \in B PROVE i + 1 \in B
    <3> SUFFICES ASSUME i + 1 <= n PROVE r[i + 1] \in Plane
      OBVIOUS
    <3>1. i + 1 \in 1 .. n /\ (i + 1) - 1 = i /\ r[i] \in Plane
      BY <2>2
    <3>2. r[i + 1] = Relax(r[i], order[i + 1], settled[order[i + 1]])
      BY <1>8, <3>1
    <3> HIDE DEF r, Plane, B
    <3> QED
      BY <1>2, <3>1, <3>2
  <2>3. Nat \subseteq B
    <3> HIDE DEF B
    <3> QED
      BY <2>1, <2>2, Counting
  <2>4. \A i \in 0 .. n : i \in Nat /\ i <= n
    OBVIOUS
  <2> HIDE DEF r, Plane
  <2> QED
    BY <2>3, <2>4
<1>10. r[n] = k[D]
  OBVIOUS
<1> HIDE DEF r, P
<1> QED
  BY <1>6, <1>7, <1>8, <1>9, <1>10 DEF IsSweep

-----------------------------------------------------------------------------

\* The raster lists cells, forwards and backwards.
LEMMA RasterCells ==
  /\ W * H \in Nat /\ Raster \in [1 .. W * H -> Cells]
  /\ Reverse(Raster) \in [1 .. W * H -> Cells]
<1>1. W \in Nat /\ H \in Nat /\ W > 0 /\ H > 0
  BY GridAssumption
<1>2. W * H \in Nat
  BY <1>1
<1>3. ASSUME NEW n \in Nat, n < W * H PROVE <<n % W, n \div W>> \in Cells
  <2>1. n % W \in 0 .. W - 1
    BY <1>1
  <2>2. n \div W \in Nat
    BY <1>1
  <2>3. W * (n \div W) <= n
    BY <1>1
  <2>4. n \div W < H
    <3> DEFINE q == n \div W
    <3>1. q \in Nat /\ W * q < W * H
      BY <2>2, <2>3, <1>1, <1>2, <1>3
    <3> HIDE DEF q
    <3>2. q >= H => W * q >= W * H
      BY <3>1, <1>1
    <3>3. q < H
      BY <3>1, <3>2, <1>1
    <3> QED
      BY <3>3 DEF q
  <2> QED
    BY <2>1, <2>2, <2>4, <1>1 DEF Cells
<1>4. Raster \in [1 .. W * H -> Cells]
  <2>1. ASSUME NEW i \in 1 .. W * H PROVE <<(i - 1) % W, (i - 1) \div W>> \in Cells
    <3>1. i - 1 \in Nat /\ i - 1 < W * H
      BY <1>2
    <3> QED
      BY <3>1, <1>3
  <2> QED
    BY <2>1 DEF Raster
<1>5. Len(Raster) = W * H
  BY <1>2 DEF Raster
<1>6. Reverse(Raster) \in [1 .. W * H -> Cells]
  BY <1>2, <1>4, <1>5 DEF Reverse
<1> QED
  BY <1>2, <1>4, <1>6

\* What a plane has and no relaxation of a cell takes away, it has after a sweep.
Kept(J, settled) ==
  \A dist \in J : \A c \in Cells : Relax(dist, c, settled[c]) \in J

\* What every relaxation keeps, a sweep keeps.
LEMMA Keeping ==
  ASSUME NEW start \in Plane, NEW n \in Nat, NEW order \in [1 .. n -> Cells],
         NEW settled, Neighbourly(settled), NEW J, start \in J, Kept(J, settled)
  PROVE  Sweep(start, order, settled) \in J
<1>1. PICK r : r[n] = Sweep(start, order, settled) /\ IsSweep(r, n, start, order, settled)
  BY Sweeping
<1> DEFINE B == {i \in Nat : i <= n => r[i] \in J}
<1>2. 0 \in B
  BY <1>1 DEF IsSweep
<1>3. ASSUME NEW i \in Nat, i \in B PROVE i + 1 \in B
  <2> SUFFICES ASSUME i + 1 <= n PROVE r[i + 1] \in J
    OBVIOUS
  <2>1. i + 1 \in 1 .. n /\ (i + 1) - 1 = i /\ r[i] \in J
    BY <1>3
  <2>2. r[i + 1] = Relax(r[i], order[i + 1], settled[order[i + 1]])
    BY <1>1, <2>1 DEF IsSweep
  <2>3. order[i + 1] \in Cells
    BY <2>1
  <2> HIDE DEF B
  <2> QED
    BY <2>1, <2>2, <2>3 DEF Kept
<1>4. Nat \subseteq B
  <2> HIDE DEF B
  <2> QED
    BY <1>2, <1>3, Counting
<1>5. r[n] \in J
  BY <1>4
<1> QED
  BY <1>1, <1>5

\* The neighbours ahead and behind in the raster are cells.
LEMMA Passes ==
  /\ Neighbourly([c \in Cells |-> Ahead(c)])
  /\ Neighbourly([c \in Cells |-> Behind(c)])
BY DEF Neighbourly, Ahead, Behind, Near, Square

\* The distance to the edge of what is covered: none where it is not, at least
\* a straight step where it is, and never more than Far.
DistanceOf(cov, dist) ==
  /\ dist \in Plane
  /\ \A c \in Cells : /\ cov[c] < Full => dist[c] = 0
                      /\ ~(cov[c] < Full) => dist[c] >= Straight
                      /\ dist[c] <= Far

\* The two passes of distance_map keep to these bounds on every coverage.
LEMMA DistanceMap == \A cov : DistanceOf(cov, distance_map(cov))
<1> SUFFICES ASSUME NEW cov PROVE DistanceOf(cov, distance_map(cov))
  OBVIOUS
<1> DEFINE J == {dist \in Plane : DistanceOf(cov, dist)}
<1>1. Far \in Nat /\ Straight \in Nat /\ Straight <= Far
  <2>1. /\ Straight \in Nat /\ Diagonal \in Nat /\ Far \in Nat /\ W \in Nat \ {0} /\ H \in Nat \ {0}
        /\ Straight <= Diagonal /\ Far > Diagonal * W * H
    BY OverlapAssumption, GridAssumption
  <2>2. W * H \in Nat /\ W * H >= 1
    BY <2>1
  <2>3. Diagonal * W * H = Diagonal * (W * H)
    BY <2>1
  <2>4. Diagonal * (W * H) >= Diagonal
    BY <2>1, <2>2
  <2>5. Diagonal * (W * H) \in Nat
    BY <2>1, <2>2
  <2> QED
    BY <2>1, <2>3, <2>4, <2>5
<1>2. Unswept(cov) \in Plane
  BY <1>1 DEF Unswept, Plane
<1>3. Unswept(cov) \in J
  BY <1>1, <1>2 DEF Unswept, DistanceOf
<1>4. \A settled : Neighbourly(settled) => Kept(J, settled)
  <2> SUFFICES ASSUME NEW dist \in J, NEW c \in Cells, NEW S \in SUBSET Cells
               PROVE  Relax(dist, c, S) \in J
    BY DEF Kept, Neighbourly
  <2> DEFINE new == Relax(dist, c, S)
  <2>1. dist \in Plane /\ DistanceOf(cov, dist)
    OBVIOUS
  <2>2. /\ new \in Plane
        /\ \A d \in Cells : d # c => new[d] = dist[d]
        /\ new[c] <= dist[c]
        /\ \/ new[c] = dist[c]
           \/ \E d \in S : new[c] = Lesser(dist[d] + Step(c, d), Far)
    BY <2>1, RelaxFacts
  <2>3. \A d \in S : Lesser(dist[d] + Step(c, d), Far) >= Straight
    BY <1>1, <2>1, StepNat DEF Lesser, Plane
  <2>4. new[c] \in Nat /\ dist[c] \in Nat
    BY <2>1, <2>2 DEF Plane
  <2>5. /\ cov[c] < Full => new[c] = 0
        /\ ~(cov[c] < Full) => new[c] >= Straight
        /\ new[c] <= Far
    <3> HIDE DEF new, J
    <3> QED
      BY <1>1, <2>1, <2>2, <2>3, <2>4 DEF DistanceOf
  <2>6. DistanceOf(cov, new)
    <3> HIDE DEF new, J
    <3> QED
      BY <2>1, <2>2, <2>5 DEF DistanceOf
  <2> QED
    BY <2>2, <2>6
<1>5. Forward(cov) \in J
  <2> HIDE DEF J
  <2> QED
    BY <1>2, <1>3, <1>4, RasterCells, Passes, Keeping DEF Forward
<1>6. Forward(cov) \in Plane
  BY <1>5
<1>7. distance_map(cov) \in J
  <2> HIDE DEF J
  <2> QED
    BY <1>4, <1>5, <1>6, RasterCells, Passes, Keeping DEF distance_map
<1> QED
  BY <1>7

-----------------------------------------------------------------------------
(* The fill.  *)

\* Planes of values, and the state of a fill between two passes.
Values == [Cells -> Int]
FillState == [val : Values, avail : SUBSET Cells, unfilled : SUBSET Cells,
              round : Nat, stuck : BOOLEAN]

\* A pass, or nothing once the fill is complete or stuck.
FillOrStay(st, threshold) ==
  IF st.unfilled = {} \/ st.stuck THEN st ELSE FillPass(st, threshold)

\* There are finitely many cells.
LEMMA CellsFinite == IsFiniteSet(Cells)
<1>1. IsFiniteSet(0 .. W - 1) /\ IsFiniteSet(0 .. H - 1)
  BY GridAssumption, FS_Interval
<1> QED
  BY <1>1, FS_Product DEF Cells

\* A mean of whole numbers is one.
LEMMA MeanIsInt ==
  ASSUME NEW val \in Values, NEW S \in SUBSET Cells, S # {}
  PROVE  MeanOver(val, S) \in Int
<1>1. IsFiniteSet(S)
  BY CellsFinite, FS_Subset
<1> DEFINE w == [x \in S |-> 1]
           lo == 0
<1>2. PICK k : SumFunctionOnSet(val, S) = k[S] /\ Adds(k, val, S)
  <2>1. AllInt(val, S)
    BY DEF AllInt, Values
  <2> QED
    BY <1>1, <2>1, SumIter
<1>3. k[S] \in Int
  <2> DEFINE ch == [s \in SUBSET S |-> CHOOSE x \in s : TRUE]
             B == {s \in SUBSET S : k[s] \in Int}
  <2>1. Choice(S, ch)
    BY DEF Choice
  <2>2. {} \in B
    BY <1>2 DEF Adds
  <2>3. Peels(S, ch, B)
    <3> SUFFICES ASSUME NEW s \in SUBSET S, s # {}, s \ {ch[s]} \in B PROVE s \in B
      BY DEF Peels
    <3>1. k[s] = val[ch[s]] + k[s \ {ch[s]}]
      BY <1>2 DEF Adds
    <3>2. val[ch[s]] \in Int
      BY <2>1 DEF Choice, Values
    <3>3. k[s \ {ch[s]}] \in Int
      OBVIOUS
    <3> HIDE DEF ch
    <3> QED
      BY <3>1, <3>2, <3>3
  <2>4. SUBSET S \subseteq B
    <3> HIDE DEF B, ch
    <3> QED
      BY <1>1, <2>1, <2>2, <2>3, Peeling
  <2> QED
    BY <2>4
<1>4. Cardinality(S) \in Nat /\ Cardinality(S) # 0
  BY <1>1, FS_EmptySet, FS_CardinalityType
<1> QED
  BY <1>2, <1>3, <1>4 DEF MeanOver

\* A pass fills with whole numbers.
LEMMA FillPassType ==
  ASSUME NEW st \in FillState, NEW threshold
  PROVE  FillOrStay(st, threshold) \in FillState
<1> DEFINE avail == IF st.round = FillLocalLayers
                    THEN {c \in st.avail : st.val[c] <= threshold} ELSE st.avail
           newly == {c \in st.unfilled : Near(c) \cap avail # {}}
           vals == [c \in Cells |-> IF c \in newly THEN MeanOver(st.val, Near(c) \cap avail)
                                    ELSE st.val[c]]
<1>1. avail \in SUBSET Cells /\ newly \in SUBSET Cells
  BY DEF FillState
<1>2. vals \in Values
  <2> SUFFICES ASSUME NEW c \in Cells
               PROVE (IF c \in newly THEN MeanOver(st.val, Near(c) \cap avail) ELSE st.val[c]) \in Int
    BY DEF Values
  <2>1. CASE c \in newly
    <3>1. Near(c) \cap avail \in SUBSET Cells /\ Near(c) \cap avail # {} /\ st.val \in Values
      BY <2>1, <1>1 DEF FillState
    <3> QED
      BY <2>1, <3>1, MeanIsInt
  <2>2. CASE c \notin newly
    BY <2>2 DEF FillState, Values
  <2> QED
    BY <2>1, <2>2
<1>3. FillPass(st, threshold) = [val |-> vals, avail |-> avail \cup newly,
         unfilled |-> st.unfilled \ newly, round |-> st.round + 1, stuck |-> newly = {}]
  BY DEF FillPass
<1>4. /\ avail \cup newly \in SUBSET Cells /\ st.unfilled \ newly \in SUBSET Cells
      /\ st.round + 1 \in Nat /\ (newly = {}) \in BOOLEAN
  BY <1>1 DEF FillState
<1>5. FillPass(st, threshold) \in FillState
  <2> HIDE DEF avail, newly, vals
  <2> QED
    BY <1>2, <1>3, <1>4 DEF FillState
<1> QED
  BY <1>5 DEF FillOrStay

\* The states of a fill, from the first to the last pass.
IsFill(r, start, threshold) ==
  /\ r[0] = start
  /\ \A i \in 0 .. W * H : r[i] \in FillState
  /\ \A i \in 1 .. W * H : r[i] = FillOrStay(r[i - 1], threshold)

\* The fill of the code has such a sequence of states.
LEMMA Filling ==
  ASSUME NEW start \in FillState, NEW threshold
  PROVE  \E r : r[W * H] = Fills(start, threshold) /\ IsFill(r, start, threshold)
<1> DEFINE n == W * H
           D == 1 .. n
           ch == [s \in SUBSET D |-> Max(s)]
           st == [p \in D \X FillState |-> FillOrStay(p[2], threshold)]
           Op(x) == IF x.unfilled = {} \/ x.stuck THEN x ELSE FillPass(x, threshold)
           P(g) == g = [s \in SUBSET D |-> IF s = {} THEN start
                     ELSE Op(g[s \ {Max(s)}])]
<1>0. n \in Nat
  BY RasterCells
<1> HIDE DEF n
<1>1. Choice(D, ch) /\ IsFiniteSet(D) /\ \A s \in SUBSET D : s # {} => Max(s) \in s
  BY <1>0, LastIndex
<1>3. st \in [D \X FillState -> FillState]
  <2>1. \A x \in FillState : FillOrStay(x, threshold) \in FillState
    BY FillPassType
  <2> QED
    BY <2>1
<1>4. PICK g \in [SUBSET D -> FillState] : Folding(D, start, ch, st, g)
  <2> HIDE DEF ch, st, D, FillState
  <2> QED
    BY <1>1, <1>3, FoldDefined
<1>5. P(g)
  <2>1. ASSUME NEW s \in SUBSET D, s # {}
        PROVE  st[<<ch[s], g[s \ {ch[s]}]>>] = Op(g[s \ {Max(s)}])
    <3>1. ch[s] = Max(s) /\ Max(s) \in D /\ g[s \ {Max(s)}] \in FillState
      BY <1>1, <1>4, <2>1
    <3>2. Op(g[s \ {Max(s)}]) = FillOrStay(g[s \ {Max(s)}], threshold)
      BY DEF FillOrStay
    <3> HIDE DEF ch, D, FillState, Op
    <3> QED
      BY <3>1, <3>2
  <2> DEFINE f == [s \in SUBSET D |-> IF s = {} THEN start ELSE Op(g[s \ {Max(s)}])]
  <2> HIDE DEF ch, st, D, FillState, Op
  <2>2. \A s \in SUBSET D : g[s] = f[s]
    BY <1>4, <2>1 DEF Folding
  <2>3. f = [s \in SUBSET D |-> f[s]]
    OBVIOUS
  <2>4. g = [s \in SUBSET D |-> g[s]]
    BY <1>4
  <2>5. g = f
    <3> HIDE DEF f
    <3> QED
      BY <2>2, <2>3, <2>4
  <2> QED
    BY <2>5
<1>6. PICK k : P(k) /\ Fills(start, threshold) = k[D]
  <2>1. DOMAIN Raster = D
    BY RasterCells DEF n
  <2> QED
    BY <1>5, <2>1 DEF Fills, FoldLeft, MapThenFoldSet
<1> DEFINE r == [i \in 0 .. n |-> k[1 .. i]]
<1>7. r[0] = start
  <2>1. 1 .. 0 = {} /\ {} \in SUBSET D
    OBVIOUS
  <2> QED
    BY <1>0, <1>6, <2>1
<1>8. ASSUME NEW i \in 1 .. n
      PROVE  r[i] = FillOrStay(r[i - 1], threshold)
  <2>0. i \in 0 .. n /\ i > 0 /\ i # 0
    BY <1>0
  <2>1. /\ 1 .. i \in SUBSET D /\ 1 .. i # {} /\ Max(1 .. i) = i
        /\ (1 .. i) \ {i} = 1 .. (i - 1) /\ i - 1 \in 0 .. n /\ i \in 0 .. n
    <3> HIDE DEF r, st, P, ch
    <3>1. PrefixOf(n, i)
      BY <1>0, <2>0, PrefixesOf
    <3> QED
      BY <3>1, <2>0 DEF PrefixOf
  <2>2. k[1 .. i] = Op(k[(1 .. i) \ {Max(1 .. i)}])
    <3> HIDE DEF Op
    <3> QED
      BY <1>6, <2>1
  <2>3. Op(k[1 .. (i - 1)]) = FillOrStay(k[1 .. (i - 1)], threshold)
    BY DEF FillOrStay
  <2> HIDE DEF Op
  <2> QED
    BY <2>1, <2>2, <2>3
<1>9. \A i \in 0 .. n : r[i] \in FillState
  <2> DEFINE B == {i \in Nat : i <= n => r[i] \in FillState}
  <2>1. 0 \in B
    BY <1>7
  <2>2. ASSUME NEW i \in Nat, i \in B PROVE i + 1 \in B
    <3> SUFFICES ASSUME i + 1 <= n PROVE r[i + 1] \in FillState
      OBVIOUS
    <3>1. i + 1 \in 1 .. n /\ (i + 1) - 1 = i /\ r[i] \in FillState
      BY <2>2, <1>0
    <3>2. r[i + 1] = FillOrStay(r[i], threshold)
      BY <1>8, <3>1
    <3> HIDE DEF r, FillState, B
    <3> QED
      BY <3>1, <3>2, FillPassType
  <2>3. Nat \subseteq B
    <3> HIDE DEF B
    <3> QED
      BY <2>1, <2>2, Counting
  <2>4. \A i \in 0 .. n : i \in Nat /\ i <= n
    BY <1>0
  <2> HIDE DEF r, FillState
  <2> QED
    BY <2>3, <2>4
<1>10. r[n] = k[D]
  BY <1>0
<1>11. r[n] = Fills(start, threshold) /\ IsFill(r, start, threshold)
  <2> HIDE DEF r, P
  <2> QED
    BY <1>6, <1>7, <1>8, <1>9, <1>10 DEF IsFill, n
<1> QED
  BY <1>11 DEF n

\* The filled base plane is a plane of whole numbers.
LEMMA FilledBase ==
  ASSUME NEW val \in Values, NEW cov, NEW mask
  PROVE  suppress_stars_in_base(val, cov, mask) \in Values
<1> DEFINE th == BrightThreshold(val, Trusted(cov, mask))
           start == Unfilled(val, cov, mask)
<1>1. start \in FillState
  BY DEF Unfilled, FillState, Trusted, FullCells, base_reach, Dilated
<1>2. PICK r : r[W * H] = Fills(start, th) /\ IsFill(r, start, th)
  BY <1>1, Filling
<1>3. W * H \in 0 .. W * H
  BY RasterCells
<1>4. Fills(start, th) \in FillState
  BY <1>2, <1>3 DEF IsFill
<1>5. Fills(start, th).val \in Values
  BY <1>4 DEF FillState
<1>6. suppress_stars_in_base(val, cov, mask) = IF Trusted(cov, mask) = {} THEN val ELSE Fills(start, th).val
  BY DEF suppress_stars_in_base
<1> QED
  BY <1>5, <1>6

-----------------------------------------------------------------------------
(* The ramps.  *)

\* The widths of the ramps, as numbers.
LEMMA RampNumbers ==
  /\ WideCells * Straight \in Nat /\ RampCells * Straight \in Nat
  /\ WideCells * Straight > 0 /\ RampCells * Straight > 0
  /\ RampTop = 2 * (WideCells * Straight)
  /\ WideCells * Straight = 2 * (RampCells * Straight)
  /\ Straight \in Nat /\ Straight > 0
<1>1. /\ RampCells \in Nat /\ RampCells > 0 /\ WideCells = 2 * RampCells
      /\ Straight \in Nat /\ Straight > 0
  BY GridsAssumption, OverlapAssumption
<1>2. WideCells \in Nat /\ WideCells > 0
  BY <1>1
<1>3. RampCells * Straight \in Nat /\ RampCells * Straight > 0
  BY <1>1
<1>4. WideCells * Straight = 2 * (RampCells * Straight)
  BY <1>1
<1>5. RampTop = 2 * (WideCells * Straight)
  BY <1>1, <1>2 DEF RampTop
<1> QED
  BY <1>1, <1>3, <1>4, <1>5

\* The ramp of a panel is a number between 0 and its top; above the half on its
\* own cells, below it on all others.
IsRamp(r, own) ==
  /\ r \in Plane
  /\ \A c \in Cells : IF c \in own THEN 2 * r[c] > RampTop ELSE 2 * r[c] < RampTop

\* A ramp is above a half exactly on the cells its panel owns.
LEMMA RampOf ==
  ASSUME NEW owner, NEW structure, NEW p
  PROVE  IsRamp(ramp(owner, structure, p), Owned(owner, p))
<1> DEFINE own == Owned(owner, p)
           d_in == distance_map(Indicator(own))
           d_out == distance_map(Indicator(Cells \ own))
           RampAt(c) == IF c \in wide(owner, structure) THEN WideCells * Straight + d_in[c] - d_out[c]
                    ELSE 2 * (RampCells * Straight + d_in[c] - d_out[c])
           v(c) == Lesser(Greater(RampAt(c), 0), RampTop)
<1>1. DistanceOf(Indicator(own), d_in) /\ DistanceOf(Indicator(Cells \ own), d_out)
  BY DistanceMap
<1>2. ramp(owner, structure, p) = [c \in Cells |-> v(c)]
  BY DEF ramp
<1>3. ASSUME NEW c \in Cells
      PROVE  v(c) \in Nat /\ IF c \in own THEN 2 * v(c) > RampTop ELSE 2 * v(c) < RampTop
  <2>0. Full \in Nat /\ Full > 0
    BY OverlapAssumption
  <2>1. /\ d_in[c] \in Nat /\ d_out[c] \in Nat
        /\ c \in own => d_in[c] >= Straight /\ d_out[c] = 0
        /\ c \notin own => d_in[c] = 0 /\ d_out[c] >= Straight
    <3>1. /\ c \in own => Indicator(own)[c] = Full /\ Indicator(Cells \ own)[c] = 0
          /\ c \notin own => Indicator(own)[c] = 0 /\ Indicator(Cells \ own)[c] = Full
      BY DEF Indicator
    <3>2. d_in[c] \in Nat /\ d_out[c] \in Nat
      BY <1>1 DEF DistanceOf, Plane
    <3> HIDE DEF own, d_in, d_out
    <3> QED
      BY <1>1, <2>0, <3>1, <3>2 DEF DistanceOf
  <2> HIDE DEF own, d_in, d_out
  <2> DEFINE a == WideCells * Straight
             b == RampCells * Straight
  <2>2. a \in Nat /\ b \in Nat /\ a > 0 /\ a = 2 * b /\ RampTop = 2 * a /\ Straight \in Nat /\ Straight > 0
    BY RampNumbers
  <2> HIDE DEF a, b
  <2>3. RampAt(c) = IF c \in wide(owner, structure) THEN a + d_in[c] - d_out[c]
                    ELSE 2 * (b + d_in[c] - d_out[c])
    BY DEF a, b
  <2>4. RampAt(c) \in Int /\ IF c \in own THEN RampAt(c) > a ELSE RampAt(c) < a
    <3>1. CASE c \in own
      BY <2>1, <2>2, <2>3, <3>1
    <3>2. CASE c \notin own
      BY <2>1, <2>2, <2>3, <3>2
    <3> QED
      BY <3>1, <3>2
  <2> HIDE DEF RampAt
  <2>5. \A k \in Int : LET x == Lesser(Greater(k, 0), RampTop)
                     IN  /\ x \in Nat /\ (k > a => 2 * x > RampTop) /\ (k < a => 2 * x < RampTop)
    BY <2>2 DEF Lesser, Greater
  <2> QED
    BY <2>4, <2>5
<1> HIDE DEF v, own
<1> QED
  BY <1>2, <1>3 DEF IsRamp, Plane, own

\* So is each of the ramps of a mosaic, also of a panel that owns nothing.
LEMMA RampsOf ==
  ASSUME NEW owner, NEW structure, NEW n, NEW p \in 1 .. n
  PROVE  IsRamp(ramps(owner, structure, n)[p], Owned(owner, p))
<1>1. CASE Owned(owner, p) = {}
  <2>1. ramps(owner, structure, n)[p] = [c \in Cells |-> 0]
    BY <1>1 DEF ramps
  <2> QED
    BY <1>1, <2>1, RampNumbers DEF IsRamp, Plane
<1>2. CASE Owned(owner, p) # {}
  <2>1. ramps(owner, structure, n)[p] = ramp(owner, structure, p)
    BY <1>2 DEF ramps
  <2> QED
    BY <2>1, RampOf
<1> QED
  BY <1>1, <1>2

\* In every owned cell the ramp of the owner leads and all others trail.
LEMMA OwnersLead == \A owner, structure, n : OwnerLeads(owner, ramps(owner, structure, n))
<1> SUFFICES ASSUME NEW owner, NEW structure, NEW n, NEW c \in Cells, owner[c] # NoOwner,
                    NEW p \in 1 .. n
             PROVE  LET r == ramps(owner, structure, n)[p]
                    IN  IF p = owner[c] THEN 2 * r[c] > RampTop ELSE 2 * r[c] < RampTop
  BY DEF OwnerLeads, ramps
<1>1. IsRamp(ramps(owner, structure, n)[p], Owned(owner, p))
  BY RampsOf
<1> QED
  BY <1>1 DEF IsRamp, Owned

\* A star that touches a seam is locked on both sides of it: the seam between two
\* cells is a boundary, from whichever side it is looked at.
LEMMA StarsLock == \A owner, compact : StarsLocked(owner, compact, hard(owner, compact))
<1> SUFFICES ASSUME NEW owner, NEW compact, NEW c \in Cells, NEW d \in Cells, d \in Beside(c),
                    NoOwner \notin {owner[c], owner[d]}, owner[c] # owner[d],
                    c \in compact[owner[c]],
                    NEW e \in Near(c) \cup Near(d)
             PROVE  e \in hard(owner, compact)
  BY DEF StarsLocked
<1> DEFINE zone == UNION {{p[1], p[2]} : p \in {q \in Boundaries(owner) :
                q[1] \in compact[owner[q[1]]] \/ q[2] \in compact[owner[q[2]]]}}
<1>1. \/ d \in {<<c[1] + 1, c[2]>>, <<c[1], c[2] + 1>>}
      \/ c \in {<<d[1] + 1, d[2]>>, <<d[1], d[2] + 1>>}
  BY DEF Beside, Cells, Abs
<1>2. <<c, d>> \in Boundaries(owner) \/ <<d, c>> \in Boundaries(owner)
  BY <1>1 DEF Boundaries
<1>3. c \in zone /\ d \in zone
  BY <1>2
<1>4. e \in Cells /\ (c \in Near(e) \/ d \in Near(e))
  BY DEF Near, Square, Cells, Abs
<1>5. Near(e) \subseteq Square(e, RampCells)
  BY GridsAssumption DEF Near, Square, Cells, Abs
<1>6. e \in Dilated(zone, RampCells)
  BY <1>3, <1>4, <1>5 DEF Dilated
<1> QED
  BY <1>6 DEF hard, Zone

\* The switch plane of blend_twoband is a plane of naturals.
LEMMA SwitchPlane == \A masks : ref_t(masks) \in Plane
<1> SUFFICES ASSUME NEW masks PROVE ref_t(masks) \in Plane
  OBVIOUS
<1> DEFINE union == UNION {masks[p] : p \in DOMAIN masks}
        depth   == distance_map(Indicator(Dilated(union, 2)))
        deep    == fill_plane_holes({c \in Cells : depth[c] > (FillLocalLayers + 2) * Straight})
        to_deep == distance_map(Indicator(Cells \ deep))
<1>1. to_deep \in Plane
  BY DistanceMap DEF DistanceOf
<1>2. HaloCells * Straight \in Nat
  BY GridsAssumption, OverlapAssumption
<1>3. ref_t(masks) = [c \in Cells |-> Greater(HaloCells * Straight - to_deep[c], 0)]
  BY DEF ref_t
<1> HIDE DEF to_deep
<1> QED
  BY <1>1, <1>2, <1>3 DEF Plane, Greater

-----------------------------------------------------------------------------
(* Floods.  *)

\* A set closed under stepping to an allowed neighbour, and the flood as the least such set.
Closed(T, allowed) == \A c \in allowed : Near(c) \cap T # {} => c \in T
IsFlood(F, seeds, allowed) ==
  /\ F \in SUBSET Cells /\ seeds \subseteq F /\ F \subseteq seeds \cup allowed
  /\ Closed(F, allowed)
  /\ \A T \in SUBSET Cells : seeds \subseteq T /\ Closed(T, allowed) => F \subseteq T

\* One round of a flood, and the least closed set over what it starts from.
More(S, allowed) == S \cup {c \in allowed : Near(c) \cap S # {}}
LeastClosed(S, allowed) ==
  {c \in Cells : \A T \in SUBSET Cells : S \subseteq T /\ Closed(T, allowed) => c \in T}

\* A round adds cells until the set is closed, and leaves the least closed set alone.
LEMMA MoreFacts ==
  ASSUME NEW allowed \in SUBSET Cells, NEW S \in SUBSET Cells
  PROVE  /\ More(S, allowed) \in SUBSET Cells /\ S \subseteq More(S, allowed)
         /\ More(S, allowed) = S <=> Closed(S, allowed)
         /\ More(S, allowed) = S => LeastClosed(S, allowed) = S
         /\ LeastClosed(More(S, allowed), allowed) = LeastClosed(S, allowed)
<1>1. /\ More(S, allowed) \in SUBSET Cells /\ S \subseteq More(S, allowed)
  BY DEF More
<1>2. More(S, allowed) = S <=> Closed(S, allowed)
  BY DEF More, Closed
<1>3. More(S, allowed) = S => LeastClosed(S, allowed) = S
  BY <1>2 DEF LeastClosed
<1>4. \A T \in SUBSET Cells : Closed(T, allowed) =>
         (S \subseteq T <=> More(S, allowed) \subseteq T)
  BY DEF More, Closed
<1>5. LeastClosed(More(S, allowed), allowed) = LeastClosed(S, allowed)
  BY <1>4 DEF LeastClosed
<1> QED
  BY <1>1, <1>2, <1>3, <1>5

\* The least closed set holds nothing but seeds and allowed cells.
LEMMA LeastIsFlood ==
  ASSUME NEW allowed \in SUBSET Cells, NEW seeds \in SUBSET Cells
  PROVE  IsFlood(LeastClosed(seeds, allowed), seeds, allowed)
<1> DEFINE F == LeastClosed(seeds, allowed)
<1>1. F \in SUBSET Cells /\ seeds \subseteq F
  BY DEF LeastClosed
<1>2. Closed(F, allowed)
  <2> SUFFICES ASSUME NEW c \in allowed, NEW d \in Near(c), d \in F,
                      NEW T \in SUBSET Cells, seeds \subseteq T, Closed(T, allowed)
               PROVE  c \in T
    BY DEF Closed, LeastClosed
  <2>1. d \in T
    BY DEF LeastClosed
  <2> QED
    BY <2>1 DEF Closed
<1>3. \A T \in SUBSET Cells : seeds \subseteq T /\ Closed(T, allowed) => F \subseteq T
  BY DEF LeastClosed
<1>4. Closed(seeds \cup allowed, allowed) /\ seeds \cup allowed \in SUBSET Cells
  BY DEF Closed
<1>5. F \subseteq seeds \cup allowed
  BY <1>3, <1>4
<1> QED
  BY <1>1, <1>2, <1>3, <1>5 DEF IsFlood

\* What a stack floods is the least set that holds the seeds and is closed under
\* stepping to an allowed neighbour.
LEMMA Flooding ==
  ASSUME NEW allowed \in SUBSET Cells, NEW seeds \in SUBSET Cells
  PROVE  IsFlood(Flood(seeds, allowed, Near), seeds, allowed)
<1> DEFINE P(g) == g = [S \in SUBSET Cells |->
                LET more == S \cup {c \in allowed : Near(c) \cap S # {}}
                IN  IF more = S THEN S ELSE g[more]]
           L == [S \in SUBSET Cells |-> LeastClosed(S, allowed)]
<1>1. P(L)
  <2>1. ASSUME NEW S \in SUBSET Cells
        PROVE LeastClosed(S, allowed) = IF More(S, allowed) = S THEN S ELSE L[More(S, allowed)]
    BY MoreFacts
  <2>2. ASSUME NEW S \in SUBSET Cells
        PROVE LeastClosed(S, allowed) = LET more == S \cup {c \in allowed : Near(c) \cap S # {}}
                                  IN  IF more = S THEN S ELSE L[more]
    BY <2>1 DEF More
  <2> QED
    BY <2>2
<1>2. PICK g : P(g) /\ Flood(seeds, allowed, Near) = g[seeds]
  BY <1>1 DEF Flood
<1>3. \A S \in SUBSET Cells : g[S] = IF More(S, allowed) = S THEN S ELSE g[More(S, allowed)]
  BY <1>2 DEF More
<1> HIDE DEF P, L
<1> DEFINE B == {n \in Nat : \A S \in SUBSET Cells :
                    Cardinality(Cells \ S) < n => g[S] = LeastClosed(S, allowed)}
<1>4. \A S \in SUBSET Cells : IsFiniteSet(Cells \ S) /\ Cardinality(Cells \ S) \in Nat
  BY CellsFinite, FS_Subset, FS_CardinalityType
<1>5. 0 \in B
  BY <1>4
<1>6. ASSUME NEW n \in Nat, n \in B PROVE n + 1 \in B
  <2>0. n + 1 \in Nat
    OBVIOUS
  <2> SUFFICES ASSUME NEW S \in SUBSET Cells, Cardinality(Cells \ S) < n + 1
               PROVE  g[S] = LeastClosed(S, allowed)
    BY <2>0
  <2>1. CASE More(S, allowed) = S
    BY <1>3, <2>1, MoreFacts
  <2>2. CASE More(S, allowed) # S
    <3> DEFINE M == More(S, allowed)
    <3>1. M \in SUBSET Cells /\ S \subseteq M /\ LeastClosed(M, allowed) = LeastClosed(S, allowed)
      BY MoreFacts
    <3>2. g[S] = g[M]
      BY <1>3, <2>2
    <3> HIDE DEF M
    <3>3. Cells \ M \in SUBSET (Cells \ S) /\ Cells \ M # Cells \ S
      BY <2>2, <3>1 DEF M
    <3>4. /\ Cardinality(Cells \ M) <= Cardinality(Cells \ S)
          /\ Cardinality(Cells \ S) # Cardinality(Cells \ M)
      BY <1>4, <3>3, FS_Subset
    <3>5. Cardinality(Cells \ M) < n
      BY <1>4, <3>1, <3>4
    <3> QED
      BY <1>6, <3>1, <3>2, <3>5
  <2> QED
    BY <2>1, <2>2
<1>7. Nat \subseteq B
  <2> HIDE DEF B
  <2> QED
    BY <1>5, <1>6, Counting
<1>8. g[seeds] = LeastClosed(seeds, allowed)
  <2> DEFINE n == Cardinality(Cells \ seeds)
  <2>1. n \in Nat /\ n + 1 \in Nat /\ n < n + 1
    <3>1. n \in Nat
      BY <1>4
    <3> HIDE DEF n
    <3> QED
      BY <3>1
  <2>2. n + 1 \in B
    BY <1>7, <2>1
  <2> QED
    BY <2>1, <2>2
<1> QED
  BY <1>2, <1>8, LeastIsFlood

-----------------------------------------------------------------------------
(* Star masks.  *)

\* A cell is near itself, and near those that are near it.
LEMMA NearSymmetric ==
  /\ \A c \in Cells : c \in Near(c) /\ Near(c) \in SUBSET Cells
  /\ \A c, d \in Cells : c \in Near(d) => d \in Near(c)
BY DEF Near, Square, Cells, Abs

\* A component is a flood, and neighbours have the same one.
LEMMA Components ==
  ASSUME NEW mask \in SUBSET Cells, NEW c \in mask
  PROVE  /\ IsFlood(Component(mask, c), {c}, mask)
         /\ c \in Component(mask, c) /\ Component(mask, c) \subseteq mask
         /\ \A d \in mask : d \in Near(c) =>
               d \in Component(mask, c) /\ Component(mask, d) \subseteq Component(mask, c)
<1>1. \A d \in mask : IsFlood(Component(mask, d), {d}, mask)
  BY Flooding DEF Component
<1>2. c \in Component(mask, c) /\ Component(mask, c) \subseteq mask
  BY <1>1 DEF IsFlood
<1>3. ASSUME NEW d \in mask, d \in Near(c)
      PROVE  d \in Component(mask, c) /\ Component(mask, d) \subseteq Component(mask, c)
  <2>1. c \in Near(d)
    BY <1>3, NearSymmetric
  <2>2. d \in Component(mask, c)
    BY <1>1, <1>2, <2>1 DEF IsFlood, Closed
  <2> QED
    BY <1>1, <2>2 DEF IsFlood
<1> QED
  BY <1>1, <1>2, <1>3

\* A mask has every star as far as it is bright and connected, and nothing else.
LEMMA MaskIsWhole == \A p : star_mask(p) \in SUBSET Cells /\ IsStarMask(p, star_mask(p))
<1> SUFFICES ASSUME NEW p, FullCells(p.cov) # {}
             PROVE  star_mask(p) \in SUBSET Cells /\ IsStarMask(p, star_mask(p))
  BY DEF IsStarMask, star_mask
<1> DEFINE mask == star_mask(p)
<1>1. Seeds(p) \in SUBSET Cells /\ Bright(p) \in SUBSET Cells
  BY DEF Seeds, Bright, Covered
<1>2. mask = Flood(Seeds(p), Bright(p), Near)
  BY DEF star_mask
<1>3. IsFlood(mask, Seeds(p), Bright(p))
  BY <1>1, <1>2, Flooding
<1> HIDE DEF mask
<1>4. mask \in SUBSET Cells
  BY <1>3 DEF IsFlood
<1> DEFINE T == {c \in mask : Component(mask, c) \cap Seeds(p) # {}}
<1>5. Seeds(p) \subseteq T
  BY <1>3, <1>4, Components DEF IsFlood
<1>6. Closed(T, Bright(p))
  <2> SUFFICES ASSUME NEW c \in Bright(p), NEW d \in Near(c), d \in T PROVE c \in T
    BY DEF Closed
  <2>1. c \in mask
    BY <1>3 DEF IsFlood, Closed
  <2>2. Component(mask, d) \subseteq Component(mask, c)
    BY <1>4, <2>1, Components
  <2> QED
    BY <2>1, <2>2
<1>7. mask \subseteq T
  BY <1>3, <1>4, <1>5, <1>6 DEF IsFlood
<1>8. IsStarMask(p, mask)
  BY <1>3, <1>7 DEF IsStarMask, IsFlood, Closed
<1> QED
  BY <1>4, <1>8 DEF mask

\* The split of a mask into compact stars and structure cuts no component in two.
LEMMA SplitCutsNone == \A mask \in SUBSET Cells : IsSplit(mask, split_mask_components(mask))
<1> SUFFICES ASSUME NEW mask \in SUBSET Cells PROVE IsSplit(mask, split_mask_components(mask))
  OBVIOUS
<1> DEFINE compact == {c \in mask : IsCompact(Component(mask, c))}
<1>1. /\ split_mask_components(mask).compact = compact
      /\ split_mask_components(mask).structure = mask \ compact
  BY DEF split_mask_components
<1>2. ASSUME NEW c \in mask, NEW d \in mask, d \in Near(c)
      PROVE  c \in compact <=> d \in compact
  <2>1. c \in Near(d)
    BY <1>2, NearSymmetric
  <2>2. Component(mask, d) \subseteq Component(mask, c)
    BY <1>2, Components
  <2>3. Component(mask, c) \subseteq Component(mask, d)
    BY <2>1, Components
  <2>4. Component(mask, c) = Component(mask, d)
    BY <2>2, <2>3
  <2> QED
    BY <2>4
<1> QED
  BY <1>1, <1>2 DEF IsSplit

-----------------------------------------------------------------------------
(* Medians, means.  *)

\* The values of a function on a finite set are finitely many.
LEMMA ImageFinite ==
  ASSUME NEW S, IsFiniteSet(S), NEW f, DOMAIN f = S
  PROVE  IsFiniteSet({f[x] : x \in S})
<1> DEFINE T == {f[x] : x \in S}
           g == [x \in S |-> f[x]]
<1>1. g \in Surjection(S, T)
  BY DEF Surjection
<1> HIDE DEF g, T
<1>2. IsFiniteSet(T)
  BY <1>1, FS_Surjection
<1> QED
  BY <1>2 DEF T

\* The median of whole numbers is one of them.
LEMMA MedianThere ==
  ASSUME NEW D, IsFiniteSet(D), D # {}, NEW v \in [D -> Int]
  PROVE  Median(v) \in Int /\ \E d \in D : Median(v) = v[d]
<1> DEFINE half     == Cardinality(D) \div 2
           image    == {v[d] : d \in D}
           Smaller(n) == Cardinality({d \in D : v[d] < n})
           Upto(n)  == Cardinality({d \in D : v[d] <= n})
           U        == {n \in image : half < Upto(n)}
<1>1. Cardinality(D) \in Nat /\ Cardinality(D) > 0
  BY FS_EmptySet, FS_CardinalityType
<1>2. half \in Nat /\ half < Cardinality(D)
  BY <1>1
<1>3. IsFiniteSet(image) /\ image \in SUBSET Int /\ image # {}
  <2>1. IsFiniteSet(image)
    BY ImageFinite
  <2>2. \A x \in image : x \in Int
    OBVIOUS
  <2>3. image # {}
    OBVIOUS
  <2> HIDE DEF image
  <2> QED
    BY <2>1, <2>2, <2>3
<1>4. Max(image) \in image /\ \A y \in image : y <= Max(image)
  <2> HIDE DEF image
  <2> QED
    BY <1>3, FiniteExtremes
<1>5. Max(image) \in U
  <2>1. {d \in D : v[d] <= Max(image)} = D
    BY <1>4
  <2> QED
    BY <1>2, <1>4, <2>1
<1>6. U \in SUBSET Int /\ IsFiniteSet(U) /\ U # {}
  <2>1. U \in SUBSET image
    OBVIOUS
  <2> HIDE DEF U, image
  <2> QED
    BY <1>3, <1>5, <2>1, FS_Subset
<1>7. Min(U) \in U /\ \A y \in U : Min(U) <= y
  <2> HIDE DEF U
  <2> QED
    BY <1>6, FiniteExtremes
<1> DEFINE n == Min(U)
           Z == {d \in D : v[d] < n}
<1>8. n \in image /\ n \in Int /\ half < Upto(n)
  BY <1>3, <1>7
<1>9. Smaller(n) <= half
  <2>1. CASE Z = {}
    <3>1. Smaller(n) = 0
      BY <2>1, FS_EmptySet
    <3> QED
      BY <1>2, <3>1
  <2>2. CASE Z # {}
    <3> DEFINE zs == {v[d] : d \in Z}
               m == Max(zs)
    <3>1. IsFiniteSet(Z)
      <4>1. Z \in SUBSET D
        OBVIOUS
      <4> HIDE DEF Z
      <4> QED
        BY <4>1, FS_Subset
    <3>2. IsFiniteSet(zs) /\ zs \in SUBSET Int /\ zs # {}
      <4> DEFINE f == [d \in Z |-> v[d]]
      <4>1. IsFiniteSet({f[d] : d \in Z})
        <5>1. DOMAIN f = Z
          OBVIOUS
        <5> HIDE DEF f, Z
        <5> QED
          BY <3>1, <5>1, ImageFinite
      <4>2. {f[d] : d \in Z} = zs
        OBVIOUS
      <4>3. \A x \in zs : x \in Int
        OBVIOUS
      <4>4. zs # {}
        BY <2>2
      <4> HIDE DEF zs
      <4> QED
        BY <4>1, <4>2, <4>3, <4>4
    <3>3. m \in zs /\ \A y \in zs : y <= m
      <4> HIDE DEF zs
      <4> QED
        BY <3>2, FiniteExtremes
    <3>4. m \in image /\ m < n /\ m \in Int
      BY <3>3
    <3> HIDE DEF m
    <3>5. ~(half < Upto(m))
      <4>1. m \notin U
        <5> HIDE DEF U
        <5> QED
          BY <1>7, <1>8, <3>4
      <4> QED
        BY <3>4, <4>1
    <3>6. Z \in SUBSET {d \in D : v[d] <= m}
      BY <3>3
    <3> DEFINE Y == {d \in D : v[d] <= m}
    <3>7. IsFiniteSet(Y)
      <4>1. Y \in SUBSET D
        OBVIOUS
      <4> HIDE DEF Y
      <4> QED
        BY <4>1, FS_Subset
    <3>8. Cardinality(Z) <= Cardinality(Y) /\ Cardinality(Y) \in Nat /\ Cardinality(Z) \in Nat
      <4> HIDE DEF Z
      <4>1. Cardinality(Z) <= Cardinality(Y)
        <5> HIDE DEF Y
        <5> QED
          BY <3>6, <3>7, FS_Subset DEF Y
      <4>2. Cardinality(Y) \in Nat
        BY <3>7, FS_CardinalityType
      <4>3. Cardinality(Z) \in Nat
        BY <3>1, FS_CardinalityType
      <4> QED
        BY <4>1, <4>2, <4>3
    <3> QED
      BY <1>2, <3>5, <3>8
  <2> QED
    BY <2>1, <2>2
<1>10. \E k \in image : Smaller(k) <= half /\ half < Upto(k)
  BY <1>8, <1>9
<1>11. DOMAIN v = D
  OBVIOUS
<1>12. Median(v) \in image
  BY <1>10, <1>11 DEF Median
<1> QED
  BY <1>3, <1>12

-----------------------------------------------------------------------------
(* The onion.  *)

\* A mean lies between the bounds of what it is taken of.
LEMMA MeanBounds ==
  ASSUME NEW val \in Values, NEW S \in SUBSET Cells, S # {}, NEW lo \in Int, NEW hi \in Int,
         \A c \in S : lo <= val[c] /\ val[c] <= hi
  PROVE  lo <= MeanOver(val, S) /\ MeanOver(val, S) <= hi
<1> DEFINE w == [x \in S |-> 1]
           n == Cardinality(S)
           sum == SumFunctionOnSet(val, S)
<1>1. IsFiniteSet(S)
  BY CellsFinite, FS_Subset
<1>2. n \in Nat /\ n > 0
  BY <1>1, FS_EmptySet, FS_CardinalityType
<1>3. SumFunctionOnSet(w, S) = n
  <2>1. PICK k : SumFunctionOnSet(w, S) = k[S] /\ Adds(k, w, S)
    <3>1. AllInt(w, S)
      BY DEF AllInt
    <3> HIDE DEF w
    <3> QED
      BY <1>1, <3>1, SumIter
  <2> DEFINE ch == [s \in SUBSET S |-> CHOOSE x \in s : TRUE]
             B == {s \in SUBSET S : k[s] = Cardinality(s)}
  <2>2. Choice(S, ch)
    BY DEF Choice
  <2>3. {} \in B
    BY <2>1, FS_EmptySet DEF Adds
  <2>4. Peels(S, ch, B)
    <3> SUFFICES ASSUME NEW s \in SUBSET S, s # {}, s \ {ch[s]} \in B PROVE s \in B
      BY DEF Peels
    <3> DEFINE x == ch[s]
    <3>1. x \in s /\ k[s] = w[x] + k[s \ {x}] /\ w[x] = 1
      BY <2>1, <2>2 DEF Adds, Choice
    <3>2. k[s \ {x}] = Cardinality(s \ {x})
      OBVIOUS
    <3> HIDE DEF x
    <3>3. IsFiniteSet(s)
      BY <1>1, FS_Subset
    <3>4. Cardinality(s \ {x}) = Cardinality(s) - 1 /\ Cardinality(s) \in Nat
      BY <3>1, <3>3, FS_RemoveElement, FS_CardinalityType
    <3> QED
      BY <3>1, <3>2, <3>4
  <2>5. SUBSET S \subseteq B
    <3> HIDE DEF B, ch
    <3> QED
      BY <1>1, <2>2, <2>3, <2>4, Peeling
  <2> QED
    BY <2>1, <2>5
<1>4. \A x \in S : /\ w[x] \in Int /\ val[x] \in Int
                   /\ lo * w[x] <= val[x] /\ val[x] <= hi * w[x]
  <2> TAKE x \in S
  <2>1. w[x] = 1 /\ val[x] \in Int /\ lo <= val[x] /\ val[x] <= hi /\ lo * 1 = lo /\ hi * 1 = hi
    BY DEF Values
  <2> QED
    BY <2>1
<1> HIDE DEF w
<1>5. sum \in Int /\ lo * n <= sum /\ sum <= hi * n
  BY <1>1, <1>3, <1>4, SumBounds
<1>6. MeanOver(val, S) = sum \div n
  BY DEF MeanOver
<1> HIDE DEF sum, n
<1> DEFINE q == sum \div n
<1>7. q \in Int /\ n * q <= sum /\ sum < n * q + n
  BY <1>2, <1>5
<1> HIDE DEF q
<1>8. lo <= q
  <2> SUFFICES ASSUME q + 1 <= lo PROVE FALSE
    BY <1>7
  <2>1. n * (q + 1) <= n * lo
    BY <1>2, <1>7
  <2>2. n * (q + 1) = n * q + n /\ n * lo = lo * n
    BY <1>2, <1>7
  <2>3. n * q \in Int /\ lo * n \in Int
    BY <1>2, <1>7
  <2> QED
    BY <1>2, <1>5, <1>7, <2>1, <2>2, <2>3
<1>9. q <= hi
  <2> SUFFICES ASSUME hi + 1 <= q PROVE FALSE
    BY <1>7
  <2>1. n * (hi + 1) <= n * q
    BY <1>2, <1>7
  <2>2. n * (hi + 1) = hi * n + n
    BY <1>2
  <2>3. n * q \in Int /\ hi * n \in Int
    BY <1>2, <1>7
  <2> QED
    BY <1>2, <1>5, <1>7, <2>1, <2>2, <2>3
<1> QED
  BY <1>6, <1>8, <1>9 DEF q

\* The layers around the trusted cells.
IsPeeling(pk, cov, start) ==
  /\ pk[0] = start
  /\ \A i \in 0 .. FillLocalLayers : pk[i] \in SUBSET Cells
  /\ \A i \in 1 .. FillLocalLayers : pk[i] = Peel(cov, pk[i - 1])

\* Layers consist of cells.
LEMMA PeelCells == \A cov : \A S \in SUBSET Cells : Peel(cov, S) \in SUBSET Cells
BY DEF Peel, base_reach, Dilated

\* The cells the local passes can get to are the last of the layers.
LEMMA Layering ==
  ASSUME NEW cov, NEW mask
  PROVE  \E pk : pk[FillLocalLayers] = LocalReach(cov, mask) /\ IsPeeling(pk, cov, Trusted(cov, mask))
<1> DEFINE n == FillLocalLayers
           start == Trusted(cov, mask)
           V == SUBSET Cells
           D == 1 .. n
           ch == [s \in SUBSET D |-> Max(s)]
           st == [p \in D \X V |-> Peel(cov, p[2])]
           P(g) == g = [s \in SUBSET D |-> IF s = {} THEN start ELSE Peel(cov, g[s \ {Max(s)}])]
<1>0. n \in Nat /\ start \in V
  BY GridsAssumption DEF Trusted, FullCells
<1> HIDE DEF n, V
<1>1. Choice(D, ch) /\ IsFiniteSet(D) /\ \A s \in SUBSET D : s # {} => Max(s) \in s
  BY <1>0, LastIndex
<1>2. \A S \in V : Peel(cov, S) \in V
  BY PeelCells DEF V
<1>3. st \in [D \X V -> V]
  BY <1>2
<1>4. PICK g \in [SUBSET D -> V] : Folding(D, start, ch, st, g)
  <2> HIDE DEF ch, st, D, start
  <2> QED
    BY <1>0, <1>1, <1>3, FoldDefined
<1>5. P(g)
  <2>1. ASSUME NEW s \in SUBSET D, s # {}
        PROVE  st[<<ch[s], g[s \ {ch[s]}]>>] = Peel(cov, g[s \ {Max(s)}])
    <3>1. ch[s] = Max(s) /\ Max(s) \in D /\ g[s \ {Max(s)}] \in V
      BY <1>1, <1>4, <2>1
    <3> HIDE DEF ch, D
    <3> QED
      BY <3>1
  <2> DEFINE f == [s \in SUBSET D |-> IF s = {} THEN start ELSE Peel(cov, g[s \ {Max(s)}])]
  <2> HIDE DEF ch, st, D, start
  <2>2. \A s \in SUBSET D : g[s] = f[s]
    BY <1>4, <2>1 DEF Folding
  <2>3. f = [s \in SUBSET D |-> f[s]]
    OBVIOUS
  <2>4. g = [s \in SUBSET D |-> g[s]]
    BY <1>4
  <2>5. g = f
    <3> HIDE DEF f
    <3> QED
      BY <2>2, <2>3, <2>4
  <2> QED
    BY <2>5
<1>6. PICK k : P(k) /\ LocalReach(cov, mask) = k[D]
  <2>1. DOMAIN [i \in 1 .. FillLocalLayers |-> i] = D
    BY DEF n
  <2> QED
    BY <1>5, <2>1 DEF LocalReach, FoldLeft, MapThenFoldSet
<1> DEFINE r == [i \in 0 .. n |-> k[1 .. i]]
<1>7. r[0] = start
  <2>1. 1 .. 0 = {} /\ {} \in SUBSET D
    OBVIOUS
  <2> QED
    BY <1>0, <1>6, <2>1
<1>8. ASSUME NEW i \in 1 .. n PROVE r[i] = Peel(cov, r[i - 1])
  <2>0. i \in 0 .. n /\ i > 0 /\ i # 0
    BY <1>0
  <2>1. /\ 1 .. i \in SUBSET D /\ 1 .. i # {} /\ Max(1 .. i) = i
        /\ (1 .. i) \ {i} = 1 .. (i - 1) /\ i - 1 \in 0 .. n /\ i \in 0 .. n
    <3> HIDE DEF r, st, P, ch
    <3>1. PrefixOf(n, i)
      BY <1>0, <2>0, PrefixesOf
    <3> QED
      BY <3>1, <2>0 DEF PrefixOf
  <2>2. k[1 .. i] = Peel(cov, k[(1 .. i) \ {Max(1 .. i)}])
    BY <1>6, <2>1
  <2> QED
    BY <2>1, <2>2
<1>9. \A i \in 0 .. n : r[i] \in V
  <2> DEFINE B == {i \in Nat : i <= n => r[i] \in V}
  <2>1. 0 \in B
    BY <1>0, <1>7
  <2>2. ASSUME NEW i \in Nat, i \in B PROVE i + 1 \in B
    <3> SUFFICES ASSUME i + 1 <= n PROVE r[i + 1] \in V
      OBVIOUS
    <3>1. i + 1 \in 1 .. n /\ (i + 1) - 1 = i /\ r[i] \in V
      BY <2>2, <1>0
    <3>2. r[i + 1] = Peel(cov, r[i])
      BY <1>8, <3>1
    <3> HIDE DEF r, B
    <3> QED
      BY <3>1, <3>2, <1>2
  <2>3. Nat \subseteq B
    <3> HIDE DEF B
    <3> QED
      BY <2>1, <2>2, Counting
  <2>4. \A i \in 0 .. n : i \in Nat /\ i <= n
    BY <1>0
  <2> HIDE DEF r
  <2> QED
    BY <2>3, <2>4
<1>10. r[n] = k[D]
  BY <1>0
<1>11. r[n] = LocalReach(cov, mask) /\ IsPeeling(r, cov, start)
  <2> HIDE DEF r, P
  <2> QED
    BY <1>6, <1>7, <1>8, <1>9, <1>10 DEF IsPeeling, n, V
<1> QED
  BY <1>11 DEF n

\* The layers grow, and once two are the same all later ones are.
LEMMA LayersGrow ==
  ASSUME NEW cov, NEW start \in SUBSET (base_reach(cov)), NEW pk, IsPeeling(pk, cov, start)
  PROVE  /\ \A i \in 0 .. FillLocalLayers :
               pk[i] \subseteq pk[FillLocalLayers] /\ start \subseteq pk[i]
               /\ pk[i] \subseteq base_reach(cov)
         /\ \A i \in 1 .. FillLocalLayers : pk[i] = pk[i - 1] => pk[FillLocalLayers] = pk[i]
<1> DEFINE L == FillLocalLayers
           reach == base_reach(cov)
<1>0. L \in Nat
  BY GridsAssumption
<1> HIDE DEF L, reach
<1>1. \A S : S \subseteq Peel(cov, S) /\ (S \subseteq reach => Peel(cov, S) \subseteq reach)
  BY DEF Peel, reach
<1>2. \A i \in 1 .. L : pk[i] = Peel(cov, pk[i - 1])
  BY DEF IsPeeling, L
<1> DEFINE Up == {i \in Nat : i <= L => start \subseteq pk[i] /\ pk[i] \subseteq reach}
<1>3. Nat \subseteq Up
  <2>1. 0 \in Up
    BY DEF IsPeeling, reach
  <2>2. ASSUME NEW i \in Nat, i \in Up PROVE i + 1 \in Up
    <3> SUFFICES ASSUME i + 1 <= L PROVE start \subseteq pk[i + 1] /\ pk[i + 1] \subseteq reach
      OBVIOUS
    <3>1. i + 1 \in 1 .. L /\ (i + 1) - 1 = i /\ start \subseteq pk[i] /\ pk[i] \subseteq reach
      BY <2>2, <1>0
    <3>2. pk[i + 1] = Peel(cov, pk[i])
      BY <1>2, <3>1
    <3> HIDE DEF Up
    <3> QED
      BY <1>1, <3>1, <3>2
  <2> HIDE DEF Up
  <2> QED
    BY <2>1, <2>2, Counting
<1> DEFINE Down == {j \in Nat : j <= L => pk[L - j] \subseteq pk[L]}
<1>4. Nat \subseteq Down
  <2>1. 0 \in Down
    BY <1>0
  <2>2. ASSUME NEW j \in Nat, j \in Down PROVE j + 1 \in Down
    <3> SUFFICES ASSUME j + 1 <= L PROVE pk[L - (j + 1)] \subseteq pk[L]
      OBVIOUS
    <3>1. L - j \in 1 .. L /\ (L - j) - 1 = L - (j + 1) /\ pk[L - j] \subseteq pk[L]
      BY <2>2, <1>0
    <3>2. pk[L - j] = Peel(cov, pk[L - (j + 1)])
      BY <1>2, <3>1
    <3> HIDE DEF Down
    <3> QED
      BY <1>1, <3>1, <3>2
  <2> HIDE DEF Down
  <2> QED
    BY <2>1, <2>2, Counting
<1>5. ASSUME NEW i \in 1 .. L, pk[i] = pk[i - 1] PROVE pk[L] = pk[i]
  <2> DEFINE Same == {j \in Nat : i + j <= L => pk[i + j] = pk[i]}
  <2>1. 0 \in Same
    BY <1>0
  <2>2. ASSUME NEW j \in Nat, j \in Same PROVE j + 1 \in Same
    <3> SUFFICES ASSUME i + (j + 1) <= L PROVE pk[i + (j + 1)] = pk[i]
      OBVIOUS
    <3>1. i + (j + 1) \in 1 .. L /\ (i + (j + 1)) - 1 = i + j /\ pk[i + j] = pk[i]
      BY <2>2, <1>0
    <3>2. pk[i + (j + 1)] = Peel(cov, pk[i])
      BY <1>2, <3>1
    <3>3. pk[i] = Peel(cov, pk[i])
      BY <1>2, <1>5
    <3> QED
      BY <3>2, <3>3
  <2>3. Nat \subseteq Same
    <3> HIDE DEF Same
    <3> QED
      BY <2>1, <2>2, Counting
  <2>4. L - i \in Nat /\ i + (L - i) = L
    BY <1>0
  <2> QED
    BY <2>3, <2>4
<1>6. ASSUME NEW i \in 0 .. L PROVE pk[i] \subseteq pk[L] /\ start \subseteq pk[i] /\ pk[i] \subseteq reach
  <2>1. i \in Nat /\ i <= L /\ L - i \in Nat /\ L - i <= L /\ L - (L - i) = i
    BY <1>0
  <2>2. start \subseteq pk[i] /\ pk[i] \subseteq reach
    BY <1>3, <2>1
  <2>3. pk[i] \subseteq pk[L]
    <3>1. L - i \in Down
      BY <1>4, <2>1
    <3> QED
      BY <2>1, <3>1
  <2> QED
    BY <2>2, <2>3
<1> QED
  BY <1>5, <1>6 DEF L, reach

\* What the fill keeps: cells not filled yet, trusted or out of reach are as they
\* were; in the local passes all that is filled gives on, layer by layer, values
\* among the trusted ones; later only what is at background level does.
Amid(st, c, lo, hi) == lo <= st.val[c] /\ st.val[c] <= hi
FillInv(st, val, reach, trusted, pk, th, lo, hi) ==
  /\ st \in FillState
  /\ st.unfilled \subseteq reach \ trusted
  /\ \A c \in Cells : c \in st.unfilled \/ c \notin reach \/ c \in trusted => st.val[c] = val[c]
  /\ \A c \in pk[FillLocalLayers] : c \notin st.unfilled => Amid(st, c, lo, hi)
  /\ st.round <= FillLocalLayers =>
        /\ st.avail = reach \ st.unfilled /\ st.avail = pk[st.round]
        /\ st.stuck => st.round > 0 /\ pk[st.round] = pk[st.round - 1]
  /\ st.round > FillLocalLayers =>
        /\ pk[FillLocalLayers] \subseteq reach \ st.unfilled
        /\ st.avail \subseteq reach \ st.unfilled
        /\ \A c \in st.avail : st.val[c] <= th
        /\ \A c \in reach : c \notin st.unfilled /\ c \notin pk[FillLocalLayers] => st.val[c] <= th

\* The passes that are left are enough for the cells that are.
InTime(st, i) ==
  \/ st.stuck \/ st.unfilled = {}
  \/ st.round = i /\ Cardinality(st.unfilled) + i <= W * H

\* A pass keeps that, and fills a cell if it is not the last.
LEMMA FillKeeps ==
  ASSUME NEW cov, NEW mask, NEW val \in Values, NEW th \in Int, NEW lo \in Int, NEW hi \in Int,
         NEW pk, IsPeeling(pk, cov, Trusted(cov, mask)),
         Trusted(cov, mask) \subseteq base_reach(cov),
         NEW st, FillInv(st, val, base_reach(cov), Trusted(cov, mask), pk, th, lo, hi),
         NEW i \in Nat, InTime(st, i)
  PROVE  /\ FillInv(FillOrStay(st, th), val, base_reach(cov), Trusted(cov, mask), pk, th, lo, hi)
         /\ InTime(FillOrStay(st, th), i + 1)
<1> DEFINE reach == base_reach(cov)
           trusted == Trusted(cov, mask)
           L == FillLocalLayers
           new == FillOrStay(st, th)
<1>0. L \in Nat
  BY GridsAssumption
<1>1. CASE st.unfilled = {} \/ st.stuck
  <2>1. new = st
    BY <1>1 DEF FillOrStay
  <2>2. InTime(st, i + 1)
    BY <1>1 DEF InTime
  <2> HIDE DEF new
  <2> QED
    BY <2>1, <2>2 DEF new
<1>2. CASE ~(st.unfilled = {} \/ st.stuck)
  <2> DEFINE avail == IF st.round = L THEN {c \in st.avail : st.val[c] <= th} ELSE st.avail
             newly == {c \in st.unfilled : Near(c) \cap avail # {}}
             vals == [c \in Cells |-> IF c \in newly THEN MeanOver(st.val, Near(c) \cap avail)
                                      ELSE st.val[c]]
  <2>1. new = [val |-> vals, avail |-> avail \cup newly, unfilled |-> st.unfilled \ newly,
               round |-> st.round + 1, stuck |-> newly = {}]
    BY <1>2 DEF FillOrStay, FillPass
  <2>2. new \in FillState
    BY FillPassType DEF FillInv
  <2>3. /\ new.val = vals /\ new.avail = avail \cup newly /\ new.unfilled = st.unfilled \ newly
        /\ new.round = st.round + 1 /\ (new.stuck <=> newly = {})
    <3> HIDE DEF vals, newly, avail, new
    <3> QED
      BY <2>1
  <2>4. /\ st \in FillState /\ st.round \in Nat /\ st.val \in Values
        /\ st.avail \in SUBSET Cells /\ st.unfilled \in SUBSET Cells
        /\ st.unfilled \subseteq reach \ trusted /\ reach \in SUBSET Cells
    BY DEF FillInv, FillState, base_reach, Dilated
  <2>5. /\ avail \in SUBSET Cells /\ avail \subseteq st.avail
        /\ newly \in SUBSET Cells /\ newly \subseteq st.unfilled
    BY <2>4
  \* What was filled stays, and what is filled is a mean of what is around.
  <2>6. /\ \A c \in Cells : c \notin newly => vals[c] = st.val[c]
        /\ \A c \in newly : \A a, b \in Int :
              (\A d \in avail : a <= st.val[d] /\ st.val[d] <= b) => a <= vals[c] /\ vals[c] <= b
    <3>1. ASSUME NEW c \in newly, NEW a \in Int, NEW b \in Int,
                 \A d \in avail : a <= st.val[d] /\ st.val[d] <= b
          PROVE  a <= vals[c] /\ vals[c] <= b
      <4>1. Near(c) \cap avail \in SUBSET Cells /\ Near(c) \cap avail # {}
        BY <2>5
      <4>2. \A d \in Near(c) \cap avail : a <= st.val[d] /\ st.val[d] <= b
        BY <3>1
      <4>3. vals[c] = MeanOver(st.val, Near(c) \cap avail)
        BY <2>5
      <4> HIDE DEF vals, avail, newly
      <4> QED
        BY <2>4, <4>1, <4>2, <4>3, MeanBounds
    <3> QED
      BY <3>1
  <2> DEFINE filled(c) == vals[c]
  <2>7. \A c \in newly : (\A d \in avail : st.val[d] <= th) => vals[c] <= th
    <3> SUFFICES ASSUME NEW c \in newly, \A d \in avail : st.val[d] <= th PROVE vals[c] <= th
      OBVIOUS
    <3> DEFINE im == {st.val[d] : d \in avail}
    <3>1. IsFiniteSet(im)
      <4> DEFINE f == [d \in avail |-> st.val[d]]
      <4>1. IsFiniteSet({f[d] : d \in avail})
        <5>1. DOMAIN f = avail /\ IsFiniteSet(avail)
          BY <2>5, CellsFinite, FS_Subset
        <5> HIDE DEF f, avail
        <5> QED
          BY <5>1, ImageFinite
      <4>2. {f[d] : d \in avail} = im
        OBVIOUS
      <4> QED
        BY <4>1, <4>2
    <3>2. im \in SUBSET Int
      <4>1. \A d \in avail : st.val[d] \in Int
        BY <2>4, <2>5 DEF Values
      <4> HIDE DEF avail
      <4> QED
        BY <4>1
    <3>3. im # {}
      <4>1. avail # {}
        BY <2>5
      <4> HIDE DEF avail
      <4> QED
        BY <4>1
    <3>4. Min(im) \in im /\ \A y \in im : Min(im) <= y
      <4> HIDE DEF im
      <4> QED
        BY <3>1, <3>2, <3>3, FiniteExtremes
    <3>5. Min(im) \in Int
      <4> HIDE DEF im
      <4> QED
        BY <3>2, <3>4
    <3>6. \A d \in avail : Min(im) <= st.val[d] /\ st.val[d] <= th
      BY <3>4
    <3> HIDE DEF im, vals, avail, newly
    <3> QED
      BY <2>6, <3>5, <3>6
  <2>8. /\ \A c \in Cells : c \in st.unfilled \/ c \notin reach \/ c \in trusted => st.val[c] = val[c]
        /\ \A c \in pk[L] : c \notin st.unfilled => Amid(st, c, lo, hi)
        /\ st.round <= L =>
              /\ st.avail = reach \ st.unfilled /\ st.avail = pk[st.round]
              /\ st.stuck => st.round > 0 /\ pk[st.round] = pk[st.round - 1]
        /\ st.round > L =>
              /\ pk[L] \subseteq reach \ st.unfilled
              /\ st.avail \subseteq reach \ st.unfilled
              /\ \A c \in st.avail : st.val[c] <= th
              /\ \A c \in reach : c \notin st.unfilled /\ c \notin pk[L] => st.val[c] <= th
    BY DEF FillInv
  <2>9. /\ \A j \in 0 .. L : pk[j] \subseteq pk[L] /\ trusted \subseteq pk[j] /\ pk[j] \subseteq reach
        /\ \A j \in 1 .. L : pk[j] = Peel(cov, pk[j - 1])
    BY LayersGrow DEF IsPeeling
  <2>10. /\ 0 \in 0 .. L /\ pk[L] \subseteq reach /\ trusted \subseteq pk[L]
    BY <1>0, <2>9
  <2> HIDE DEF vals, avail, newly, filled, new, reach, trusted, L
  <2>11. /\ new.unfilled \subseteq reach \ trusted
         /\ \A c \in Cells : c \in new.unfilled \/ c \notin reach \/ c \in trusted
               => new.val[c] = val[c]
    BY <2>3, <2>4, <2>5, <2>6, <2>8
  <2>14. InTime(new, i + 1)
    <3> SUFFICES ASSUME ~new.stuck, new.unfilled # {}
                 PROVE  new.round = i + 1 /\ Cardinality(new.unfilled) + (i + 1) <= W * H
      BY DEF InTime
    <3>1. st.round = i /\ Cardinality(st.unfilled) + i <= W * H
      BY <1>2 DEF InTime
    <3>2. IsFiniteSet(st.unfilled) /\ Cardinality(st.unfilled) \in Nat
      BY <2>4, CellsFinite, FS_Subset, FS_CardinalityType
    <3>3. new.unfilled \in SUBSET st.unfilled /\ new.unfilled # st.unfilled
      BY <2>3, <2>5
    <3>4. /\ Cardinality(new.unfilled) <= Cardinality(st.unfilled)
          /\ Cardinality(new.unfilled) # Cardinality(st.unfilled)
          /\ IsFiniteSet(new.unfilled)
      BY <3>2, <3>3, FS_Subset
    <3>5. Cardinality(new.unfilled) \in Nat /\ W * H \in Nat
      BY <3>4, FS_CardinalityType, RasterCells
    <3> QED
      BY <2>3, <3>1, <3>2, <3>4, <3>5
  <2>12. CASE st.round < L
    <3>1. avail = st.avail /\ st.avail = pk[st.round] /\ st.avail = reach \ st.unfilled
          /\ st.round \in 0 .. L /\ st.round + 1 \in 1 .. L /\ st.round + 1 \in 0 .. L
          /\ (st.round + 1) - 1 = st.round
      BY <1>0, <2>4, <2>8, <2>12 DEF avail
    <3>2. avail \cup newly = Peel(cov, pk[st.round])
      BY <2>4, <3>1 DEF newly, Peel, reach
    <3>3. avail \cup newly = pk[st.round + 1]
      BY <2>9, <3>1, <3>2
    <3>4. \A d \in avail : lo <= st.val[d] /\ st.val[d] <= hi
      BY <2>8, <2>9, <3>1 DEF Amid
    <3>5. \A c \in newly : lo <= vals[c] /\ vals[c] <= hi
      BY <2>6, <3>4
    <3>6. \A c \in pk[L] : c \notin new.unfilled => Amid(new, c, lo, hi)
      <4> SUFFICES ASSUME NEW c \in pk[L], c \notin new.unfilled
                   PROVE lo <= vals[c] /\ vals[c] <= hi
        BY <2>3 DEF Amid
      <4>1. CASE c \in newly
        BY <3>5, <4>1
      <4>2. CASE c \notin newly
        <5>1. c \notin st.unfilled /\ c \in Cells
          BY <2>3, <2>4, <2>10, <4>2
        <5> QED
          BY <2>6, <2>8, <4>2, <5>1 DEF Amid
      <4> QED
        BY <4>1, <4>2
    <3>7. new.avail = reach \ new.unfilled /\ new.avail = pk[new.round]
      BY <2>3, <2>4, <2>5, <3>1, <3>3
    <3>8. new.stuck => new.round > 0 /\ pk[new.round] = pk[new.round - 1]
      BY <2>3, <2>4, <3>1, <3>3
    <3>9. new.round <= L /\ ~(new.round > L)
      BY <1>0, <2>3, <2>4, <2>12
    <3>10. FillInv(new, val, reach, trusted, pk, th, lo, hi)
      BY <2>2, <2>11, <3>6, <3>7, <3>8, <3>9 DEF FillInv, L
    <3> QED
      BY <3>10, <2>14 DEF new, reach, trusted
  <2>13. CASE st.round >= L
    <3>1. /\ pk[L] \subseteq reach \ st.unfilled /\ st.avail \subseteq reach \ st.unfilled
          /\ \A c \in avail : st.val[c] <= th
          /\ \A c \in reach : c \notin st.unfilled /\ c \notin pk[L] => st.val[c] <= th
      BY <1>0, <2>4, <2>8, <2>13 DEF avail
    <3>2. \A c \in newly : vals[c] <= th
      BY <2>7, <3>1
    <3>3. \A c \in pk[L] : c \notin new.unfilled => Amid(new, c, lo, hi)
      <4> SUFFICES ASSUME NEW c \in pk[L], c \notin new.unfilled
                   PROVE lo <= vals[c] /\ vals[c] <= hi
        BY <2>3 DEF Amid
      <4>1. c \notin st.unfilled /\ c \notin newly /\ c \in Cells
        BY <2>4, <2>5, <2>10, <3>1
      <4> QED
        BY <2>6, <2>8, <4>1 DEF Amid
    <3>4. new.round > L /\ ~(new.round <= L)
      BY <1>0, <2>3, <2>4, <2>13
    <3>5. /\ pk[L] \subseteq reach \ new.unfilled
          /\ new.avail \subseteq reach \ new.unfilled
      BY <2>3, <2>4, <2>5, <3>1
    <3>6. \A c \in new.avail : new.val[c] <= th
      BY <2>3, <2>5, <2>6, <3>1, <3>2
    <3>7. \A c \in reach : c \notin new.unfilled /\ c \notin pk[L] => new.val[c] <= th
      BY <2>3, <2>4, <2>6, <3>1, <3>2
    <3>8. FillInv(new, val, reach, trusted, pk, th, lo, hi)
      BY <2>2, <2>11, <3>3, <3>4, <3>5, <3>6, <3>7 DEF FillInv, L
    <3> QED
      BY <3>8, <2>14 DEF new, reach, trusted
  <2> QED
    BY <1>0, <2>4, <2>12, <2>13, <2>14 DEF new
<1> QED
  BY <1>1, <1>2

\* There are W * H cells.
LEMMA CellsCount == Cardinality(Cells) = W * H /\ W * H \in Nat
<1>1. /\ IsFiniteSet(0 .. W - 1) /\ IsFiniteSet(0 .. H - 1)
      /\ Cardinality(0 .. W - 1) = W /\ Cardinality(0 .. H - 1) = H
  <2>1. W \in Nat \ {0} /\ H \in Nat \ {0} /\ W - 1 \in Int /\ H - 1 \in Int /\ 0 \in Int
    BY GridAssumption
  <2>2. /\ IsFiniteSet(0 .. W - 1)
        /\ Cardinality(0 .. W - 1) = IF 0 > W - 1 THEN 0 ELSE (W - 1) - 0 + 1
    BY <2>1, FS_Interval
  <2>3. /\ IsFiniteSet(0 .. H - 1)
        /\ Cardinality(0 .. H - 1) = IF 0 > H - 1 THEN 0 ELSE (H - 1) - 0 + 1
    BY <2>1, FS_Interval
  <2> QED
    BY <2>1, <2>2, <2>3
<1>2. Cardinality(Cells) = Cardinality(0 .. W - 1) * Cardinality(0 .. H - 1)
  BY <1>1, FS_Product DEF Cells
<1> QED
  BY <1>1, <1>2, RasterCells

\* The threshold of a plane with trusted cells is a number.
LEMMA ThresholdIsInt ==
  ASSUME NEW val \in Values, NEW trusted \in SUBSET Cells, trusted # {}
  PROVE  BrightThreshold(val, trusted) \in Int
<1> DEFINE v   == [c \in trusted |-> val[c]]
           med == Median(v)
           w   == [c \in trusted |-> Abs(val[c] - med)]
<1>1. IsFiniteSet(trusted)
  BY CellsFinite, FS_Subset
<1>2. v \in [trusted -> Int]
  BY DEF Values
<1>3. med \in Int
  <2> HIDE DEF v
  <2> QED
    BY <1>1, <1>2, MedianThere
<1> HIDE DEF med
<1>4. w \in [trusted -> Int]
  <2>1. \A c \in trusted : Abs(val[c] - med) \in Int
    BY <1>3 DEF Values, Abs
  <2> QED
    BY <2>1
<1>5. Median(w) \in Int
  <2> HIDE DEF w
  <2> QED
    BY <1>1, <1>4, MedianThere
<1>6. AnchorMad \in Int
  BY GridsAssumption
<1>7. BrightThreshold(val, trusted) = med + AnchorMad * Median(w)
  BY DEF BrightThreshold, med
<1> HIDE DEF w
<1> QED
  BY <1>3, <1>5, <1>6, <1>7

\* Nothing of a masked star leaks into the filled base.
LEMMA OnionFill ==
  ASSUME NEW val \in Values, NEW cov, NEW mask
  PROVE  IsOnionFill(val, cov, mask, suppress_stars_in_base(val, cov, mask))
<1> DEFINE trusted == Trusted(cov, mask)
           reach   == base_reach(cov)
           out     == suppress_stars_in_base(val, cov, mask)
           among   == {val[c] : c \in trusted}
           L       == FillLocalLayers
           th      == BrightThreshold(val, trusted)
           start   == Unfilled(val, cov, mask)
           lo      == Min(among)
           hi      == Max(among)
<1>1. trusted \subseteq reach /\ reach \in SUBSET Cells /\ trusted \in SUBSET Cells
  <2>1. Full > 0
    BY OverlapAssumption
  <2>2. \A c \in Cells : c \in Square(c, 2)
    BY DEF Square, Cells, Abs
  <2> QED
    BY <2>1, <2>2 DEF Trusted, FullCells, base_reach, Dilated
<1>2. CASE trusted = {}
  BY <1>2 DEF suppress_stars_in_base, IsOnionFill
<1>3. CASE trusted # {}
  <2>0. L \in Nat
    BY GridsAssumption
  <2>1. th \in Int
    <3> HIDE DEF trusted
    <3> QED
      BY <1>1, <1>3, ThresholdIsInt
  <2>2. /\ lo \in Int /\ hi \in Int
        /\ \A c \in trusted : lo <= val[c] /\ val[c] <= hi
    <3>1. IsFiniteSet(among)
      <4> DEFINE f == [c \in trusted |-> val[c]]
      <4>1. IsFiniteSet({f[c] : c \in trusted})
        <5>1. DOMAIN f = trusted /\ IsFiniteSet(trusted)
          BY <1>1, CellsFinite, FS_Subset
        <5> HIDE DEF f, trusted
        <5> QED
          BY <5>1, ImageFinite
      <4>2. {f[c] : c \in trusted} = among
        OBVIOUS
      <4> QED
        BY <4>1, <4>2
    <3>2. among \in SUBSET Int /\ among # {}
      <4>1. \A c \in trusted : val[c] \in Int
        BY <1>1 DEF Values
      <4> HIDE DEF trusted
      <4> QED
        BY <1>3, <4>1
    <3>3. /\ lo \in among /\ \A y \in among : lo <= y
          /\ hi \in among /\ \A y \in among : y <= hi
      <4> HIDE DEF among
      <4> QED
        BY <3>1, <3>2, FiniteExtremes
    <3>4. \A c \in trusted : val[c] \in among
      OBVIOUS
    <3> HIDE DEF among, trusted
    <3> QED
      BY <3>2, <3>3, <3>4
  <2> HIDE DEF lo, hi, th
  <2>3. PICK pk : pk[L] = LocalReach(cov, mask) /\ IsPeeling(pk, cov, trusted)
    BY Layering
  <2>4. start \in FillState /\ FillInv(start, val, reach, trusted, pk, th, lo, hi)
    <3>1. start = [val |-> val, avail |-> trusted, unfilled |-> reach \ trusted,
                   round |-> 0, stuck |-> FALSE]
      BY DEF Unfilled
    <3>2. pk[0] = trusted
      BY <2>3 DEF IsPeeling
    <3> HIDE DEF trusted, reach, start, among
    <3>3. /\ start.val = val /\ start.avail = trusted /\ start.unfilled = reach \ trusted
          /\ start.round = 0 /\ start.stuck = FALSE
      BY <3>1
    <3>4. start \in FillState
      BY <1>1, <3>1 DEF FillState
    <3>5. pk[L] \subseteq reach
      <4>1. L \in 0 .. L
        BY <2>0
      <4> QED
        BY <1>1, <2>3, <4>1, LayersGrow DEF reach
    <3>6. \A c \in pk[L] : c \notin start.unfilled => Amid(start, c, lo, hi)
      BY <2>2, <3>3, <3>5 DEF Amid
    <3>7. trusted = reach \ start.unfilled
      BY <1>1, <3>3
    <3>8. ~(start.round > L)
      BY <2>0, <3>3
    <3> QED
      BY <3>2, <3>3, <3>4, <3>6, <3>7, <3>8 DEF FillInv
  <2>5. InTime(start, 0)
    <3>1. start.unfilled \in SUBSET Cells /\ start.round = 0
      BY <1>1 DEF Unfilled
    <3>2. /\ Cardinality(start.unfilled) <= Cardinality(Cells)
          /\ Cardinality(start.unfilled) \in Nat
      <4> HIDE DEF start
      <4> QED
        BY <3>1, CellsFinite, FS_Subset, FS_CardinalityType
    <3> HIDE DEF start
    <3> QED
      BY <3>1, <3>2, CellsCount DEF InTime
  <2>6. PICK r : r[W * H] = Fills(start, th) /\ IsFill(r, start, th)
    BY <2>4, Filling
  <2> HIDE DEF start, trusted, reach
  <2> DEFINE B == {i \in Nat : i <= W * H =>
                     FillInv(r[i], val, reach, trusted, pk, th, lo, hi) /\ InTime(r[i], i)}
  <2>7. 0 \in B
    BY <2>4, <2>5, <2>6 DEF IsFill
  <2>8. ASSUME NEW i \in Nat, i \in B PROVE i + 1 \in B
    <3> SUFFICES ASSUME i + 1 <= W * H
                 PROVE  FillInv(r[i + 1], val, reach, trusted, pk, th, lo, hi)
                        /\ InTime(r[i + 1], i + 1)
      OBVIOUS
    <3>1. i + 1 \in 1 .. W * H /\ (i + 1) - 1 = i
          /\ FillInv(r[i], val, reach, trusted, pk, th, lo, hi) /\ InTime(r[i], i)
      BY <2>8, CellsCount
    <3>2. r[i + 1] = FillOrStay(r[i], th)
      BY <2>6, <3>1 DEF IsFill
    <3> HIDE DEF B
    <3> QED
      BY <1>1, <2>1, <2>2, <2>3, <3>1, <3>2, FillKeeps DEF reach, trusted
  <2>9. Nat \subseteq B
    <3> HIDE DEF B
    <3> QED
      BY <2>7, <2>8, Counting
  <2> DEFINE end == r[W * H]
  <2>10. FillInv(end, val, reach, trusted, pk, th, lo, hi) /\ InTime(end, W * H)
    BY <2>9, CellsCount
  <2>11. out = end.val
    BY <1>3, <2>6 DEF suppress_stars_in_base, th, start, trusted
  <2> HIDE DEF end, out, B
  <2>12. /\ end \in FillState /\ end.unfilled \subseteq reach \ trusted
         /\ \A c \in Cells : c \in end.unfilled \/ c \notin reach \/ c \in trusted
               => end.val[c] = val[c]
         /\ \A c \in pk[L] : c \notin end.unfilled => Amid(end, c, lo, hi)
         /\ end.round <= L =>
               /\ end.avail = reach \ end.unfilled /\ end.avail = pk[end.round]
               /\ end.stuck => end.round > 0 /\ pk[end.round] = pk[end.round - 1]
         /\ end.round > L =>
               /\ pk[L] \subseteq reach \ end.unfilled
               /\ \A c \in reach : c \notin end.unfilled /\ c \notin pk[L] => end.val[c] <= th
    BY <2>10 DEF FillInv
  <2>13. end.round \in Nat /\ end.unfilled \in SUBSET Cells
    BY <2>12 DEF FillState
  <2>14. /\ \A i \in 0 .. L : pk[i] \subseteq pk[L] /\ pk[i] \subseteq reach
         /\ \A i \in 1 .. L : pk[i] = pk[i - 1] => pk[L] = pk[i]
    BY <1>1, <2>3, LayersGrow DEF reach
  \* All that is left after the last pass is out of the local layers; and if the
  \* local passes were enough, so is nothing.
  <2>15. pk[L] \cap end.unfilled = {}
    <3>1. CASE end.round > L
      BY <2>12, <3>1
    <3>2. CASE ~(end.round > L)
      <4>0. end.round \in 0 .. L /\ end.round <= L
        BY <2>0, <2>13, <3>2
      <4>1. pk[L] \subseteq reach
        <5>1. L \in 0 .. L
          BY <2>0
        <5> QED
          BY <2>14, <5>1
      <4>2. CASE end.unfilled = {}
        BY <4>2
      <4>3. CASE end.stuck
        <5>1. end.round \in 1 .. L /\ pk[end.round] = pk[end.round - 1]
          BY <2>12, <4>0, <4>3
        <5> QED
          BY <2>12, <2>14, <4>0, <5>1
      <4>4. CASE ~end.stuck /\ end.unfilled # {}
        <5>1. Cardinality(end.unfilled) + W * H <= W * H
          BY <2>10, <4>4 DEF InTime
        <5>2. IsFiniteSet(end.unfilled) /\ Cardinality(end.unfilled) \in Nat
          BY <2>13, CellsFinite, FS_Subset, FS_CardinalityType
        <5>3. Cardinality(end.unfilled) = 0
          BY <5>1, <5>2, CellsCount
        <5> QED
          BY <4>4, <5>2, <5>3, FS_EmptySet
      <4> QED
        BY <4>2, <4>3, <4>4
    <3> QED
      BY <3>1, <3>2
  <2>16. \A c \in reach : c \notin pk[L] => end.val[c] = val[c] \/ end.val[c] <= th
    <3> SUFFICES ASSUME NEW c \in reach, c \notin pk[L], c \notin end.unfilled
                 PROVE  end.val[c] <= th
      BY <1>1, <2>12
    <3>1. CASE end.round > L
      BY <2>12, <3>1
    <3>2. CASE ~(end.round > L)
      <4>1. end.round \in 0 .. L /\ end.round <= L
        BY <2>0, <2>13, <3>2
      <4> QED
        BY <2>12, <2>14, <4>1
    <3> QED
      BY <3>1, <3>2
  <2>17. \A c \in Cells :
           IF trusted = {} \/ c \in trusted \/ c \notin reach THEN out[c] = val[c]
           ELSE IF c \in pk[L] THEN lo <= out[c] /\ out[c] <= hi
                ELSE out[c] = val[c] \/ out[c] <= th
    BY <1>3, <2>11, <2>12, <2>15, <2>16 DEF Amid
  <2> QED
    BY <2>3, <2>17 DEF IsOnionFill, lo, hi, th, out, reach, trusted
<1> QED
  BY <1>2, <1>3

-----------------------------------------------------------------------------
(* The chamfer distance.  *)

\* Quotient and remainder are what they should be.
LEMMA Division ==
  ASSUME NEW w \in Nat \ {0}, NEW q \in Nat, NEW r \in 0 .. w - 1
  PROVE  /\ q * w + r \in Nat
         /\ (q * w + r) \div w = q /\ (q * w + r) % w = r
<1> DEFINE k == q * w + r
           p == k \div w
<1>1. k \in Nat /\ q * w \in Nat
  OBVIOUS
<1>2. k = q * w + r
  OBVIOUS
<1> HIDE DEF k
<1>3. p \in Int /\ w * p <= k /\ k < w * p + w
  BY <1>1
<1>4. k % w = k - w * p
  BY <1>1
<1> HIDE DEF p
<1>5. w * q = q * w /\ w * p \in Int
  BY <1>3
<1>6. p <= q
  <2> SUFFICES ASSUME q + 1 <= p PROVE FALSE
    BY <1>3
  <2>1. w * (q + 1) <= w * p
    BY <1>3
  <2>2. w * (q + 1) = w * q + w
    OBVIOUS
  <2> QED
    BY <1>1, <1>2, <1>3, <1>5, <2>1, <2>2
<1>7. q <= p
  <2> SUFFICES ASSUME p + 1 <= q PROVE FALSE
    BY <1>3
  <2>1. w * (p + 1) <= w * q
    BY <1>3
  <2>2. w * (p + 1) = w * p + w
    BY <1>3
  <2> QED
    BY <1>1, <1>2, <1>3, <1>5, <2>1, <2>2
<1>8. p = q
  BY <1>3, <1>6, <1>7
<1> QED
  BY <1>1, <1>2, <1>4, <1>5, <1>8 DEF k, p

\* An order that comes to every cell once, and to its settled neighbours before.
Settling(pos, n, order, settled) ==
  /\ pos \in [Cells -> 1 .. n]
  /\ \A c \in Cells : order[pos[c]] = c
  /\ \A i \in 1 .. n : order[i] \in Cells /\ pos[order[i]] = i
  /\ \A c \in Cells : \A d \in settled[c] : pos[d] < pos[c]

\* After a sweep in such an order no cell can be relaxed any further.
Settled(dist, start, settled) ==
  \A c \in Cells : /\ dist[c] <= start[c]
                   /\ \A d \in settled[c] : dist[c] <= Lesser(dist[d] + Step(c, d), Far)

\* So it is, since a cell's settled neighbours do not change after it.
LEMMA SweepSettles ==
  ASSUME NEW start \in Plane, NEW n \in Nat, NEW order \in [1 .. n -> Cells],
         NEW settled, Neighbourly(settled), NEW pos, Settling(pos, n, order, settled)
  PROVE  Settled(Sweep(start, order, settled), start, settled)
<1>1. PICK r : r[n] = Sweep(start, order, settled) /\ IsSweep(r, n, start, order, settled)
  BY Sweeping
<1>2. ASSUME NEW i \in 1 .. n
      PROVE  /\ r[i - 1] \in Plane /\ r[i] \in Plane
             /\ \A d \in Cells : d # order[i] => r[i][d] = r[i - 1][d]
             /\ r[i][order[i]] <= r[i - 1][order[i]]
             /\ \A d \in settled[order[i]] :
                   r[i][order[i]] <= Lesser(r[i - 1][d] + Step(order[i], d), Far)
  <2>1. /\ i - 1 \in 0 .. n /\ i \in 0 .. n /\ order[i] \in Cells
        /\ settled[order[i]] \in SUBSET Cells
    BY DEF Neighbourly
  <2>2. r[i] = Relax(r[i - 1], order[i], settled[order[i]]) /\ r[i - 1] \in Plane
    BY <1>1, <2>1 DEF IsSweep
  <2> QED
    BY <2>1, <2>2, RelaxFacts
\* A cell has its first value until its turn, and its last one from then on.
<1>3. ASSUME NEW c \in Cells
      PROVE  /\ \A j \in Nat : j < pos[c] => r[j][c] = start[c]
             /\ \A j \in Nat : j <= n - pos[c] => r[pos[c] + j][c] = r[pos[c]][c]
  <2> DEFINE Early_ == {j \in Nat : j < pos[c] => r[j][c] = start[c]}
             Late_  == {j \in Nat : j <= n - pos[c] => r[pos[c] + j][c] = r[pos[c]][c]}
  <2>0. pos[c] \in 1 .. n
    BY DEF Settling
  <2>1. 0 \in Early_
    BY <1>1 DEF IsSweep
  <2>2. ASSUME NEW j \in Nat, j \in Early_ PROVE j + 1 \in Early_
    <3> SUFFICES ASSUME j + 1 < pos[c] PROVE r[j + 1][c] = start[c]
      OBVIOUS
    <3>1. j + 1 \in 1 .. n /\ (j + 1) - 1 = j /\ j + 1 # pos[c] /\ r[j][c] = start[c]
      BY <2>0, <2>2
    <3>2. order[j + 1] # c
      BY <3>1 DEF Settling
    <3> QED
      BY <1>2, <3>1, <3>2
  <2>3. 0 \in Late_
    BY <2>0
  <2>4. ASSUME NEW j \in Nat, j \in Late_ PROVE j + 1 \in Late_
    <3> SUFFICES ASSUME j + 1 <= n - pos[c] PROVE r[pos[c] + (j + 1)][c] = r[pos[c]][c]
      OBVIOUS
    <3> DEFINE i == pos[c] + (j + 1)
    <3>1. i \in 1 .. n /\ i - 1 = pos[c] + j /\ i # pos[c] /\ r[pos[c] + j][c] = r[pos[c]][c]
      BY <2>0, <2>4
    <3> HIDE DEF i
    <3>2. order[i] # c
      BY <3>1 DEF Settling
    <3>3. r[i][c] = r[i - 1][c]
      BY <1>2, <3>1, <3>2
    <3> QED
      BY <3>1, <3>3 DEF i
  <2>5. Nat \subseteq Early_ /\ Nat \subseteq Late_
    <3> HIDE DEF Early_, Late_
    <3>1. Nat \subseteq Early_
      BY <2>1, <2>2, Counting
    <3>2. Nat \subseteq Late_
      BY <2>3, <2>4, Counting
    <3> QED
      BY <3>1, <3>2
  <2> QED
    BY <2>5
<1>4. ASSUME NEW c \in Cells
      PROVE  /\ pos[c] \in 1 .. n /\ order[pos[c]] = c
             /\ r[n][c] = r[pos[c]][c] /\ r[pos[c] - 1][c] = start[c]
             /\ \A k \in 0 .. n : pos[c] <= k => r[k][c] = r[n][c]
  <2>1. pos[c] \in 1 .. n /\ order[pos[c]] = c
    BY DEF Settling
  <2>2. pos[c] - 1 \in Nat /\ pos[c] - 1 < pos[c]
    BY <2>1
  <2>3. r[pos[c] - 1][c] = start[c]
    BY <1>3, <2>2
  <2>4. ASSUME NEW k \in 0 .. n, pos[c] <= k PROVE r[k][c] = r[pos[c]][c]
    <3>1. k - pos[c] \in Nat /\ k - pos[c] <= n - pos[c] /\ pos[c] + (k - pos[c]) = k
      BY <2>1, <2>4
    <3> QED
      BY <1>3, <3>1
  <2>5. n \in 0 .. n /\ pos[c] <= n
    BY <2>1
  <2> QED
    BY <2>1, <2>3, <2>4, <2>5
<1>5. SUFFICES ASSUME NEW c \in Cells
               PROVE  /\ r[n][c] <= start[c]
                      /\ \A d \in settled[c] : r[n][c] <= Lesser(r[n][d] + Step(c, d), Far)
  BY <1>1 DEF Settled
<1>6. r[n][c] <= start[c]
  BY <1>2, <1>4
<1>7. ASSUME NEW d \in settled[c] PROVE r[n][c] <= Lesser(r[n][d] + Step(c, d), Far)
  <2>1. d \in Cells /\ pos[d] < pos[c] /\ pos[d] \in 1 .. n /\ pos[c] \in 1 .. n
    BY <1>4 DEF Neighbourly, Settling
  <2>2. r[pos[c] - 1][d] = r[n][d]
    <3>1. pos[c] - 1 \in 0 .. n /\ pos[d] <= pos[c] - 1
      BY <2>1
    <3> QED
      BY <1>4, <2>1, <3>1
  <2>3. r[pos[c]][c] <= Lesser(r[pos[c] - 1][d] + Step(c, d), Far)
    BY <1>2, <1>4, <2>1
  <2> QED
    BY <1>4, <2>2, <2>3
<1> QED
  BY <1>6, <1>7

\* The raster comes to a cell after those ahead of it, and backwards after those
\* behind it.
Place_(c) == c[2] * W + c[1] + 1

\* Both rasters do.
LEMMA RasterSettles ==
  /\ Settling([c \in Cells |-> Place_(c)], W * H, Raster, [c \in Cells |-> Ahead(c)])
  /\ Settling([c \in Cells |-> W * H + 1 - Place_(c)], W * H, Reverse(Raster),
              [c \in Cells |-> Behind(c)])
<1>1. W \in Nat \ {0} /\ H \in Nat \ {0} /\ W * H \in Nat
  BY GridAssumption, RasterCells
<1>2. ASSUME NEW c \in Cells
      PROVE  /\ c[1] \in 0 .. W - 1 /\ c[2] \in 0 .. H - 1 /\ c = <<c[1], c[2]>>
             /\ c[2] * W \in Nat /\ Place_(c) \in 1 .. W * H
             /\ (Place_(c) - 1) \div W = c[2] /\ (Place_(c) - 1) % W = c[1]
  <2>1. c[1] \in 0 .. W - 1 /\ c[2] \in 0 .. H - 1 /\ c = <<c[1], c[2]>>
    BY DEF Cells
  <2>2. c[2] * W \in Nat /\ c[2] \in Nat
    BY <1>1, <2>1
  <2>3. c[2] * W + W <= W * H
    <3>1. (c[2] + 1) * W <= H * W
      BY <1>1, <2>1
    <3>2. (c[2] + 1) * W = c[2] * W + W /\ H * W = W * H
      BY <1>1, <2>1
    <3> QED
      BY <3>1, <3>2
  <2>4. Place_(c) \in 1 .. W * H
    BY <1>1, <2>1, <2>2, <2>3 DEF Place_
  <2>5. Place_(c) - 1 = c[2] * W + c[1]
    BY <2>1, <2>2 DEF Place_
  <2> QED
    BY <1>1, <2>1, <2>2, <2>4, <2>5, Division
<1>3. ASSUME NEW i \in 1 .. W * H PROVE Raster[i] \in Cells /\ Place_(Raster[i]) = i
  <2>1. Raster[i] = <<(i - 1) % W, (i - 1) \div W>> /\ Raster[i] \in Cells
    BY <1>1, RasterCells DEF Raster
  <2>2. ((i - 1) \div W) * W + ((i - 1) % W) = i - 1
    <3> DEFINE k == i - 1
    <3>1. k \in Nat
      BY <1>1
    <3> HIDE DEF k
    <3> DEFINE q == k \div W
               m == k % W
    <3>2. q \in Int /\ m = k - W * q /\ W * q \in Int /\ m \in Int
      BY <1>1, <3>1
    <3> HIDE DEF q, m
    <3>3. W * q = q * W
      BY <1>1, <3>2
    <3>4. q * W + m = k
      BY <3>1, <3>2, <3>3
    <3> QED
      BY <3>4 DEF q, m, k
  <2>3. Place_(Raster[i]) = ((i - 1) \div W) * W + ((i - 1) % W) + 1
    BY <2>1 DEF Place_
  <2> QED
    BY <1>1, <2>1, <2>2, <2>3
<1>4. ASSUME NEW c \in Cells PROVE Raster[Place_(c)] = c
  <2>1. Raster[Place_(c)] = <<(Place_(c) - 1) % W, (Place_(c) - 1) \div W>>
    BY <1>1, <1>2 DEF Raster
  <2> QED
    BY <1>2, <2>1
<1>5. ASSUME NEW c \in Cells, NEW d \in Cells, d[2] < c[2] \/ (d[2] = c[2] /\ d[1] < c[1])
      PROVE  Place_(d) < Place_(c)
  <2>1. /\ c[1] \in 0 .. W - 1 /\ c[2] \in 0 .. H - 1 /\ d[1] \in 0 .. W - 1 /\ d[2] \in 0 .. H - 1
        /\ c[2] * W \in Nat /\ d[2] * W \in Nat
    BY <1>2
  <2>2. CASE d[2] < c[2]
    <3>1. (d[2] + 1) * W <= c[2] * W
      BY <1>1, <2>1, <2>2
    <3>2. (d[2] + 1) * W = d[2] * W + W
      BY <1>1, <2>1
    <3> QED
      BY <1>1, <2>1, <3>1, <3>2 DEF Place_
  <2>3. CASE d[2] = c[2] /\ d[1] < c[1]
    BY <1>1, <2>1, <2>3 DEF Place_
  <2> QED
    BY <1>5, <2>2, <2>3
<1>6. \A c \in Cells : \A d \in Ahead(c) : Place_(d) < Place_(c)
  BY <1>5 DEF Ahead, Near, Square
<1>7. \A c \in Cells : \A d \in Behind(c) : Place_(c) < Place_(d)
  BY <1>5 DEF Behind, Near, Square
<1>8. Settling([c \in Cells |-> Place_(c)], W * H, Raster, [c \in Cells |-> Ahead(c)])
  <2>1. \A c \in Cells : Ahead(c) \subseteq Cells
    BY DEF Ahead, Near, Square
  <2> QED
    BY <1>2, <1>3, <1>4, <1>6, <2>1 DEF Settling
<1>9. /\ Reverse(Raster) \in [1 .. W * H -> Cells]
      /\ \A i \in 1 .. W * H : Reverse(Raster)[i] = Raster[W * H - i + 1]
  <2>1. Len(Raster) = W * H
    BY <1>1 DEF Raster
  <2> QED
    BY <1>1, <2>1, RasterCells DEF Reverse
<1>10. Settling([c \in Cells |-> W * H + 1 - Place_(c)], W * H, Reverse(Raster),
                [c \in Cells |-> Behind(c)])
  <2> DEFINE pos == [c \in Cells |-> W * H + 1 - Place_(c)]
  <2>1. ASSUME NEW c \in Cells
        PROVE  /\ pos[c] \in 1 .. W * H /\ Reverse(Raster)[pos[c]] = c
    <3>1. pos[c] \in 1 .. W * H /\ W * H - pos[c] + 1 = Place_(c)
      BY <1>1, <1>2
    <3> HIDE DEF pos
    <3> QED
      BY <1>4, <1>9, <3>1
  <2>2. ASSUME NEW i \in 1 .. W * H
        PROVE  Reverse(Raster)[i] \in Cells /\ pos[Reverse(Raster)[i]] = i
    <3>1. W * H - i + 1 \in 1 .. W * H
      BY <1>1
    <3>2. /\ Reverse(Raster)[i] = Raster[W * H - i + 1]
          /\ Raster[W * H - i + 1] \in Cells /\ Place_(Raster[W * H - i + 1]) = W * H - i + 1
      BY <1>3, <1>9, <3>1
    <3> QED
      BY <1>1, <3>2
  <2>3. \A c \in Cells : \A d \in Behind(c) : d \in Cells /\ pos[d] < pos[c]
    <3> SUFFICES ASSUME NEW c \in Cells, NEW d \in Behind(c) PROVE d \in Cells /\ pos[d] < pos[c]
      OBVIOUS
    <3>1. d \in Cells
      BY DEF Behind, Near, Square
    <3>2. Place_(c) < Place_(d) /\ Place_(c) \in Nat /\ Place_(d) \in Nat
      BY <1>2, <1>7, <3>1
    <3> QED
      BY <1>1, <3>1, <3>2
  <2>4. pos \in [Cells -> 1 .. W * H]
    BY <2>1
  <2> HIDE DEF pos
  <2> QED
    BY <2>1, <2>2, <2>3, <2>4 DEF Settling, pos
<1> QED
  BY <1>8, <1>10

\* The octile length of a displacement, one step longer or shorter.
Oct(a, b) == Diagonal * Lesser(a, b) + Straight * (Greater(a, b) - Lesser(a, b))
Stepped(a, b, c, d) ==
  /\ a <= c + 1 /\ c <= a + 1 /\ b <= d + 1 /\ d <= b + 1

\* A step to a neighbour changes the distance by no more than the step.
LEMMA Octiles ==
  /\ \A a, b \in Nat : Oct(a, b) \in Nat /\ Oct(a, b) = Oct(b, a)
  /\ Oct(0, 0) = 0
  /\ \A a, b \in Nat : /\ Oct(a + 1, b + 1) = Oct(a, b) + Diagonal
                       /\ a >= b => Oct(a + 1, b) = Oct(a, b) + Straight
                       /\ b >= a => Oct(a, b + 1) = Oct(a, b) + Straight
  /\ \A a, b, c, d \in Nat : Stepped(a, b, c, d) =>
        /\ Oct(a, b) <= Oct(c, d) + Diagonal
        /\ a = c \/ b = d => Oct(a, b) <= Oct(c, d) + Straight
<1> DEFINE E == Diagonal - Straight
<1>1. E \in Nat /\ E <= Straight /\ Straight \in Nat /\ Diagonal = E + Straight /\ Diagonal \in Nat
  BY OverlapAssumption
<1> HIDE DEF E
<1>2. ASSUME NEW n \in Nat, NEW x \in Nat, NEW y \in Nat
      PROVE  /\ n * x \in Nat /\ n * (x + 1) = n * x + n
             /\ x <= y => n * x <= n * y
             /\ x <= y + 1 => n * x <= n * y + n
  <2>1. n * x \in Nat /\ n * (x + 1) = n * x + n /\ n * (y + 1) = n * y + n
    OBVIOUS
  <2>2. x <= y => n * x <= n * y
    OBVIOUS
  <2>3. x <= y + 1 => n * x <= n * (y + 1)
    OBVIOUS
  <2> QED
    BY <2>1, <2>2, <2>3
<1>3. ASSUME NEW a \in Nat, NEW b \in Nat, a <= b
      PROVE  /\ Oct(a, b) = E * a + Straight * b /\ Oct(b, a) = E * a + Straight * b
             /\ Oct(a, b) \in Nat
  <2>1. Lesser(a, b) = a /\ Greater(a, b) = b /\ Lesser(b, a) = a /\ Greater(b, a) = b
    BY <1>3 DEF Lesser, Greater
  <2>2. Oct(a, b) = Diagonal * a + Straight * (b - a) /\ Oct(b, a) = Diagonal * a + Straight * (b - a)
    BY <2>1 DEF Oct
  <2>3. Diagonal * a = E * a + Straight * a
    BY <1>1
  <2>4. Straight * (b - a) = Straight * b - Straight * a
    BY <1>1
  <2>5. E * a \in Nat /\ Straight * a \in Nat /\ Straight * b \in Nat
    BY <1>1
  <2> QED
    BY <2>2, <2>3, <2>4, <2>5
<1>4. \A a, b \in Nat : Oct(a, b) \in Nat /\ Oct(a, b) = Oct(b, a)
  BY <1>3
<1>5. Oct(0, 0) = 0
  BY <1>1, <1>3
<1>6. ASSUME NEW a \in Nat, NEW b \in Nat, a <= b
      PROVE  /\ Oct(a + 1, b + 1) = Oct(a, b) + Diagonal
             /\ Oct(b + 1, a + 1) = Oct(b, a) + Diagonal
             /\ Oct(a, b + 1) = Oct(a, b) + Straight
             /\ Oct(b + 1, a) = Oct(b, a) + Straight
  <2>1. /\ Oct(a + 1, b + 1) = E * (a + 1) + Straight * (b + 1)
        /\ Oct(b + 1, a + 1) = E * (a + 1) + Straight * (b + 1)
        /\ Oct(a, b + 1) = E * a + Straight * (b + 1) /\ Oct(b + 1, a) = E * a + Straight * (b + 1)
        /\ Oct(a, b) = E * a + Straight * b /\ Oct(b, a) = E * a + Straight * b
    <3>1. a + 1 \in Nat /\ b + 1 \in Nat /\ a <= b + 1 /\ a + 1 <= b + 1
      BY <1>6
    <3> QED
      BY <1>3, <1>6, <3>1
  <2>2. /\ E * (a + 1) = E * a + E /\ Straight * (b + 1) = Straight * b + Straight
        /\ E * a \in Nat /\ Straight * b \in Nat
    BY <1>1, <1>2
  <2> QED
    BY <1>1, <2>1, <2>2
<1>7. \A a, b \in Nat : /\ Oct(a + 1, b + 1) = Oct(a, b) + Diagonal
                        /\ a >= b => Oct(a + 1, b) = Oct(a, b) + Straight
                        /\ b >= a => Oct(a, b + 1) = Oct(a, b) + Straight
  <2> TAKE a, b \in Nat
  <2>1. CASE a <= b
    <3>1. a >= b => a = b
      BY <2>1
    <3> QED
      BY <1>6, <2>1, <3>1
  <2>2. CASE b <= a
    <3>1. b >= a => a = b
      BY <2>2
    <3> QED
      BY <1>6, <2>2, <3>1
  <2> QED
    BY <2>1, <2>2
<1>8. ASSUME NEW l \in Nat, NEW g \in Nat, NEW m \in Nat, NEW h \in Nat
      PROVE  /\ l <= m + 1 /\ g <= h + 1 => E * l + Straight * g <= E * m + Straight * h + Diagonal
             /\ l <= m /\ g <= h + 1 => E * l + Straight * g <= E * m + Straight * h + Straight
             /\ l <= m + 1 /\ g <= h => E * l + Straight * g <= E * m + Straight * h + Straight
  <2>1. /\ E * l \in Nat /\ E * m \in Nat /\ Straight * g \in Nat /\ Straight * h \in Nat
        /\ l <= m => E * l <= E * m
        /\ l <= m + 1 => E * l <= E * m + E
        /\ g <= h => Straight * g <= Straight * h
        /\ g <= h + 1 => Straight * g <= Straight * h + Straight
    BY <1>1, <1>2
  <2> QED
    BY <1>1, <2>1
<1>9. ASSUME NEW a \in Nat, NEW b \in Nat
      PROVE  Oct(a, b) = E * Lesser(a, b) + Straight * Greater(a, b)
  <2>1. CASE a <= b
    <3>1. Lesser(a, b) = a /\ Greater(a, b) = b
      BY <2>1 DEF Lesser, Greater
    <3> QED
      BY <1>3, <2>1, <3>1
  <2>2. CASE b <= a
    <3>1. Lesser(a, b) = b /\ Greater(a, b) = a
      BY <2>2 DEF Lesser, Greater
    <3> QED
      BY <1>3, <2>2, <3>1
  <2> QED
    BY <2>1, <2>2
<1>10. \A a, b, c, d \in Nat : Stepped(a, b, c, d) =>
        /\ Oct(a, b) <= Oct(c, d) + Diagonal
        /\ a = c \/ b = d => Oct(a, b) <= Oct(c, d) + Straight
  <2> SUFFICES ASSUME NEW a \in Nat, NEW b \in Nat, NEW c \in Nat, NEW d \in Nat,
                      Stepped(a, b, c, d)
               PROVE  /\ Oct(a, b) <= Oct(c, d) + Diagonal
                      /\ a = c \/ b = d => Oct(a, b) <= Oct(c, d) + Straight
    OBVIOUS
  <2> DEFINE l == Lesser(a, b)
             g == Greater(a, b)
             m == Lesser(c, d)
             h == Greater(c, d)
  <2>1. /\ l \in Nat /\ g \in Nat /\ m \in Nat /\ h \in Nat
        /\ l <= m + 1 /\ g <= h + 1
        /\ a = c \/ b = d => l <= m \/ g <= h
    BY DEF Stepped, Lesser, Greater
  <2>2. Oct(a, b) = E * l + Straight * g /\ Oct(c, d) = E * m + Straight * h
    BY <1>9
  <2> HIDE DEF l, g, m, h
  <2> QED
    BY <1>8, <2>1, <2>2
<1> QED
  BY <1>4, <1>5, <1>7, <1>10

\* e is one step nearer to x than c is.
Dx(c, x) == Abs(c[1] - x[1])
Dy(c, x) == Abs(c[2] - x[2])
Closer(e, c, x) ==
  \/ c[1] # e[1] /\ c[2] # e[2] /\ Dx(c, x) = Dx(e, x) + 1 /\ Dy(c, x) = Dy(e, x) + 1
  \/ c[2] = e[2] /\ Dx(c, x) = Dx(e, x) + 1 /\ Dx(e, x) >= Dy(e, x)
  \/ c[1] = e[1] /\ Dy(c, x) = Dy(e, x) + 1 /\ Dy(e, x) >= Dx(e, x)
CellNumbers(c) == c[1] \in Nat /\ c[2] \in Nat /\ c[1] < W /\ c[2] < H /\ c = <<c[1], c[2]>>

\* A cell is its two coordinates.
LEMMA CellsAre ==
  /\ \A c \in Cells : CellNumbers(c)
  /\ \A i \in 0 .. W - 1, j \in 0 .. H - 1 : <<i, j>> \in Cells
  /\ W \in Nat /\ H \in Nat
<1>1. W \in Nat \ {0} /\ H \in Nat \ {0}
  BY GridAssumption
<1>2. \A c \in Cells : c[1] \in 0 .. W - 1 /\ c[2] \in 0 .. H - 1 /\ c = <<c[1], c[2]>>
  BY DEF Cells
<1> QED
  BY <1>1, <1>2 DEF CellNumbers, Cells

\* The octile distance is that of the displacements.
LEMMA Displacements ==
  \A c, x \in Cells : /\ Dx(c, x) \in Nat /\ Dy(c, x) \in Nat
                      /\ Octile(c, x) = Oct(Dx(c, x), Dy(c, x)) /\ Octile(c, x) \in Nat
<1> SUFFICES ASSUME NEW c \in Cells, NEW x \in Cells
             PROVE  /\ Dx(c, x) \in Nat /\ Dy(c, x) \in Nat
                    /\ Octile(c, x) = Oct(Dx(c, x), Dy(c, x)) /\ Octile(c, x) \in Nat
  OBVIOUS
<1>1. c[1] \in Int /\ c[2] \in Int /\ x[1] \in Int /\ x[2] \in Int
  BY CellsAre DEF CellNumbers
<1>2. Dx(c, x) \in Nat /\ Dy(c, x) \in Nat
  BY <1>1 DEF Dx, Dy, Abs
<1>3. Octile(c, x) = Oct(Dx(c, x), Dy(c, x))
  BY DEF Octile, Oct, Dx, Dy
<1> QED
  BY <1>2, <1>3, Octiles

\* A step nearer is the length of the step shorter.
LEMMA CloserIsShorter ==
  ASSUME NEW c \in Cells, NEW e \in Cells, NEW x \in Cells, Closer(e, c, x)
  PROVE  /\ Octile(c, x) = Octile(e, x) + Step(c, e)
         /\ Dx(e, x) + Dy(e, x) < Dx(c, x) + Dy(c, x)
<1> DEFINE a == Dx(e, x)
           b == Dy(e, x)
<1>1. /\ a \in Nat /\ b \in Nat
      /\ Octile(c, x) = Oct(Dx(c, x), Dy(c, x)) /\ Octile(e, x) = Oct(a, b)
  BY Displacements
<1>2. CASE c[1] # e[1] /\ c[2] # e[2] /\ Dx(c, x) = a + 1 /\ Dy(c, x) = b + 1
  <2>1. Step(c, e) = Diagonal
    BY <1>2 DEF Step
  <2> HIDE DEF a, b
  <2>2. Oct(a + 1, b + 1) = Oct(a, b) + Diagonal
    BY <1>1, Octiles
  <2>3. Octile(c, x) = Oct(a + 1, b + 1) /\ a + b < (a + 1) + (b + 1)
    BY <1>1, <1>2
  <2> QED
    BY <1>1, <1>2, <2>1, <2>2, <2>3 DEF a, b
<1>3. CASE c[2] = e[2] /\ Dx(c, x) = a + 1 /\ a >= b
  <2>1. Step(c, e) = Straight /\ Dy(c, x) = b
    BY <1>3 DEF Step, Dy
  <2> HIDE DEF a, b
  <2>2. Oct(a + 1, b) = Oct(a, b) + Straight
    BY <1>1, <1>3, Octiles
  <2>3. Octile(c, x) = Oct(a + 1, b) /\ a + b < (a + 1) + b
    BY <1>1, <1>3, <2>1
  <2> QED
    BY <1>1, <1>3, <2>1, <2>2, <2>3 DEF a, b
<1>4. CASE c[1] = e[1] /\ Dy(c, x) = b + 1 /\ b >= a
  <2>1. Step(c, e) = Straight /\ Dx(c, x) = a
    BY <1>4 DEF Step, Dx
  <2> HIDE DEF a, b
  <2>2. Oct(a, b + 1) = Oct(a, b) + Straight
    BY <1>1, <1>4, Octiles
  <2>3. Octile(c, x) = Oct(a, b + 1) /\ a + b < a + (b + 1)
    BY <1>1, <1>4, <2>1
  <2> QED
    BY <1>1, <1>4, <2>1, <2>2, <2>3 DEF a, b
<1> QED
  BY <1>2, <1>3, <1>4 DEF Closer

\* The cells that a pass in raster order can reach from x by the shortest way.
Onward(c, x) ==
  \/ c[2] > x[2] /\ Dx(c, x) <= Dy(c, x)
  \/ c[1] >= x[1] /\ c[2] >= x[2]

\* From a cell to another one, some neighbour is a step nearer.
LEMMA StepBefore ==
  ASSUME NEW c \in Cells, NEW x \in Cells, c # x
  PROVE  /\ Onward(c, x) => \E e \in Ahead(c) : Closer(e, c, x) /\ Onward(e, x)
         /\ ~Onward(c, x) => \E e \in Behind(c) : Closer(e, c, x)
<1>0. /\ CellNumbers(c) /\ CellNumbers(x) /\ W \in Nat /\ H \in Nat
      /\ c[1] # x[1] \/ c[2] # x[2]
  <2>1. CellNumbers(c) /\ CellNumbers(x) /\ W \in Nat /\ H \in Nat
    BY CellsAre
  <2> QED
    BY <2>1 DEF CellNumbers
<1> DEFINE a == c[1]
           b == c[2]
           p == x[1]
           q == x[2]
<1>1. /\ a \in Nat /\ b \in Nat /\ p \in Nat /\ q \in Nat
      /\ a < W /\ b < H /\ p < W /\ q < H /\ (a # p \/ b # q)
  BY <1>0 DEF CellNumbers
<1>2. ASSUME NEW i \in 0 .. W - 1, NEW j \in 0 .. H - 1
      PROVE  /\ <<i, j>> \in Cells
             /\ <<i, j>>[1] = i /\ <<i, j>>[2] = j
             /\ Dx(<<i, j>>, x) = Abs(i - p) /\ Dy(<<i, j>>, x) = Abs(j - q)
  BY CellsAre DEF Dx, Dy
<1>3. Dx(c, x) = Abs(a - p) /\ Dy(c, x) = Abs(b - q)
  BY DEF Dx, Dy
<1>4. ASSUME NEW i \in 0 .. W - 1, NEW j \in 0 .. H - 1, Abs(i - a) <= 1, Abs(j - b) <= 1
      PROVE  /\ j < b \/ (j = b /\ i < a) => <<i, j>> \in Ahead(c)
             /\ j > b \/ (j = b /\ i > a) => <<i, j>> \in Behind(c)
             /\ Closer(<<i, j>>, c, x) <=>
                  \/ a # i /\ b # j /\ Abs(a - p) = Abs(i - p) + 1 /\ Abs(b - q) = Abs(j - q) + 1
                  \/ b = j /\ Abs(a - p) = Abs(i - p) + 1 /\ Abs(i - p) >= Abs(j - q)
                  \/ a = i /\ Abs(b - q) = Abs(j - q) + 1 /\ Abs(j - q) >= Abs(i - p)
             /\ Onward(<<i, j>>, x) <=> \/ j > q /\ Abs(i - p) <= Abs(j - q)
                                        \/ i >= p /\ j >= q
  <2>1. <<i, j>> \in Near(c)
    BY <1>2, <1>4 DEF Near, Square
  <2>2. /\ <<i, j>>[1] = i /\ <<i, j>>[2] = j
        /\ Dx(<<i, j>>, x) = Abs(i - p) /\ Dy(<<i, j>>, x) = Abs(j - q)
    BY <1>2
  <2> HIDE DEF a, b, p, q
  <2>3. j < b \/ (j = b /\ i < a) => <<i, j>> \in Ahead(c)
    BY <2>1, <2>2 DEF Ahead, a, b
  <2>4. j > b \/ (j = b /\ i > a) => <<i, j>> \in Behind(c)
    BY <2>1, <2>2 DEF Behind, a, b
  <2>5. Closer(<<i, j>>, c, x) <=>
                  \/ a # i /\ b # j /\ Abs(a - p) = Abs(i - p) + 1 /\ Abs(b - q) = Abs(j - q) + 1
                  \/ b = j /\ Abs(a - p) = Abs(i - p) + 1 /\ Abs(i - p) >= Abs(j - q)
                  \/ a = i /\ Abs(b - q) = Abs(j - q) + 1 /\ Abs(j - q) >= Abs(i - p)
    BY <2>2, <1>3 DEF Closer, a, b
  <2>6. Onward(<<i, j>>, x) <=> \/ j > q /\ Abs(i - p) <= Abs(j - q)
                                \/ i >= p /\ j >= q
    BY <2>2 DEF Onward, p, q
  <2> QED
    BY <2>3, <2>4, <2>5, <2>6
<1>5. Onward(c, x) <=> (b > q /\ Abs(a - p) <= Abs(b - q)) \/ (a >= p /\ b >= q)
  BY <1>3 DEF Onward
<1> HIDE DEF a, b, p, q
\* Where the step comes from.
<1> DEFINE i == IF a = p THEN a ELSE IF a > p THEN a - 1 ELSE a + 1
           j == IF b = q THEN b ELSE IF b > q THEN b - 1 ELSE b + 1
<1>6. /\ i \in 0 .. W - 1 /\ j \in 0 .. H - 1 /\ Abs(i - a) <= 1 /\ Abs(j - b) <= 1
      /\ b \in 0 .. H - 1 /\ Abs(b - b) <= 1
  BY <1>0, <1>1 DEF Abs
<1>7. ASSUME Onward(c, x) PROVE \E e \in Ahead(c) : Closer(e, c, x) /\ Onward(e, x)
  <2>1. j < b \/ (j = b /\ i < a)
    BY <1>1, <1>5, <1>7 DEF Abs
  <2>2. \/ a # i /\ b # j /\ Abs(a - p) = Abs(i - p) + 1 /\ Abs(b - q) = Abs(j - q) + 1
        \/ b = j /\ Abs(a - p) = Abs(i - p) + 1 /\ Abs(i - p) >= Abs(j - q)
        \/ a = i /\ Abs(b - q) = Abs(j - q) + 1 /\ Abs(j - q) >= Abs(i - p)
    BY <1>1, <1>5, <1>7 DEF Abs
  <2>3. \/ j > q /\ Abs(i - p) <= Abs(j - q)
        \/ i >= p /\ j >= q
    BY <1>1, <1>5, <1>7 DEF Abs
  <2> HIDE DEF i, j
  <2> QED
    BY <1>4, <1>6, <2>1, <2>2, <2>3
<1>8. ASSUME ~Onward(c, x) PROVE \E e \in Behind(c) : Closer(e, c, x)
  <2>1. CASE b < q
    <3>1. j > b
      BY <1>1, <2>1
    <3>2. \/ a # i /\ b # j /\ Abs(a - p) = Abs(i - p) + 1 /\ Abs(b - q) = Abs(j - q) + 1
          \/ a = i /\ Abs(b - q) = Abs(j - q) + 1 /\ Abs(j - q) >= Abs(i - p)
      BY <1>1, <2>1 DEF Abs
    <3> HIDE DEF i, j
    <3> QED
      BY <1>4, <1>6, <3>1, <3>2
  <2>2. CASE b >= q
    <3>1. i > a /\ Abs(a - p) = Abs(i - p) + 1 /\ Abs(i - p) >= Abs(b - q)
      BY <1>1, <1>5, <1>8, <2>2 DEF Abs
    <3> HIDE DEF i, j
    <3> QED
      BY <1>4, <1>6, <3>1
  <2> QED
    BY <1>1, <2>1, <2>2
<1> QED
  BY <1>7, <1>8

\* Coverage planes, and the distance to the nearest cell that is not covered.
Coverage == [Cells -> 0 .. Full]
Target(cov, c) == Min({Far} \cup {Octile(c, x) : x \in Cells \ FullCells(cov)})

\* The distance to the edge is Far, or that to a cell that is not covered; it
\* grows by no more than a step from one cell to the next.
LEMMA TargetIsLeast ==
  ASSUME NEW cov \in Coverage, NEW c \in Cells
  PROVE  /\ Target(cov, c) \in Nat /\ Target(cov, c) <= Far
         /\ \A x \in Cells \ FullCells(cov) : Target(cov, c) <= Octile(c, x)
         /\ \/ Target(cov, c) = Far
            \/ \E x \in Cells \ FullCells(cov) : Target(cov, c) = Octile(c, x)
<1> DEFINE Z == Cells \ FullCells(cov)
           f == [x \in Z |-> Octile(c, x)]
           im == {f[x] : x \in Z}
           S == {Far} \cup im
<1>1. Far \in Nat
  BY OverlapAssumption
<1>2. IsFiniteSet(Z)
  BY CellsFinite, FS_Subset
<1>3. \A x \in Z : f[x] \in Nat
  BY Displacements
<1>4. IsFiniteSet(im)
  <2>1. DOMAIN f = Z
    OBVIOUS
  <2> HIDE DEF f, Z
  <2> QED
    BY <1>2, <2>1, ImageFinite
<1>5. IsFiniteSet(S)
  <2> HIDE DEF im
  <2> QED
    BY <1>4, FS_Union, FS_Singleton
<1>6. S \in SUBSET Nat /\ S # {}
  <2> HIDE DEF f
  <2> QED
    BY <1>1, <1>3
<1>7. Min(S) \in S /\ \A y \in S : Min(S) <= y
  <2>1. S \in SUBSET Int
    <3> HIDE DEF S
    <3> QED
      BY <1>6
  <2> HIDE DEF S
  <2> QED
    BY <1>5, <1>6, <2>1, FiniteExtremes
<1>8. Target(cov, c) = Min(S)
  <2>1. im = {Octile(c, x) : x \in Z}
    OBVIOUS
  <2> QED
    BY <2>1 DEF Target
<1> QED
  BY <1>6, <1>7, <1>8

\* From one cell to the next the distance grows by no more than the step.
LEMMA TargetGrows ==
  ASSUME NEW cov \in Coverage, NEW c \in Cells, NEW d \in Near(c)
  PROVE  Target(cov, c) <= Lesser(Target(cov, d) + Step(c, d), Far)
<1>1. d \in Cells
  BY DEF Near, Square
<1>2. ASSUME NEW x \in Cells PROVE Octile(c, x) <= Octile(d, x) + Step(c, d)
  <2> DEFINE a == Dx(c, x)
             b == Dy(c, x)
             p == Dx(d, x)
             q == Dy(d, x)
  <2>1. /\ a \in Nat /\ b \in Nat /\ p \in Nat /\ q \in Nat
        /\ Octile(c, x) = Oct(a, b) /\ Octile(d, x) = Oct(p, q)
    BY <1>1, Displacements
  <2>2. Stepped(a, b, p, q)
    <3>1. CellNumbers(c) /\ CellNumbers(d) /\ CellNumbers(x)
      BY <1>1, CellsAre
    <3>2. Abs(d[1] - c[1]) <= 1 /\ Abs(d[2] - c[2]) <= 1
      BY DEF Near, Square
    <3> QED
      BY <3>1, <3>2 DEF CellNumbers, Stepped, Dx, Dy, Abs
  <2>3. Step(c, d) = Diagonal \/ (Step(c, d) = Straight /\ (a = p \/ b = q))
    BY DEF Step, Dx, Dy
  <2> HIDE DEF a, b, p, q
  <2>4. /\ Oct(a, b) <= Oct(p, q) + Diagonal
        /\ a = p \/ b = q => Oct(a, b) <= Oct(p, q) + Straight
    BY <2>1, <2>2, Octiles
  <2> QED
    BY <2>1, <2>3, <2>4
<1>3. Far \in Nat /\ Step(c, d) \in Nat
  BY OverlapAssumption, StepNat
<1> DEFINE tc == Target(cov, c)
           td == Target(cov, d)
<1>4. /\ tc \in Nat /\ tc <= Far /\ td \in Nat
      /\ \A x \in Cells \ FullCells(cov) : tc <= Octile(c, x)
      /\ td = Far \/ \E x \in Cells \ FullCells(cov) : td = Octile(d, x)
  BY <1>1, TargetIsLeast
<1> HIDE DEF tc, td
<1>5. tc <= td + Step(c, d)
  <2>1. CASE td = Far
    BY <1>3, <1>4, <2>1
  <2>2. CASE \E x \in Cells \ FullCells(cov) : td = Octile(d, x)
    <3>1. PICK x \in Cells \ FullCells(cov) : td = Octile(d, x)
      BY <2>2
    <3>2. Octile(c, x) \in Nat /\ tc <= Octile(c, x) /\ Octile(c, x) <= td + Step(c, d)
      BY <1>2, <1>4, <3>1, Displacements
    <3> QED
      BY <1>3, <1>4, <3>2
  <2> QED
    BY <1>4, <2>1, <2>2
<1> QED
  BY <1>3, <1>4, <1>5 DEF Lesser, tc, td

\* No plane on the way goes below the distance.
LEMMA NeverBelow ==
  ASSUME NEW cov \in Coverage
  PROVE  /\ Unswept(cov) \in Plane /\ Forward(cov) \in Plane
         /\ \A c \in Cells : Target(cov, c) <= distance_map(cov)[c]
<1> DEFINE J == {dist \in Plane : \A c \in Cells : Target(cov, c) <= dist[c]}
<1>0. Far \in Nat
  BY OverlapAssumption
<1>1. Unswept(cov) \in Plane
  BY <1>0 DEF Unswept, Plane
<1>2. Unswept(cov) \in J
  <2> SUFFICES ASSUME NEW c \in Cells PROVE Target(cov, c) <= Unswept(cov)[c]
    BY <1>1
  <2>1. Target(cov, c) <= Far /\ Target(cov, c) \in Nat
    BY TargetIsLeast
  <2>2. CASE cov[c] < Full
    <3>1. c \in Cells \ FullCells(cov)
      BY <2>2, OverlapAssumption DEF FullCells, Coverage
    <3>2. Octile(c, c) = 0
      <4>1. CellNumbers(c)
        BY CellsAre
      <4>2. Dx(c, c) = 0 /\ Dy(c, c) = 0
        BY <4>1 DEF CellNumbers, Dx, Dy, Abs
      <4> QED
        BY <4>2, Displacements, Octiles
    <3>3. Target(cov, c) <= Octile(c, c)
      BY <3>1, TargetIsLeast
    <3> QED
      BY <2>2, <3>2, <3>3 DEF Unswept
  <2>3. CASE ~(cov[c] < Full)
    BY <2>1, <2>3 DEF Unswept
  <2> QED
    BY <2>2, <2>3
<1>3. ASSUME NEW settled, Neighbourly(settled), \A c \in Cells : settled[c] \subseteq Near(c)
      PROVE  Kept(J, settled)
  <2> SUFFICES ASSUME NEW dist \in J, NEW c \in Cells
               PROVE  Relax(dist, c, settled[c]) \in J
    BY DEF Kept
  <2> DEFINE new == Relax(dist, c, settled[c])
  <2>1. dist \in Plane /\ settled[c] \in SUBSET Cells
    BY <1>3 DEF Neighbourly
  <2>2. /\ new \in Plane
        /\ \A d \in Cells : d # c => new[d] = dist[d]
        /\ \/ new[c] = dist[c]
           \/ \E d \in settled[c] : new[c] = Lesser(dist[d] + Step(c, d), Far)
    BY <2>1, RelaxFacts
  <2>3. ASSUME NEW d \in settled[c] PROVE Target(cov, c) <= Lesser(dist[d] + Step(c, d), Far)
    <3>1. d \in Near(c) /\ d \in Cells
      BY <1>3, <2>1
    <3>2. Target(cov, c) <= Lesser(Target(cov, d) + Step(c, d), Far)
      BY <3>1, TargetGrows
    <3>3. Target(cov, d) <= dist[d] /\ dist[d] \in Nat
      BY <2>1, <3>1 DEF Plane
    <3>4. Target(cov, c) \in Nat /\ Target(cov, d) \in Nat /\ Step(c, d) \in Nat
      BY <3>1, TargetIsLeast, StepNat
    <3> QED
      BY <1>0, <3>2, <3>3, <3>4 DEF Lesser
  <2>4. Target(cov, c) <= new[c]
    <3> HIDE DEF new
    <3> QED
      BY <2>2, <2>3
  <2>5. \A d \in Cells : Target(cov, d) <= new[d]
    <3> HIDE DEF new
    <3> QED
      BY <2>2, <2>4
  <2> QED
    BY <2>2, <2>5
<1>4. /\ \A c \in Cells : [d \in Cells |-> Ahead(d)][c] \subseteq Near(c)
      /\ \A c \in Cells : [d \in Cells |-> Behind(d)][c] \subseteq Near(c)
  BY DEF Ahead, Behind
<1>5. /\ Kept(J, [d \in Cells |-> Ahead(d)])
      /\ Kept(J, [d \in Cells |-> Behind(d)])
  <2> HIDE DEF J
  <2> QED
    BY <1>3, <1>4, Passes
<1>6. Forward(cov) \in J
  <2> HIDE DEF J
  <2> QED
    BY <1>1, <1>2, <1>5, RasterCells, Passes, Keeping DEF Forward
<1>7. Forward(cov) \in Plane
  BY <1>6
<1>8. distance_map(cov) \in J
  <2> HIDE DEF J
  <2> QED
    BY <1>5, <1>6, <1>7, RasterCells, Passes, Keeping DEF distance_map
<1> QED
  BY <1>1, <1>7, <1>8

\* The two passes of distance_map find the distance to the nearest cell that is
\* not covered, in any direction.
LEMMA ChamferIsOctile ==
  ASSUME NEW cov \in Coverage
  PROVE  IsDistance(cov, distance_map(cov))
<1> DEFINE u == Unswept(cov)
           f == Forward(cov)
           b == distance_map(cov)
           Z == Cells \ FullCells(cov)
           ahead == [c \in Cells |-> Ahead(c)]
           behind == [c \in Cells |-> Behind(c)]
<1>1. u \in Plane /\ f \in Plane /\ b \in Plane /\ \A c \in Cells : b[c] <= Far
  BY NeverBelow, DistanceMap DEF DistanceOf
<1>2. Settled(f, u, ahead) /\ Settled(b, f, behind)
  <2>1. f = Sweep(u, Raster, ahead) /\ b = Sweep(f, Reverse(Raster), behind)
    BY DEF Forward, distance_map
  <2> HIDE DEF u, f, b
  <2> QED
    BY <1>1, <2>1, RasterCells, RasterSettles, Passes, SweepSettles
<1>3. /\ \A c \in Cells : f[c] <= u[c] /\ b[c] <= f[c]
      /\ \A c \in Cells : \A d \in Ahead(c) : f[c] <= Lesser(f[d] + Step(c, d), Far)
      /\ \A c \in Cells : \A d \in Behind(c) : b[c] <= Lesser(b[d] + Step(c, d), Far)
  <2> HIDE DEF u, f, b
  <2> QED
    BY <1>2 DEF Settled
<1>4. \A x \in Z : u[x] = 0
  BY OverlapAssumption DEF Unswept, FullCells, Coverage
<1>5. Far \in Nat /\ \A c, d \in Cells : Step(c, d) \in Nat
  BY OverlapAssumption, StepNat
<1>6. \A c \in Cells : Ahead(c) \subseteq Cells /\ Behind(c) \subseteq Cells
  BY DEF Ahead, Behind, Near, Square
<1> HIDE DEF u, f, b
\* A cell one step further, when the bound holds one step before.
<1>7. ASSUME NEW dist \in Plane, NEW c \in Cells, NEW e \in Cells, NEW x \in Cells,
             Closer(e, c, x), dist[c] <= Lesser(dist[e] + Step(c, e), Far),
             dist[e] <= Octile(e, x)
      PROVE  dist[c] <= Octile(c, x)
  <2>1. Octile(c, x) = Octile(e, x) + Step(c, e) /\ Octile(e, x) \in Nat
    BY <1>7, CloserIsShorter, Displacements
  <2>2. dist[c] \in Nat /\ dist[e] \in Nat
    BY DEF Plane
  <2> QED
    BY <1>5, <1>7, <2>1, <2>2 DEF Lesser
<1>8. \A c \in Cells : Octile(c, c) = 0
  <2> TAKE c \in Cells
  <2>1. CellNumbers(c)
    BY CellsAre
  <2>2. Dx(c, c) = 0 /\ Dy(c, c) = 0
    BY <2>1 DEF CellNumbers, Dx, Dy, Abs
  <2> QED
    BY <2>2, Displacements, Octiles
<1>9. ASSUME NEW c \in Cells, NEW x \in Cells
      PROVE  /\ Dx(c, x) + Dy(c, x) \in Nat
             /\ \A e \in Cells : Closer(e, c, x) =>
                   Dx(e, x) + Dy(e, x) \in Nat /\ Dx(e, x) + Dy(e, x) < Dx(c, x) + Dy(c, x)
  BY CloserIsShorter, Displacements
\* The first pass gets on from x; the second gets to all other cells.
<1> DEFINE Near_(n) == {p \in Cells \X Z : Dx(p[1], p[2]) + Dy(p[1], p[2]) <= n}
           First  == {n \in Nat : \A p \in Near_(n) : Onward(p[1], p[2]) => f[p[1]] <= Octile(p[1], p[2])}
           Second == {n \in Nat : \A p \in Near_(n) : b[p[1]] <= Octile(p[1], p[2])}
<1>10. ASSUME NEW c \in Cells, NEW x \in Z
       PROVE  \A n \in Nat : <<c, x>> \in Near_(n) <=> Dx(c, x) + Dy(c, x) <= n
  OBVIOUS
<1>11. ASSUME NEW c \in Cells, NEW x \in Z, Dx(c, x) + Dy(c, x) <= 0 PROVE c = x
  <2>1. CellNumbers(c) /\ CellNumbers(x)
    BY CellsAre
  <2> QED
    BY <1>11, <2>1 DEF CellNumbers, Dx, Dy, Abs
<1>12. ASSUME NEW c \in Cells, NEW x \in Z, c = x
       PROVE  f[c] <= Octile(c, x) /\ b[c] <= Octile(c, x)
  <2>1. f[c] \in Nat /\ b[c] \in Nat /\ f[c] <= 0 /\ b[c] <= f[c]
    BY <1>1, <1>3, <1>4, <1>12 DEF Plane
  <2> QED
    BY <1>8, <1>12, <2>1
<1>13. 0 \in First /\ 0 \in Second
  <2> SUFFICES ASSUME NEW p \in Near_(0)
               PROVE  f[p[1]] <= Octile(p[1], p[2]) /\ b[p[1]] <= Octile(p[1], p[2])
    OBVIOUS
  <2>1. p[1] \in Cells /\ p[2] \in Z /\ Dx(p[1], p[2]) + Dy(p[1], p[2]) <= 0
    OBVIOUS
  <2> HIDE DEF Near_, First, Second, Z
  <2> QED
    BY <1>11, <1>12, <2>1
<1>14. ASSUME NEW n \in Nat, n \in First PROVE n + 1 \in First
  <2> SUFFICES ASSUME NEW p \in Near_(n + 1), Onward(p[1], p[2]) PROVE f[p[1]] <= Octile(p[1], p[2])
    OBVIOUS
  <2> DEFINE c == p[1]
             x == p[2]
  <2>1. c \in Cells /\ x \in Z /\ x \in Cells /\ Dx(c, x) + Dy(c, x) <= n + 1 /\ Onward(c, x)
    OBVIOUS
  <2> HIDE DEF c, x
  <2>2. CASE c = x
    BY <1>12, <2>1, <2>2 DEF c, x
  <2>3. CASE c # x
    <3>1. PICK e \in Ahead(c) : Closer(e, c, x) /\ Onward(e, x)
      BY <2>1, <2>3, StepBefore
    <3>2. e \in Cells
      BY <1>6, <2>1
    <3>3. Dx(e, x) + Dy(e, x) <= n
      BY <1>9, <2>1, <3>1, <3>2
    <3>4. f[e] <= Octile(e, x)
      <4>1. <<e, x>> \in Near_(n)
        BY <1>10, <2>1, <3>2, <3>3
      <4> HIDE DEF Near_
      <4> QED
        BY <1>14, <3>1, <4>1
    <3>5. f[c] <= Lesser(f[e] + Step(c, e), Far)
      BY <1>3, <2>1
    <3>6. f[c] <= Octile(c, x)
      BY <1>1, <1>7, <2>1, <3>1, <3>2, <3>4, <3>5
    <3> QED
      BY <3>6 DEF c, x
  <2> QED
    BY <2>2, <2>3
<1>15. Nat \subseteq First
  <2> HIDE DEF First
  <2> QED
    BY <1>13, <1>14, Counting
<1>16. ASSUME NEW c \in Cells, NEW x \in Z, Onward(c, x) PROVE f[c] <= Octile(c, x)
  <2>1. x \in Cells /\ Dx(c, x) + Dy(c, x) \in Nat
    BY <1>9
  <2>2. <<c, x>> \in Near_(Dx(c, x) + Dy(c, x)) /\ Dx(c, x) + Dy(c, x) \in First
    BY <1>10, <1>15, <2>1
  <2> HIDE DEF Near_
  <2> QED
    BY <1>16, <2>2
<1>17. ASSUME NEW n \in Nat, n \in Second PROVE n + 1 \in Second
  <2> SUFFICES ASSUME NEW p \in Near_(n + 1) PROVE b[p[1]] <= Octile(p[1], p[2])
    OBVIOUS
  <2> DEFINE c == p[1]
             x == p[2]
  <2>1. c \in Cells /\ x \in Z /\ x \in Cells /\ Dx(c, x) + Dy(c, x) <= n + 1
    OBVIOUS
  <2> HIDE DEF c, x
  <2>2. CASE c = x
    BY <1>12, <2>1, <2>2 DEF c, x
  <2>3. CASE c # x /\ Onward(c, x)
    <3>1. f[c] <= Octile(c, x) /\ b[c] <= f[c]
      BY <1>3, <1>16, <2>1, <2>3
    <3>2. f[c] \in Nat /\ b[c] \in Nat /\ Octile(c, x) \in Nat
      BY <1>1, <2>1, Displacements DEF Plane
    <3>3. b[c] <= Octile(c, x)
      BY <3>1, <3>2
    <3> QED
      BY <3>3 DEF c, x
  <2>4. CASE c # x /\ ~Onward(c, x)
    <3>1. PICK e \in Behind(c) : Closer(e, c, x)
      BY <2>1, <2>4, StepBefore
    <3>2. e \in Cells
      BY <1>6, <2>1
    <3>3. Dx(e, x) + Dy(e, x) <= n
      BY <1>9, <2>1, <3>1, <3>2
    <3>4. b[e] <= Octile(e, x)
      <4>1. <<e, x>> \in Near_(n)
        BY <1>10, <2>1, <3>2, <3>3
      <4> HIDE DEF Near_
      <4> QED
        BY <1>17, <4>1
    <3>5. b[c] <= Lesser(b[e] + Step(c, e), Far)
      BY <1>3, <2>1
    <3>6. b[c] <= Octile(c, x)
      BY <1>1, <1>7, <2>1, <3>1, <3>2, <3>4, <3>5
    <3> QED
      BY <3>6 DEF c, x
  <2> QED
    BY <2>2, <2>3, <2>4
<1>18. Nat \subseteq Second
  <2> HIDE DEF Second
  <2> QED
    BY <1>13, <1>17, Counting
<1>19. ASSUME NEW c \in Cells, NEW x \in Z PROVE b[c] <= Octile(c, x)
  <2>1. x \in Cells /\ Dx(c, x) + Dy(c, x) \in Nat
    BY <1>9
  <2>2. <<c, x>> \in Near_(Dx(c, x) + Dy(c, x)) /\ Dx(c, x) + Dy(c, x) \in Second
    BY <1>10, <1>18, <2>1
  <2> HIDE DEF Near_
  <2> QED
    BY <2>2
<1>20. ASSUME NEW c \in Cells PROVE b[c] = Target(cov, c)
  <2>1. /\ b[c] \in Nat /\ Target(cov, c) \in Nat /\ b[c] <= Far
        /\ Target(cov, c) <= b[c]
    BY <1>1, NeverBelow, TargetIsLeast DEF Plane, b
  <2>2. b[c] <= Target(cov, c)
    BY <1>19, <2>1, TargetIsLeast
  <2> QED
    BY <2>1, <2>2
<1> QED
  BY <1>20 DEF IsDistance, Target, b

-----------------------------------------------------------------------------
(* Union-find.  *)

\* No panel has a parent of a higher number.
Forest(parent, n) ==
  parent \in [1 .. n -> 1 .. n] /\ \A i \in 1 .. n : parent[i] <= i

\* The panels of the chain of parents from i.
UpwardClosed(parent, T) == \A k \in T : parent[k] \in T
Above(parent, n, i) ==
  {j \in 1 .. n : \A T \in SUBSET (1 .. n) : i \in T /\ UpwardClosed(parent, T) => j \in T}
Tops(parent, n, i) == {r \in Above(parent, n, i) : parent[r] = r}

IsAbove(parent, n, i) ==
  /\ parent[i] = i => Above(parent, n, i) = {i} /\ Tops(parent, n, i) = {i}
  /\ Above(parent, n, i) = {i} \cup Above(parent, n, parent[i])
  /\ parent[i] # i => Tops(parent, n, i) = Tops(parent, n, parent[i])

\* The chain is the panel itself and the chain of its parent.
LEMMA AboveFacts ==
  ASSUME NEW n \in Nat, NEW parent \in [1 .. n -> 1 .. n], NEW i \in 1 .. n
  PROVE  IsAbove(parent, n, i)
<1> DEFINE U == Above(parent, n, parent[i])
           V == Above(parent, n, i)
<1>1. V \in SUBSET (1 .. n) /\ U \in SUBSET (1 .. n)
  BY DEF Above
<1>2. i \in V /\ parent[i] \in 1 .. n
  BY DEF Above
<1>3. U \subseteq V
  BY DEF Above, UpwardClosed
<1>4. UpwardClosed(parent, {i} \cup U)
  <2>1. parent[i] \in U
    BY <1>2 DEF Above
  <2>2. \A k \in U : parent[k] \in U
    BY DEF Above, UpwardClosed
  <2> QED
    BY <2>1, <2>2 DEF UpwardClosed
<1>5. V \subseteq {i} \cup U
  <2>1. {i} \cup U \in SUBSET (1 .. n)
    BY <1>1
  <2> HIDE DEF U
  <2> QED
    BY <2>1, <1>4 DEF Above
<1>6. V = {i} \cup U
  BY <1>2, <1>3, <1>5
<1>7. ASSUME parent[i] = i PROVE V = {i}
  <2>1. UpwardClosed(parent, {i}) /\ {i} \in SUBSET (1 .. n)
    BY <1>7 DEF UpwardClosed
  <2>2. V \subseteq {i}
    BY <2>1 DEF Above
  <2> QED
    BY <1>2, <2>2
<1> HIDE DEF U, V
<1>8. parent[i] = i => Tops(parent, n, i) = {i}
  BY <1>7 DEF Tops, V
<1>9. parent[i] # i => Tops(parent, n, i) = Tops(parent, n, parent[i])
  BY <1>6 DEF Tops, U, V
<1> QED
  BY <1>1, <1>6, <1>7, <1>8, <1>9 DEF U, V, IsAbove

\* Climbing from a panel ends, at a panel that is its own parent; and the chain
\* is that of its parent and the panel itself.
LEMMA Climbing ==
  ASSUME NEW n \in Nat, NEW parent \in [1 .. n -> 1 .. n]
  PROVE  /\ \A i \in 1 .. n :
               Root(parent, i) = IF parent[i] = i THEN i ELSE Root(parent, parent[i])
         /\ \A i \in 1 .. n :
               Chain(parent, i) = IF parent[i] = i THEN {i} ELSE {i} \cup Chain(parent, parent[i])
<1>0. ASSUME NEW i \in 1 .. n
      PROVE  /\ parent[i] = i => Above(parent, n, i) = {i} /\ Tops(parent, n, i) = {i}
             /\ Above(parent, n, i) = {i} \cup Above(parent, n, parent[i])
             /\ parent[i] # i => Tops(parent, n, i) = Tops(parent, n, parent[i])
  <2>1. IsAbove(parent, n, i)
    BY AboveFacts
  <2> QED
    BY <2>1 DEF IsAbove
<1> DEFINE P(g) == g = [j \in 1 .. n |-> IF parent[j] = j THEN j ELSE g[parent[j]]]
           Q(g) == g = [j \in 1 .. n |->
                          IF parent[j] = j THEN {j} ELSE {j} \cup g[parent[j]]]
           r == [j \in 1 .. n |-> CHOOSE t : t \in Tops(parent, n, j)]
           a == [j \in 1 .. n |-> Above(parent, n, j)]
<1>1. \A j \in 1 .. n : parent[j] \in 1 .. n
  OBVIOUS
<1>2. P(r)
  <2> DEFINE f == [j \in 1 .. n |-> IF parent[j] = j THEN j ELSE r[parent[j]]]
  <2>1. ASSUME NEW j \in 1 .. n PROVE r[j] = f[j]
    <3>1. CASE parent[j] = j
      <4>1. r[j] = CHOOSE t : t \in {j}
        BY <3>1, <1>0
      <4>2. f[j] = j
        BY <3>1
      <4> HIDE DEF r, f
      <4> QED
        BY <4>1, <4>2
    <3>2. CASE parent[j] # j
      <4>1. Tops(parent, n, j) = Tops(parent, n, parent[j])
        <5> HIDE DEF r, P, Q, a, f
        <5> QED
          BY <3>2, <1>0
      <4>2. r[j] = r[parent[j]]
        BY <4>1, <1>1
      <4> QED
        BY <3>2, <4>2
    <3> QED
      BY <3>1, <3>2
  <2>2. r = [j \in 1 .. n |-> r[j]] /\ f = [j \in 1 .. n |-> f[j]]
    OBVIOUS
  <2>3. r = f
    <3> HIDE DEF r, f
    <3> QED
      BY <2>1, <2>2
  <2> QED
    BY <2>3
<1>3. Q(a)
  <2> DEFINE f == [j \in 1 .. n |-> IF parent[j] = j THEN {j} ELSE {j} \cup a[parent[j]]]
  <2>1. ASSUME NEW j \in 1 .. n PROVE a[j] = f[j]
    <3>1. /\ parent[j] = j => Above(parent, n, j) = {j}
          /\ Above(parent, n, j) = {j} \cup Above(parent, n, parent[j])
      <4> HIDE DEF a, f, P, Q, r
      <4> QED
        BY <1>0
    <3> QED
      BY <3>1, <1>1
  <2>2. a = [j \in 1 .. n |-> a[j]] /\ f = [j \in 1 .. n |-> f[j]]
    OBVIOUS
  <2>3. a = f
    <3> HIDE DEF a, f
    <3> QED
      BY <2>1, <2>2
  <2> QED
    BY <2>3
<1>4. DOMAIN parent = 1 .. n
  OBVIOUS
<1>5. PICK k : P(k) /\ \A i : Root(parent, i) = k[i]
  <2> HIDE DEF r
  <2> QED
    BY <1>2, <1>4 DEF Root
<1>6. PICK h : Q(h) /\ \A i : Chain(parent, i) = h[i]
  <2> HIDE DEF a
  <2>1. \E g : Q(g)
    BY <1>3
  <2> DEFINE climb == CHOOSE g : Q(g)
  <2>2. Q(climb)
    <3> HIDE DEF Q
    <3> QED
      BY <2>1
  <2>3. \A i : Chain(parent, i) = climb[i]
    BY <1>4 DEF Chain
  <2> HIDE DEF climb, Q
  <2> QED
    BY <2>2, <2>3
<1>7. \A i \in 1 .. n : k[i] = IF parent[i] = i THEN i ELSE k[parent[i]]
  BY <1>5
<1>8. \A i \in 1 .. n : h[i] = IF parent[i] = i THEN {i} ELSE {i} \cup h[parent[i]]
  BY <1>6
<1> HIDE DEF P, Q, r, a
<1>9. \A i \in 1 .. n :
         Root(parent, i) = IF parent[i] = i THEN i ELSE Root(parent, parent[i])
  BY <1>5, <1>7
<1>10. \A i \in 1 .. n :
         Chain(parent, i) = IF parent[i] = i THEN {i} ELSE {i} \cup Chain(parent, parent[i])
  BY <1>6, <1>8
<1> QED
  BY <1>9, <1>10

\* What fails of no panel before the others fails of none.
LEMMA PanelsInTurn ==
  ASSUME NEW n \in Nat, NEW B,
         \A i \in 1 .. n : (\A j \in 1 .. n : j < i => j \in B) => i \in B
  PROVE  1 .. n \subseteq B
<1> SUFFICES ASSUME ~(1 .. n \subseteq B) PROVE FALSE
  OBVIOUS
<1> DEFINE S == {i \in 1 .. n : i \notin B}
<1>1. S \in SUBSET Nat /\ S # {}
  OBVIOUS
<1>2. PICK x \in S : \A y \in S : x <= y
  <2> HIDE DEF S
  <2> QED
    BY <1>1, LeastNatural
<1>3. \A j \in 1 .. n : j < x => j \in B
  BY <1>2
<1> QED
  BY <1>2, <1>3

\* The root of a panel is its own root and no higher; a panel that is not its own
\* root has the root of its parent; and the chain of a panel has one root.
Rooted(parent, n) ==
  \A i \in 1 .. n :
    /\ Root(parent, i) \in 1 .. n /\ Root(parent, i) <= i
    /\ parent[Root(parent, i)] = Root(parent, i)
    /\ parent[i] = i => Root(parent, i) = i
    /\ Root(parent, parent[i]) = Root(parent, i)
    /\ Root(parent, Root(parent, i)) = Root(parent, i)
    /\ \A j \in Chain(parent, i) : j \in 1 .. n /\ Root(parent, j) = Root(parent, i)

\* So it is in every forest, panel after panel.
LEMMA ForestIsRooted ==
  ASSUME NEW n \in Nat, NEW parent, Forest(parent, n)
  PROVE  Rooted(parent, n)
<1>1. parent \in [1 .. n -> 1 .. n] /\ \A i \in 1 .. n : parent[i] \in 1 .. n /\ parent[i] <= i
  BY DEF Forest
<1>2. \A i \in 1 .. n : /\ parent[i] = i => Root(parent, i) = i /\ Chain(parent, i) = {i}
                        /\ parent[i] # i => /\ Root(parent, i) = Root(parent, parent[i])
                                            /\ Chain(parent, i) = {i} \cup Chain(parent, parent[i])
  BY <1>1, Climbing
<1> DEFINE B == {i \in 1 .. n :
                    /\ Root(parent, i) \in 1 .. n /\ Root(parent, i) <= i
                    /\ parent[Root(parent, i)] = Root(parent, i)
                    /\ \A j \in Chain(parent, i) : j \in 1 .. n /\ Root(parent, j) = Root(parent, i)}
<1>3. ASSUME NEW i \in 1 .. n, \A j \in 1 .. n : j < i => j \in B PROVE i \in B
  <2>1. CASE parent[i] = i
    BY <1>2, <2>1
  <2>2. CASE parent[i] # i
    <3>1. parent[i] \in 1 .. n /\ parent[i] < i
      BY <1>1, <2>2
    <3>2. parent[i] \in B
      BY <1>3, <3>1
    <3> QED
      BY <1>2, <2>2, <3>1, <3>2
  <2> QED
    BY <2>1, <2>2
<1>4. 1 .. n \subseteq B
  <2> HIDE DEF B
  <2> QED
    BY <1>3, PanelsInTurn
<1> QED
  BY <1>1, <1>2, <1>4 DEF Rooted

\* Halving a chain leaves every panel its root.
LEMMA ShortcutsKeep ==
  ASSUME NEW n \in Nat, NEW parent, Forest(parent, n), NEW new \in [1 .. n -> 1 .. n],
         \A j \in 1 .. n : new[j] = parent[j] \/ new[j] = Root(parent, j)
  PROVE  Forest(new, n) /\ \A j \in 1 .. n : Root(new, j) = Root(parent, j)
<1>1. Rooted(parent, n) /\ \A j \in 1 .. n : parent[j] \in 1 .. n /\ parent[j] <= j
  BY ForestIsRooted DEF Forest
<1>2. Forest(new, n)
  BY <1>1 DEF Forest, Rooted
<1>3. Rooted(new, n)
  BY <1>2, ForestIsRooted
<1> DEFINE B == {j \in 1 .. n : Root(new, j) = Root(parent, j)}
<1>4. ASSUME NEW i \in 1 .. n, \A j \in 1 .. n : j < i => j \in B PROVE i \in B
  <2>1. CASE new[i] = i
    <3>1. Root(new, i) = i
      BY <1>3, <2>1 DEF Rooted
    <3>2. Root(parent, i) = i
      BY <1>1, <2>1 DEF Rooted
    <3> QED
      BY <3>1, <3>2
  <2>2. CASE new[i] # i
    <3>1. new[i] \in 1 .. n /\ new[i] < i
      BY <1>2, <2>2 DEF Forest
    <3>2. Root(new, new[i]) = Root(parent, new[i])
      BY <1>4, <3>1
    <3>3. Root(new, i) = Root(new, new[i])
      BY <1>3 DEF Rooted
    <3>4. Root(parent, new[i]) = Root(parent, i)
      BY <1>1 DEF Rooted
    <3> QED
      BY <3>2, <3>3, <3>4
  <2> QED
    BY <2>1, <2>2
<1>5. 1 .. n \subseteq B
  <2> HIDE DEF B
  <2> QED
    BY <1>4, PanelsInTurn
<1> QED
  BY <1>2, <1>5

\* find() does no more than that.
LEMMA CompressedKeeps ==
  ASSUME NEW n \in Nat, NEW parent, Forest(parent, n), NEW i \in 1 .. n
  PROVE  /\ Forest(Compressed(parent, i), n)
         /\ \A j \in 1 .. n : Root(Compressed(parent, i), j) = Root(parent, j)
<1> DEFINE new == Compressed(parent, i)
<1>1. Rooted(parent, n) /\ parent \in [1 .. n -> 1 .. n]
  BY ForestIsRooted DEF Forest
<1>2. \A j \in Chain(parent, i) : Root(parent, j) = Root(parent, i)
  BY <1>1 DEF Rooted
<1>3. new \in [1 .. n -> 1 .. n]
  BY <1>1 DEF Compressed, Rooted
<1>4. \A j \in 1 .. n : new[j] = parent[j] \/ new[j] = Root(parent, j)
  BY <1>1, <1>2 DEF Compressed
<1> HIDE DEF new
<1>5. Forest(new, n) /\ \A j \in 1 .. n : Root(new, j) = Root(parent, j)
  BY <1>3, <1>4, ShortcutsKeep
<1> QED
  BY <1>5 DEF new

\* A union puts the panels of the higher root under the lower one, and leaves
\* the others.
IsUnion(new, parent, n, hi, lo) ==
  /\ Forest(new, n)
  /\ \A j \in 1 .. n : Root(new, j) = IF Root(parent, j) = hi THEN lo ELSE Root(parent, j)

\* So does a union of the code, after its two finds.
LEMMA UnionMerges ==
  ASSUME NEW n \in Nat, NEW parent, Forest(parent, n), NEW a \in 1 .. n, NEW b \in 1 .. n
  PROVE  IsUnion(Union(parent, a, b), parent, n,
                 Greater(Root(parent, a), Root(parent, b)),
                 Lesser(Root(parent, a), Root(parent, b)))
<1> DEFINE found == Compressed(Compressed(parent, a), b)
           ra == Root(found, a)
           rb == Root(found, b)
           hi == Greater(ra, rb)
           lo == Lesser(ra, rb)
           new == [found EXCEPT ![hi] = lo]
<1>1. Forest(found, n) /\ \A j \in 1 .. n : Root(found, j) = Root(parent, j)
  <2> DEFINE once == Compressed(parent, a)
  <2>1. Forest(once, n) /\ \A j \in 1 .. n : Root(once, j) = Root(parent, j)
    BY CompressedKeeps
  <2> HIDE DEF once
  <2>2. /\ Forest(Compressed(once, b), n)
        /\ \A j \in 1 .. n : Root(Compressed(once, b), j) = Root(once, j)
    BY <2>1, CompressedKeeps
  <2> QED
    BY <2>1, <2>2 DEF once
<1>2. /\ Union(parent, a, b) = new
      /\ hi = Greater(Root(parent, a), Root(parent, b))
      /\ lo = Lesser(Root(parent, a), Root(parent, b))
  BY <1>1 DEF Union
<1> HIDE DEF found
<1>3. Rooted(found, n) /\ found \in [1 .. n -> 1 .. n] /\ \A j \in 1 .. n : found[j] <= j
  BY <1>1, ForestIsRooted DEF Forest
<1>4. /\ ra \in 1 .. n /\ rb \in 1 .. n
      /\ found[ra] = ra /\ found[rb] = rb /\ Root(found, ra) = ra /\ Root(found, rb) = rb
  BY <1>3 DEF Rooted
<1> HIDE DEF ra, rb
<1>5. /\ hi \in 1 .. n /\ lo \in 1 .. n /\ lo <= hi
      /\ found[hi] = hi /\ found[lo] = lo /\ Root(found, hi) = hi /\ Root(found, lo) = lo
  BY <1>4 DEF Greater, Lesser
<1> HIDE DEF hi, lo
<1>6. /\ new[hi] = lo /\ \A j \in 1 .. n : j # hi => new[j] = found[j]
      /\ new \in [1 .. n -> 1 .. n]
  BY <1>3, <1>5
<1> HIDE DEF new
<1>7. Forest(new, n)
  BY <1>3, <1>5, <1>6 DEF Forest
<1>8. Rooted(new, n)
  BY <1>7, ForestIsRooted
<1>9. new[lo] = lo /\ Root(new, lo) = lo
  BY <1>5, <1>6, <1>8 DEF Rooted
<1> DEFINE Now(j) == IF Root(found, j) = hi THEN lo ELSE Root(found, j)
           B == {j \in 1 .. n : Root(new, j) = Now(j)}
<1>10. ASSUME NEW i \in 1 .. n, \A j \in 1 .. n : j < i => j \in B PROVE i \in B
  <2>1. CASE i = hi
    <3>1. Root(new, i) = Root(new, lo)
      BY <1>6, <1>8, <2>1 DEF Rooted
    <3> QED
      BY <1>5, <1>9, <2>1, <3>1
  <2>2. CASE i # hi /\ found[i] = i
    <3>1. Root(new, i) = i /\ Root(found, i) = i
      BY <1>3, <1>6, <1>8, <2>2 DEF Rooted
    <3> QED
      BY <2>2, <3>1
  <2>3. CASE i # hi /\ found[i] # i
    <3>1. found[i] \in 1 .. n /\ found[i] < i
      BY <1>3, <2>3
    <3>2. Root(new, found[i]) = Now(found[i])
      BY <1>10, <3>1
    <3>3. Root(new, i) = Root(new, found[i])
      BY <1>6, <1>8, <2>3 DEF Rooted
    <3>4. Root(found, found[i]) = Root(found, i)
      BY <1>3 DEF Rooted
    <3> QED
      BY <3>2, <3>3, <3>4
  <2> QED
    BY <2>1, <2>2, <2>3
<1>11. 1 .. n \subseteq B
  <2> HIDE DEF B
  <2> QED
    BY <1>10, PanelsInTurn
<1>12. \A j \in 1 .. n : Root(new, j) = IF Root(parent, j) = hi THEN lo ELSE Root(parent, j)
  BY <1>1, <1>11
<1>13. IsUnion(new, parent, n, hi, lo)
  BY <1>7, <1>12 DEF IsUnion
<1> QED
  BY <1>2, <1>13

-----------------------------------------------------------------------------
(* The edges.  *)

\* Edges between panels.
EdgesOf(n, edges) == \A e \in edges : e.a \in 1 .. n /\ e.b \in 1 .. n
EndsOf(e) == <<e.a, e.b>>

\* The ends of the edges that were taken have one root, and no set that is closed
\* under all edges has a panel and not its root.
Grouped(parent, n, edges, taken) ==
  /\ Forest(parent, n)
  /\ \A e \in edges : EndsOf(e) \in taken => Root(parent, e.a) = Root(parent, e.b)
  /\ \A T \in SUBSET (1 .. n) :
       Linked(edges, T) => \A i \in 1 .. n : i \in T <=> Root(parent, i) \in T

\* Taking one more edge keeps this.
LEMMA JoinStep ==
  ASSUME NEW n \in Nat, NEW edges, EdgesOf(n, edges), NEW taken, NEW parent,
         Grouped(parent, n, edges, taken), NEW p \in (1 .. n) \X (1 .. n)
  PROVE  Grouped(JoinEnds(parent, p, edges), n, edges, taken \cup {p})
<1>1. CASE ~ \E e \in edges : <<e.a, e.b>> = p
  BY <1>1 DEF JoinEnds, Grouped, EndsOf
<1>2. ASSUME NEW e \in edges, <<e.a, e.b>> = p
      PROVE  Grouped(JoinEnds(parent, p, edges), n, edges, taken \cup {p})
  <2> DEFINE a == p[1]
             b == p[2]
             ra == Root(parent, a)
             rb == Root(parent, b)
             hi == Greater(ra, rb)
             lo == Lesser(ra, rb)
             new == Union(parent, a, b)
  <2>1. JoinEnds(parent, p, edges) = new /\ a \in 1 .. n /\ b \in 1 .. n /\ a = e.a /\ b = e.b
    BY <1>2 DEF JoinEnds
  <2>2. /\ Forest(new, n)
        /\ \A j \in 1 .. n : Root(new, j) = IF Root(parent, j) = hi THEN lo ELSE Root(parent, j)
    <3>1. Forest(parent, n)
      BY DEF Grouped
    <3> HIDE DEF a, b
    <3>2. IsUnion(new, parent, n, hi, lo)
      BY <2>1, <3>1, UnionMerges
    <3> QED
      BY <3>2 DEF IsUnion
  <2>3. ra \in 1 .. n /\ rb \in 1 .. n
    BY <2>1, ForestIsRooted DEF Grouped, Rooted
  <2> HIDE DEF a, b, new, ra, rb
  <2>4. (hi = ra /\ lo = rb) \/ (hi = rb /\ lo = ra)
    BY <2>3 DEF Greater, Lesser
  <2> HIDE DEF hi, lo
  <2>5. ASSUME NEW f \in edges, EndsOf(f) \in taken \cup {p}
        PROVE  Root(new, f.a) = Root(new, f.b)
    <3>1. f.a \in 1 .. n /\ f.b \in 1 .. n
      BY DEF EdgesOf
    <3>2. CASE EndsOf(f) \in taken
      BY <2>2, <3>1, <3>2 DEF Grouped
    <3>3. CASE EndsOf(f) = p
      <4>1. f.a = a /\ f.b = b
        BY <3>3 DEF EndsOf, a, b
      <4>2. Root(parent, a) = ra /\ Root(parent, b) = rb
        BY DEF ra, rb
      <4> QED
        BY <2>1, <2>2, <2>4, <4>1, <4>2
    <3> QED
      BY <2>5, <3>2, <3>3
  <2>6. ASSUME NEW T \in SUBSET (1 .. n), Linked(edges, T), NEW i \in 1 .. n
        PROVE  i \in T <=> Root(new, i) \in T
    <3>1. a \in T <=> b \in T
      BY <2>1, <2>6 DEF Linked
    <3>2. /\ a \in T <=> ra \in T
          /\ b \in T <=> rb \in T
          /\ i \in T <=> Root(parent, i) \in T
      BY <2>1, <2>6 DEF Grouped, ra, rb
    <3>3. hi \in T <=> lo \in T
      BY <2>4, <3>1, <3>2
    <3> QED
      BY <2>2, <3>2, <3>3
  <2> QED
    BY <2>1, <2>2, <2>5, <2>6 DEF Grouped
<1> QED
  BY <1>1, <1>2

Forests(n) == {parent \in [1 .. n -> 1 .. n] : Forest(parent, n)}

\* Forests, and their sequence over the edges.
IsJoining(r, n, m, order, edges) ==
  /\ r[0] = [i \in 1 .. n |-> i]
  /\ \A k \in 1 .. m : r[k] = JoinEnds(r[k - 1], order[k], edges)

\* An edge turns a forest into a forest.
LEMMA JoinsForest ==
  ASSUME NEW n \in Nat, NEW edges, NEW parent \in Forests(n), NEW p \in (1 .. n) \X (1 .. n)
  PROVE  JoinEnds(parent, p, edges) \in Forests(n)
<1>1. PICK a \in 1 .. n, b \in 1 .. n : p = <<a, b>>
  OBVIOUS
<1>2. Forest(parent, n)
  BY DEF Forests
<1>3. Forest(Union(parent, a, b), n)
  BY <1>2, UnionMerges DEF IsUnion
<1>4. \A new : Forest(new, n) => new \in Forests(n)
  BY DEF Forest, Forests
<1>5. p[1] = a /\ p[2] = b
  BY <1>1
<1> QED
  BY <1>2, <1>3, <1>4, <1>5 DEF JoinEnds

\* The edges are taken one after the other.
LEMMA Joining ==
  ASSUME NEW n \in Nat, NEW edges, NEW m \in Nat,
         EdgeOrder(n) \in [1 .. m -> (1 .. n) \X (1 .. n)]
  PROVE  \E r : r[m] = Parents(n, edges) /\ IsJoining(r, n, m, EdgeOrder(n), edges)
<1> DEFINE D == 1 .. m
           start == [i \in 1 .. n |-> i]
           V == Forests(n)
           ch == [s \in SUBSET D |-> Max(s)]
           st == [p \in D \X V |-> JoinEnds(p[2], EdgeOrder(n)[p[1]], edges)]
           P(g) == g = [s \in SUBSET D |-> IF s = {} THEN start
                     ELSE JoinEnds(g[s \ {Max(s)}], EdgeOrder(n)[Max(s)], edges)]
<1>1. Choice(D, ch) /\ IsFiniteSet(D) /\ \A s \in SUBSET D : s # {} => Max(s) \in s
  BY LastIndex
<1>2. ASSUME NEW i \in D, NEW d \in V
      PROVE  JoinEnds(d, EdgeOrder(n)[i], edges) \in V
  <2>1. EdgeOrder(n)[i] \in (1 .. n) \X (1 .. n)
    OBVIOUS
  <2> QED
    BY <2>1, JoinsForest
<1>3. st \in [D \X V -> V]
  <2> HIDE DEF V
  <2> QED
    BY <1>2
<1>4. start \in V
  BY DEF Forests, Forest
<1>5. PICK g \in [SUBSET D -> V] : Folding(D, start, ch, st, g)
  <2> HIDE DEF ch, st, D, V, start
  <2> QED
    BY <1>1, <1>3, <1>4, FoldDefined
<1>6. P(g)
  <2>1. ASSUME NEW s \in SUBSET D, s # {}
        PROVE  st[<<ch[s], g[s \ {ch[s]}]>>] = JoinEnds(g[s \ {Max(s)}], EdgeOrder(n)[Max(s)], edges)
    <3>1. ch[s] = Max(s) /\ Max(s) \in D /\ g[s \ {Max(s)}] \in V
      BY <1>1, <1>5, <2>1
    <3> HIDE DEF ch, D, V
    <3> QED
      BY <3>1
  <2> DEFINE f == [s \in SUBSET D |-> IF s = {} THEN start
                     ELSE JoinEnds(g[s \ {Max(s)}], EdgeOrder(n)[Max(s)], edges)]
  <2> HIDE DEF ch, st, D, V, start
  <2>2. \A s \in SUBSET D : g[s] = f[s]
    BY <1>5, <2>1 DEF Folding
  <2>3. f = [s \in SUBSET D |-> f[s]]
    OBVIOUS
  <2>4. g = [s \in SUBSET D |-> g[s]]
    BY <1>5
  <2>5. g = f
    <3> HIDE DEF f
    <3> QED
      BY <2>2, <2>3, <2>4
  <2> QED
    BY <2>5
<1>7. PICK k : P(k) /\ Parents(n, edges) = k[D]
  <2>1. DOMAIN EdgeOrder(n) = D
    OBVIOUS
  <2> HIDE DEF ch, st, V
  <2> QED
    BY <1>6, <2>1 DEF Parents, FoldLeft, MapThenFoldSet
<1> DEFINE r == [i \in 0 .. m |-> k[1 .. i]]
<1>8. r[0] = start
  <2>1. 1 .. 0 = {} /\ {} \in SUBSET D
    OBVIOUS
  <2> HIDE DEF start
  <2> QED
    BY <1>7, <2>1
<1>9. ASSUME NEW i \in 1 .. m
      PROVE  r[i] = JoinEnds(r[i - 1], EdgeOrder(n)[i], edges)
  <2>0. i \in 0 .. m /\ i > 0 /\ i # 0
    OBVIOUS
  <2>1. /\ 1 .. i \in SUBSET D /\ 1 .. i # {} /\ Max(1 .. i) = i
        /\ (1 .. i) \ {i} = 1 .. (i - 1) /\ i - 1 \in 0 .. m /\ i \in 0 .. m
    <3> HIDE DEF r, st, P, ch
    <3>1. PrefixOf(m, i)
      BY <2>0, PrefixesOf
    <3> QED
      BY <3>1, <2>0 DEF PrefixOf
  <2> HIDE DEF start, st, V, ch
  <2>2. k[1 .. i] = JoinEnds(k[(1 .. i) \ {Max(1 .. i)}], EdgeOrder(n)[Max(1 .. i)], edges)
    BY <1>7, <2>1
  <2> QED
    BY <2>1, <2>2
<1>10. r[m] = Parents(n, edges)
  <2>1. m \in 0 .. m
    OBVIOUS
  <2>2. r[m] = k[1 .. m]
    BY <2>1
  <2> HIDE DEF r, P
  <2> QED
    BY <1>7, <2>2
<1> HIDE DEF r
<1> QED
  BY <1>8, <1>9, <1>10 DEF IsJoining

\* The list of pairs has them all.
LEMMA PairsListed ==
  ASSUME NEW n \in Nat
  PROVE  /\ n * n \in Nat /\ EdgeOrder(n) \in [1 .. n * n -> (1 .. n) \X (1 .. n)]
         /\ \A p \in (1 .. n) \X (1 .. n) : \E k \in 1 .. n * n : EdgeOrder(n)[k] = p
<1> DEFINE m == n * n
           order == EdgeOrder(n)
<1>1. m \in Nat /\ DOMAIN order = 1 .. m
  BY DEF EdgeOrder
<1>2. ASSUME NEW k \in 1 .. m
      PROVE  order[k] \in (1 .. n) \X (1 .. n)
  <2> DEFINE i == k - 1
             q == i \div n
             t == i % n
  <2>1. order[k] = <<q + 1, t + 1>>
    BY DEF EdgeOrder
  <2>2. n \in Nat \ {0}
    <3>1. n = 0 => m = 0
      OBVIOUS
    <3> HIDE DEF m
    <3> QED
      BY <1>1, <3>1
  <2>3. i \in Nat /\ i < n * n
    BY <1>1
  <2> HIDE DEF i
  <2>4. q \in Int /\ n * q <= i /\ i < n * q + n /\ t = i - n * q
    BY <2>2, <2>3
  <2> HIDE DEF q, t
  <2>5. q < n
    <3> SUFFICES ASSUME n <= q PROVE FALSE
      BY <2>2, <2>4
    <3>1. n * n <= n * q
      BY <2>2, <2>4
    <3> QED
      BY <2>2, <2>3, <2>4, <3>1
  <2>6. 0 <= q
    <3> SUFFICES ASSUME q + 1 <= 0 PROVE FALSE
      BY <2>4
    <3>1. n * (q + 1) <= n * 0
      BY <2>2, <2>4
    <3>2. n * (q + 1) = n * q + n /\ n * 0 = 0 /\ n * q \in Int
      BY <2>2, <2>4
    <3> QED
      BY <2>2, <2>3, <2>4, <3>1, <3>2
  <2>7. t \in 0 .. n - 1
    <3>1. n * q \in Int
      BY <2>4
    <3> QED
      BY <2>2, <2>3, <2>4, <3>1
  <2> HIDE DEF order
  <2> QED
    BY <2>1, <2>2, <2>4, <2>5, <2>6, <2>7
<1>3. order = [k \in 1 .. m |-> order[k]]
  BY DEF EdgeOrder
<1>4. ASSUME NEW a \in 1 .. n, NEW b \in 1 .. n
      PROVE  \E k \in 1 .. m : order[k] = <<a, b>>
  <2> DEFINE q == a - 1
             t == b - 1
             k == q * n + t + 1
  <2>1. n \in Nat \ {0} /\ q \in 0 .. n - 1 /\ t \in 0 .. n - 1
    OBVIOUS
  <2>2. q * n + t \in Nat /\ (q * n + t) \div n = q /\ (q * n + t) % n = t
    <3>1. q \in Nat /\ t \in 0 .. n - 1
      OBVIOUS
    <3> HIDE DEF q, t
    <3> QED
      BY <2>1, <3>1, Division
  <2>3. q * n <= (n - 1) * n
    BY <2>1
  <2>4. (n - 1) * n = n * n - n /\ q * n \in Int
    BY <2>1
  <2>5. k \in 1 .. m
    <3>1. k <= n * n
      <4> HIDE DEF q, t
      <4> QED
        BY <1>1, <2>1, <2>2, <2>3, <2>4
    <3>2. k >= 1 /\ k \in Int
      BY <2>2
    <3> QED
      BY <1>1, <3>1, <3>2
  <2>6. k - 1 = q * n + t
    BY <2>1, <2>4
  <2>7. order[k] = <<q + 1, t + 1>>
    <3> HIDE DEF k, q, t
    <3> QED
      BY <2>2, <2>5, <2>6 DEF EdgeOrder
  <2>8. q + 1 = a /\ t + 1 = b
    OBVIOUS
  <2> HIDE DEF order, k, m
  <2> QED
    BY <2>5, <2>7, <2>8
<1> HIDE DEF order
<1>5. order \in [1 .. m -> (1 .. n) \X (1 .. n)]
  BY <1>2, <1>3
<1>6. \A p \in (1 .. n) \X (1 .. n) : \E k \in 1 .. m : order[k] = p
  <2> TAKE p \in (1 .. n) \X (1 .. n)
  <2>1. p[1] \in 1 .. n /\ p[2] \in 1 .. n /\ p = <<p[1], p[2]>>
    OBVIOUS
  <2> HIDE DEF m
  <2> QED
    BY <1>4, <2>1
<1> QED
  BY <1>1, <1>5, <1>6 DEF order

\* After all unions the panels with one root are those reached from each other.
LEMMA RootsReach ==
  ASSUME NEW n \in Nat, NEW edges, EdgesOf(n, edges)
  PROVE  \A i \in 1 .. n :
           {j \in 1 .. n : Root(Parents(n, edges), j) = Root(Parents(n, edges), i)}
             = Reach(n, edges, i)
<1> DEFINE m == n * n
           order == EdgeOrder(n)
           start == [i \in 1 .. n |-> i]
           Taken(k) == {order[l] : l \in 1 .. k}
<1>1. /\ m \in Nat /\ order \in [1 .. m -> (1 .. n) \X (1 .. n)]
      /\ \A p \in (1 .. n) \X (1 .. n) : \E k \in 1 .. m : order[k] = p
  BY PairsListed
<1> HIDE DEF m
<1>2. PICK r : r[m] = Parents(n, edges) /\ IsJoining(r, n, m, order, edges)
  BY <1>1, Joining
<1> HIDE DEF order
<1>3. Grouped(start, n, edges, {})
  <2>1. Forest(start, n)
    BY DEF Forest
  <2>2. \A i \in 1 .. n : Root(start, i) = i
    BY <2>1, ForestIsRooted DEF Rooted
  <2> QED
    BY <2>1, <2>2 DEF Grouped
<1> DEFINE B == {k \in Nat : k <= m => Grouped(r[k], n, edges, Taken(k))}
<1>4. 0 \in B
  <2>1. Taken(0) = {}
    OBVIOUS
  <2> QED
    BY <1>2, <1>3, <2>1 DEF IsJoining
<1>5. ASSUME NEW k \in Nat, k \in B PROVE k + 1 \in B
  <2> SUFFICES ASSUME k + 1 <= m PROVE Grouped(r[k + 1], n, edges, Taken(k + 1))
    OBVIOUS
  <2>1. k + 1 \in 1 .. m /\ (k + 1) - 1 = k
    BY <1>1
  <2>2. Grouped(r[k], n, edges, Taken(k))
    <3> HIDE DEF Taken, start
    <3> QED
      BY <1>1, <1>5, <2>1
  <2>3. r[k + 1] = JoinEnds(r[k], order[k + 1], edges) /\ order[k + 1] \in (1 .. n) \X (1 .. n)
    BY <1>1, <1>2, <2>1 DEF IsJoining
  <2>4. Taken(k + 1) = Taken(k) \cup {order[k + 1]}
    <3>1. 1 .. (k + 1) = (1 .. k) \cup {k + 1}
      OBVIOUS
    <3> QED
      BY <3>1
  <2> HIDE DEF Taken
  <2> QED
    BY <2>2, <2>3, <2>4, JoinStep
<1>6. Nat \subseteq B
  <2> HIDE DEF B
  <2> QED
    BY <1>4, <1>5, Counting
<1>7. Grouped(Parents(n, edges), n, edges, Taken(m))
  <2>1. Grouped(r[m], n, edges, Taken(m))
    <3> HIDE DEF Taken
    <3> QED
      BY <1>1, <1>6
  <2> QED
    BY <1>2, <2>1
<1> DEFINE parent == Parents(n, edges)
           Class(i) == {j \in 1 .. n : Root(parent, j) = Root(parent, i)}
<1> HIDE DEF parent
<1>8. \A e \in edges : Root(parent, e.a) = Root(parent, e.b)
  <2> SUFFICES ASSUME NEW e \in edges PROVE Root(parent, e.a) = Root(parent, e.b)
    OBVIOUS
  <2>1. EndsOf(e) \in (1 .. n) \X (1 .. n)
    BY DEF EdgesOf, EndsOf
  <2>2. EndsOf(e) \in Taken(m)
    BY <1>1, <2>1
  <2> HIDE DEF Taken
  <2> QED
    BY <1>7, <2>2 DEF Grouped, parent
<1>9. ASSUME NEW i \in 1 .. n PROVE Class(i) = Reach(n, edges, i)
  <2>1. i \in Class(i) /\ Class(i) \in SUBSET (1 .. n)
    OBVIOUS
  <2>2. Linked(edges, Class(i))
    BY <1>8 DEF Linked, EdgesOf
  <2>3. Reach(n, edges, i) \subseteq Class(i)
    <3> HIDE DEF Class
    <3> QED
      BY <2>1, <2>2 DEF Reach
  <2>4. ASSUME NEW j \in Class(i), NEW T \in SUBSET (1 .. n), i \in T, Linked(edges, T)
        PROVE  j \in T
    <3>1. j \in 1 .. n /\ Root(parent, j) = Root(parent, i)
      OBVIOUS
    <3>2. /\ i \in T <=> Root(parent, i) \in T
          /\ j \in T <=> Root(parent, j) \in T
      BY <1>7, <2>4, <3>1 DEF Grouped, parent
    <3> QED
      BY <2>4, <3>1, <3>2
  <2>5. Class(i) \subseteq Reach(n, edges, i)
    BY <2>1, <2>4 DEF Reach
  <2> QED
    BY <2>3, <2>5
<1> QED
  BY <1>9 DEF parent

-----------------------------------------------------------------------------
(* The list of components.  *)

\* The panels with one root, and the panel that opens their component.
ClassOf(root, i) == {j \in DOMAIN root : root[j] = root[i]}
Opens(root, i) == \A j \in 1 .. i - 1 : root[j] # root[i]
Listed(comps, root, i) ==
  /\ comps \in Seq(SUBSET DOMAIN root)
  /\ \A k \in DOMAIN comps : \E j \in 1 .. i : comps[k] = ClassOf(root, j) /\ Min(comps[k]) = j
  /\ \A j \in 1 .. i : \E k \in DOMAIN comps : comps[k] = ClassOf(root, j)
  /\ \A k, l \in DOMAIN comps : k < l => Min(comps[k]) < Min(comps[l])

\* The smallest panel of a component is the one that opens it.
LEMMA OpenerIsLeast ==
  ASSUME NEW n \in Nat, NEW root, DOMAIN root = 1 .. n, NEW i \in 1 .. n, Opens(root, i)
  PROVE  Min(ClassOf(root, i)) = i
<1> DEFINE S == ClassOf(root, i)
<1>1. i \in S /\ S \in SUBSET (1 .. n)
  BY DEF ClassOf
<1>2. \A j \in S : i <= j
  <2> SUFFICES ASSUME NEW j \in S, j < i PROVE FALSE
    BY <1>1
  <2>1. j \in 1 .. i - 1 /\ root[j] = root[i]
    BY <1>1 DEF ClassOf
  <2> QED
    BY <2>1 DEF Opens
<1> HIDE DEF S
<1>3. S \in SUBSET Int /\ IsFiniteSet(S) /\ S # {}
  <2>1. IsFiniteSet(1 .. n)
    BY LastIndex
  <2>2. IsFiniteSet(S)
    BY <1>1, <2>1, FS_Subset
  <2> QED
    BY <1>1, <2>2
<1>4. Min(S) \in S /\ \A y \in S : Min(S) <= y
  BY <1>3, FiniteExtremes
<1> QED
  BY <1>1, <1>2, <1>4 DEF S

\* The next panel joins a component or opens the last one.
LEMMA OpenedStep ==
  ASSUME NEW n \in Nat, NEW root, DOMAIN root = 1 .. n, NEW i \in 1 .. n,
         NEW comps, Listed(comps, root, i - 1)
  PROVE  Listed(Opened(comps, i, root), root, i)
<1>0. comps \in Seq(SUBSET (1 .. n))
  BY DEF Listed
<1>1. CASE ~Opens(root, i)
  <2>1. PICK j \in 1 .. i - 1 : root[j] = root[i]
    BY <1>1 DEF Opens
  <2>2. ClassOf(root, j) = ClassOf(root, i)
    BY <2>1 DEF ClassOf
  <2>3. Opened(comps, i, root) = comps
    BY <2>1 DEF Opened
  <2>4. \A l \in 1 .. i : l \in 1 .. i - 1 \/ l = i
    OBVIOUS
  <2>5. \A l \in 1 .. i - 1 : l \in 1 .. i
    OBVIOUS
  <2>6. /\ \A k \in DOMAIN comps :
             \E l \in 1 .. i - 1 : comps[k] = ClassOf(root, l) /\ Min(comps[k]) = l
        /\ \A l \in 1 .. i - 1 : \E k \in DOMAIN comps : comps[k] = ClassOf(root, l)
        /\ \A k, l \in DOMAIN comps : k < l => Min(comps[k]) < Min(comps[l])
    BY DEF Listed
  <2>7. \A l \in 1 .. i : \E k \in DOMAIN comps : comps[k] = ClassOf(root, l)
    BY <2>1, <2>2, <2>4, <2>6
  <2>8. \A k \in DOMAIN comps :
             \E l \in 1 .. i : comps[k] = ClassOf(root, l) /\ Min(comps[k]) = l
    BY <2>5, <2>6
  <2> QED
    BY <1>0, <2>3, <2>6, <2>7, <2>8 DEF Listed
<1>2. CASE Opens(root, i)
  <2> DEFINE S == ClassOf(root, i)
             new == Append(comps, S)
             len == Len(comps)
  <2>1. Opened(comps, i, root) = new
    BY <1>2 DEF Opened, Opens, ClassOf
  <2>2. S \in SUBSET (1 .. n) /\ Min(S) = i
    BY <1>2, OpenerIsLeast DEF ClassOf
  <2> HIDE DEF S
  <2>3. /\ new \in Seq(SUBSET (1 .. n)) /\ len \in Nat /\ DOMAIN comps = 1 .. len
        /\ DOMAIN new = 1 .. len + 1 /\ new[len + 1] = S
        /\ \A k \in 1 .. len : new[k] = comps[k]
    BY <1>0, <2>2
  <2> HIDE DEF new, len
  <2>4. \A k \in 1 .. len + 1 : k \in 1 .. len \/ k = len + 1
    BY <2>3
  <2>5. \A k \in 1 .. len : k \in 1 .. len + 1
    BY <2>3
  <2>6. /\ \A k \in 1 .. len :
             \E l \in 1 .. i - 1 : comps[k] = ClassOf(root, l) /\ Min(comps[k]) = l
        /\ \A l \in 1 .. i - 1 : \E k \in 1 .. len : comps[k] = ClassOf(root, l)
        /\ \A k, l \in 1 .. len : k < l => Min(comps[k]) < Min(comps[l])
    BY <2>3 DEF Listed
  <2>7. ASSUME NEW k \in 1 .. len + 1
        PROVE  \E l \in 1 .. i : new[k] = ClassOf(root, l) /\ Min(new[k]) = l
    <3>1. CASE k \in 1 .. len
      <4>1. PICK l \in 1 .. i - 1 : comps[k] = ClassOf(root, l) /\ Min(comps[k]) = l
        BY <2>6, <3>1
      <4>2. l \in 1 .. i
        OBVIOUS
      <4> QED
        BY <2>3, <3>1, <4>1, <4>2
    <3>2. CASE k = len + 1
      BY <2>2, <2>3, <3>2 DEF S
    <3> QED
      BY <2>4, <3>1, <3>2
  <2>8. ASSUME NEW l \in 1 .. i
        PROVE  \E k \in 1 .. len + 1 : new[k] = ClassOf(root, l)
    <3>1. CASE l = i
      <4>1. len + 1 \in 1 .. len + 1
        BY <2>3
      <4> QED
        BY <2>3, <3>1, <4>1 DEF S
    <3>2. CASE l # i
      <4>1. l \in 1 .. i - 1
        BY <3>2
      <4>2. PICK k \in 1 .. len : comps[k] = ClassOf(root, l)
        BY <2>6, <4>1
      <4> QED
        BY <2>3, <2>5, <4>2
    <3> QED
      BY <3>1, <3>2
  <2>9. ASSUME NEW k \in 1 .. len + 1, NEW l \in 1 .. len + 1, k < l
        PROVE  Min(new[k]) < Min(new[l])
    <3>1. CASE l \in 1 .. len
      <4>1. k \in 1 .. len
        BY <2>3, <2>9, <3>1
      <4> QED
        BY <2>3, <2>6, <2>9, <3>1, <4>1
    <3>2. CASE l = len + 1
      <4>1. k \in 1 .. len
        BY <2>3, <2>9, <3>2
      <4>2. Min(comps[k]) \in 1 .. i - 1
        BY <2>6, <4>1
      <4> QED
        BY <2>2, <2>3, <3>2, <4>1, <4>2
    <3> QED
      BY <2>4, <3>1, <3>2
  <2>10. Listed(new, root, i)
    BY <2>3, <2>7, <2>8, <2>9 DEF Listed
  <2> QED
    BY <2>1, <2>10
<1> QED
  BY <1>1, <1>2

\* The sequence of lists of components.
IsListing(r, m, root) ==
  r[0] = <<>> /\ \A k \in 1 .. m : r[k] = Opened(r[k - 1], k, root)

\* The panels are taken one after the other.
Rootings(n, edges) == [i \in 1 .. n |-> Root(Parents(n, edges), i)]

\* The list of components is made that way.
LEMMA Listing ==
  ASSUME NEW n \in Nat, NEW edges
  PROVE  \E r : r[n] = components(n, edges) /\ IsListing(r, n, Rootings(n, edges))
<1> DEFINE D == 1 .. n
           root == Rootings(n, edges)
           V == Seq(SUBSET D)
           order == [i \in 1 .. n |-> i]
           start == <<>>
           ch == [s \in SUBSET D |-> Max(s)]
           st == [p \in D \X V |-> Opened(p[2], order[p[1]], root)]
           P(g) == g = [s \in SUBSET D |-> IF s = {} THEN start
                     ELSE Opened(g[s \ {Max(s)}], order[Max(s)], root)]
<1>0. DOMAIN root = D
  BY DEF Rootings
<1> HIDE DEF root
<1>1. Choice(D, ch) /\ IsFiniteSet(D) /\ \A s \in SUBSET D : s # {} => Max(s) \in s
  BY LastIndex
<1>2. ASSUME NEW i \in D, NEW d \in V
      PROVE  Opened(d, order[i], root) \in V
  <2> DEFINE S == {j \in DOMAIN root : root[j] = root[i]}
  <2>1. S \in SUBSET D /\ order[i] = i
    BY <1>0
  <2>2. Opened(d, i, root) \in {d, Append(d, S)}
    BY DEF Opened
  <2> HIDE DEF D, S, order
  <2>3. Append(d, S) \in V
    BY <2>1
  <2> QED
    BY <2>1, <2>2, <2>3
<1>3. st \in [D \X V -> V]
  <2> HIDE DEF V, order
  <2> QED
    BY <1>2
<1>4. start \in V
  OBVIOUS
<1>5. PICK g \in [SUBSET D -> V] : Folding(D, start, ch, st, g)
  <2> HIDE DEF ch, st, D, V, start
  <2> QED
    BY <1>1, <1>3, <1>4, FoldDefined
<1>6. P(g)
  <2>1. ASSUME NEW s \in SUBSET D, s # {}
        PROVE  st[<<ch[s], g[s \ {ch[s]}]>>] = Opened(g[s \ {Max(s)}], order[Max(s)], root)
    <3>1. ch[s] = Max(s) /\ Max(s) \in D /\ g[s \ {Max(s)}] \in V
      BY <1>1, <1>5, <2>1
    <3> HIDE DEF ch, D, V, order
    <3> QED
      BY <3>1
  <2> DEFINE f == [s \in SUBSET D |-> IF s = {} THEN start
                     ELSE Opened(g[s \ {Max(s)}], order[Max(s)], root)]
  <2> HIDE DEF ch, st, D, V, start, order
  <2>2. \A s \in SUBSET D : g[s] = f[s]
    BY <1>5, <2>1 DEF Folding
  <2>3. f = [s \in SUBSET D |-> f[s]]
    OBVIOUS
  <2>4. g = [s \in SUBSET D |-> g[s]]
    BY <1>5
  <2>5. g = f
    <3> HIDE DEF f
    <3> QED
      BY <2>2, <2>3, <2>4
  <2> QED
    BY <2>5
<1>7. PICK k : P(k) /\ components(n, edges) = k[D]
  <2>1. DOMAIN order = D
    OBVIOUS
  <2> HIDE DEF ch, st, V
  <2> QED
    BY <1>6, <2>1 DEF components, FoldLeft, MapThenFoldSet, root, Rootings
<1> DEFINE r == [i \in 0 .. n |-> k[1 .. i]]
<1>8. r[0] = start
  <2>1. 1 .. 0 = {} /\ {} \in SUBSET D
    OBVIOUS
  <2> HIDE DEF start
  <2> QED
    BY <1>7, <2>1
<1>9. ASSUME NEW i \in 1 .. n
      PROVE  r[i] = Opened(r[i - 1], i, root)
  <2>0. i \in 0 .. n /\ i > 0 /\ i # 0
    OBVIOUS
  <2>1. /\ 1 .. i \in SUBSET D /\ 1 .. i # {} /\ Max(1 .. i) = i
        /\ (1 .. i) \ {i} = 1 .. (i - 1) /\ i - 1 \in 0 .. n /\ i \in 0 .. n
    <3> HIDE DEF r, st, P, ch
    <3>1. PrefixOf(n, i)
      BY <2>0, PrefixesOf
    <3> QED
      BY <3>1, <2>0 DEF PrefixOf
  <2> HIDE DEF start, st, V, ch, order
  <2>2. k[1 .. i] = Opened(k[(1 .. i) \ {Max(1 .. i)}], order[Max(1 .. i)], root)
    BY <1>7, <2>1
  <2>3. order[i] = i
    BY DEF order
  <2> QED
    BY <2>1, <2>2, <2>3
<1>10. r[n] = components(n, edges)
  <2>1. n \in 0 .. n
    OBVIOUS
  <2>2. r[n] = k[1 .. n]
    BY <2>1
  <2> HIDE DEF r, P
  <2> QED
    BY <1>7, <2>2
<1> HIDE DEF r
<1> QED
  BY <1>8, <1>9, <1>10 DEF IsListing, root

\* So the components are the sets of panels that are reached from each other, in
\* the order of their smallest members.
LEMMA ComponentsAreReached ==
  ASSUME NEW n \in Nat, NEW edges, EdgesOf(n, edges)
  PROVE  AreComponents(n, edges, components(n, edges))
<1> DEFINE root == Rootings(n, edges)
           comps == components(n, edges)
<1>1. DOMAIN root = 1 .. n /\ \A i \in 1 .. n : ClassOf(root, i) = Reach(n, edges, i)
  <2>1. \A i \in 1 .. n : root[i] = Root(Parents(n, edges), i)
    BY DEF Rootings
  <2>2. DOMAIN root = 1 .. n
    BY DEF Rootings
  <2> HIDE DEF root
  <2>3. ASSUME NEW i \in 1 .. n
        PROVE  ClassOf(root, i) =
                 {j \in 1 .. n : Root(Parents(n, edges), j) = Root(Parents(n, edges), i)}
    BY <2>1, <2>2 DEF ClassOf
  <2> QED
    BY <2>2, <2>3, RootsReach
<1>2. PICK r : r[n] = comps /\ IsListing(r, n, root)
  BY Listing
<1> HIDE DEF root, comps
<1> DEFINE B == {k \in Nat : k <= n => Listed(r[k], root, k)}
<1>3. 0 \in B
  <2>1. Listed(<<>>, root, 0)
    BY DEF Listed
  <2> QED
    BY <1>2, <2>1 DEF IsListing
<1>4. ASSUME NEW k \in Nat, k \in B PROVE k + 1 \in B
  <2> SUFFICES ASSUME k + 1 <= n PROVE Listed(r[k + 1], root, k + 1)
    OBVIOUS
  <2>1. k + 1 \in 1 .. n /\ (k + 1) - 1 = k /\ Listed(r[k], root, k)
    BY <1>4
  <2>2. r[k + 1] = Opened(r[k], k + 1, root)
    BY <1>2, <2>1 DEF IsListing
  <2> QED
    BY <1>1, <2>1, <2>2, OpenedStep
<1>5. Nat \subseteq B
  <2> HIDE DEF B
  <2> QED
    BY <1>3, <1>4, Counting
<1>6. Listed(comps, root, n)
  BY <1>2, <1>5
<1>7. Range(comps) = {Reach(n, edges, i) : i \in 1 .. n}
  <2>1. ASSUME NEW k \in DOMAIN comps PROVE \E i \in 1 .. n : comps[k] = Reach(n, edges, i)
    BY <1>1, <1>6 DEF Listed
  <2>2. ASSUME NEW i \in 1 .. n PROVE \E k \in DOMAIN comps : comps[k] = Reach(n, edges, i)
    BY <1>1, <1>6 DEF Listed
  <2> QED
    BY <2>1, <2>2 DEF Range
<1> QED
  BY <1>6, <1>7 DEF AreComponents, Listed, comps

\* Of a set below a bound, the largest member is the one next to the bound.
LEMMA GreatestExists ==
  ASSUME NEW n \in Nat, NEW S \in SUBSET (0 .. n), S # {}
  PROVE  Max(S) \in S /\ \A y \in S : y <= Max(S)
<1> DEFINE T == {n - x : x \in S}
<1>1. T \in SUBSET Nat /\ T # {}
  <2>1. \A x \in S : n - x \in Nat
    OBVIOUS
  <2> QED
    BY <2>1
<1>2. Min(T) \in T /\ \A y \in T : Min(T) <= y
  BY <1>1, LeastExists
<1>3. PICK x \in S : Min(T) = n - x
  BY <1>2
<1>4. \A y \in S : y <= x
  <2> TAKE y \in S
  <2>1. n - x <= n - y
    BY <1>2, <1>3
  <2> QED
    BY <2>1
<1>5. \E m \in S : \A y \in S : m >= y
  BY <1>4
<1>6. Max(S) \in S /\ \A y \in S : Max(S) >= y
  BY <1>5 DEF Max
<1> QED
  BY <1>6

\* A box of the grid.
OnGrid(b) ==
  /\ b[1] \in 0 .. W /\ b[2] \in 0 .. H /\ b[3] \in 0 .. W /\ b[4] \in 0 .. H

\* The box of some cells is on the grid, and they are inside it.
LEMMA BoxHolds ==
  ASSUME NEW S \in SUBSET Cells
  PROVE  OnGrid(Box(S)) /\ S \subseteq Inside(Box(S))
<1>0. W \in Nat \ {0} /\ H \in Nat \ {0}
  BY GridAssumption
<1>1. CASE S = {}
  BY <1>0, <1>1 DEF Box, NoBox, OnGrid
<1>2. CASE S # {}
  <2> DEFINE X == {c[1] : c \in S}
             Y == {c[2] : c \in S}
  <2>1. \A c \in S : c[1] \in 0 .. W - 1 /\ c[2] \in 0 .. H - 1
    BY DEF Cells
  <2>2. X \in SUBSET (0 .. W - 1) /\ X # {} /\ Y \in SUBSET (0 .. H - 1) /\ Y # {}
    BY <1>2, <2>1
  <2>3. \A c \in S : c[1] \in X /\ c[2] \in Y
    OBVIOUS
  <2>4. W - 1 \in Nat /\ H - 1 \in Nat
    BY <1>0
  <2>5. Box(S) = <<Min(X), Min(Y), Max(X) + 1, Max(Y) + 1>>
    BY <1>2 DEF Box
  <2> HIDE DEF X, Y
  <2>6. X \in SUBSET Nat /\ Y \in SUBSET Nat
    BY <2>2
  <2>7. /\ Min(X) \in X /\ \A y \in X : Min(X) <= y
        /\ Min(Y) \in Y /\ \A y \in Y : Min(Y) <= y
    BY <2>2, <2>6, LeastExists
  <2>8. Max(X) \in X /\ \A y \in X : y <= Max(X)
    BY <2>2, <2>4, GreatestExists
  <2>9. Max(Y) \in Y /\ \A y \in Y : y <= Max(Y)
    BY <2>2, <2>4, GreatestExists
  <2>10. /\ Min(X) \in 0 .. W - 1 /\ Max(X) \in 0 .. W - 1
         /\ Min(Y) \in 0 .. H - 1 /\ Max(Y) \in 0 .. H - 1
    BY <2>2, <2>7, <2>8, <2>9
  <2>11. OnGrid(Box(S))
    BY <1>0, <2>5, <2>10 DEF OnGrid
  <2>12. ASSUME NEW c \in S PROVE c \in Inside(Box(S))
    <3>1. c \in Cells /\ c[1] \in X /\ c[2] \in Y /\ c[1] \in Int /\ c[2] \in Int
      BY <2>1, <2>3
    <3>2. /\ Min(X) <= c[1] /\ c[1] < Max(X) + 1
          /\ Min(Y) <= c[2] /\ c[2] < Max(Y) + 1
      BY <2>7, <2>8, <2>9, <2>10, <3>1
    <3> QED
      BY <2>5, <3>1, <3>2 DEF Inside
  <2> QED
    BY <2>11, <2>12
<1> QED
  BY <1>1, <1>2

-----------------------------------------------------------------------------
(* The overlap graph.  *)

\* A cell in two boxes is in what they share, which is then not empty.
LEMMA MeetHolds ==
  ASSUME NEW b, OnGrid(b), NEW d, OnGrid(d), NEW c, c \in Inside(b), c \in Inside(d)
  PROVE  c \in Inside(Meet(b, d)) /\ ~IsEmpty(Meet(b, d))
<1> DEFINE m == Meet(b, d)
<1>1. /\ m[1] = Greater(b[1], d[1]) /\ m[2] = Greater(b[2], d[2])
      /\ m[3] = Lesser(b[3], d[3]) /\ m[4] = Lesser(b[4], d[4])
  BY DEF Meet
<1>2. /\ b[1] <= c[1] /\ c[1] < b[3] /\ b[2] <= c[2] /\ c[2] < b[4]
      /\ d[1] <= c[1] /\ c[1] < d[3] /\ d[2] <= c[2] /\ c[2] < d[4]
      /\ c \in Cells /\ c[1] \in Int /\ c[2] \in Int
  BY DEF Inside, Cells
<1>3. /\ m[1] \in {b[1], d[1]} /\ m[2] \in {b[2], d[2]}
      /\ m[3] \in {b[3], d[3]} /\ m[4] \in {b[4], d[4]}
  BY <1>1 DEF Greater, Lesser
<1> HIDE DEF m
<1>4. m[1] <= c[1] /\ c[1] < m[3] /\ m[2] <= c[2] /\ c[2] < m[4]
  BY <1>2, <1>3
<1>5. m[1] \in Int /\ m[2] \in Int /\ m[3] \in Int /\ m[4] \in Int
  BY <1>3, GridAssumption DEF OnGrid
<1> QED
  BY <1>2, <1>4, <1>5 DEF Inside, IsEmpty, m

\* The boxes that prefilter the pairs lose no cell.
LEMMA SharedCellsAre ==
  ASSUME NEW covs, NEW a, NEW b
  PROVE  SharedCells(covs, a, b) = FullCells(covs[a]) \cap FullCells(covs[b])
<1> DEFINE A == FullCells(covs[a])
           B == FullCells(covs[b])
           box == Meet(Box(A), Box(B))
<1>1. A \in SUBSET Cells /\ B \in SUBSET Cells
  BY DEF FullCells
<1>2. A \cap B = {c \in Cells : covs[a][c] = Full /\ covs[b][c] = Full}
  BY DEF FullCells
<1>3. SharedCells(covs, a, b) =
        IF IsEmpty(box) THEN {}
        ELSE {c \in Inside(box) : covs[a][c] = Full /\ covs[b][c] = Full}
  BY DEF SharedCells, full_cov_bbox
<1> HIDE DEF A, B
<1>4. /\ OnGrid(Box(A)) /\ OnGrid(Box(B))
      /\ A \subseteq Inside(Box(A)) /\ B \subseteq Inside(Box(B))
  BY <1>1, BoxHolds
<1>5. \A c \in A \cap B : c \in Inside(box) /\ ~IsEmpty(box)
  BY <1>4, MeetHolds
<1>6. Inside(box) \subseteq Cells
  BY DEF Inside
<1> HIDE DEF box
<1>7. SharedCells(covs, a, b) = A \cap B
  <2>1. CASE IsEmpty(box)
    BY <1>3, <1>5, <2>1
  <2>2. CASE ~IsEmpty(box)
    <3>1. \A c \in SharedCells(covs, a, b) : c \in A \cap B
      BY <1>2, <1>3, <1>6, <2>2
    <3>2. \A c \in A \cap B : c \in SharedCells(covs, a, b)
      BY <1>2, <1>3, <1>5, <2>2
    <3> QED
      BY <3>1, <3>2
  <2> QED
    BY <2>1, <2>2
<1> QED
  BY <1>7 DEF A, B

\* So two panels are an edge exactly when they share enough fully covered cells.
LEMMA GraphIsOverlap ==
  ASSUME NEW covs
  PROVE  IsOverlapGraph(covs, build(covs))
<1> DEFINE D == DOMAIN covs
           Shared_(p) == FullCells(covs[p[1]]) \cap FullCells(covs[p[2]])
<1>1. \A p : SharedCells(covs, p[1], p[2]) = Shared_(p)
  BY SharedCellsAre
<1> HIDE DEF D, Shared_
<1>2. build(covs) =
        { [a |-> p[1], b |-> p[2], bbox8 |-> Box(Shared_(p)),
           n_cells |-> Cardinality(Shared_(p))] :
             p \in {q \in D \X D : q[1] < q[2] /\ Cardinality(Shared_(q)) >= MinEdgeCells} }
  BY <1>1, Zenon DEF build, D
<1> QED
  BY <1>2 DEF IsOverlapGraph, D, Shared_

\* The ends of an edge are panels.
LEMMA EdgesOfGraph ==
  ASSUME NEW covs, NEW V, covs \in Seq(V)
  PROVE  Len(covs) \in Nat /\ EdgesOf(Len(covs), build(covs))
<1>1. DOMAIN covs = 1 .. Len(covs) /\ Len(covs) \in Nat
  OBVIOUS
<1> DEFINE n == Len(covs)
<1> HIDE DEF n
<1>2. \A e \in build(covs) : e.a \in DOMAIN covs /\ e.b \in DOMAIN covs
  BY DEF build
<1> QED
  BY <1>1, <1>2 DEF EdgesOf

-----------------------------------------------------------------------------
(* The owner map.                                                           *)

\* A panel that has the greatest distance of those here, the first of them.
PanelAt(panels, c) == {p \in DOMAIN panels : panels[p].cov[c] > 0}
Ahead_(dists, c, p, q) ==
  LET d == dists[p][c]
      e == dists[q][c]
  IN  \/ WeightOf(d) > WeightOf(e)
      \/ WeightOf(d) = WeightOf(e) /\ (d > e \/ (d = e /\ -p >= -q))

\* Of the panels at a cell one is ahead of all others.
LEMMA OneIsAhead ==
  ASSUME NEW n \in Nat, NEW here \in SUBSET (1 .. n), here # {}, NEW dists, NEW c,
         \A p \in here : dists[p][c] \in Nat
  PROVE  \E p \in here : \A q \in here : Ahead_(dists, c, p, q)
<1> DEFINE f == [p \in here |-> dists[p][c]]
           S == {f[p] : p \in here}
<1>1. IsFiniteSet(S) /\ S \in SUBSET Int /\ S # {}
  <2>1. IsFiniteSet(here)
    <3>1. IsFiniteSet(1 .. n)
      BY FS_Interval
    <3> QED
      BY <3>1, FS_Subset
  <2>2. DOMAIN f = here /\ \A p \in here : f[p] \in Int
    OBVIOUS
  <2> HIDE DEF f
  <2> QED
    BY <2>1, <2>2, ImageFinite
<1>2. PICK m \in here : \A q \in here : dists[q][c] <= dists[m][c]
  <2>1. Max(S) \in S /\ \A y \in S : y <= Max(S)
    <3> HIDE DEF S
    <3> QED
      BY <1>1, FiniteExtremes
  <2>2. PICK m \in here : Max(S) = f[m]
    BY <2>1
  <2>3. \A q \in here : f[q] <= f[m]
    BY <2>1, <2>2
  <2>4. \A q \in here : f[q] = dists[q][c]
    OBVIOUS
  <2> HIDE DEF f
  <2> QED
    BY <2>3, <2>4
<1> DEFINE T == {p \in here : dists[p][c] = dists[m][c]}
<1>3. T \in SUBSET Nat /\ T # {}
  <2>1. m \in T
    BY <1>2
  <2>2. here \subseteq Nat /\ T \subseteq here
    OBVIOUS
  <2> HIDE DEF T
  <2> QED
    BY <2>1, <2>2
<1>4. PICK t \in T : \A q \in T : t <= q
  <2> HIDE DEF T
  <2> QED
    BY <1>3, LeastNatural
<1>5. ASSUME NEW q \in here PROVE Ahead_(dists, c, t, q)
  <2> DEFINE d == dists[t][c]
             e == dists[q][c]
  <2>1. t \in here /\ d = dists[m][c] /\ d \in Nat /\ e \in Nat /\ e <= d /\ t \in Int /\ q \in Int
    <3>1. t \in here /\ d = dists[m][c]
      OBVIOUS
    <3>2. d \in Nat /\ e \in Nat
      BY <3>1
    <3>3. e <= dists[m][c]
      BY <1>2
    <3>4. t \in Int /\ q \in Int
      <4> HIDE DEF d, e, T
      <4>1. here \subseteq Int
        OBVIOUS
      <4> QED
        BY <3>1, <4>1
    <3> HIDE DEF T, e
    <3>5. e <= d
      <4> DEFINE far == dists[m][c]
      <4>1. d = far /\ e <= far
        BY <3>1, <3>3
      <4> HIDE DEF d, far
      <4> QED
        BY <4>1
    <3> HIDE DEF d
    <3> QED
      BY <3>1, <3>2, <3>4, <3>5
  <2>2. d = e => t <= q
    BY <1>4
  <2> HIDE DEF d, e, T
  <2>3. WeightOf(e) <= WeightOf(d) /\ WeightOf(e) \in Nat /\ WeightOf(d) \in Nat
    BY <2>1, SeamAssumption DEF WeightOf, Lesser, Greater
  <2>4. d > e \/ d = e
    BY <2>1
  <2>5. d = e => -t >= -q
    BY <2>1, <2>2
  <2> QED
    BY <2>3, <2>4, <2>5 DEF Ahead_, d, e
<1> QED
  BY <1>5

\* The panels of an owner map, with their distances.
Charted(panels, n, dists) ==
  /\ DOMAIN panels = 1 .. n
  /\ \A p \in 1 .. n : panels[p].cov \in Coverage /\ DistanceOf(panels[p].cov, dists[p])

\* The labels of the first stage: a panel that covers a cell in full is ahead of
\* one that does not.
LEMMA VoronoiCovers ==
  ASSUME NEW n \in Nat, NEW panels, NEW dists, Charted(panels, n, dists)
  PROVE  voronoi(panels, dists) \in [Cells -> 0 .. n] /\ OwnersCover(panels, voronoi(panels, dists))
<1> DEFINE v == voronoi(panels, dists)
<1>1. ASSUME NEW c \in Cells
      PROVE  /\ PanelAt(panels, c) = {} => v[c] = NoOwner
             /\ PanelAt(panels, c) # {} =>
                  v[c] \in PanelAt(panels, c) /\ \A q \in PanelAt(panels, c) : Ahead_(dists, c, v[c], q)
  <2> DEFINE here == PanelAt(panels, c)
  <2>1. v[c] = IF here = {} THEN NoOwner
               ELSE CHOOSE p \in here : \A q \in here : Ahead_(dists, c, p, q)
    BY DEF voronoi, Ahead_, PanelAt
  <2>2. here \in SUBSET (1 .. n)
    BY DEF Charted, PanelAt
  <2>3. \A p \in here : dists[p][c] \in Nat
    BY <2>2 DEF Charted, DistanceOf, Plane
  <2> HIDE DEF here, v
  <2>4. here # {} => \E p \in here : \A q \in here : Ahead_(dists, c, p, q)
    BY <2>2, <2>3, OneIsAhead
  <2>5. here # {} => v[c] \in here /\ \A q \in here : Ahead_(dists, c, v[c], q)
    BY <2>1, <2>4
  <2> QED
    BY <2>1, <2>5 DEF here
<1>2. v = [c \in Cells |-> v[c]]
  BY DEF voronoi
<1> HIDE DEF v
<1>3. ASSUME NEW c \in Cells
      PROVE  PanelAt(panels, c) \in SUBSET (1 .. n)
  BY DEF Charted, PanelAt
<1>4. \A c \in Cells : v[c] \in 0 .. n /\ (v[c] = NoOwner <=> PanelAt(panels, c) = {})
  BY <1>1, <1>3 DEF NoOwner
<1>5. ASSUME NEW c \in Cells, NEW q \in 1 .. n, panels[q].cov[c] = Full
      PROVE  v[c] \in 1 .. n /\ panels[v[c]].cov[c] = Full
  <2>1. Full \in Nat \ {0} /\ Straight \in Nat \ {0} /\ FloorSteps \in Nat \ {0}
        /\ FeatherSteps \in Nat /\ FloorSteps <= FeatherSteps
    BY OverlapAssumption, SeamAssumption
  <2>2. q \in PanelAt(panels, c)
    BY <1>5, <2>1 DEF PanelAt, Charted
  <2> DEFINE p == v[c]
             d == dists[p][c]
             e == dists[q][c]
  <2>3. p \in 1 .. n /\ Ahead_(dists, c, p, q)
    BY <1>1, <1>3, <2>2
  <2> HIDE DEF p
  <2>4. d \in Nat /\ e \in Nat /\ e >= Straight
    BY <1>5, <2>1, <2>3 DEF Charted, DistanceOf, Plane
  <2>5. ASSUME panels[p].cov[c] # Full PROVE FALSE
    <3>1. panels[p].cov[c] \in 0 .. Full
      BY <2>3 DEF Charted, Coverage
    <3>2. panels[p].cov[c] < Full
      BY <2>1, <2>5, <3>1
    <3>3. d = 0
      BY <2>3, <3>2 DEF Charted, DistanceOf
    <3> HIDE DEF d, e
    <3>4. WeightOf(d) = FloorSteps /\ WeightOf(e) >= FloorSteps /\ WeightOf(e) \in Nat
      BY <2>1, <2>4, <3>3 DEF WeightOf, Lesser, Greater
    <3>5. d < e /\ ~(d > e) /\ d # e
      BY <2>1, <2>4, <3>3
    <3>6. ~(WeightOf(d) > WeightOf(e))
      BY <2>1, <3>4
    <3> QED
      BY <2>3, <3>5, <3>6 DEF Ahead_, d, e
  <2> QED
    BY <2>3, <2>5 DEF p
<1>6. OwnersCover(panels, v)
  <2>1. ASSUME NEW c \in Cells
        PROVE  LET here  == {p \in DOMAIN panels : panels[p].cov[c] > 0}
                   whole == {p \in DOMAIN panels : panels[p].cov[c] = Full}
               IN  /\ v[c] = NoOwner <=> here = {}
                   /\ here # {} => v[c] \in here
                   /\ whole # {} => v[c] \in whole
    BY <1>1, <1>4, <1>5 DEF PanelAt, Charted
  <2> QED
    BY <2>1 DEF OwnersCover
<1> QED
  BY <1>2, <1>4, <1>6 DEF v

\* A seam relabels only cells that both panels of its edge cover in full, and
\* gives them to one of the two.
LEMMA SeamWithinShared ==
  ASSUME NEW panels, NEW dists, NEW masks, NEW e, NEW c \in DOMAIN edge_seam(panels, dists, masks, e)
  PROVE  c \in Shared(panels, e) /\ edge_seam(panels, dists, masks, e)[c] \in {e.a, e.b}
<1> DEFINE path  == SeamPath(CellCosts(panels, masks, e), e)
           score == MapThenSumSet(LAMBDA t : dists[e.a][CellAt(e, t, 0)]
                                            - dists[e.b][CellAt(e, t, 0)], 0 .. TLen(e) - 1)
           low   == IF score >= 0 THEN e.a ELSE e.b
           high  == IF score >= 0 THEN e.b ELSE e.a
           where == [x \in Inside(e.bbox8) |->
                    CHOOSE ts \in (0 .. TLen(e) - 1) \X (0 .. SLen(e) - 1) :
                        CellAt(e, ts[1], ts[2]) = x]
           small == e.bbox8[3] - e.bbox8[1] < DpMinLong /\ e.bbox8[4] - e.bbox8[2] < DpMinLong
<1>1. edge_seam(panels, dists, masks, e) =
        IF small THEN [x \in {} |-> NoOwner]
        ELSE [x \in Shared(panels, e) |-> IF where[x][2] < path[where[x][1] + 1] THEN low ELSE high]
  BY DEF edge_seam
<1>2. low \in {e.a, e.b} /\ high \in {e.a, e.b}
  OBVIOUS
<1> HIDE DEF low, high, path, score, where, small
<1> QED
  BY <1>1, <1>2

\* So no seam takes a cell to a panel that does not cover it in full.
LEMMA SeamKeepsCover ==
  ASSUME NEW n \in Nat, NEW panels, DOMAIN panels = 1 .. n, NEW dists, NEW masks,
         NEW edges, EdgesOf(n, edges), NEW pair,
         NEW owner \in [Cells -> 0 .. n], OwnersCover(panels, owner)
  PROVE  /\ Refined(owner, pair, panels, dists, masks, edges) \in [Cells -> 0 .. n]
         /\ OwnersCover(panels, Refined(owner, pair, panels, dists, masks, edges))
<1> DEFINE e == CHOOSE f \in edges : <<f.a, f.b>> = pair
           ops == edge_seam(panels, dists, masks, e)
           new == Relabelled(owner, ops)
<1>1. CASE ~ \E f \in edges : <<f.a, f.b>> = pair
  BY <1>1 DEF Refined
<1>2. CASE \E f \in edges : <<f.a, f.b>> = pair
  <2>1. Refined(owner, pair, panels, dists, masks, edges) = new
    BY <1>2 DEF Refined
  <2>2. e.a \in 1 .. n /\ e.b \in 1 .. n
    <3>1. e \in edges
      BY <1>2
    <3> QED
      BY <3>1 DEF EdgesOf
  <2> HIDE DEF e
  <2>3. \A c \in DOMAIN ops : c \in Shared(panels, e) /\ ops[c] \in {e.a, e.b}
    BY SeamWithinShared
  <2>4. \A c \in DOMAIN ops : ops[c] \in 1 .. n /\ panels[ops[c]].cov[c] = Full
    BY <2>2, <2>3 DEF Shared
  <2>5. new = [c \in Cells |-> IF c \in DOMAIN ops THEN ops[c] ELSE owner[c]]
    BY DEF Relabelled
  <2> HIDE DEF ops, new
  <2>6. new \in [Cells -> 0 .. n]
    <3>1. ASSUME NEW c \in Cells
          PROVE  (IF c \in DOMAIN ops THEN ops[c] ELSE owner[c]) \in 0 .. n
      BY <2>4
    <3> QED
      BY <2>5, <3>1
  <2>7. ASSUME NEW c \in Cells
        PROVE  LET here  == {p \in DOMAIN panels : panels[p].cov[c] > 0}
                   whole == {p \in DOMAIN panels : panels[p].cov[c] = Full}
               IN  /\ new[c] = NoOwner <=> here = {}
                   /\ here # {} => new[c] \in here
                   /\ whole # {} => new[c] \in whole
    <3> DEFINE here == {p \in DOMAIN panels : panels[p].cov[c] > 0}
               whole == {p \in DOMAIN panels : panels[p].cov[c] = Full}
    <3>1. CASE c \in DOMAIN ops
      <4>1. new[c] \in 1 .. n /\ panels[new[c]].cov[c] = Full
        BY <2>4, <2>5, <3>1
      <4>2. Full > 0
        BY OverlapAssumption
      <4>3. new[c] \in here /\ new[c] \in whole /\ new[c] # NoOwner
        BY <4>1, <4>2 DEF NoOwner
      <4> HIDE DEF here, whole
      <4>4. /\ new[c] = NoOwner <=> here = {}
            /\ here # {} => new[c] \in here
            /\ whole # {} => new[c] \in whole
        BY <4>3
      <4> QED
        BY <4>4 DEF here, whole
    <3>2. CASE c \notin DOMAIN ops
      <4>1. new[c] = owner[c]
        BY <2>5, <3>2
      <4> QED
        BY <4>1 DEF OwnersCover
    <3> QED
      BY <3>1, <3>2
  <2>8. OwnersCover(panels, new)
    BY <2>7 DEF OwnersCover
  <2> QED
    BY <2>1, <2>6, <2>8
<1> QED
  BY <1>1, <1>2

\* Whatever seams are cut one after the other, the owners have pixels.
LEMMA OwnersAreThere ==
  ASSUME NEW n \in Nat, NEW panels, DOMAIN panels = 1 .. n, Len(panels) = n, NEW masks,
         \A p \in 1 .. n : panels[p].cov \in Coverage, NEW edges, EdgesOf(n, edges)
  PROVE  OwnersCover(panels, compute_owner_map_masked(panels, edges, masks))
<1> DEFINE dists == [p \in DOMAIN panels |-> distance_map(panels[p].cov)]
           m == n * n
           D == 1 .. m
           order == EdgeOrder(n)
           start == voronoi(panels, dists)
           V == {owner \in [Cells -> 0 .. n] : OwnersCover(panels, owner)}
           Next_(owner, pair) == Refined(owner, pair, panels, dists, masks, edges)
           ch == [s \in SUBSET D |-> Max(s)]
           st == [p \in D \X V |-> Next_(p[2], order[p[1]])]
           P(g) == g = [s \in SUBSET D |-> IF s = {} THEN start
                     ELSE Next_(g[s \ {Max(s)}], order[Max(s)])]
<1>1. Charted(panels, n, dists)
  BY DistanceMap DEF Charted
<1>2. m \in Nat /\ DOMAIN order = D
  BY PairsListed
<1>3. start \in V
  <2> HIDE DEF dists
  <2> QED
    BY <1>1, VoronoiCovers
<1>4. ASSUME NEW owner \in V, NEW pair PROVE Next_(owner, pair) \in V
  <2> HIDE DEF dists
  <2> QED
    BY <1>4, SeamKeepsCover
<1>5. compute_owner_map_masked(panels, edges, masks)
        = FoldLeft(LAMBDA owner, pair : Next_(owner, pair), start, order)
  BY DEF compute_owner_map_masked
<1> HIDE DEF m, V, Next_, start, order
<1>6. Choice(D, ch) /\ IsFiniteSet(D) /\ \A s \in SUBSET D : s # {} => Max(s) \in s
  BY <1>2, LastIndex
<1>7. st \in [D \X V -> V]
  BY <1>4
<1>8. PICK g \in [SUBSET D -> V] : Folding(D, start, ch, st, g)
  <2> HIDE DEF ch, st, D
  <2> QED
    BY <1>3, <1>6, <1>7, FoldDefined
<1>9. P(g)
  <2>1. ASSUME NEW s \in SUBSET D, s # {}
        PROVE  st[<<ch[s], g[s \ {ch[s]}]>>] = Next_(g[s \ {Max(s)}], order[Max(s)])
    <3>1. ch[s] = Max(s) /\ Max(s) \in D /\ g[s \ {Max(s)}] \in V
      BY <1>6, <1>8, <2>1
    <3> HIDE DEF ch, D
    <3> QED
      BY <3>1
  <2> DEFINE f == [s \in SUBSET D |-> IF s = {} THEN start
                     ELSE Next_(g[s \ {Max(s)}], order[Max(s)])]
  <2> HIDE DEF ch, st, D
  <2>2. \A s \in SUBSET D : g[s] = f[s]
    BY <1>8, <2>1 DEF Folding
  <2>3. f = [s \in SUBSET D |-> f[s]]
    OBVIOUS
  <2>4. g = [s \in SUBSET D |-> g[s]]
    BY <1>8
  <2>5. g = f
    <3> HIDE DEF f
    <3> QED
      BY <2>2, <2>3, <2>4
  <2> QED
    BY <2>5
<1>10. PICK k : P(k) /\ compute_owner_map_masked(panels, edges, masks) = k[D]
  <2> HIDE DEF ch, st
  <2> QED
    BY <1>2, <1>5, <1>9 DEF FoldLeft, MapThenFoldSet
<1> DEFINE B == {s \in SUBSET D : k[s] \in V}
<1>11. {} \in B
  BY <1>3, <1>10
<1>12. Peels(D, ch, B)
  <2> SUFFICES ASSUME NEW s \in SUBSET D, s # {}, s \ {ch[s]} \in B PROVE s \in B
    BY DEF Peels
  <2>1. ch[s] = Max(s)
    OBVIOUS
  <2>2. k[s] = Next_(k[s \ {Max(s)}], order[Max(s)])
    BY <1>10
  <2> HIDE DEF ch, D
  <2> QED
    BY <1>4, <2>1, <2>2
<1>13. D \in B
  <2> HIDE DEF ch, B, D, P
  <2>1. SUBSET D \subseteq B
    BY <1>6, <1>11, <1>12, Peeling
  <2> QED
    BY <2>1
<1> QED
  BY <1>10, <1>13 DEF V

\* A sum over the numbers up to n, summand after summand.
Running(pre, w, n) ==
  pre[0] = 0 /\ \A t \in 1 .. n : pre[t - 1] \in Int /\ pre[t] = pre[t - 1] + w[t]

\* Summed up that way, it comes to the same.
LEMMA RunningSum ==
  ASSUME NEW n \in Nat, NEW w, AllInt(w, 1 .. n)
  PROVE  \E pre : SumFunctionOnSet(w, 1 .. n) = pre[n] /\ Running(pre, w, n)
<1> DEFINE D == 1 .. n
<1>1. IsFiniteSet(D)
  BY FS_Interval
<1>0. AllInt(w, D)
  OBVIOUS
<1> HIDE DEF D
<1>2. PICK k : SumFunctionOnSet(w, D) = k[D] /\ Adds(k, w, D)
  BY <1>0, <1>1, SumIter
<1>3. \A s \in SUBSET D : k[s] \in Int /\ \A x \in s : k[s] = w[x] + k[s \ {x}]
  BY <1>0, <1>1, <1>2, AnySummand
<1> DEFINE pre == [t \in 0 .. n |-> k[1 .. t]]
<1>4. pre[0] = 0
  <2>1. 1 .. 0 = {} /\ 0 \in 0 .. n
    OBVIOUS
  <2> QED
    BY <1>2, <2>1 DEF Adds
<1>5. ASSUME NEW t \in 1 .. n PROVE pre[t - 1] \in Int /\ pre[t] = pre[t - 1] + w[t]
  <2>1. /\ 1 .. t \in SUBSET D /\ t \in 1 .. t /\ (1 .. t) \ {t} = 1 .. (t - 1)
        /\ t \in 0 .. n /\ t - 1 \in 0 .. n /\ 1 .. (t - 1) \in SUBSET D
    BY DEF D
  <2>2. pre[t] = k[1 .. t] /\ pre[t - 1] = k[1 .. (t - 1)]
    BY <2>1
  <2>3. k[1 .. t] = w[t] + k[1 .. (t - 1)] /\ k[1 .. (t - 1)] \in Int /\ w[t] \in Int
    <3>1. w[t] \in Int
      BY DEF AllInt
    <3> QED
      BY <1>3, <2>1, <3>1
  <2> DEFINE a == k[1 .. t]
             b == k[1 .. (t - 1)]
             c == w[t]
  <2>4. a = c + b /\ b \in Int /\ c \in Int
    BY <2>3
  <2> HIDE DEF a, b, c, pre
  <2>5. a = b + c
    BY <2>4
  <2> QED
    BY <2>2, <2>4, <2>5 DEF a, b, c
<1>6. pre[n] = SumFunctionOnSet(w, 1 .. n)
  <2>1. n \in 0 .. n
    OBVIOUS
  <2> QED
    BY <1>2, <2>1 DEF D
<1> HIDE DEF pre
<1> QED
  BY <1>4, <1>5, <1>6 DEF Running

\* The band of an edge: its lengths, and the cells in it.
IsBand(e) ==
  /\ TLen(e) \in Nat \ {0} /\ SLen(e) \in Nat \ {0}
  /\ \A t \in 0 .. TLen(e) - 1 : \A s \in 0 .. SLen(e) - 1 : CellAt(e, t, s) \in Inside(e.bbox8)

\* The band of an edge of the graph is not empty and lies on the grid.
LEMMA EdgeBand ==
  ASSUME NEW covs, NEW e \in build(covs)
  PROVE  IsBand(e)
<1>1. PICK p \in (DOMAIN covs) \X (DOMAIN covs) :
         /\ e.bbox8 = Box(SharedCells(covs, p[1], p[2]))
         /\ Cardinality(SharedCells(covs, p[1], p[2])) >= MinEdgeCells
  BY DEF build
<1> DEFINE S == SharedCells(covs, p[1], p[2])
           b == e.bbox8
<1>2. S \in SUBSET Cells
  BY DEF SharedCells, Inside
<1>3. S # {}
  BY <1>1, FS_EmptySet, OverlapAssumption
<1> HIDE DEF S
<1>4. OnGrid(b) /\ S \subseteq Inside(b)
  BY <1>1, <1>2, BoxHolds DEF S
<1>5. PICK c \in Cells : b[1] <= c[1] /\ c[1] < b[3] /\ b[2] <= c[2] /\ c[2] < b[4]
  BY <1>3, <1>4 DEF Inside
<1>6. /\ b[1] \in 0 .. W /\ b[2] \in 0 .. H /\ b[3] \in 0 .. W /\ b[4] \in 0 .. H
      /\ W \in Nat /\ H \in Nat /\ c[1] \in Int /\ c[2] \in Int
  BY <1>4, GridAssumption DEF OnGrid, Cells
<1> DEFINE left == b[1]
           low == b[2]
           right == b[3]
           high == b[4]
<1>7. left \in 0 .. W /\ low \in 0 .. H /\ right \in 0 .. W /\ high \in 0 .. H /\ left < right /\ low < high
  <2> DEFINE cx == c[1]
             cy == c[2]
  <2>1. left <= cx /\ cx < right /\ low <= cy /\ cy < high /\ cx \in Int /\ cy \in Int
    BY <1>5, <1>6
  <2>2. left \in 0 .. W /\ low \in 0 .. H /\ right \in 0 .. W /\ high \in 0 .. H
    BY <1>6
  <2> HIDE DEF cx, cy, left, low, right, high
  <2> QED
    BY <1>6, <2>1, <2>2
<1>8. /\ TLen(e) = IF AlongX(e) THEN right - left ELSE high - low
      /\ SLen(e) = IF AlongX(e) THEN high - low ELSE right - left
      /\ \A t, s : CellAt(e, t, s) = IF AlongX(e) THEN <<left + t, low + s>> ELSE <<left + s, low + t>>
  BY DEF TLen, SLen, CellAt
<1>9. \A x \in left .. right - 1 : \A y \in low .. high - 1 : <<x, y>> \in Inside(b)
  <2> TAKE x \in left .. right - 1
  <2> TAKE y \in low .. high - 1
  <2>1. left <= x /\ x < right /\ low <= y /\ y < high /\ x \in 0 .. W - 1 /\ y \in 0 .. H - 1
    <3> HIDE DEF left, right, low, high
    <3> QED
      BY <1>6, <1>7
  <2> QED
    BY <2>1 DEF Inside, Cells
<1> HIDE DEF left, right, low, high
<1>10. TLen(e) \in Nat \ {0} /\ SLen(e) \in Nat \ {0}
  BY <1>6, <1>7, <1>8
<1>11. ASSUME NEW t \in 0 .. TLen(e) - 1, NEW s \in 0 .. SLen(e) - 1
       PROVE  CellAt(e, t, s) \in Inside(b)
  <2>1. CASE AlongX(e)
    <3>1. left + t \in left .. right - 1 /\ low + s \in low .. high - 1
      BY <1>6, <1>7, <1>8, <2>1
    <3> QED
      BY <1>8, <1>9, <2>1, <3>1
  <2>2. CASE ~AlongX(e)
    <3>1. left + s \in left .. right - 1 /\ low + t \in low .. high - 1
      BY <1>6, <1>7, <1>8, <2>2
    <3> QED
      BY <1>8, <1>9, <2>2, <3>1
  <2> QED
    BY <2>1, <2>2
<1> QED
  BY <1>10, <1>11 DEF IsBand

\* Cutting a band anywhere costs a number.
LEMMA CutCosts ==
  ASSUME NEW e, IsBand(e), NEW cost \in [Inside(e.bbox8) -> Int],
         NEW t \in 0 .. TLen(e) - 1, NEW s \in 0 .. SLen(e)
  PROVE  BoundaryCost(cost, e, t, s) \in Int
<1> DEFINE u == IF s > 0 THEN cost[CellAt(e, t, s - 1)] ELSE 0
           v == IF s < SLen(e) THEN cost[CellAt(e, t, s)] ELSE 0
<1>1. u \in Int
  <2>1. s > 0 => s - 1 \in 0 .. SLen(e) - 1
    BY DEF IsBand
  <2>2. s > 0 => CellAt(e, t, s - 1) \in Inside(e.bbox8)
    BY <2>1 DEF IsBand
  <2> QED
    BY <2>2
<1>2. v \in Int
  <2>1. s < SLen(e) => s \in 0 .. SLen(e) - 1
    BY DEF IsBand
  <2>2. s < SLen(e) => CellAt(e, t, s) \in Inside(e.bbox8)
    BY <2>1 DEF IsBand
  <2> QED
    BY <2>2
<1>3. BoundaryCost(cost, e, t, s) = u + v
  BY DEF BoundaryCost
<1> HIDE DEF u, v
<1> QED
  BY <1>1, <1>2, <1>3

\* The columns of a band.
ColumnOf(e) == [0 .. SLen(e) -> [cost : Int, from : 0 .. SLen(e)]]

\* The cheapest of the boundaries next to one is next to it, and none of them is cheaper.
LEMMA CheapestIs ==
  ASSUME NEW e, SLen(e) \in Nat, NEW column \in ColumnOf(e), NEW s \in 0 .. SLen(e)
  PROVE  /\ Cheapest(column, s) \in 0 .. SLen(e) /\ Abs(Cheapest(column, s) - s) <= 1
         /\ \A r \in 0 .. SLen(e) :
              Abs(r - s) <= 1 => column[Cheapest(column, s)].cost <= column[r].cost
<1> DEFINE n == SLen(e)
           c == [r \in 0 .. n |-> column[r].cost]
           low == IF s - 1 \in 0 .. n /\ c[s - 1] < c[s] THEN s - 1 ELSE s
           f == IF s + 1 \in 0 .. n /\ c[s + 1] < c[low] THEN s + 1 ELSE low
<1>1. DOMAIN column = 0 .. n /\ \A r \in 0 .. n : c[r] = column[r].cost /\ c[r] \in Int
  BY DEF ColumnOf
<1>2. f = Cheapest(column, s)
  <2>1. low \in 0 .. n
    OBVIOUS
  <2> HIDE DEF c
  <2>2. low = IF s - 1 \in DOMAIN column /\ column[s - 1].cost < column[s].cost THEN s - 1 ELSE s
    BY <1>1
  <2>3. f = IF s + 1 \in DOMAIN column /\ column[s + 1].cost < column[low].cost THEN s + 1 ELSE low
    <3> HIDE DEF low
    <3> QED
      BY <1>1, <2>1
  <2> QED
    BY <2>2, <2>3 DEF Cheapest
<1> HIDE DEF c
<1>3. f \in 0 .. n /\ f - s \in {-1, 0, 1}
  OBVIOUS
<1>4. ASSUME NEW r \in 0 .. n, r = s - 1 \/ r = s \/ r = s + 1
      PROVE  c[f] <= c[r]
  <2>1. c[s] \in Int /\ (s - 1 \in 0 .. n => c[s - 1] \in Int) /\ (s + 1 \in 0 .. n => c[s + 1] \in Int)
    BY <1>1
  <2>2. c[low] <= c[s] /\ (s - 1 \in 0 .. n => c[low] <= c[s - 1]) /\ c[low] \in Int /\ low \in 0 .. n
    BY <2>1
  <2> HIDE DEF low
  <2>3. c[f] <= c[low] /\ (s + 1 \in 0 .. n => c[f] <= c[s + 1]) /\ c[f] \in Int
    BY <2>1, <2>2
  <2> HIDE DEF f
  <2> QED
    BY <1>4, <2>1, <2>2, <2>3
<1> HIDE DEF f
<1>5. Abs(f - s) <= 1
  BY <1>3 DEF Abs
<1>6. ASSUME NEW r \in 0 .. n, Abs(r - s) <= 1 PROVE c[f] <= c[r]
  <2>1. r = s - 1 \/ r = s \/ r = s + 1
    BY <1>6 DEF Abs
  <2> QED
    BY <1>4, <2>1
<1> QED
  BY <1>1, <1>2, <1>3, <1>5, <1>6

\* Of the first boundary there is a column, and of every later one after it.
LEMMA ColumnsTyped ==
  ASSUME NEW e, IsBand(e), NEW cost \in [Inside(e.bbox8) -> Int]
  PROVE  /\ FirstColumn(cost, e) \in ColumnOf(e)
         /\ \A t \in 0 .. TLen(e) - 1 : \A prev \in ColumnOf(e) :
              NextColumn(cost, e, t, prev) \in ColumnOf(e)
<1>1. SLen(e) \in Nat /\ 0 \in 0 .. TLen(e) - 1
  BY DEF IsBand
<1>2. FirstColumn(cost, e) \in ColumnOf(e)
  <2>1. \A s \in 0 .. SLen(e) : BoundaryCost(cost, e, 0, s) \in Int
    BY <1>1, CutCosts
  <2> QED
    BY <2>1 DEF FirstColumn, ColumnOf
<1>3. ASSUME NEW t \in 0 .. TLen(e) - 1, NEW prev \in ColumnOf(e)
      PROVE  NextColumn(cost, e, t, prev) \in ColumnOf(e)
  <2>1. ASSUME NEW s \in 0 .. SLen(e)
        PROVE  /\ Cheapest(prev, s) \in 0 .. SLen(e)
               /\ prev[Cheapest(prev, s)].cost + BoundaryCost(cost, e, t, s) \in Int
    <3>1. BoundaryCost(cost, e, t, s) \in Int
      BY CutCosts
    <3>2. Cheapest(prev, s) \in 0 .. SLen(e)
      BY <1>1, CheapestIs
    <3>3. prev[Cheapest(prev, s)].cost \in Int
      BY <3>2 DEF ColumnOf
    <3> QED
      BY <3>1, <3>2, <3>3
  <2> QED
    BY <2>1 DEF NextColumn, ColumnOf
<1> QED
  BY <1>2, <1>3

\* Columns one after the other.
Chained(cols, cost, e, m) ==
  /\ cols \in Seq(ColumnOf(e)) /\ Len(cols) = m + 1
  /\ cols[1] = FirstColumn(cost, e)
  /\ \A t \in 1 .. m : cols[t + 1] = NextColumn(cost, e, t, cols[t])

\* One more column.
LEMMA ChainedNext ==
  ASSUME NEW e, IsBand(e), NEW cost \in [Inside(e.bbox8) -> Int],
         NEW m \in 1 .. TLen(e) - 1, NEW cols, Chained(cols, cost, e, m - 1)
  PROVE  Chained(Append(cols, NextColumn(cost, e, m, cols[Len(cols)])), cost, e, m)
<1> DEFINE new == NextColumn(cost, e, m, cols[Len(cols)])
           longer == Append(cols, new)
<1>1. cols \in Seq(ColumnOf(e)) /\ Len(cols) = m /\ m \in Nat \ {0}
  BY DEF Chained, IsBand
<1>2. new \in ColumnOf(e)
  <2>1. cols[Len(cols)] \in ColumnOf(e)
    BY <1>1
  <2>2. m \in 0 .. TLen(e) - 1
    BY DEF IsBand
  <2> HIDE DEF new
  <2> QED
    BY <2>1, <2>2, ColumnsTyped DEF new
<1>3. new = NextColumn(cost, e, m, cols[m])
  BY <1>1
<1> HIDE DEF new
<1>4. /\ longer \in Seq(ColumnOf(e)) /\ Len(longer) = m + 1 /\ longer[m + 1] = new
      /\ \A t \in 1 .. m : longer[t] = cols[t]
  BY <1>1, <1>2
<1> HIDE DEF longer
<1>5. longer[1] = FirstColumn(cost, e)
  BY <1>1, <1>4 DEF Chained
<1>6. ASSUME NEW t \in 1 .. m PROVE longer[t + 1] = NextColumn(cost, e, t, longer[t])
  <2>1. CASE t = m
    BY <1>3, <1>4, <2>1
  <2>2. CASE t # m
    <3>1. t \in 1 .. m - 1 /\ t + 1 \in 1 .. m
      BY <1>1, <2>2
    <3> QED
      BY <1>4, <3>1 DEF Chained
  <2> QED
    BY <2>1, <2>2
<1>7. Chained(longer, cost, e, m)
  BY <1>4, <1>5, <1>6 DEF Chained
<1> QED
  BY <1>7 DEF longer, new

\* The dynamic program makes one column for each step along the band.
LEMMA ColumnsAre ==
  ASSUME NEW e, IsBand(e), NEW cost \in [Inside(e.bbox8) -> Int]
  PROVE  Chained(Columns(cost, e), cost, e, TLen(e) - 1)
<1> DEFINE m == TLen(e) - 1
           D == 1 .. m
           order == [i \in 1 .. m |-> i]
           first == FirstColumn(cost, e)
           start == <<first>>
           V == {cols \in Seq(ColumnOf(e)) : Len(cols) # 0}
           Next_(cols, t) == Append(cols, NextColumn(cost, e, t, cols[Len(cols)]))
           ch == [s \in SUBSET D |-> Max(s)]
           st == [p \in D \X V |-> Next_(p[2], order[p[1]])]
           P(g) == g = [s \in SUBSET D |-> IF s = {} THEN start
                     ELSE Next_(g[s \ {Max(s)}], order[Max(s)])]
<1>1. m \in Nat
  BY DEF IsBand
<1>2. start \in V
  <2>1. first \in ColumnOf(e)
    BY ColumnsTyped
  <2> HIDE DEF first
  <2> QED
    BY <2>1
<1>3. ASSUME NEW cols \in V, NEW t \in D PROVE Next_(cols, t) \in V
  <2>1. cols[Len(cols)] \in ColumnOf(e)
    OBVIOUS
  <2>2. t \in 0 .. TLen(e) - 1
    BY DEF IsBand
  <2>3. NextColumn(cost, e, t, cols[Len(cols)]) \in ColumnOf(e)
    BY <2>1, <2>2, ColumnsTyped
  <2> QED
    BY <2>3
<1>4. Columns(cost, e) = FoldLeft(LAMBDA cols, t : Next_(cols, t), start, order)
  BY DEF Columns
<1>5. DOMAIN order = D /\ \A i \in D : order[i] = i
  OBVIOUS
<1>6. Chained(start, cost, e, 0)
  <2>1. first \in ColumnOf(e)
    BY ColumnsTyped
  <2>2. first = FirstColumn(cost, e)
    OBVIOUS
  <2> HIDE DEF first
  <2> QED
    BY <2>1, <2>2 DEF Chained
<1>7. ASSUME NEW i \in 1 .. m, NEW cols, Chained(cols, cost, e, i - 1)
      PROVE  Chained(Next_(cols, i), cost, e, i)
  BY <1>7, ChainedNext
<1> HIDE DEF m, V, Next_, start, order
<1>8. Choice(D, ch) /\ IsFiniteSet(D) /\ \A s \in SUBSET D : s # {} => Max(s) \in s
  BY <1>1, LastIndex
<1>9. st \in [D \X V -> V]
  BY <1>3, <1>5
<1>10. PICK g \in [SUBSET D -> V] : Folding(D, start, ch, st, g)
  <2> HIDE DEF ch, st, D
  <2> QED
    BY <1>2, <1>8, <1>9, FoldDefined
<1>11. P(g)
  <2>1. ASSUME NEW s \in SUBSET D, s # {}
        PROVE  st[<<ch[s], g[s \ {ch[s]}]>>] = Next_(g[s \ {Max(s)}], order[Max(s)])
    <3>1. ch[s] = Max(s) /\ Max(s) \in D /\ g[s \ {Max(s)}] \in V
      BY <1>8, <1>10, <2>1
    <3> HIDE DEF ch, D
    <3> QED
      BY <3>1
  <2> DEFINE f == [s \in SUBSET D |-> IF s = {} THEN start
                     ELSE Next_(g[s \ {Max(s)}], order[Max(s)])]
  <2> HIDE DEF ch, st, D
  <2>2. \A s \in SUBSET D : g[s] = f[s]
    BY <1>10, <2>1 DEF Folding
  <2>3. f = [s \in SUBSET D |-> f[s]]
    OBVIOUS
  <2>4. g = [s \in SUBSET D |-> g[s]]
    BY <1>10
  <2>5. g = f
    <3> HIDE DEF f
    <3> QED
      BY <2>2, <2>3, <2>4
  <2> QED
    BY <2>5
<1>12. PICK k : P(k) /\ Columns(cost, e) = k[D]
  <2> HIDE DEF ch, st
  <2> QED
    BY <1>4, <1>5, <1>11, ZenonT(60) DEF FoldLeft, MapThenFoldSet
<1> DEFINE B == {i \in Nat : i <= m => Chained(k[1 .. i], cost, e, i)}
<1>13. 0 \in B
  <2>1. 1 .. 0 = {} /\ {} \in SUBSET D
    OBVIOUS
  <2>2. k[1 .. 0] = start
    BY <1>12, <2>1
  <2> QED
    BY <1>6, <2>2
<1>14. ASSUME NEW i \in Nat, i \in B PROVE i + 1 \in B
  <2> SUFFICES ASSUME i + 1 <= m PROVE Chained(k[1 .. (i + 1)], cost, e, i + 1)
    OBVIOUS
  <2> DEFINE j == i + 1
  <2>1. j \in 1 .. m /\ j \in 0 .. m /\ j > 0 /\ j # 0 /\ j - 1 = i /\ i <= m
    BY <1>1
  <2>2. Chained(k[1 .. i], cost, e, i)
    BY <1>14, <2>1
  <2> HIDE DEF j
  <2>3. 1 .. j \in SUBSET D /\ 1 .. j # {} /\ Max(1 .. j) = j /\ (1 .. j) \ {j} = 1 .. (j - 1)
    <3>1. PrefixOf(m, j)
      BY <1>1, <2>1, PrefixesOf
    <3> QED
      BY <2>1, <3>1 DEF PrefixOf
  <2>4. k[1 .. j] = Next_(k[(1 .. j) \ {Max(1 .. j)}], order[Max(1 .. j)])
    BY <1>12, <2>3
  <2>5. order[j] = j
    BY <1>5, <2>1
  <2>6. k[1 .. j] = Next_(k[1 .. (j - 1)], j)
    BY <2>3, <2>4, <2>5
  <2>7. Chained(k[1 .. j], cost, e, j)
    BY <1>7, <2>1, <2>2, <2>6
  <2> QED
    BY <2>7 DEF j
<1>15. Chained(k[1 .. m], cost, e, m)
  <2> HIDE DEF B
  <2>1. Nat \subseteq B
    BY <1>13, <1>14, Counting
  <2>2. m \in B
    BY <1>1, <2>1
  <2> QED
    BY <1>1, <2>2 DEF B
<1> HIDE DEF P
<1> QED
  BY <1>12, <1>15 DEF m

\* A way back through the columns that ends at last, of i steps.
GoesBack(path, cols, last, top, n, i) ==
  /\ path \in Seq(0 .. n) /\ Len(path) = i + 1 /\ path[i + 1] = last
  /\ \A j \in 1 .. i : path[j] = cols[top - i + j][path[j + 1]].from

\* One more step back.
LEMMA GoesBackNext ==
  ASSUME NEW n \in Nat, NEW e, SLen(e) = n, NEW top \in Nat, NEW cols, cols \in Seq(ColumnOf(e)), Len(cols) = top,
         NEW last, NEW i \in 1 .. top - 1, NEW path, GoesBack(path, cols, last, top, n, i - 1)
  PROVE  GoesBack(<<cols[top - i + 1][path[1]].from>> \o path, cols, last, top, n, i)
<1> DEFINE x == cols[top - i + 1][path[1]].from
           new == <<x>> \o path
<1>1. path \in Seq(0 .. n) /\ Len(path) = i /\ i \in Nat \ {0} /\ path[i] = last
  BY DEF GoesBack
<1>2. x \in 0 .. n
  <2>1. path[1] \in 0 .. n
    BY <1>1
  <2>2. top - i + 1 \in 1 .. top
    OBVIOUS
  <2>3. cols[top - i + 1] \in ColumnOf(e)
    BY <2>2
  <2> QED
    BY <2>1, <2>3 DEF ColumnOf
<1> HIDE DEF x
<1>3. /\ new \in Seq(0 .. n) /\ Len(new) = i + 1 /\ new[1] = x
      /\ \A j \in 1 .. i : new[j + 1] = path[j]
  BY <1>1, <1>2
<1> HIDE DEF new
<1>4. new[i + 1] = last
  BY <1>1, <1>3
<1>5. ASSUME NEW j \in 1 .. i PROVE new[j] = cols[top - i + j][new[j + 1]].from
  <2>1. CASE j = 1
    BY <1>1, <1>3, <2>1 DEF x
  <2>2. CASE j # 1
    <3> DEFINE l == j - 1
    <3>1. l \in 1 .. i - 1 /\ l + 1 = j /\ l \in 1 .. i /\ top - (i - 1) + l = top - i + j
      BY <1>1, <2>2
    <3> HIDE DEF l
    <3>2. path[l] = cols[top - (i - 1) + l][path[l + 1]].from
      BY <3>1 DEF GoesBack
    <3>3. new[j] = path[l] /\ new[j + 1] = path[j]
      BY <1>3, <3>1
    <3> QED
      BY <3>1, <3>2, <3>3
  <2> QED
    BY <2>1, <2>2
<1>6. GoesBack(new, cols, last, top, n, i)
  BY <1>3, <1>4, <1>5 DEF GoesBack
<1> QED
  BY <1>6 DEF new, x

\* The cheapest boundary of the last column, the first of equals.
CheapestEnd(end, s) ==
  \A r \in DOMAIN end : end[s].cost < end[r].cost \/ (end[s].cost = end[r].cost /\ s <= r)

\* There is one.
LEMMA EndExists ==
  ASSUME NEW e, SLen(e) \in Nat, NEW end \in ColumnOf(e)
  PROVE  \E s \in DOMAIN end : CheapestEnd(end, s)
<1> DEFINE S == 0 .. SLen(e)
           f == [s \in S |-> end[s].cost]
           I == {f[s] : s \in S}
<1>1. DOMAIN end = S /\ S \in SUBSET Nat /\ 0 \in S /\ \A s \in S : f[s] = end[s].cost /\ f[s] \in Int
  BY DEF ColumnOf
<1>2. IsFiniteSet(S) /\ DOMAIN f = S
  BY FS_Interval
<1> HIDE DEF S, f
<1>3. IsFiniteSet(I) /\ I \in SUBSET Int /\ I # {}
  BY <1>1, <1>2, ImageFinite
<1>4. PICK m \in S : \A r \in S : f[m] <= f[r]
  <2>1. Min(I) \in I /\ \A y \in I : Min(I) <= y
    <3> HIDE DEF I
    <3> QED
      BY <1>3, FiniteExtremes
  <2> QED
    BY <2>1
<1> DEFINE T == {s \in S : f[s] = f[m]}
<1>5. T \in SUBSET Nat /\ T # {}
  <2>1. m \in T /\ T \subseteq S
    OBVIOUS
  <2> HIDE DEF T
  <2> QED
    BY <1>1, <2>1
<1>6. PICK t \in T : \A r \in T : t <= r
  <2> HIDE DEF T
  <2> QED
    BY <1>5, LeastNatural
<1>7. t \in S /\ f[t] = f[m]
  OBVIOUS
<1>8. \A r \in S : f[t] < f[r] \/ (f[t] = f[r] /\ t <= r)
  <2> TAKE r \in S
  <2>1. f[t] <= f[r] /\ f[t] \in Int /\ f[r] \in Int
    BY <1>1, <1>4, <1>7
  <2>2. f[r] = f[t] => t <= r
    BY <1>6, <1>7
  <2> QED
    BY <2>1, <2>2
<1> HIDE DEF T
<1>9. CheapestEnd(end, t)
  <2>1. \A r \in S : end[t].cost < end[r].cost \/ (end[t].cost = end[r].cost /\ t <= r)
    BY <1>1, <1>7, <1>8
  <2> QED
    BY <1>1, <2>1 DEF CheapestEnd
<1> QED
  BY <1>1, <1>7, <1>9

\* The seam of a band goes back from the cheapest end of its columns.
LEMMA PathIs ==
  ASSUME NEW e, IsBand(e), NEW cost \in [Inside(e.bbox8) -> Int]
  PROVE  \E last \in 0 .. SLen(e) :
           /\ CheapestEnd(Columns(cost, e)[TLen(e)], last)
           /\ GoesBack(SeamPath(cost, e), Columns(cost, e), last, TLen(e), SLen(e), TLen(e) - 1)
<1> DEFINE m == TLen(e) - 1
           n == SLen(e)
           top == TLen(e)
           D == 1 .. m
           order == [i \in 1 .. m |-> top - i]
           cols == Columns(cost, e)
           end == cols[top]
           last == CHOOSE s \in DOMAIN end : \A r \in DOMAIN end :
                    end[s].cost < end[r].cost \/ (end[s].cost = end[r].cost /\ s <= r)
           start == <<last>>
           V == {path \in Seq(0 .. n) : Len(path) # 0}
           Next_(path, t) == <<cols[t + 1][path[1]].from>> \o path
           ch == [s \in SUBSET D |-> Max(s)]
           st == [p \in D \X V |-> Next_(p[2], order[p[1]])]
           P(g) == g = [s \in SUBSET D |-> IF s = {} THEN start
                     ELSE Next_(g[s \ {Max(s)}], order[Max(s)])]
<1>1. m \in Nat /\ n \in Nat /\ top \in Nat /\ top = m + 1
  BY DEF IsBand
<1>2. cols \in Seq(ColumnOf(e)) /\ Len(cols) = top
  <2>1. Chained(cols, cost, e, m)
    BY ColumnsAre
  <2> HIDE DEF cols, m, top
  <2> QED
    BY <1>1, <2>1 DEF Chained
<1>3. SeamPath(cost, e) = FoldLeft(LAMBDA path, t : Next_(path, t), start, order)
  BY DEF SeamPath
<1> HIDE DEF cols
<1>4. end \in ColumnOf(e)
  BY <1>1, <1>2
<1>5. last \in 0 .. n /\ CheapestEnd(end, last)
  <2>1. DOMAIN end = 0 .. n
    BY <1>4 DEF ColumnOf
  <2> HIDE DEF end
  <2>2. \E s \in DOMAIN end : CheapestEnd(end, s)
    BY <1>1, <1>4, EndExists
  <2>3. last = CHOOSE s \in DOMAIN end : CheapestEnd(end, s)
    BY DEF CheapestEnd
  <2> HIDE DEF last
  <2> QED
    BY <2>1, <2>2, <2>3
<1> HIDE DEF last
<1>6. start \in V /\ GoesBack(start, cols, last, top, n, 0)
  BY <1>5 DEF GoesBack
<1>7. DOMAIN order = D /\ \A i \in D : order[i] = top - i
  OBVIOUS
<1>8. ASSUME NEW path \in V, NEW i \in D PROVE Next_(path, top - i) \in V
  <2>1. path[1] \in 0 .. n
    <3>1. path \in Seq(0 .. n) /\ Len(path) # 0
      OBVIOUS
    <3>2. \A S : \A p \in Seq(S) : Len(p) # 0 => p[1] \in S
      OBVIOUS
    <3> HIDE DEF n, V
    <3> QED
      BY <3>1, <3>2
  <2>2. top - i + 1 \in 1 .. top
    BY <1>1
  <2>3. cols[top - i + 1] \in ColumnOf(e)
    BY <1>2, <2>2
  <2> DEFINE x == cols[top - i + 1][path[1]].from
  <2>4. x \in 0 .. n
    BY <2>1, <2>3 DEF ColumnOf
  <2> HIDE DEF x
  <2>5. <<x>> \o path \in V
    BY <2>4
  <2> QED
    BY <2>5 DEF x
<1>9. ASSUME NEW i \in 1 .. m, NEW path, GoesBack(path, cols, last, top, n, i - 1)
      PROVE  GoesBack(Next_(path, top - i), cols, last, top, n, i)
  <2>1. i \in 1 .. top - 1
    BY <1>1
  <2> HIDE DEF m, top
  <2>2. GoesBack(<<cols[top - i + 1][path[1]].from>> \o path, cols, last, top, n, i)
    BY <1>1, <1>2, <1>9, <2>1, GoesBackNext
  <2> QED
    BY <2>2
<1> HIDE DEF m, n, top, V, Next_, start, order
<1>10. Choice(D, ch) /\ IsFiniteSet(D) /\ \A s \in SUBSET D : s # {} => Max(s) \in s
  BY <1>1, LastIndex
<1>11. st \in [D \X V -> V]
  BY <1>7, <1>8
<1>12. PICK g \in [SUBSET D -> V] : Folding(D, start, ch, st, g)
  <2> HIDE DEF ch, st, D
  <2> QED
    BY <1>6, <1>10, <1>11, FoldDefined
<1>13. P(g)
  <2>1. ASSUME NEW s \in SUBSET D, s # {}
        PROVE  st[<<ch[s], g[s \ {ch[s]}]>>] = Next_(g[s \ {Max(s)}], order[Max(s)])
    <3>1. ch[s] = Max(s) /\ Max(s) \in D /\ g[s \ {Max(s)}] \in V
      BY <1>10, <1>12, <2>1
    <3> HIDE DEF ch, D
    <3> QED
      BY <3>1
  <2> DEFINE f == [s \in SUBSET D |-> IF s = {} THEN start
                     ELSE Next_(g[s \ {Max(s)}], order[Max(s)])]
  <2> HIDE DEF ch, st, D
  <2>2. \A s \in SUBSET D : g[s] = f[s]
    BY <1>12, <2>1 DEF Folding
  <2>3. f = [s \in SUBSET D |-> f[s]]
    OBVIOUS
  <2>4. g = [s \in SUBSET D |-> g[s]]
    BY <1>12
  <2>5. g = f
    <3> HIDE DEF f
    <3> QED
      BY <2>2, <2>3, <2>4
  <2> QED
    BY <2>5
<1>14. PICK k : P(k) /\ SeamPath(cost, e) = k[D]
  <2> HIDE DEF ch, st
  <2> QED
    BY <1>3, <1>7, <1>13, ZenonT(60) DEF FoldLeft, MapThenFoldSet
<1> DEFINE B == {i \in Nat : i <= m => GoesBack(k[1 .. i], cols, last, top, n, i)}
<1>15. 0 \in B
  <2>1. 1 .. 0 = {} /\ {} \in SUBSET D
    OBVIOUS
  <2>2. k[1 .. 0] = start
    BY <1>14, <2>1
  <2> QED
    BY <1>6, <2>2
<1>16. ASSUME NEW i \in Nat, i \in B PROVE i + 1 \in B
  <2> SUFFICES ASSUME i + 1 <= m PROVE GoesBack(k[1 .. (i + 1)], cols, last, top, n, i + 1)
    OBVIOUS
  <2> DEFINE j == i + 1
  <2>1. j \in 1 .. m /\ j \in 0 .. m /\ j > 0 /\ j # 0 /\ j - 1 = i /\ i <= m
    BY <1>1
  <2>2. GoesBack(k[1 .. i], cols, last, top, n, i)
    BY <1>16, <2>1
  <2> HIDE DEF j
  <2>3. 1 .. j \in SUBSET D /\ 1 .. j # {} /\ Max(1 .. j) = j /\ (1 .. j) \ {j} = 1 .. (j - 1)
    <3>1. PrefixOf(m, j)
      BY <1>1, <2>1, PrefixesOf
    <3> QED
      BY <2>1, <3>1 DEF PrefixOf
  <2>4. k[1 .. j] = Next_(k[(1 .. j) \ {Max(1 .. j)}], order[Max(1 .. j)])
    BY <1>14, <2>3
  <2>5. order[j] = top - j
    BY <1>7, <2>1
  <2>6. k[1 .. j] = Next_(k[1 .. (j - 1)], top - j)
    BY <2>3, <2>4, <2>5
  <2>7. GoesBack(k[1 .. j], cols, last, top, n, j)
    BY <1>9, <2>1, <2>2, <2>6
  <2> QED
    BY <2>7 DEF j
<1>17. GoesBack(k[1 .. m], cols, last, top, n, m)
  <2> HIDE DEF B
  <2>1. Nat \subseteq B
    BY <1>15, <1>16, Counting
  <2>2. m \in B
    BY <1>1, <2>1
  <2> QED
    BY <1>1, <2>2 DEF B
<1> HIDE DEF P
<1>18. GoesBack(SeamPath(cost, e), cols, last, top, n, m)
  BY <1>14, <1>17
<1> QED
  BY <1>5, <1>18 DEF cols, m, n, top

\* What the boundaries along a path cost, and the sum up to each of them.
CutsOf(cost, e, path) == [t \in 1 .. TLen(e) |-> BoundaryCost(cost, e, t - 1, path[t])]
Along(pre, cost, e, path) == Running(pre, CutsOf(cost, e, path), TLen(e))

\* The cost of a path is such a sum, boundary after boundary.
LEMMA PathSum ==
  ASSUME NEW e, IsBand(e), NEW cost \in [Inside(e.bbox8) -> Int],
         NEW path \in [1 .. TLen(e) -> 0 .. SLen(e)]
  PROVE  /\ \E pre : PathCost(cost, e, path) = pre[TLen(e)] /\ Along(pre, cost, e, path)
         /\ \A t \in 1 .. TLen(e) : CutsOf(cost, e, path)[t] \in Int
<1> DEFINE n == TLen(e)
           w == CutsOf(cost, e, path)
<1>1. n \in Nat
  BY DEF IsBand
<1>2. ASSUME NEW t \in 1 .. n PROVE w[t] \in Int
  <2>1. t - 1 \in 0 .. n - 1 /\ path[t] \in 0 .. SLen(e)
    BY <1>1
  <2>2. BoundaryCost(cost, e, t - 1, path[t]) \in Int
    BY <2>1, CutCosts
  <2> QED
    BY <2>2 DEF CutsOf
<1>3. PathCost(cost, e, path) = SumFunctionOnSet(w, 1 .. n)
  BY DEF PathCost, CostIn, CutsOf
<1> HIDE DEF n, w
<1>4. AllInt(w, 1 .. n)
  BY <1>2 DEF AllInt
<1>5. \E pre : SumFunctionOnSet(w, 1 .. n) = pre[n] /\ Running(pre, w, n)
  BY <1>1, <1>4, RunningSum
<1> QED
  BY <1>2, <1>3, <1>5 DEF Along, n, w

\* What a column adds to the one before.
LEMMA ColumnAfter ==
  ASSUME NEW e, IsBand(e), NEW cost \in [Inside(e.bbox8) -> Int],
         NEW cols, Chained(cols, cost, e, TLen(e) - 1)
  PROVE  /\ \A t \in 1 .. TLen(e) : cols[t] \in ColumnOf(e)
         /\ \A s \in 0 .. SLen(e) : cols[1][s].cost = BoundaryCost(cost, e, 0, s)
         /\ \A t \in 1 .. TLen(e) - 1 : \A s \in 0 .. SLen(e) :
              /\ cols[t + 1][s].from = Cheapest(cols[t], s)
              /\ cols[t + 1][s].cost
                   = cols[t][Cheapest(cols[t], s)].cost + BoundaryCost(cost, e, t, s)
<1>1. cols \in Seq(ColumnOf(e)) /\ Len(cols) = TLen(e) /\ TLen(e) \in Nat
  BY DEF Chained, IsBand
<1>2. \A t \in 1 .. TLen(e) : cols[t] \in ColumnOf(e)
  BY <1>1
<1>3. \A s \in 0 .. SLen(e) : cols[1][s].cost = BoundaryCost(cost, e, 0, s)
  BY DEF Chained, FirstColumn
<1>4. ASSUME NEW t \in 1 .. TLen(e) - 1, NEW s \in 0 .. SLen(e)
      PROVE  /\ cols[t + 1][s].from = Cheapest(cols[t], s)
             /\ cols[t + 1][s].cost
                  = cols[t][Cheapest(cols[t], s)].cost + BoundaryCost(cost, e, t, s)
  <2>1. cols[t + 1] = NextColumn(cost, e, t, cols[t])
    BY DEF Chained
  <2> QED
    BY <2>1 DEF NextColumn
<1> QED
  BY <1>2, <1>3, <1>4

\* No path comes to a boundary for less than its column says.
LEMMA NoneBelow ==
  ASSUME NEW e, IsBand(e), NEW cost \in [Inside(e.bbox8) -> Int],
         NEW cols, Chained(cols, cost, e, TLen(e) - 1),
         NEW path \in Paths(e), NEW pre, Along(pre, cost, e, path)
  PROVE  \A t \in 1 .. TLen(e) : cols[t][path[t]].cost <= pre[t]
<1> DEFINE n == TLen(e)
           w == CutsOf(cost, e, path)
           B == {t \in Nat : t + 1 \in 1 .. n => cols[t + 1][path[t + 1]].cost <= pre[t + 1]}
<1>0. n \in Nat \ {0} /\ SLen(e) \in Nat
  BY DEF IsBand
<1>1. path \in [1 .. n -> 0 .. SLen(e)] /\ \A t \in 2 .. n : Abs(path[t] - path[t - 1]) <= 1
  BY DEF Paths
<1>2. \A t \in 1 .. n : w[t] = BoundaryCost(cost, e, t - 1, path[t]) /\ w[t] \in Int
  BY <1>1, PathSum DEF CutsOf
<1>3. pre[0] = 0 /\ \A t \in 1 .. n : pre[t - 1] \in Int /\ pre[t] = pre[t - 1] + w[t]
  BY DEF Along, Running
<1> HIDE DEF n, w
<1>4. 0 \in B
  <2>1. 1 \in 1 .. n /\ 1 - 1 = 0 /\ 0 + 1 = 1
    BY <1>0
  <2>2. cols[1][path[1]].cost = w[1] /\ w[1] \in Int
    BY <1>1, <1>2, <2>1, ColumnAfter
  <2>3. pre[1] = w[1]
    BY <1>2, <1>3, <2>1
  <2>4. cols[0 + 1][path[0 + 1]].cost <= pre[0 + 1]
    BY <2>1, <2>2, <2>3
  <2> QED
    BY <2>4
<1>5. ASSUME NEW i \in Nat, i \in B PROVE i + 1 \in B
  <2> DEFINE t == i + 1
             s == path[t + 1]
             f == Cheapest(cols[t], s)
  <2> SUFFICES ASSUME t + 1 \in 1 .. n PROVE cols[t + 1][s].cost <= pre[t + 1]
    BY DEF t
  <2>1. t \in 1 .. n /\ t \in 1 .. n - 1 /\ t + 1 \in 2 .. n /\ t + 1 \in 1 .. n /\ (t + 1) - 1 = t
    BY <1>0
  <2>2. cols[t][path[t]].cost <= pre[t]
    BY <1>5, <2>1
  <2> HIDE DEF t
  <2>3. path[t] \in 0 .. SLen(e) /\ s \in 0 .. SLen(e)
    BY <1>1, <2>1
  <2>4. Abs(path[t] - s) <= 1
    <3>1. Abs(s - path[t]) <= 1
      BY <1>1, <2>1
    <3> HIDE DEF s
    <3> QED
      BY <1>0, <2>3, <3>1 DEF Abs
  <2>5. /\ cols[t] \in ColumnOf(e)
        /\ cols[t + 1][s].cost = cols[t][f].cost + BoundaryCost(cost, e, t, s)
    <3> HIDE DEF s
    <3> QED
      BY <2>1, <2>3, ColumnAfter DEF n
  <2>6. w[t + 1] = BoundaryCost(cost, e, t, s)
    BY <1>2, <2>1
  <2> HIDE DEF s
  <2>7. f \in 0 .. SLen(e) /\ cols[t][f].cost <= cols[t][path[t]].cost
    BY <1>0, <2>3, <2>4, <2>5, CheapestIs
  <2>8. cols[t][f].cost \in Int /\ cols[t][path[t]].cost \in Int
    BY <2>3, <2>5, <2>7 DEF ColumnOf
  <2>9. pre[t] \in Int /\ pre[t + 1] = pre[t] + w[t + 1] /\ w[t + 1] \in Int
    BY <1>2, <1>3, <2>1
  <2> DEFINE a == cols[t][f].cost
             b == cols[t][path[t]].cost
             c == pre[t]
             d == w[t + 1]
             x == cols[t + 1][s].cost
             y == pre[t + 1]
  <2>10. x = a + d /\ a <= b /\ b <= c /\ y = c + d /\ a \in Int /\ b \in Int /\ c \in Int /\ d \in Int
    BY <2>2, <2>5, <2>6, <2>7, <2>8, <2>9
  <2> HIDE DEF a, b, c, d, x, y
  <2>11. x <= y
    BY <2>10
  <2> QED
    BY <2>11 DEF x, y
<1>6. Nat \subseteq B
  <2> HIDE DEF B
  <2> QED
    BY <1>4, <1>5, Counting
<1>7. ASSUME NEW t \in 1 .. n PROVE cols[t][path[t]].cost <= pre[t]
  <2>1. t - 1 \in Nat /\ (t - 1) + 1 = t
    BY <1>0
  <2>2. t - 1 \in B
    <3> HIDE DEF B
    <3> QED
      BY <1>6, <2>1
  <2> QED
    BY <2>1, <2>2
<1> QED
  BY <1>7 DEF n

\* The way back is a path, and costs what the last column says.
LEMMA WayBackCosts ==
  ASSUME NEW e, IsBand(e), NEW cost \in [Inside(e.bbox8) -> Int],
         NEW cols, Chained(cols, cost, e, TLen(e) - 1), NEW last,
         NEW path, GoesBack(path, cols, last, TLen(e), SLen(e), TLen(e) - 1)
  PROVE  /\ path \in Paths(e) /\ path[TLen(e)] = last
         /\ \A pre : Along(pre, cost, e, path) =>
              \A t \in 1 .. TLen(e) : cols[t][path[t]].cost = pre[t]
<1> DEFINE n == TLen(e)
           w == CutsOf(cost, e, path)
<1>0. n \in Nat \ {0} /\ SLen(e) \in Nat
  BY DEF IsBand
<1>1. path \in [1 .. n -> 0 .. SLen(e)] /\ path[n] = last
  BY <1>0 DEF GoesBack
<1>2. ASSUME NEW t \in 1 .. n - 1
      PROVE  path[t] = Cheapest(cols[t], path[t + 1])
  <2>1. path[t] = cols[n - (n - 1) + t][path[t + 1]].from
    BY DEF GoesBack
  <2>2. n - (n - 1) + t = t + 1 /\ t + 1 \in 1 .. n
    BY <1>0
  <2>3. path[t + 1] \in 0 .. SLen(e)
    BY <1>1, <2>2
  <2>4. cols[t + 1][path[t + 1]].from = Cheapest(cols[t], path[t + 1])
    BY <2>3, ColumnAfter
  <2> QED
    BY <2>1, <2>2, <2>4
<1>3. ASSUME NEW t \in 2 .. n PROVE Abs(path[t] - path[t - 1]) <= 1
  <2> DEFINE l == t - 1
             s == path[t]
             f == Cheapest(cols[l], s)
  <2>1. l \in 1 .. n - 1 /\ l + 1 = t /\ t \in 1 .. n /\ l \in 1 .. n
    BY <1>0
  <2>2. path[l] = f
    BY <1>2, <2>1
  <2>3. s \in 0 .. SLen(e) /\ cols[l] \in ColumnOf(e)
    BY <1>1, <2>1, ColumnAfter
  <2> HIDE DEF s, l
  <2>4. f \in 0 .. SLen(e) /\ Abs(f - s) <= 1
    BY <1>0, <2>3, CheapestIs
  <2> HIDE DEF f
  <2>5. Abs(s - f) <= 1
    BY <1>0, <2>3, <2>4 DEF Abs
  <2> QED
    BY <2>2, <2>5 DEF s, l
<1>4. path \in Paths(e)
  BY <1>1, <1>3 DEF Paths
<1>5. ASSUME NEW pre, Along(pre, cost, e, path)
      PROVE  \A t \in 1 .. n : cols[t][path[t]].cost = pre[t]
  <2> DEFINE B == {i \in Nat : i + 1 \in 1 .. n => cols[i + 1][path[i + 1]].cost = pre[i + 1]}
  <2>1. \A t \in 1 .. n : w[t] = BoundaryCost(cost, e, t - 1, path[t]) /\ w[t] \in Int
    BY <1>1, PathSum DEF CutsOf
  <2>2. pre[0] = 0 /\ \A t \in 1 .. n : pre[t - 1] \in Int /\ pre[t] = pre[t - 1] + w[t]
    BY <1>5 DEF Along, Running
  <2> HIDE DEF n, w
  <2>3. 0 \in B
    <3>1. 1 \in 1 .. n /\ 1 - 1 = 0 /\ 0 + 1 = 1
      BY <1>0
    <3>2. cols[1][path[1]].cost = w[1] /\ w[1] \in Int
      BY <1>1, <2>1, <3>1, ColumnAfter
    <3>3. pre[1] = w[1]
      BY <2>1, <2>2, <3>1
    <3>4. cols[0 + 1][path[0 + 1]].cost = pre[0 + 1]
      BY <3>1, <3>2, <3>3
    <3> QED
      BY <3>4
  <2>4. ASSUME NEW i \in Nat, i \in B PROVE i + 1 \in B
    <3> DEFINE t == i + 1
               s == path[t + 1]
    <3> SUFFICES ASSUME t + 1 \in 1 .. n PROVE cols[t + 1][s].cost = pre[t + 1]
      BY DEF t
    <3>1. t \in 1 .. n /\ t \in 1 .. n - 1 /\ t + 1 \in 1 .. n /\ (t + 1) - 1 = t
      BY <1>0
    <3>2. cols[t][path[t]].cost = pre[t]
      BY <2>4, <3>1
    <3> HIDE DEF t
    <3>3. s \in 0 .. SLen(e) /\ path[t] = Cheapest(cols[t], s)
      BY <1>1, <1>2, <3>1 DEF n
    <3> HIDE DEF s
    <3>4. cols[t + 1][s].cost = cols[t][path[t]].cost + BoundaryCost(cost, e, t, s)
      BY <3>1, <3>3, ColumnAfter DEF n
    <3>5. pre[t + 1] = pre[t] + w[t + 1] /\ w[t + 1] = BoundaryCost(cost, e, t, s)
      BY <2>1, <2>2, <3>1 DEF s
    <3> QED
      BY <3>2, <3>4, <3>5
  <2>5. Nat \subseteq B
    <3> HIDE DEF B
    <3> QED
      BY <2>3, <2>4, Counting
  <2>6. ASSUME NEW t \in 1 .. n PROVE cols[t][path[t]].cost = pre[t]
    <3>1. t - 1 \in Nat /\ (t - 1) + 1 = t
      BY <1>0
    <3>2. t - 1 \in B
      <4> HIDE DEF B
      <4> QED
        BY <2>5, <3>1
    <3> QED
      BY <3>1, <3>2
  <2> QED
    BY <2>6
<1> QED
  BY <1>1, <1>4, <1>5

\* So the seam of a band is a path, and no path is cheaper.
LEMMA SeamIsOptimal ==
  ASSUME NEW e, IsBand(e), NEW cost \in [Inside(e.bbox8) -> Int]
  PROVE  IsOptimal(cost, e, SeamPath(cost, e))
<1> DEFINE n == TLen(e)
           cols == Columns(cost, e)
           path == SeamPath(cost, e)
<1>0. n \in Nat \ {0}
  BY DEF IsBand
<1>1. PICK last \in 0 .. SLen(e) :
        CheapestEnd(cols[n], last) /\ GoesBack(path, cols, last, n, SLen(e), n - 1)
  BY PathIs
<1>2. Chained(cols, cost, e, n - 1)
  BY ColumnsAre
<1> HIDE DEF cols, path
<1>3. /\ path \in Paths(e) /\ path[n] = last
      /\ \A pre : Along(pre, cost, e, path) => \A t \in 1 .. n : cols[t][path[t]].cost = pre[t]
  BY <1>1, <1>2, WayBackCosts
<1>4. \A p \in Paths(e) : p \in [1 .. n -> 0 .. SLen(e)]
  BY DEF Paths
<1>5. n \in 1 .. n /\ cols[n] \in ColumnOf(e)
  BY <1>0, <1>2, ColumnAfter
<1>6. PathCost(cost, e, path) = cols[n][last].cost
  <2>1. PICK pre : PathCost(cost, e, path) = pre[n] /\ Along(pre, cost, e, path)
    BY <1>3, <1>4, PathSum
  <2> QED
    BY <1>3, <1>5, <2>1
<1>7. ASSUME NEW p \in Paths(e) PROVE cols[n][last].cost <= PathCost(cost, e, p)
  <2>1. PICK pre : PathCost(cost, e, p) = pre[n] /\ Along(pre, cost, e, p)
    BY <1>4, PathSum
  <2>2. cols[n][p[n]].cost <= pre[n]
    BY <1>2, <1>5, <2>1, NoneBelow
  <2>3. p[n] \in 0 .. SLen(e) /\ DOMAIN cols[n] = 0 .. SLen(e)
    BY <1>4, <1>5 DEF ColumnOf
  <2>4. cols[n][last].cost \in Int /\ cols[n][p[n]].cost \in Int
    BY <1>5, <2>3 DEF ColumnOf
  <2>5. cols[n][last].cost <= cols[n][p[n]].cost
    BY <1>1, <2>3, <2>4 DEF CheapestEnd
  <2>6. pre[n] \in Int
    <3>1. pre[n - 1] \in Int /\ pre[n] = pre[n - 1] + CutsOf(cost, e, p)[n]
      BY <1>5, <2>1 DEF Along, Running
    <3>2. CutsOf(cost, e, p)[n] \in Int
      BY <1>4, <1>5, PathSum
    <3> QED
      BY <3>1, <3>2
  <2> DEFINE a == cols[n][last].cost
             b == cols[n][p[n]].cost
             c == pre[n]
  <2>7. a <= b /\ b <= c /\ a \in Int /\ b \in Int /\ c \in Int
    BY <2>2, <2>4, <2>5, <2>6
  <2> HIDE DEF a, b, c
  <2>8. a <= c
    BY <2>7
  <2> QED
    BY <2>1, <2>8 DEF a, c
<1>8. IsOptimal(cost, e, path)
  BY <1>3, <1>6, <1>7 DEF IsOptimal
<1> QED
  BY <1>8 DEF path

\* The results of detail_transition_maps are those of its two operators.
RampWork ==
  Done("ramps", "ramps") =>
    /\ work.hard = hard(task.owner, task.compact)
    /\ work.ramps = ramps(task.owner, task.structure, Len(task.compact))

\* Every step keeps that: no other kind of task has these results.
LEMMA RampStep == RampWork /\ [TaskNext]_<<task, work>> => RampWork'
<1> SUFFICES ASSUME RampWork, [TaskNext]_<<task, work>> PROVE RampWork'
  OBVIOUS
<1>1. CASE UNCHANGED <<task, work>>
  BY <1>1 DEF RampWork, Done
<1>2. CASE TaskNext /\ task.kind # "ramps"
  BY <1>2, StepsOfKinds DEF RampWork, Done
<1>3. CASE TaskNext /\ task.kind = "ramps"
  <2> DEFINE h == hard(task.owner, task.compact)
             r == ramps(task.owner, task.structure, Len(task.compact))
  <2>1. Transition /\ task' = task
    BY <1>3, StepsOfKinds
  <2>2. Gets([hard |-> h, ramps |-> r])
    BY <2>1 DEF Transition
  <2> HIDE DEF h, r
  <2>3. work'.hard = h /\ work'.ramps = r
    BY <2>2 DEF Gets
  <2> QED
    BY <2>1, <2>3 DEF RampWork, h, r
<1> QED
  BY <1>1, <1>2, <1>3

\* In every owned cell the ramp of the owner leads and all others trail, whatever the
\* widths around it, and a compact star at a seam is locked on both sides of it.
THEOREM RampsAlwaysFollowOwners == TaskSpec => []RampsFollowOwners
<1>1. TaskInit => RampWork
  BY DEF TaskInit, RampWork, Done
<1>2. RampWork => RampsFollowOwners
  BY OwnersLead, StarsLock DEF RampWork, RampsFollowOwners
<1> QED
  BY <1>1, <1>2, RampStep, PTL DEF TaskSpec

-----------------------------------------------------------------------------
(* The stars.  *)

\* The tasks of star_mask and of the fill, with the results they have so far.
StarWork ==
  /\ task \in Tasks
  /\ Done("mask", "mask") => work.mask = star_mask(task.panel)
  /\ Done("mask", "parts") =>
        work.mask \in SUBSET Cells /\ work.parts = split_mask_components(work.mask)
  /\ Done("fill", "out") => work.out = suppress_stars_in_base(task.val, task.cov, task.mask)

\* Every step keeps the results as the operators gave them.
LEMMA StarStep == StarWork /\ [TaskNext]_<<task, work>> => StarWork'
<1> SUFFICES ASSUME StarWork, [TaskNext]_<<task, work>> PROVE StarWork'
  OBVIOUS
<1>1. CASE UNCHANGED <<task, work>>
  BY <1>1 DEF StarWork, Done
<1>2. CASE TaskNext /\ task.kind \notin {"mask", "fill"}
  BY <1>2, StepsOfKinds DEF StarWork, Done
<1>3. CASE TaskNext /\ task.kind = "mask"
  <2>1. task' = task /\ MaskStep
    BY <1>3, StepsOfKinds
  <2>2. CASE MaskStars
    <3> DEFINE m == star_mask(task.panel)
    <3>1. DOMAIN work = {} /\ Gets([mask |-> m])
      BY <2>2 DEF MaskStars, Fresh, Step_
    <3> HIDE DEF m
    <3>2. DOMAIN work' = {"mask"} /\ work'.mask = m
      BY <3>1 DEF Gets
    <3> QED
      BY <1>3, <2>1, <3>2 DEF StarWork, Done, m
  <2>3. CASE Split
    <3> DEFINE parts == split_mask_components(work.mask)
    <3>1. DOMAIN work = {"mask"} /\ Gets([parts |-> parts])
      BY <2>3 DEF Split, Step_
    <3>2. work.mask = star_mask(task.panel)
      BY <1>3, <3>1 DEF StarWork, Done
    <3>3. work.mask \in SUBSET Cells
      BY <3>2, MaskIsWhole
    <3> HIDE DEF parts
    <3>4. DOMAIN work' = {"mask", "parts"} /\ work'.parts = parts /\ work'.mask = work.mask
      BY <3>1 DEF Gets
    <3> QED
      BY <1>3, <2>1, <3>2, <3>3, <3>4 DEF StarWork, Done, parts
  <2> QED
    BY <2>1, <2>2, <2>3 DEF MaskStep
<1>4. CASE TaskNext /\ task.kind = "fill"
  <2> DEFINE out == suppress_stars_in_base(task.val, task.cov, task.mask)
  <2>1. task' = task /\ Fill
    BY <1>4, StepsOfKinds
  <2>2. Gets([out |-> out])
    BY <2>1 DEF Fill
  <2> HIDE DEF out
  <2>3. work'.out = out
    BY <2>2 DEF Gets
  <2> QED
    BY <1>4, <2>1, <2>3 DEF StarWork, Done, out
<1> QED
  BY <1>1, <1>2, <1>3, <1>4

\* A star is masked whole and nothing else is, no component is cut in two, and
\* nothing of a masked star leaks into the filled base.
THEOREM StarsAlwaysWhole == TaskSpec => []StarsAreWhole
<1>1. TaskInit => StarWork
  BY DEF TaskInit, StarWork, Done
<1>2. StarWork => StarsAreWhole
  <2> SUFFICES ASSUME StarWork PROVE StarsAreWhole
    OBVIOUS
  <2>1. Done("mask", "mask") => IsStarMask(task.panel, work.mask)
    BY MaskIsWhole DEF StarWork
  <2>2. Done("mask", "parts") => IsSplit(work.mask, work.parts)
    BY SplitCutsNone DEF StarWork
  <2>3. ASSUME Done("fill", "out") PROVE IsOnionFill(task.val, task.cov, task.mask, work.out)
    <3>1. task.val \in Values
      BY <2>3, KernelsAssumption DEF StarWork, Done, Values
    <3> QED
      BY <2>3, <3>1, OnionFill DEF StarWork
  <2> QED
    BY <2>1, <2>2, <2>3 DEF StarsAreWhole
<1> QED
  BY <1>1, <1>2, StarStep, PTL DEF TaskSpec

-----------------------------------------------------------------------------
(* The overlap graph, its components and the distance maps.  *)

\* The tasks of the graph, with the results they have so far.
GraphWork ==
  /\ task \in Tasks
  /\ Done("graph", "edges") => work.edges = build(task.covs)
  /\ Done("graph", "dists") =>
        work.dists = [p \in DOMAIN task.covs |-> distance_map(task.covs[p])]
  /\ Done("graph", "groups") =>
        /\ {"edges", "dists"} \subseteq DOMAIN work
        /\ work.groups = components(Len(task.covs), work.edges)

\* Every step of a task keeps this.
LEMMA GraphWorkStep == GraphWork /\ [TaskNext]_<<task, work>> => GraphWork'
<1> SUFFICES ASSUME GraphWork, [TaskNext]_<<task, work>> PROVE GraphWork'
  OBVIOUS
<1>1. CASE UNCHANGED <<task, work>>
  BY <1>1 DEF GraphWork, Done
<1>2. CASE TaskNext /\ task.kind # "graph"
  BY <1>2, StepsOfKinds DEF GraphWork, Done
<1>3. CASE TaskNext /\ task.kind = "graph"
  <2>1. task' = task /\ GraphStep
    BY <1>3, StepsOfKinds
  <2>2. CASE Graph
    <3> DEFINE edges == build(task.covs)
               dists == [p \in DOMAIN task.covs |-> distance_map(task.covs[p])]
    <3>1. DOMAIN work = {} /\ Gets([edges |-> edges, dists |-> dists])
      BY <2>2 DEF Graph, Fresh, Step_
    <3> HIDE DEF edges, dists
    <3>2. DOMAIN work' = {"edges", "dists"} /\ work'.edges = edges /\ work'.dists = dists
      BY <3>1 DEF Gets
    <3> QED
      BY <1>3, <2>1, <3>2 DEF GraphWork, Done, edges, dists
  <2>3. CASE Groups
    <3> DEFINE groups == components(Len(task.covs), work.edges)
    <3>1. DOMAIN work = {"edges", "dists"} /\ Gets([groups |-> groups])
      BY <2>3 DEF Groups, Step_
    <3> HIDE DEF groups
    <3>2. /\ DOMAIN work' = {"edges", "dists", "groups"} /\ work'.groups = groups
          /\ work'.edges = work.edges /\ work'.dists = work.dists
      BY <3>1 DEF Gets
    <3> QED
      BY <1>3, <2>1, <3>1, <3>2 DEF GraphWork, Done, groups
  <2> QED
    BY <2>1, <2>2, <2>3 DEF GraphStep
<1> QED
  BY <1>1, <1>2, <1>3

\* For all coverage planes of any number of panels: the edges are the pairs that
\* share enough fully covered cells, union-find groups the panels that are
\* connected, and two raster passes find the distance to the nearest cell that is
\* not covered.
THEOREM GraphAlwaysShared == TaskSpec => []GraphIsShared
<1>1. TaskInit => GraphWork
  BY DEF TaskInit, GraphWork, Done
<1>2. GraphWork => GraphIsShared
  <2> SUFFICES ASSUME GraphWork, Done("graph", "groups")
               PROVE  /\ IsOverlapGraph(task.covs, work.edges)
                      /\ AreComponents(Len(task.covs), work.edges, work.groups)
                      /\ \A p \in DOMAIN task.covs : IsDistance(task.covs[p], work.dists[p])
    BY DEF GraphIsShared
  <2> DEFINE covs == task.covs
  <2>1. covs \in Seq(Coverage)
    BY KernelsAssumption DEF GraphWork, Done, Coverage
  <2>2. /\ work.edges = build(covs)
        /\ work.groups = components(Len(covs), work.edges)
        /\ work.dists = [p \in DOMAIN covs |-> distance_map(covs[p])]
    BY DEF GraphWork, Done
  <2> HIDE DEF covs
  <2>3. \A p \in DOMAIN covs : covs[p] \in Coverage
    BY <2>1
  <2>4. IsOverlapGraph(covs, work.edges)
    BY <2>2, GraphIsOverlap
  <2>5. Len(covs) \in Nat /\ EdgesOf(Len(covs), work.edges)
    BY <2>1, <2>2, EdgesOfGraph
  <2>6. AreComponents(Len(covs), work.edges, work.groups)
    BY <2>2, <2>5, ComponentsAreReached
  <2>7. \A p \in DOMAIN covs : IsDistance(covs[p], work.dists[p])
    BY <2>2, <2>3, ChamferIsOctile
  <2> QED
    BY <2>4, <2>6, <2>7 DEF covs
<1> QED
  BY <1>1, <1>2, GraphWorkStep, PTL DEF TaskSpec

\* The owner map of a task, and the panels it is made of.
OwnerWork ==
  /\ task \in Tasks
  /\ Done("owner", "owner") =>
        work.owner = compute_owner_map(task.panels,
                         build([p \in DOMAIN task.panels |-> task.panels[p].cov]))

\* Every step keeps that: the reports leave the map alone.
LEMMA OwnerStepKeeps == OwnerWork /\ [TaskNext]_<<task, work>> => OwnerWork'
<1> SUFFICES ASSUME OwnerWork, [TaskNext]_<<task, work>> PROVE OwnerWork'
  OBVIOUS
<1>1. CASE UNCHANGED <<task, work>>
  BY <1>1 DEF OwnerWork, Done
<1>2. CASE TaskNext /\ task.kind # "owner"
  BY <1>2, StepsOfKinds DEF OwnerWork, Done
<1>3. CASE TaskNext /\ task.kind = "owner"
  <2>1. task' = task /\ OwnerStep
    BY <1>3, StepsOfKinds
  <2> DEFINE edges == build([p \in DOMAIN task.panels |-> task.panels[p].cov])
             owner == compute_owner_map(task.panels, edges)
  <2>2. CASE Owners
    <3>1. DOMAIN work = {} /\ Gets([owner |-> owner])
      BY <2>2 DEF Owners, Fresh, Step_
    <3> HIDE DEF edges, owner
    <3>2. work'.owner = owner
      BY <3>1 DEF Gets
    <3> QED
      BY <2>1, <3>2 DEF OwnerWork, Done, edges, owner
  <2>3. CASE Report
    <3> DEFINE report == MosaicSummary(task.panels, edges, work.owner, task.bbox)
               map == SeamMap(task.img, work.owner, task.bbox)
               labels == Labels(work.owner, task.bbox)
    <3>1. DOMAIN work = {"owner"} /\ Gets([report |-> report, map |-> map, labels |-> labels])
      BY <2>3 DEF Report, Step_
    <3> HIDE DEF edges, owner, report, map, labels
    <3>2. "owner" \in DOMAIN work /\ work'.owner = work.owner
      BY <3>1 DEF Gets
    <3> QED
      BY <1>3, <2>1, <3>2 DEF OwnerWork, Done
  <2> QED
    BY <2>1, <2>2, <2>3 DEF OwnerStep
<1> QED
  BY <1>1, <1>2, <1>3

\* Whatever seams the edges of the graph cut one after the other, for any number of
\* panels of any coverage: a cell has an owner exactly if a panel has pixels in it,
\* the owner is such a panel, and one that covers the cell in full if one does.
THEOREM OwnersAlwaysHavePixels == TaskSpec => []OwnersHavePixels
<1>1. TaskInit => OwnerWork
  BY DEF TaskInit, OwnerWork, Done
<1>2. OwnerWork => OwnersHavePixels
  <2> SUFFICES ASSUME OwnerWork, Done("owner", "owner")
               PROVE  OwnersCover(task.panels, work.owner)
    BY DEF OwnersHavePixels
  <2> DEFINE panels == task.panels
             n == Len(panels)
             covs == [p \in DOMAIN panels |-> panels[p].cov]
             masks == [p \in DOMAIN panels |-> star_mask(panels[p])]
  <2>1. panels \in Seq(Summary)
    BY KernelsAssumption DEF OwnerWork, Done
  <2>2. work.owner = compute_owner_map_masked(panels, build(covs), masks)
    BY DEF OwnerWork, Done, compute_owner_map
  <2> HIDE DEF panels
  <2>3. n \in Nat /\ DOMAIN panels = 1 .. n
    BY <2>1
  <2>4. \A p \in 1 .. n : panels[p].cov \in Coverage
    <3>1. \A p \in 1 .. n : panels[p] \in Summary
      BY <2>1, <2>3
    <3> QED
      BY <3>1 DEF Summary, Coverage
  <2>5. EdgesOf(n, build(covs))
    <3>1. DOMAIN covs = 1 .. n
      BY <2>3
    <3> HIDE DEF covs, n
    <3>2. \A e \in build(covs) : e.a \in DOMAIN covs /\ e.b \in DOMAIN covs
      BY DEF build
    <3> QED
      BY <3>1, <3>2 DEF EdgesOf
  <2> HIDE DEF covs, masks
  <2>6. OwnersCover(panels, work.owner)
    BY <2>2, <2>3, <2>4, <2>5, OwnersAreThere
  <2> QED
    BY <2>6 DEF panels
<1> QED
  BY <1>1, <1>2, OwnerStepKeeps, PTL DEF TaskSpec

\* No cost is below 0; a shared cell off the stars costs what it plainly costs, a
\* shared one on a star at least the penalty, and any other cell Uncuttable.
LEMMA CostsOfCells ==
  ASSUME NEW panels \in Seq(Summary), NEW masks,
         NEW e, e.a \in DOMAIN panels, e.b \in DOMAIN panels
  PROVE  /\ StarPenalty(panels, e) \in Nat
         /\ \A c \in Inside(e.bbox8) :
               LET cost == CellCosts(panels, masks, e)[c]
                   plain == PlainCost(panels, e, c)
                   stars == masks[e.a] \cup masks[e.b]
               IN  /\ cost \in Nat /\ plain \in Nat
                   /\ c \notin Shared(panels, e) => cost = Uncuttable
                   /\ c \in Shared(panels, e) \ stars => cost = plain
                   /\ c \in Shared(panels, e) \cap stars => cost >= StarPenalty(panels, e)
<1> DEFINE shared == Shared(panels, e)
           stars == masks[e.a] \cup masks[e.b]
           plain == [c \in shared |-> PlainCost(panels, e, c)]
           penalty == StarPenalty(panels, e)
<1>1. panels[e.a] \in Summary /\ panels[e.b] \in Summary
  OBVIOUS
<1>2. shared \in SUBSET Inside(e.bbox8) /\ Inside(e.bbox8) \subseteq Cells
  BY DEF Shared, Inside
<1>3. ASSUME NEW p \in Summary, NEW c \in Cells
      PROVE  corrected(p, c) \in Int /\ detail(p, c) \in Nat
  <2>1. p.mean[c] \in Int /\ p.det[c] \in Int /\ p.surf[c] \in Int /\ p.gain \in Int /\ p.off \in Int
    BY DEF Summary
  <2>2. p.mean[c] * p.gain \in Int /\ p.det[c] * p.gain \in Int
    BY <2>1
  <2> QED
    BY <2>1, <2>2 DEF corrected, detail, Greater
<1>4. DetailBeta \in Nat /\ MaskCostFactor \in Nat /\ Uncuttable \in Nat
  BY SeamAssumption
<1>5. ASSUME NEW c \in Cells PROVE PlainCost(panels, e, c) \in Nat
  <2> DEFINE x == corrected(panels[e.a], c)
             y == corrected(panels[e.b], c)
             u == detail(panels[e.a], c)
             v == detail(panels[e.b], c)
  <2>1. x \in Int /\ y \in Int /\ u \in Nat /\ v \in Nat
    BY <1>1, <1>3
  <2>2. PlainCost(panels, e, c) = Abs(x - y) + DetailBeta * Greater(u, v)
    BY DEF PlainCost
  <2> HIDE DEF x, y, u, v
  <2>3. Abs(x - y) \in Nat /\ Greater(u, v) \in Nat
    BY <2>1 DEF Abs, Greater
  <2>4. DetailBeta * Greater(u, v) \in Nat
    BY <1>4, <2>3
  <2> QED
    BY <2>2, <2>3, <2>4
<1>6. penalty = IF shared = {} THEN 0 ELSE MaskCostFactor * Median(plain)
  BY DEF StarPenalty
<1>7. CellCosts(panels, masks, e) =
        [c \in Inside(e.bbox8) |->
            IF c \notin shared THEN Uncuttable
            ELSE PlainCost(panels, e, c) + (IF c \in stars THEN penalty ELSE 0)]
  BY DEF CellCosts
<1>8. plain \in [shared -> Nat]
  BY <1>2, <1>5
<1> HIDE DEF shared, plain
<1>9. penalty \in Nat
  <2>1. IsFiniteSet(shared)
    BY <1>2, CellsFinite, FS_Subset
  <2>2. CASE shared = {}
    BY <1>6, <2>2
  <2>3. CASE shared # {}
    <3>1. plain \in [shared -> Int]
      BY <1>8
    <3>2. PICK d \in shared : Median(plain) = plain[d]
      BY <2>1, <2>3, <3>1, MedianThere
    <3>3. Median(plain) \in Nat
      BY <1>8, <3>2
    <3> QED
      BY <1>4, <1>6, <2>3, <3>3
  <2> QED
    BY <2>2, <2>3
<1> HIDE DEF penalty, stars
<1>10. ASSUME NEW c \in Inside(e.bbox8)
       PROVE  LET cost == CellCosts(panels, masks, e)[c]
              IN  /\ cost \in Nat /\ PlainCost(panels, e, c) \in Nat
                  /\ c \notin shared => cost = Uncuttable
                  /\ c \in shared \ stars => cost = PlainCost(panels, e, c)
                  /\ c \in shared \cap stars => cost >= penalty
  <2>1. PlainCost(panels, e, c) \in Nat
    BY <1>2, <1>5
  <2>2. CellCosts(panels, masks, e)[c] = IF c \notin shared THEN Uncuttable
          ELSE PlainCost(panels, e, c) + (IF c \in stars THEN penalty ELSE 0)
    BY <1>7
  <2> QED
    BY <1>4, <1>9, <2>1, <2>2
<1> QED
  BY <1>9, <1>10 DEF shared, stars, penalty

\* The costs of the cells of a band are numbers.
LEMMA CostsAreNumbers ==
  ASSUME NEW panels \in Seq(Summary), NEW masks,
         NEW e, e.a \in DOMAIN panels, e.b \in DOMAIN panels
  PROVE  CellCosts(panels, masks, e) \in [Inside(e.bbox8) -> Nat]
<1> DEFINE cost == CellCosts(panels, masks, e)
<1>1. \A c \in Inside(e.bbox8) : cost[c] \in Nat
  BY CostsOfCells
<1>2. cost = [c \in Inside(e.bbox8) |-> cost[c]]
  BY DEF CellCosts
<1> HIDE DEF cost
<1>3. cost \in [Inside(e.bbox8) -> Nat]
  BY <1>1, <1>2
<1> QED
  BY <1>3 DEF cost

\* The seam of a task, with the edge it cuts and what that costs.
SeamWork ==
  /\ task \in Tasks
  /\ Done("seam", "edge") \/ Done("seam", "cost") \/ Done("seam", "path") =>
        /\ work.edge \in build([p \in 1 .. 2 |-> task.panels[p].cov])
        /\ work.cost = CellCosts(task.panels, task.masks, work.edge)
  /\ Done("seam", "path") => work.path = SeamPath(work.cost, work.edge)

\* Every step keeps that.
LEMMA SeamStepKeeps == SeamWork /\ [TaskNext]_<<task, work>> => SeamWork'
<1> SUFFICES ASSUME SeamWork, [TaskNext]_<<task, work>> PROVE SeamWork'
  OBVIOUS
<1>1. CASE UNCHANGED <<task, work>>
  BY <1>1 DEF SeamWork, Done
<1>2. CASE TaskNext /\ task.kind # "seam"
  BY <1>2, StepsOfKinds DEF SeamWork, Done
<1>3. CASE TaskNext /\ task.kind = "seam"
  <2>1. task' = task /\ SeamStep
    BY <1>3, StepsOfKinds
  <2> DEFINE edges == build([p \in 1 .. 2 |-> task.panels[p].cov])
             cost(e) == CellCosts(task.panels, task.masks, e)
  <2>2. CASE Costs
    <3>1. PICK e \in edges : DOMAIN work = {} /\ Gets([edge |-> e, cost |-> cost(e)])
      BY <2>2 DEF Costs, Fresh, Step_
    <3> HIDE DEF edges, cost
    <3>2. DOMAIN work' = {"edge", "cost"} /\ work'.edge = e /\ work'.cost = cost(e)
      BY <3>1 DEF Gets
    <3> QED
      BY <2>1, <3>2 DEF SeamWork, Done, edges, cost
  <2>3. CASE Seam
    <3> DEFINE path == SeamPath(work.cost, work.edge)
    <3>1. DOMAIN work = {"edge", "cost"} /\ Gets([path |-> path])
      BY <2>3 DEF Seam, Step_
    <3> HIDE DEF edges, cost, path
    <3>2. /\ DOMAIN work' = {"edge", "cost", "path"} /\ work'.path = path
          /\ work'.edge = work.edge /\ work'.cost = work.cost
      BY <3>1 DEF Gets
    <3> QED
      BY <1>3, <2>1, <3>1, <3>2 DEF SeamWork, Done, path
  <2> QED
    BY <2>1, <2>2, <2>3 DEF SeamStep
<1> QED
  BY <1>1, <1>2, <1>3

\* Whatever the levels, details and masks of two panels and the shape of what they
\* share: no seam that moves by at most one cell per step is cheaper than the one
\* the dynamic program of edge_seam finds.
THEOREM SeamsAlwaysCheapest == TaskSpec => []NoSeamIsCheaper
<1>1. TaskInit => SeamWork
  BY DEF TaskInit, SeamWork, Done
<1>2. SeamWork => NoSeamIsCheaper
  <2> SUFFICES ASSUME SeamWork, Done("seam", "path")
               PROVE  IsOptimal(work.cost, work.edge, work.path)
    BY DEF NoSeamIsCheaper
  <2> DEFINE panels == task.panels
             covs == [p \in 1 .. 2 |-> panels[p].cov]
             e == work.edge
  <2>1. panels \in Seq(Summary) /\ Len(panels) = 2
    BY KernelsAssumption DEF SeamWork, Done
  <2>2. e \in build(covs) /\ work.cost = CellCosts(panels, task.masks, e) /\ work.path = SeamPath(work.cost, e)
    BY DEF SeamWork, Done
  <2> HIDE DEF panels, e
  <2>3. DOMAIN panels = 1 .. 2 /\ DOMAIN covs = 1 .. 2
    BY <2>1
  <2> HIDE DEF covs
  <2>4. IsBand(e)
    BY <2>2, EdgeBand
  <2>5. e.a \in DOMAIN panels /\ e.b \in DOMAIN panels
    <3>1. e.a \in DOMAIN covs /\ e.b \in DOMAIN covs
      BY <2>2 DEF build
    <3> QED
      BY <2>3, <3>1
  <2>6. work.cost \in [Inside(e.bbox8) -> Int]
    <3>1. work.cost \in [Inside(e.bbox8) -> Nat]
      BY <2>1, <2>2, <2>5, CostsAreNumbers
    <3> QED
      BY <3>1
  <2>7. IsOptimal(work.cost, e, work.path)
    BY <2>2, <2>4, <2>6, SeamIsOptimal
  <2> QED
    BY <2>7 DEF e
<1> QED
  BY <1>1, <1>2, SeamStepKeeps, PTL DEF TaskSpec

\* A sum over a part of a set is what the sum over all of it comes to there.
LEMMA PartOfSum ==
  ASSUME NEW S, IsFiniteSet(S), NEW w, AllInt(w, S), NEW k, Adds(k, w, S), NEW A \in SUBSET S
  PROVE  SumFunctionOnSet(w, A) = k[A]
<1>1. IsFiniteSet(A) /\ AllInt(w, A)
  BY FS_Subset DEF AllInt
<1>2. PICK j : SumFunctionOnSet(w, A) = j[A] /\ Adds(j, w, A)
  BY <1>1, SumIter
<1> DEFINE ch == [s \in SUBSET A |-> CHOOSE x \in s : TRUE]
           B == {s \in SUBSET A : k[s] = j[s]}
<1>3. Choice(A, ch)
  BY DEF Choice
<1>4. {} \in B
  BY <1>2 DEF Adds
<1>5. Peels(A, ch, B)
  <2> SUFFICES ASSUME NEW s \in SUBSET A, s # {}, s \ {ch[s]} \in B PROVE s \in B
    BY DEF Peels
  <2>1. j[s] = w[ch[s]] + j[s \ {ch[s]}]
    BY <1>2 DEF Adds
  <2>2. k[s] = w[ch[s]] + k[s \ {ch[s]}]
    BY DEF Adds
  <2> QED
    BY <2>1, <2>2
<1> HIDE DEF ch, B
<1>6. A \in B
  BY <1>1, <1>3, <1>4, <1>5, Peeling
<1> QED
  BY <1>2, <1>6 DEF B

\* Sums of the same summands are the same.
LEMMA SumsAgree ==
  ASSUME NEW S, IsFiniteSet(S), NEW w, AllInt(w, S), NEW v, \A x \in S : v[x] = w[x]
  PROVE  SumFunctionOnSet(v, S) = SumFunctionOnSet(w, S)
<1>1. AllInt(v, S)
  BY DEF AllInt
<1>2. PICK k : SumFunctionOnSet(v, S) = k[S] /\ Adds(k, v, S)
  BY <1>1, SumIter
<1>3. Adds(k, w, S)
  <2>1. \A s \in SUBSET S : s # {} => (CHOOSE x \in s : TRUE) \in S
    OBVIOUS
  <2> QED
    BY <1>2, <2>1 DEF Adds
<1>4. SumFunctionOnSet(w, S) = k[S]
  BY <1>3, PartOfSum
<1> QED
  BY <1>2, <1>4

\* Two sums that differ in a part only compare as their parts do.
LEMMA PartsCompare ==
  ASSUME NEW S, IsFiniteSet(S), NEW v, AllInt(v, S), NEW w, AllInt(w, S),
         NEW A \in SUBSET S, \A x \in S \ A : v[x] = w[x],
         SumFunctionOnSet(v, S) <= SumFunctionOnSet(w, S)
  PROVE  /\ SumFunctionOnSet(v, A) \in Int /\ SumFunctionOnSet(w, A) \in Int
         /\ SumFunctionOnSet(v, A) <= SumFunctionOnSet(w, A)
<1>1. PICK k : SumFunctionOnSet(v, S) = k[S] /\ Adds(k, v, S)
  BY SumIter
<1>2. PICK j : SumFunctionOnSet(w, S) = j[S] /\ Adds(j, w, S)
  BY SumIter
<1>3. SumFunctionOnSet(v, A) = k[A] /\ SumFunctionOnSet(w, A) = j[A]
  BY <1>1, <1>2, PartOfSum
<1>4. \A s \in SUBSET S : k[s] \in Int /\ \A x \in s : k[s] = v[x] + k[s \ {x}]
  BY <1>1, AnySummand
<1>5. \A s \in SUBSET S : j[s] \in Int /\ \A x \in s : j[s] = w[x] + j[s \ {x}]
  BY <1>2, AnySummand
<1> DEFINE ch == [s \in SUBSET S |-> CHOOSE x \in s : TRUE]
           B == {s \in SUBSET S : k[s] + j[s \cap A] = j[s] + k[s \cap A]}
<1>6. Choice(S, ch)
  BY DEF Choice
<1>7. {} \in B
  <2>1. {} \cap A = {} /\ k[{}] = 0 /\ j[{}] = 0
    BY <1>1, <1>2 DEF Adds
  <2> QED
    BY <2>1
<1>8. Peels(S, ch, B)
  <2> SUFFICES ASSUME NEW s \in SUBSET S, s # {}, s \ {ch[s]} \in B PROVE s \in B
    BY DEF Peels
  <2> DEFINE x == ch[s]
             r == s \ {x}
  <2>1. x \in s /\ x \in S
    BY <1>6 DEF Choice
  <2>2. k[r] + j[r \cap A] = j[r] + k[r \cap A]
    OBVIOUS
  <2> HIDE DEF x, ch
  <2>3. v[x] \in Int /\ w[x] \in Int
    BY <2>1 DEF AllInt
  <2>4. r \in SUBSET S /\ s \cap A \in SUBSET S /\ r \cap A \in SUBSET S
    OBVIOUS
  <2>5. k[s] = v[x] + k[r] /\ j[s] = w[x] + j[r]
    BY <1>4, <1>5, <2>1
  <2>6. /\ k[r] \in Int /\ j[r] \in Int /\ k[r \cap A] \in Int /\ j[r \cap A] \in Int
    BY <1>4, <1>5, <2>4
  <2>7. k[s] + j[s \cap A] = j[s] + k[s \cap A]
    <3>1. CASE x \in A
      <4>1. x \in s \cap A /\ (s \cap A) \ {x} = r \cap A
        BY <2>1, <3>1
      <4>2. /\ k[s \cap A] = v[x] + k[(s \cap A) \ {x}]
            /\ j[s \cap A] = w[x] + j[(s \cap A) \ {x}]
        <5> DEFINE q == s \cap A
        <5>1. q \in SUBSET S /\ x \in q
          BY <2>4, <4>1
        <5> HIDE DEF q
        <5>2. k[q] = v[x] + k[q \ {x}] /\ j[q] = w[x] + j[q \ {x}]
          BY <1>4, <1>5, <5>1
        <5> QED
          BY <5>2 DEF q
      <4>3. k[s \cap A] = v[x] + k[r \cap A] /\ j[s \cap A] = w[x] + j[r \cap A]
        <5> HIDE DEF r
        <5> QED
          BY <4>1, <4>2
      <4> DEFINE kr == k[r] jr == j[r] ka == k[r \cap A] ja == j[r \cap A] vx == v[x] wx == w[x]
      <4>4. /\ kr + ja = jr + ka
            /\ kr \in Int /\ jr \in Int /\ ka \in Int /\ ja \in Int /\ vx \in Int /\ wx \in Int
            /\ k[s] = vx + kr /\ j[s] = wx + jr
            /\ k[s \cap A] = vx + ka /\ j[s \cap A] = wx + ja
        BY <2>2, <2>3, <2>5, <2>6, <4>3
      <4> HIDE DEF kr, jr, ka, ja, vx, wx
      <4> QED
        BY <4>4
    <3>2. CASE x \notin A
      <4>1. s \cap A = r \cap A
        BY <3>2
      <4>2. v[x] = w[x]
        BY <2>1, <3>2
      <4>3. k[s \cap A] = k[r \cap A] /\ j[s \cap A] = j[r \cap A]
        <5> HIDE DEF r
        <5> QED
          BY <4>1
      <4> DEFINE kr == k[r] jr == j[r] ka == k[r \cap A] ja == j[r \cap A] vx == v[x]
      <4>4. /\ kr + ja = jr + ka
            /\ kr \in Int /\ jr \in Int /\ ka \in Int /\ ja \in Int /\ vx \in Int
            /\ k[s] = vx + kr /\ j[s] = vx + jr
            /\ k[s \cap A] = ka /\ j[s \cap A] = ja
        BY <2>2, <2>3, <2>5, <2>6, <4>2, <4>3
      <4> HIDE DEF kr, jr, ka, ja, vx
      <4> QED
        BY <4>4
    <3> QED
      BY <3>1, <3>2
  <2> QED
    BY <2>7
<1> HIDE DEF ch, B
<1>9. S \in B
  BY <1>6, <1>7, <1>8, Peeling
<1>10. k[S] + j[A] = j[S] + k[A]
  <2>1. S \cap A = A
    OBVIOUS
  <2> QED
    BY <1>9, <2>1 DEF B
<1>11. k[S] \in Int /\ j[S] \in Int /\ k[A] \in Int /\ j[A] \in Int
  BY <1>4, <1>5
<1> QED
  BY <1>1, <1>2, <1>3, <1>10, <1>11

\* Summands that are not below 0 come to at least any one of them.
LEMMA SumReaches ==
  ASSUME NEW S, IsFiniteSet(S), NEW w, \A x \in S : w[x] \in Nat, NEW u \in S
  PROVE  SumFunctionOnSet(w, S) \in Nat /\ SumFunctionOnSet(w, S) >= w[u]
<1>1. AllInt(w, S)
  BY DEF AllInt
<1>2. PICK k : SumFunctionOnSet(w, S) = k[S] /\ Adds(k, w, S)
  BY <1>1, SumIter
<1> DEFINE ch == [s \in SUBSET S |-> CHOOSE x \in s : TRUE]
           B == {s \in SUBSET S : k[s] \in Nat}
<1>3. Choice(S, ch)
  BY DEF Choice
<1>4. {} \in B
  BY <1>2 DEF Adds
<1>5. Peels(S, ch, B)
  <2> SUFFICES ASSUME NEW s \in SUBSET S, s # {}, s \ {ch[s]} \in B PROVE s \in B
    BY DEF Peels
  <2>1. k[s] = w[ch[s]] + k[s \ {ch[s]}] /\ ch[s] \in S
    BY <1>2 DEF Adds
  <2> HIDE DEF ch
  <2> QED
    BY <2>1
<1> HIDE DEF ch, B
<1>6. SUBSET S \subseteq B
  BY <1>3, <1>4, <1>5, Peeling
<1>7. k[S] \in Nat /\ k[S \ {u}] \in Nat
  BY <1>6 DEF B
<1>8. k[S] = w[u] + k[S \ {u}]
  <2>1. AllInt(w, S) /\ Adds(k, w, S) /\ S \in SUBSET S
    BY <1>1, <1>2
  <2> QED
    BY ONLY IsFiniteSet(S), u \in S, <2>1, AnySummand
<1>9. w[u] \in Nat
  OBVIOUS
<1> QED
  BY <1>2, <1>7, <1>8, <1>9

\* What a boundary costs: the cells on its two sides, each of them touched by the seam.
LEMMA BoundarySides ==
  ASSUME NEW e, IsBand(e), NEW path \in [1 .. TLen(e) -> 0 .. SLen(e)],
         NEW T \in SUBSET (1 .. TLen(e)), NEW t \in T
  PROVE  LET s == path[t]
             low == CellAt(e, t - 1, s - 1)
             high == CellAt(e, t - 1, s)
         IN  /\ s > 0 => low \in Inside(e.bbox8) /\ low \in Touched(e, path, T)
             /\ s < SLen(e) => high \in Inside(e.bbox8) /\ high \in Touched(e, path, T)
<1> DEFINE s == path[t]
<1>1. TLen(e) \in Nat \ {0} /\ SLen(e) \in Nat \ {0} /\ t \in 1 .. TLen(e)
      /\ s \in 0 .. SLen(e) /\ t - 1 \in 0 .. TLen(e) - 1
  BY DEF IsBand
<1>2. \A i \in 0 .. TLen(e) - 1 : \A j \in 0 .. SLen(e) - 1 : CellAt(e, i, j) \in Inside(e.bbox8)
  BY DEF IsBand
<1>3. s > 0 => CellAt(e, t - 1, s - 1) \in Touched(e, path, T)
  BY DEF Touched
<1>4. s < SLen(e) => CellAt(e, t - 1, s) \in Touched(e, path, T)
  BY DEF Touched
<1> HIDE DEF s
<1>5. s > 0 => s - 1 \in 0 .. SLen(e) - 1
  BY <1>1
<1>6. s < SLen(e) => s \in 0 .. SLen(e) - 1
  BY <1>1
<1>7. s > 0 => CellAt(e, t - 1, s - 1) \in Inside(e.bbox8)
  BY <1>1, <1>2, <1>5
<1>8. s < SLen(e) => CellAt(e, t - 1, s) \in Inside(e.bbox8)
  BY <1>1, <1>2, <1>6
<1> QED
  BY <1>3, <1>4, <1>7, <1>8 DEF s

\* The boundaries of a path cost numbers, each of them at least what a cell on its
\* side costs.
LEMMA TouchedIsPaid ==
  ASSUME NEW e, IsBand(e), NEW cost \in [Inside(e.bbox8) -> Nat],
         NEW path \in [1 .. TLen(e) -> 0 .. SLen(e)], NEW T \in SUBSET (1 .. TLen(e))
  PROVE  /\ \A t \in T : CutsOf(cost, e, path)[t] \in Nat
         /\ \A c \in Touched(e, path, T) :
              c \in Inside(e.bbox8) /\ \E u \in T : CutsOf(cost, e, path)[u] >= cost[c]
<1> DEFINE w == CutsOf(cost, e, path)
           Low(t) == IF path[t] > 0 THEN cost[CellAt(e, t - 1, path[t] - 1)] ELSE 0
           High(t) == IF path[t] < SLen(e) THEN cost[CellAt(e, t - 1, path[t])] ELSE 0
<1>1. ASSUME NEW t \in T
      PROVE  Low(t) \in Nat /\ High(t) \in Nat /\ w[t] = Low(t) + High(t)
  <2>1. Low(t) \in Nat /\ High(t) \in Nat
    BY BoundarySides
  <2>2. w[t] = BoundaryCost(cost, e, t - 1, path[t])
    BY DEF CutsOf
  <2> QED
    BY <2>1, <2>2 DEF BoundaryCost
<1>2. ASSUME NEW t \in T PROVE w[t] \in Nat /\ w[t] >= Low(t) /\ w[t] >= High(t)
  <2>1. Low(t) \in Nat /\ High(t) \in Nat /\ w[t] = Low(t) + High(t)
    BY <1>1
  <2> HIDE DEF Low, High, w
  <2> QED
    BY <2>1
<1>3. ASSUME NEW c \in Touched(e, path, T)
      PROVE  c \in Inside(e.bbox8) /\ \E u \in T : w[u] >= cost[c]
  <2>1. PICK u \in T :
          \/ path[u] > 0 /\ c = CellAt(e, u - 1, path[u] - 1)
          \/ path[u] < SLen(e) /\ c = CellAt(e, u - 1, path[u])
    BY DEF Touched
  <2>2. c \in Inside(e.bbox8)
    BY <2>1, BoundarySides
  <2>3. cost[c] = Low(u) \/ cost[c] = High(u)
    BY <2>1
  <2> HIDE DEF Low, High, w
  <2> QED
    BY <1>2, <2>2, <2>3
<1> QED
  BY <1>2, <1>3

\* Where two costs agree on the cells a path touches, so do its boundaries.
LEMMA SameSides ==
  ASSUME NEW e, IsBand(e), NEW cost, NEW plain, NEW path \in [1 .. TLen(e) -> 0 .. SLen(e)],
         NEW T \in SUBSET (1 .. TLen(e)), \A c \in Touched(e, path, T) : cost[c] = plain[c]
  PROVE  \A t \in T : CutsOf(cost, e, path)[t] = CutsOf(plain, e, path)[t]
<1> TAKE t \in T
<1>1. /\ CutsOf(cost, e, path)[t] = BoundaryCost(cost, e, t - 1, path[t])
      /\ CutsOf(plain, e, path)[t] = BoundaryCost(plain, e, t - 1, path[t])
  BY DEF CutsOf
<1>2. /\ path[t] > 0 => CellAt(e, t - 1, path[t] - 1) \in Touched(e, path, T)
      /\ path[t] < SLen(e) => CellAt(e, t - 1, path[t]) \in Touched(e, path, T)
  BY BoundarySides
<1>3. BoundaryCost(cost, e, t - 1, path[t]) = BoundaryCost(plain, e, t - 1, path[t])
  BY <1>2 DEF BoundaryCost
<1> QED
  BY <1>1, <1>3

\* The cheapest seam makes a detour that costs less than the penalty on one star.
LEMMA CheapestSpares ==
  ASSUME NEW panels \in Seq(Summary), NEW masks,
         NEW e, IsBand(e), e.a \in DOMAIN panels, e.b \in DOMAIN panels,
         NEW path, IsOptimal(CellCosts(panels, masks, e), e, path)
  PROVE  SparesStars(panels, masks, e, path)
<1> DEFINE n == TLen(e)
           shared == Shared(panels, e)
           stars == shared \cap (masks[e.a] \cup masks[e.b])
           cost == CellCosts(panels, masks, e)
           plain == [c \in Inside(e.bbox8) |-> PlainCost(panels, e, c)]
           penalty == StarPenalty(panels, e)
           Away(p) == {t \in 1 .. n : p[t] # path[t]}
<1> SUFFICES ASSUME NEW p \in Paths(e), Touched(e, p, Away(p)) \subseteq shared \ stars,
                    CostIn(plain, e, p, Away(p)) < penalty,
                    NEW c \in Touched(e, path, Away(p)), c \in stars
             PROVE  FALSE
  BY DEF SparesStars
<1> DEFINE T == Away(p)
           f == CutsOf(cost, e, path)
           g == CutsOf(cost, e, p)
           h == CutsOf(plain, e, p)
<1>1. /\ path \in [1 .. n -> 0 .. SLen(e)] /\ p \in [1 .. n -> 0 .. SLen(e)]
      /\ PathCost(cost, e, path) <= PathCost(cost, e, p)
  BY DEF IsOptimal, Paths
<1>2. /\ n \in Nat /\ IsFiniteSet(1 .. n)
      /\ T \in SUBSET (1 .. n) /\ IsFiniteSet(T)
  <2>1. n \in Nat /\ IsFiniteSet(1 .. n)
    BY FS_Interval DEF IsBand
  <2>2. T \in SUBSET (1 .. n)
    OBVIOUS
  <2> QED
    BY <2>1, <2>2, FS_Subset
<1>3. cost \in [Inside(e.bbox8) -> Nat] /\ plain \in [Inside(e.bbox8) -> Nat] /\ penalty \in Nat
  BY CostsAreNumbers, CostsOfCells
<1>4. \A d \in shared : /\ d \notin stars => cost[d] = plain[d]
                        /\ d \in stars => cost[d] >= penalty
  <2> TAKE d \in shared
  <2>1. d \in Inside(e.bbox8)
    BY DEF Shared
  <2> QED
    BY <2>1, CostsOfCells
<1>5. \A t \in (1 .. n) \ T : f[t] = g[t]
  BY DEF CutsOf
<1>6. /\ PathCost(cost, e, path) = SumFunctionOnSet(f, 1 .. n)
      /\ PathCost(cost, e, p) = SumFunctionOnSet(g, 1 .. n)
      /\ CostIn(plain, e, p, T) = SumFunctionOnSet(h, T)
  BY DEF PathCost, CostIn, CutsOf
<1>7. Touched(e, p, T) \subseteq shared \ stars /\ c \in Touched(e, path, T) /\ c \in shared
  OBVIOUS
<1> HIDE DEF cost, plain, penalty, T, shared, stars, n
<1>8. \A d \in Touched(e, p, T) : cost[d] = plain[d]
  BY <1>4, <1>7
<1>9. \A t \in T : g[t] = h[t]
  <2>1. p \in [1 .. TLen(e) -> 0 .. SLen(e)] /\ T \in SUBSET (1 .. TLen(e))
    BY <1>1, <1>2 DEF n
  <2> HIDE DEF f
  <2>2. \A t \in T : CutsOf(cost, e, p)[t] = CutsOf(plain, e, p)[t]
    BY ONLY IsBand(e), <1>8, <2>1, SameSides, SMTT(60)
  <2> QED
    BY <2>2
<1>10. AllInt(f, 1 .. n) /\ AllInt(g, 1 .. n)
  <2>1. \A t \in 1 .. n : f[t] \in Nat /\ g[t] \in Nat
    <3>1. 1 .. n \in SUBSET (1 .. n)
      OBVIOUS
    <3> QED
      BY <1>1, <1>3, <3>1, TouchedIsPaid DEF n
  <2> HIDE DEF f, g
  <2> QED
    BY <2>1 DEF AllInt
<1>11. AllInt(h, T)
  <2>1. \A t \in T : h[t] \in Nat
    BY <1>1, <1>2, <1>3, TouchedIsPaid DEF n
  <2> HIDE DEF h
  <2> QED
    BY <2>1 DEF AllInt
<1>12. (\A t \in T : f[t] \in Nat) /\ \E u \in T : f[u] >= cost[c] /\ c \in Inside(e.bbox8)
  BY <1>1, <1>2, <1>3, <1>7, TouchedIsPaid DEF n
<1>13. cost[c] \in Nat /\ cost[c] >= penalty
  BY <1>3, <1>4, <1>7, <1>12
<1>14. SumFunctionOnSet(h, T) < penalty
  BY <1>6 DEF T, plain, penalty, n
<1> HIDE DEF f, g, h
<1>15. /\ SumFunctionOnSet(f, T) \in Int /\ SumFunctionOnSet(g, T) \in Int
       /\ SumFunctionOnSet(f, T) <= SumFunctionOnSet(g, T)
  <2> DEFINE S == 1 .. n
  <2>1. /\ IsFiniteSet(S) /\ AllInt(f, S) /\ AllInt(g, S) /\ T \in SUBSET S
        /\ \A t \in S \ T : f[t] = g[t]
        /\ SumFunctionOnSet(f, S) <= SumFunctionOnSet(g, S)
    BY <1>1, <1>2, <1>5, <1>6, <1>10
  <2> HIDE DEF S
  <2> QED
    BY <2>1, PartsCompare
<1>16. SumFunctionOnSet(g, T) = SumFunctionOnSet(h, T)
  BY <1>2, <1>9, <1>11, SumsAgree
<1>17. PICK u \in T : f[u] >= cost[c]
  BY <1>12
<1>18. SumFunctionOnSet(f, T) >= f[u] /\ f[u] \in Nat
  BY <1>2, <1>12, SumReaches
<1> QED
  BY <1>3, <1>13, <1>14, <1>15, <1>16, <1>17, <1>18

\* No seam is cheaper than the one edge_seam finds, and that one cuts no star it could
\* go round, over shared cells, for less than the penalty of MASK_COST_FACTOR medians.
THEOREM StarsAlwaysSpared == TaskSpec => []SeamIsCheapest
<1>1. TaskInit => SeamWork
  BY DEF TaskInit, SeamWork, Done
<1>2. SeamWork /\ NoSeamIsCheaper => SeamIsCheapest
  <2> SUFFICES ASSUME SeamWork, NoSeamIsCheaper, Done("seam", "path")
               PROVE  SparesStars(task.panels, task.masks, work.edge, work.path)
    BY DEF SeamIsCheapest
  <2> DEFINE panels == task.panels
             covs == [p \in 1 .. 2 |-> panels[p].cov]
             e == work.edge
  <2>1. panels \in Seq(Summary) /\ Len(panels) = 2
    BY KernelsAssumption DEF SeamWork, Done
  <2>2. e \in build(covs) /\ work.cost = CellCosts(panels, task.masks, e)
    BY DEF SeamWork, Done
  <2>4. IsOptimal(CellCosts(panels, task.masks, e), e, work.path)
    BY <2>2 DEF NoSeamIsCheaper
  <2> HIDE DEF panels, e
  <2>5. DOMAIN panels = 1 .. 2 /\ DOMAIN covs = 1 .. 2
    BY <2>1
  <2> HIDE DEF covs
  <2>6. IsBand(e)
    BY <2>2, EdgeBand
  <2>7. e.a \in DOMAIN panels /\ e.b \in DOMAIN panels
    <3>1. e.a \in DOMAIN covs /\ e.b \in DOMAIN covs
      BY <2>2 DEF build
    <3> QED
      BY <2>5, <3>1
  <2>8. SparesStars(panels, task.masks, e, work.path)
    BY <2>1, <2>4, <2>6, <2>7, CheapestSpares
  <2> QED
    BY <2>8 DEF panels, e
<1> QED
  BY <1>1, <1>2, SeamsAlwaysCheapest, SeamStepKeeps, PTL DEF TaskSpec

-----------------------------------------------------------------------------
(* A pixel of a blend.  *)

\* The maps a pixel of the blend b is made from, and a cell with its panels.
MapsOf(b, m) ==
  /\ \A p \in DOMAIN b.panels : m.dist[p] \in Plane /\ m.base[p] \in Values
  /\ b.mode \in {"twoband", "pyramid"} =>
       m.t \in Plane /\ \A p \in DOMAIN b.panels : m.ramps[p] \in Plane
Some(b, cov) == cov \in SUBSET (DOMAIN b.panels) /\ cov # {}

\* No distance makes a weight vanish.
LEMMA WeightPositive == \A d \in Nat : WeightOf(d) \in Nat /\ WeightOf(d) > 0
BY SeamAssumption DEF WeightOf, Lesser, Greater

\* Pixels, weights, base values and shares are whole numbers, weights positive.
LEMMA PanelFacts ==
  ASSUME NEW b \in Blends, NEW m, MapsOf(b, m), NEW c \in Cells, NEW p \in DOMAIN b.panels
  PROVE  /\ Full_(b.panels[p], c) \in Int
         /\ Weight(m, p, c) \in Nat /\ Weight(m, p, c) > 0
         /\ m.base[p][c] \in Int
         /\ b.mode \in {"twoband", "pyramid"} => m.t[c] \in Int /\ Share(m, p, c) \in Nat
<1>1. Full_(b.panels[p], c) \in Int
  BY CompositorAssumption DEF Full_
<1>2. Weight(m, p, c) \in Nat /\ Weight(m, p, c) > 0
  BY WeightPositive DEF MapsOf, Plane, Weight
<1>3. ASSUME b.mode \in {"twoband", "pyramid"} PROVE m.t[c] \in Int /\ Share(m, p, c) \in Nat
  <2>1. m.ramps[p][c] \in Nat /\ m.dist[p][c] \in Nat /\ m.t[c] \in Nat
    BY <1>3 DEF MapsOf, Plane
  <2>2. Lesser(m.dist[p][c], WideCells * Straight) \in Nat
    BY <2>1, RampNumbers DEF Lesser
  <2> QED
    BY <2>1, <2>2 DEF Share
<1> QED
  BY <1>1, <1>2, <1>3 DEF MapsOf, Values

\* The panels in a cell are finitely many.
LEMMA SomeFinite ==
  ASSUME NEW b \in Blends, NEW cov, Some(b, cov)
  PROVE  IsFiniteSet(cov) /\ cov \in SUBSET Nat
<1>1. Len(b.panels) \in Nat /\ DOMAIN b.panels = 1 .. Len(b.panels)
  BY CompositorAssumption
<1>2. IsFiniteSet(DOMAIN b.panels)
  BY <1>1, FS_Interval
<1> QED
  BY <1>1, <1>2, FS_Subset DEF Some

\* Of several panels, the last of the heaviest is one of them.
LEMMA FallbackIsThere ==
  ASSUME NEW b \in Blends, NEW m, MapsOf(b, m), NEW c \in Cells, NEW cov, Some(b, cov)
  PROVE  fallback(m, cov, c) \in cov
<1> DEFINE weights == {Weight(m, p, c) : p \in cov}
           heaviest == {p \in cov : Weight(m, p, c) = Max(weights)}
<1>1. IsFiniteSet(cov) /\ cov \in SUBSET Nat /\ cov # {}
  BY SomeFinite DEF Some
<1>2. \A p \in cov : Weight(m, p, c) \in Nat
  BY PanelFacts DEF Some
<1>3. IsFiniteSet(weights)
  <2> DEFINE f == [p \in cov |-> Weight(m, p, c)]
  <2>1. IsFiniteSet({f[p] : p \in cov})
    <3>1. DOMAIN f = cov
      OBVIOUS
    <3> HIDE DEF f
    <3> QED
      BY <1>1, <3>1, ImageFinite
  <2>2. {f[p] : p \in cov} = weights
    OBVIOUS
  <2> QED
    BY <2>1, <2>2
<1>4. weights \in SUBSET Int /\ weights # {}
  <2>1. \A x \in weights : x \in Int
    BY <1>2
  <2>2. weights # {}
    BY <1>1
  <2> HIDE DEF weights
  <2> QED
    BY <2>1, <2>2
<1>5. Max(weights) \in weights /\ \A y \in weights : y <= Max(weights)
  <2> HIDE DEF weights
  <2> QED
    BY <1>3, <1>4, FiniteExtremes
<1>6. heaviest # {}
  BY <1>5
<1>7. IsFiniteSet(heaviest)
  BY <1>1, FS_Subset
<1>8. heaviest \in SUBSET Int
  <2>1. heaviest \subseteq cov
    OBVIOUS
  <2> HIDE DEF heaviest
  <2> QED
    BY <1>1, <2>1
<1>9. Max(heaviest) \in heaviest /\ \A y \in heaviest : y <= Max(heaviest)
  <2> HIDE DEF heaviest
  <2> QED
    BY <1>6, <1>7, <1>8, FiniteExtremes
<1> DEFINE p == Max(heaviest)
<1>10. p \in cov /\ Weight(m, p, c) = Max(weights)
  BY <1>9
<1> HIDE DEF p
<1>11. \A q \in cov : \/ Weight(m, p, c) > Weight(m, q, c)
                      \/ Weight(m, p, c) = Weight(m, q, c) /\ p >= q
  <2> TAKE q \in cov
  <2>1. Weight(m, q, c) <= Max(weights) /\ Weight(m, q, c) \in Nat /\ Weight(m, p, c) \in Nat
    BY <1>2, <1>5, <1>10
  <2>2. q \in heaviest => q <= p
    BY <1>9 DEF p
  <2>3. Weight(m, q, c) = Weight(m, p, c) => q \in heaviest
    BY <1>10
  <2>4. p \in Nat /\ q \in Nat
    BY <1>1, <1>10
  <2> HIDE DEF heaviest, weights
  <2> QED
    BY <1>10, <2>1, <2>2, <2>3, <2>4
<1> QED
  BY <1>10, <1>11 DEF fallback

\* The least and the greatest pixel of a cell bound all of them.
LEMMA FullExtremes ==
  ASSUME NEW b \in Blends, NEW c \in Cells, NEW cov, Some(b, cov)
  PROVE  LET full == {Full_(b.panels[p], c) : p \in cov}
         IN  /\ Min(full) \in Int /\ Max(full) \in Int
             /\ \A p \in cov : /\ Full_(b.panels[p], c) \in Int
                               /\ Min(full) <= Full_(b.panels[p], c)
                               /\ Full_(b.panels[p], c) <= Max(full)
<1> DEFINE full == {Full_(b.panels[p], c) : p \in cov}
<1>1. IsFiniteSet(full)
  <2> DEFINE f == [p \in cov |-> Full_(b.panels[p], c)]
  <2>1. IsFiniteSet({f[p] : p \in cov})
    <3>1. DOMAIN f = cov /\ IsFiniteSet(cov)
      BY SomeFinite
    <3> HIDE DEF f
    <3> QED
      BY <3>1, ImageFinite
  <2>2. {f[p] : p \in cov} = full
    OBVIOUS
  <2> QED
    BY <2>1, <2>2
<1>2. \A p \in cov : Full_(b.panels[p], c) \in Int
  BY CompositorAssumption DEF Full_, Some
<1>3. full \in SUBSET Int /\ full # {}
  BY <1>2 DEF Some
<1>4. /\ Min(full) \in full /\ \A y \in full : Min(full) <= y
      /\ Max(full) \in full /\ \A y \in full : y <= Max(full)
  <2> HIDE DEF full
  <2> QED
    BY <1>1, <1>3, FiniteExtremes
<1> QED
  BY <1>2, <1>3, <1>4

\* A weighted mean lies among what it is taken of.
LEMMA MeanBetween ==
  ASSUME NEW b \in Blends, NEW m, MapsOf(b, m), NEW c \in Cells, NEW cov, Some(b, cov),
         NEW v, DOMAIN v = cov, NEW lo \in Int, NEW hi \in Int,
         \A p \in cov : v[p] \in Int /\ lo <= v[p] /\ v[p] <= hi
  PROVE  LET q == normalize(m, v, c)
         IN  /\ q = <<q[1], q[2]>> /\ q[1] \in Int /\ q[2] \in Int /\ q[2] > 0
             /\ lo * q[2] <= q[1] /\ q[1] <= hi * q[2]
<1> DEFINE w == [p \in cov |-> Weight(m, p, c)]
           wv == [p \in cov |-> Weight(m, p, c) * v[p]]
<1>1. IsFiniteSet(cov) /\ cov # {}
  BY SomeFinite DEF Some
<1>2. normalize(m, v, c) = <<SumFunctionOnSet(wv, cov), SumFunctionOnSet(w, cov)>>
  BY DEF normalize, SumFunction
<1>3. ASSUME NEW p \in cov
      PROVE  /\ w[p] \in Int /\ wv[p] \in Int /\ w[p] > 0
             /\ lo * w[p] <= wv[p] /\ wv[p] <= hi * w[p]
  <2> DEFINE a == Weight(m, p, c)
             x == v[p]
  <2>1. a \in Nat /\ a > 0 /\ x \in Int /\ lo <= x /\ x <= hi /\ w[p] = a /\ wv[p] = a * x
    BY PanelFacts DEF Some
  <2> HIDE DEF a, x, w, wv
  <2>2. a * x \in Int /\ lo * a <= a * x /\ a * x <= hi * a
    BY <2>1
  <2> QED
    BY <2>1, <2>2
<1> HIDE DEF w, wv
<1>4. \A p \in cov : /\ w[p] \in Int /\ wv[p] \in Int
                     /\ lo * w[p] <= wv[p] /\ wv[p] <= hi * w[p]
  BY <1>3
<1>5. /\ SumFunctionOnSet(w, cov) \in Int /\ SumFunctionOnSet(wv, cov) \in Int
      /\ lo * SumFunctionOnSet(w, cov) <= SumFunctionOnSet(wv, cov)
      /\ SumFunctionOnSet(wv, cov) <= hi * SumFunctionOnSet(w, cov)
      /\ cov # {} /\ (\A x \in cov : w[x] > 0) => SumFunctionOnSet(w, cov) > 0
  BY <1>1, <1>4, SumBounds
<1> QED
  BY <1>1, <1>2, <1>3, <1>5

\* A pixel between two of the panels' own.
Between(q, lo, hi) == AtMost(<<lo, 1>>, q) /\ AtMost(q, <<hi, 1>>)

\* The details of a pixel of which the base cancels: k is what the base takes from
\* each of them, D their denominator.  A detail e, or a mixture of details of the
\* weight s, lies among the pixels once k is given back.
Cancelled(e, lo, hi, k, D) ==
  \E s \in Nat \ {0} : \E n \in Int :
     /\ e = <<n, s * D>>
     /\ (lo * D - k) * s <= n /\ n <= (hi * D - k) * s

\* Where all bases are the same, the blended base is that base.
LEMMA BaseGivenBack ==
  ASSUME NEW lo \in Int, NEW hi \in Int, NEW b1 \in Int, NEW b2 \in Nat \ {0},
         NEW top \in Nat \ {0}, NEW e, Cancelled(e, lo, hi, top * b1, top * b2)
  PROVE  Between(Plus(<<b1, b2>>, e), lo, hi)
<1> DEFINE D == top * b2
           k == top * b1
<1>1. D \in Nat /\ D > 0 /\ k \in Int
  BY DEF D, k
<1>2. PICK s \in Nat \ {0}, n \in Int :
          e = <<n, s * D>> /\ (lo * D - k) * s <= n /\ n <= (hi * D - k) * s
  BY DEF Cancelled
<1>3. Plus(<<b1, b2>>, e) = <<b1 * (s * D) + n * b2, b2 * (s * D)>>
  BY <1>2 DEF Plus
<1>4. b1 * (s * D) = k * s * b2
  <2>1. b1 * (s * (top * b2)) = (top * b1) * s * b2
    OBVIOUS
  <2> QED
    BY <2>1 DEF D, k
<1> HIDE DEF D, k
<1>5. b2 * ((lo * D - k) * s) <= b2 * n /\ b2 * n <= b2 * ((hi * D - k) * s)
  <2> DEFINE x == (lo * D - k) * s
             y == (hi * D - k) * s
  <2>1. x \in Int /\ y \in Int /\ x <= n /\ n <= y
    BY <1>1, <1>2
  <2> HIDE DEF x, y
  <2>2. b2 * x <= b2 * n /\ b2 * n <= b2 * y
    BY <2>1
  <2> QED
    BY <2>2 DEF x, y
<1>6. /\ b2 * ((lo * D - k) * s) = lo * (b2 * (s * D)) - k * s * b2
      /\ b2 * ((hi * D - k) * s) = hi * (b2 * (s * D)) - k * s * b2
  BY <1>1
<1> DEFINE u == b2 * (s * D)
           z == k * s * b2
           nb == n * b2
<1>7. u \in Int /\ z \in Int /\ nb \in Int /\ b2 * n = nb
  BY <1>1
<1>8. lo * u <= z + nb /\ z + nb <= hi * u
  <2>1. lo * u - z <= nb /\ nb <= hi * u - z
    BY <1>5, <1>6, <1>7
  <2> HIDE DEF u, z, nb
  <2>2. lo * u \in Int /\ hi * u \in Int
    BY <1>7
  <2> QED
    BY <1>7, <2>1, <2>2
<1>9. Plus(<<b1, b2>>, e) = <<z + nb, u>>
  BY <1>3, <1>4
<1> HIDE DEF u, z, nb
<1>10. (z + nb) * 1 = z + nb /\ u * 1 = u /\ z + nb \in Int
  BY <1>7
<1> QED
  BY <1>8, <1>9, <1>10, <1>7 DEF Between, AtMost

\* A detail cancels the base where all bases are the blended one, or where it is
\* measured from the blended one.
Cancels(b, m, c, cov) ==
  \/ m.t[c] = HaloCells * Straight
  \/ b.mode = "twoband" /\ \A p, q \in cov : m.base[p][c] = m.base[q][c]

\* A blended base is a number, in every mode.
LEMMA BaseOfPixel ==
  ASSUME NEW b \in Blends, NEW m, MapsOf(b, m), NEW c \in Cells, NEW cov, Some(b, cov)
  PROVE  LET q == bref(b, m, cov, c)
         IN  /\ q = <<q[1], q[2]>> /\ q[1] \in Int /\ q[2] \in Nat \ {0}
             /\ b.mode = "twoband" /\ (\A p, r \in cov : m.base[p][c] = m.base[r][c]) =>
                   \A p \in cov : q[1] = m.base[p][c] * q[2]
<1> DEFINE v == [p \in cov |-> m.base[p][c]]
           vals == {v[p] : p \in cov}
<1>1. DOMAIN v = cov /\ \A p \in cov : v[p] \in Int /\ v[p] = m.base[p][c]
  BY PanelFacts DEF Some
<1> HIDE DEF v
<1>2. vals \in SUBSET Int /\ vals # {} /\ IsFiniteSet(vals)
  <2>1. IsFiniteSet(vals)
    BY <1>1, SomeFinite, ImageFinite
  <2>2. \A x \in vals : x \in Int
    BY <1>1
  <2>3. vals # {}
    BY DEF Some
  <2> HIDE DEF vals
  <2> QED
    BY <2>1, <2>2, <2>3
<1>3. /\ Min(vals) \in vals /\ \A y \in vals : Min(vals) <= y
      /\ Max(vals) \in vals /\ \A y \in vals : y <= Max(vals)
  <2> HIDE DEF vals
  <2> QED
    BY <1>2, FiniteExtremes
<1>4. Min(vals) \in Int /\ Max(vals) \in Int
  BY <1>2, <1>3
<1>5. \A p \in cov : v[p] \in Int /\ Min(vals) <= v[p] /\ v[p] <= Max(vals)
  BY <1>1, <1>3
<1> DEFINE q == normalize(m, v, c)
<1>6. /\ q = <<q[1], q[2]>> /\ q[1] \in Int /\ q[2] \in Int /\ q[2] > 0
      /\ Min(vals) * q[2] <= q[1] /\ q[1] <= Max(vals) * q[2]
  <2> HIDE DEF vals
  <2> QED
    BY <1>1, <1>4, <1>5, MeanBetween
<1>7. ASSUME \A p, r \in cov : m.base[p][c] = m.base[r][c], NEW p \in cov
      PROVE  q[1] = m.base[p][c] * q[2]
  <2>1. \A x \in vals : x = m.base[p][c]
    BY <1>1, <1>7
  <2>2. Min(vals) = m.base[p][c] /\ Max(vals) = m.base[p][c]
    BY <1>3, <2>1
  <2>3. m.base[p][c] \in Int
    BY <1>1
  <2> HIDE DEF vals, q
  <2>4. m.base[p][c] * q[2] \in Int
    BY <2>3, <1>6
  <2> QED
    BY <1>6, <2>2, <2>3, <2>4
<1>8. CASE b.mode = "pyramid" /\ c \in b.pyr.def
  <2>1. bref(b, m, cov, c) = <<b.pyr.plane[c], 1>>
    BY <1>8 DEF bref
  <2>2. b.pyr.plane[c] \in Int
    BY CompositorAssumption
  <2> QED
    BY <1>8, <2>1, <2>2
<1>9. CASE ~(b.mode = "pyramid" /\ c \in b.pyr.def)
  <2>1. bref(b, m, cov, c) = q
    BY <1>9 DEF bref, v
  <2> HIDE DEF q
  <2> QED
    BY <1>6, <1>7, <2>1
<1> QED
  BY <1>8, <1>9

\* Base and detail of one panel make up its pixel.
LEMMA DetailCancels ==
  ASSUME NEW b \in Blends, NEW m, MapsOf(b, m), NEW c \in Cells, NEW cov, Some(b, cov),
         b.mode \in {"twoband", "pyramid"}, Cancels(b, m, c, cov),
         NEW p \in cov
  PROVE  LET q   == bref(b, m, cov, c)
             top == HaloCells * Straight
             F   == Full_(b.panels[p], c)
         IN  DetailOf(b, m, q, p, c) = <<F * (top * q[2]) - top * q[1], top * q[2]>>
<1> DEFINE q   == bref(b, m, cov, c)
           top == HaloCells * Straight
           F   == Full_(b.panels[p], c)
           t   == m.t[c]
           e   == m.base[p][c]
<1>1. q[1] \in Int /\ q[2] \in Nat \ {0} /\ F \in Int /\ t \in Int /\ e \in Int /\ top \in Nat
  <2>1. top \in Nat
    BY GridsAssumption, OverlapAssumption
  <2> QED
    BY <2>1, BaseOfPixel, PanelFacts DEF Some
<1>2. t = top \/ q[1] = e * q[2]
  BY BaseOfPixel DEF Cancels
<1>3. DetailOf(b, m, q, p, c) = <<F * top * q[2] - t * q[1] - (top - t) * e * q[2], top * q[2]>>
  BY DEF DetailOf
<1> DEFINE q1 == q[1]
           q2 == q[2]
<1>4. q1 \in Int /\ q2 \in Int /\ (t = top \/ q1 = e * q2)
  BY <1>1, <1>2
<1> HIDE DEF q, top, F, t, e, q1, q2
<1>5. F * top * q2 - t * q1 - (top - t) * e * q2 = F * (top * q2) - top * q1
  <2>1. CASE t = top
    <3>1. (top - t) * e * q2 = 0
      BY <1>1, <1>4, <2>1
    <3> QED
      BY <1>1, <1>4, <2>1, <3>1
  <2>2. CASE q1 = e * q2
    <3>1. (top - t) * e * q2 = top * (e * q2) - t * (e * q2)
      BY <1>1, <1>4
    <3>2. (top - t) * e * q2 = top * q1 - t * q1
      BY <2>2, <3>1
    <3>3. top * q1 \in Int /\ t * q1 \in Int /\ F * top * q2 \in Int /\ F * top * q2 = F * (top * q2)
      BY <1>1, <1>4
    <3> QED
      BY <3>2, <3>3
  <2> QED
    BY <1>4, <2>1, <2>2
<1> QED
  BY <1>3, <1>5 DEF q, top, F, t, e, q1, q2

\* What a two-band pixel is made of: details of which the base cancels.
Details(d, cov, lo, hi, k, D) ==
  /\ \A p \in cov : d[p] = <<d[p][1], D>>
                    /\ d[p][1] \in Int /\ lo * D - k <= d[p][1] /\ d[p][1] <= hi * D - k
  /\ D \in Nat \ {0} /\ k \in Int /\ lo \in Int /\ hi \in Int

\* Where one panel gives the detail, the pixel is that panel's.
LEMMA OneDetail ==
  ASSUME NEW d, NEW cov, NEW lo, NEW hi, NEW k, NEW D, Details(d, cov, lo, hi, k, D),
         NEW p \in cov
  PROVE  Cancelled(d[p], lo, hi, k, D)
<1> DEFINE n == d[p][1]
           x == lo * D - k
           y == hi * D - k
<1>1. d[p] = <<n, D>> /\ n \in Int /\ x <= n /\ n <= y /\ x \in Int /\ y \in Int /\ D \in Nat
  BY DEF Details
<1> HIDE DEF x, y, n
<1>2. 1 * D = D /\ x * 1 = x /\ y * 1 = y
  BY <1>1
<1>3. 1 \in Nat \ {0} /\ d[p] = <<n, 1 * D>> /\ x * 1 <= n /\ n <= y * 1
  BY <1>1, <1>2
<1> QED
  BY <1>1, <1>3 DEF Cancelled, x, y

\* Where shares mix details over one base, the pixel is between the panels'.
LEMMA MixedCancels ==
  ASSUME NEW b \in Blends, NEW m, MapsOf(b, m), NEW c \in Cells, NEW cov, Some(b, cov),
         b.mode \in {"twoband", "pyramid"},
         NEW d, NEW lo, NEW hi, NEW k, NEW D, Details(d, cov, lo, hi, k, D)
  PROVE  Cancelled(Mixed(m, cov, d, c), lo, hi, k, D)
<1> DEFINE owner  == m.owner[c]
           giving == {p \in cov : Share(m, p, c) > 0}
           some   == fallback(m, cov, c)
           s      == [p \in giving |-> Share(m, p, c)]
           sd     == [p \in giving |-> Share(m, p, c) * d[p][1]]
<1>1. some \in cov
  BY FallbackIsThere
<1>2. CASE c \in m.hard
  <2>1. \E p \in cov : Mixed(m, cov, d, c) = d[p]
    BY <1>1, <1>2 DEF Mixed
  <2> QED
    BY <2>1, OneDetail
<1>3. CASE c \notin m.hard /\ giving = {}
  <2>1. Mixed(m, cov, d, c) = d[some]
    BY <1>3 DEF Mixed
  <2> QED
    BY <1>1, <2>1, OneDetail
<1>4. CASE c \notin m.hard /\ giving # {}
  <2> DEFINE x == lo * D - k
             y == hi * D - k
  <2>0. x \in Int /\ y \in Int /\ d[some][2] = D
    BY <1>1 DEF Details
  <2>1. Mixed(m, cov, d, c) = <<SumFunctionOnSet(sd, giving), SumFunctionOnSet(s, giving) * D>>
    BY <1>4, <2>0 DEF Mixed, SumFunction
  <2>2. IsFiniteSet(giving)
    BY SomeFinite, FS_Subset
  <2>3. ASSUME NEW p \in giving
        PROVE  /\ s[p] \in Int /\ s[p] > 0 /\ sd[p] \in Int
               /\ x * s[p] <= sd[p] /\ sd[p] <= y * s[p]
    <3> DEFINE a == Share(m, p, c)
               n == d[p][1]
    <3>1. /\ a \in Nat /\ a > 0 /\ n \in Int /\ x <= n /\ n <= y
          /\ s[p] = a /\ sd[p] = a * n
      BY PanelFacts DEF Details, Some
    <3> HIDE DEF a, n, s, sd, x, y
    <3>2. a * n \in Int /\ x * a <= a * n /\ a * n <= y * a
      BY <2>0, <3>1
    <3> QED
      BY <3>1, <3>2
  <2> HIDE DEF s, sd, x, y, giving
  <2>4. /\ SumFunctionOnSet(s, giving) \in Int /\ SumFunctionOnSet(sd, giving) \in Int
        /\ x * SumFunctionOnSet(s, giving) <= SumFunctionOnSet(sd, giving)
        /\ SumFunctionOnSet(sd, giving) <= y * SumFunctionOnSet(s, giving)
        /\ giving # {} /\ (\A p \in giving : s[p] > 0) => SumFunctionOnSet(s, giving) > 0
    <3>1. \A p \in giving : /\ s[p] \in Int /\ sd[p] \in Int
                            /\ x * s[p] <= sd[p] /\ sd[p] <= y * s[p]
      BY <2>3
    <3> QED
      BY <2>0, <2>2, <3>1, SumBounds
  <2>5. SumFunctionOnSet(s, giving) \in Nat \ {0}
    BY <1>4, <2>3, <2>4
  <2> QED
    BY <2>1, <2>4, <2>5 DEF Cancelled, x, y
<1> QED
  BY <1>2, <1>3, <1>4

\* Where the switch is at its top, the pixel is a mean of the panels' own.
LEMMA VetoedCancels ==
  ASSUME NEW b \in Blends, NEW m, MapsOf(b, m), NEW c \in Cells, NEW cov, Some(b, cov),
         b.mode \in {"twoband", "pyramid"},
         NEW d, NEW lo, NEW hi, NEW k, NEW D, Details(d, cov, lo, hi, k, D)
  PROVE  Cancelled(Vetoed(b, m, cov, d, c), lo, hi, k, D)
<1> DEFINE po == m.owner[c]
           pp == fallback(m, cov \ {po}, c)
<1>1. \/ Vetoed(b, m, cov, d, c) = Mixed(m, cov, d, c)
      \/ po \in cov /\ cov # {po} /\ Vetoed(b, m, cov, d, c) \in {d[po], d[pp]}
  <2> DEFINE noise == Lesser(detail(b.panels[po], c), detail(b.panels[pp], c))
             vetoed == /\ b.defect_veto /\ po \in cov /\ cov # {po}
                       /\ c \notin m.masks[po] \cup m.masks[pp]
                       /\ Abs(d[po][1] - d[pp][1]) > DefectVetoFactor * noise * d[po][2]
             first == Abs(d[po][1]) <= Abs(d[pp][1])
  <2>1. Vetoed(b, m, cov, d, c)
          = IF vetoed THEN IF first THEN d[po] ELSE d[pp] ELSE Mixed(m, cov, d, c)
    BY DEF Vetoed
  <2>2. vetoed => po \in cov /\ cov # {po}
    OBVIOUS
  <2> HIDE DEF vetoed, first, po, pp
  <2>3. CASE vetoed /\ first
    BY <2>1, <2>2, <2>3
  <2>4. CASE vetoed /\ ~first
    BY <2>1, <2>2, <2>4
  <2>5. CASE ~vetoed
    BY <2>1, <2>5
  <2> QED
    BY <2>3, <2>4, <2>5
<1>2. CASE Vetoed(b, m, cov, d, c) = Mixed(m, cov, d, c)
  BY <1>2, MixedCancels
<1>3. CASE po \in cov /\ cov # {po} /\ Vetoed(b, m, cov, d, c) \in {d[po], d[pp]}
  <2>1. Some(b, cov \ {po})
    BY <1>3 DEF Some
  <2>2. pp \in cov
    BY <2>1, FallbackIsThere
  <2> QED
    BY <1>3, <2>2, OneDetail
<1> QED
  BY <1>1, <1>2, <1>3

\* The pixels of a two-band blend of which the bases cancel.
LEMMA TwoBandBetween ==
  ASSUME NEW b \in Blends, NEW m, MapsOf(b, m), NEW c \in Cells, NEW cov, Some(b, cov),
         b.mode \in {"twoband", "pyramid"}, Cancels(b, m, c, cov)
  PROVE  LET full == {Full_(b.panels[p], c) : p \in cov}
         IN  Between(TwoBandPixel(b, m, cov, c), Min(full), Max(full))
<1> DEFINE full == {Full_(b.panels[p], c) : p \in cov}
           lo   == Min(full)
           hi   == Max(full)
           base == bref(b, m, cov, c)
           top  == HaloCells * Straight
           d    == [p \in cov |-> DetailOf(b, m, base, p, c)]
<1>1. /\ lo \in Int /\ hi \in Int
      /\ \A p \in cov : /\ Full_(b.panels[p], c) \in Int
                        /\ lo <= Full_(b.panels[p], c) /\ Full_(b.panels[p], c) <= hi
  BY FullExtremes
<1>2. base = <<base[1], base[2]>> /\ base[1] \in Int /\ base[2] \in Nat \ {0}
  BY BaseOfPixel
<1>3. top \in Nat \ {0}
  <2>1. HaloCells \in Nat \ {0} /\ Straight \in Nat \ {0}
    BY GridsAssumption, OverlapAssumption
  <2> QED
    BY <2>1
<1>4. \A p \in cov :
        d[p] = <<Full_(b.panels[p], c) * (top * base[2]) - top * base[1], top * base[2]>>
  BY DetailCancels
<1> DEFINE b1 == base[1]
           b2 == base[2]
<1>5. b1 \in Int /\ b2 \in Nat \ {0} /\ base = <<b1, b2>>
  BY <1>2
<1>6. \A p \in cov : d[p] = <<Full_(b.panels[p], c) * (top * b2) - top * b1, top * b2>>
  BY <1>4
<1>7. TwoBandPixel(b, m, cov, c) = Plus(base, Vetoed(b, m, cov, d, c))
  BY DEF TwoBandPixel
<1> HIDE DEF full, lo, hi, base, top, d, b1, b2
<1>8. Details(d, cov, lo, hi, top * b1, top * b2)
  <2> DEFINE D == top * b2
             k == top * b1
  <2>1. D \in Nat \ {0} /\ k \in Int
    BY <1>3, <1>5
  <2> HIDE DEF D, k
  <2>2. ASSUME NEW p \in cov
        PROVE  d[p] = <<d[p][1], D>>
                    /\ d[p][1] \in Int /\ lo * D - k <= d[p][1] /\ d[p][1] <= hi * D - k
    <3> DEFINE F == Full_(b.panels[p], c)
    <3>1. F \in Int /\ lo <= F /\ F <= hi /\ d[p] = <<F * D - k, D>>
      BY <1>1, <1>6 DEF D, k
    <3> HIDE DEF F
    <3>2. F * D \in Int /\ lo * D \in Int /\ hi * D \in Int /\ lo * D <= F * D /\ F * D <= hi * D
      BY <1>1, <2>1, <3>1
    <3>3. d[p][1] = F * D - k
      BY <3>1
    <3> QED
      BY <2>1, <3>1, <3>2, <3>3
  <2> QED
    BY <1>1, <2>1, <2>2 DEF Details, D, k
<1>9. Cancelled(Vetoed(b, m, cov, d, c), lo, hi, top * b1, top * b2)
  BY <1>8, VetoedCancels
<1>10. Between(Plus(<<b1, b2>>, Vetoed(b, m, cov, d, c)), lo, hi)
  BY <1>1, <1>3, <1>5, <1>9, BaseGivenBack
<1> QED
  BY <1>5, <1>7, <1>10 DEF full, lo, hi

\* A feathered pixel is a mean of those that cover it.
LEMMA FeatherBetween ==
  ASSUME NEW b \in Blends, NEW m, MapsOf(b, m), NEW c \in Cells, NEW cov, Some(b, cov)
  PROVE  LET full == {Full_(b.panels[p], c) : p \in cov}
         IN  Between(normalize(m, [p \in cov |-> Full_(b.panels[p], c)], c), Min(full), Max(full))
<1> DEFINE full == {Full_(b.panels[p], c) : p \in cov}
           lo   == Min(full)
           hi   == Max(full)
           v    == [p \in cov |-> Full_(b.panels[p], c)]
           q    == normalize(m, v, c)
<1>1. /\ lo \in Int /\ hi \in Int
      /\ \A p \in cov : /\ Full_(b.panels[p], c) \in Int
                        /\ lo <= Full_(b.panels[p], c) /\ Full_(b.panels[p], c) <= hi
  BY FullExtremes
<1>2. DOMAIN v = cov /\ \A p \in cov : v[p] \in Int /\ lo <= v[p] /\ v[p] <= hi
  BY <1>1
<1> HIDE DEF full, lo, hi, v
<1>3. /\ q = <<q[1], q[2]>> /\ q[1] \in Int /\ q[2] \in Int /\ q[2] > 0
      /\ lo * q[2] <= q[1] /\ q[1] <= hi * q[2]
  BY <1>1, <1>2, MeanBetween
<1> HIDE DEF q
<1>4. Between(q, lo, hi)
  BY <1>3 DEF Between, AtMost
<1> QED
  BY <1>4 DEF q, full, lo, hi, v

\* A pixel lies between the pixels of the panels that show there.
PixelInside(b, m, c) ==
  LET cov  == {p \in DOMAIN b.panels : b.panels[p].px[c] # 0}
      full == {Full_(b.panels[p], c) : p \in cov}
      px   == Pixel(b, m, cov, {p \in DOMAIN b.panels : b.panels[p].cov[c] = Full}, c)
      cancels == b.mode = "feather" \/ Cancels(b, m, c, cov)
  IN  /\ cov = {} => px = Zero
      /\ cov # {} /\ cancels => Between(px, Min(full), Max(full))

\* In every mode where base and detail cancel, the pixel is between the panels'.
LEMMA PixelStaysInside ==
  ASSUME NEW b \in Blends, NEW m, MapsOf(b, m), NEW c \in Cells, b.mode # "l8"
  PROVE  PixelInside(b, m, c)
<1> DEFINE cov  == {p \in DOMAIN b.panels : b.panels[p].px[c] # 0}
           full == {Full_(b.panels[p], c) : p \in cov}
           whole == {p \in DOMAIN b.panels : b.panels[p].cov[c] = Full}
           px   == Pixel(b, m, cov, whole, c)
<1>0. b.mode \in {"feather", "twoband", "pyramid"}
  BY CompositorAssumption
<1>1. cov = {} => px = Zero
  BY <1>0 DEF Pixel
<1>2. ASSUME cov # {}, b.mode = "feather" PROVE Between(px, Min(full), Max(full))
  <2>1. Some(b, cov)
    BY <1>2 DEF Some
  <2>2. px = normalize(m, [p \in cov |-> Full_(b.panels[p], c)], c)
    BY <1>2 DEF Pixel
  <2> HIDE DEF cov, px
  <2> QED
    BY <2>1, <2>2, FeatherBetween
<1>3. ASSUME cov # {}, b.mode \in {"twoband", "pyramid"}, Cancels(b, m, c, cov)
      PROVE  Between(px, Min(full), Max(full))
  <2>1. Some(b, cov)
    BY <1>3 DEF Some
  <2>2. px = TwoBandPixel(b, m, cov, c)
    BY <1>3 DEF Pixel
  <2> HIDE DEF cov, px
  <2> QED
    BY <1>3, <2>1, <2>2, TwoBandBetween
<1>4. ASSUME cov # {}, b.mode = "feather" \/ Cancels(b, m, c, cov)
      PROVE  Between(px, Min(full), Max(full))
  <2> HIDE DEF cov, px, full
  <2> QED
    BY <1>0, <1>2, <1>3, <1>4
<1> QED
  BY <1>1, <1>4 DEF PixelInside

-----------------------------------------------------------------------------
(* Boxes.  A bounded set of naturals has a smallest and a largest member,  *)
(* so the box of a set of cells lies on the grid and holds the set.        *)

\* What two boxes share is on the grid if one of them is, or is empty.
LEMMA MeetOnGrid ==
  ASSUME NEW b, OnGrid(b), NEW r \in Int \X Int \X Int \X Int, ~IsEmpty(Meet(b, r))
  PROVE  /\ OnGrid(Meet(b, r))
         /\ Meet(b, r)[1] < Meet(b, r)[3] /\ Meet(b, r)[2] < Meet(b, r)[4]
<1>1. W \in Nat /\ H \in Nat
  BY GridAssumption
<1>2. /\ b[1] \in 0 .. W /\ b[2] \in 0 .. H /\ b[3] \in 0 .. W /\ b[4] \in 0 .. H
      /\ r[1] \in Int /\ r[2] \in Int /\ r[3] \in Int /\ r[4] \in Int
  BY DEF OnGrid
<1>3. /\ Meet(b, r)[1] = Greater(b[1], r[1]) /\ Meet(b, r)[2] = Greater(b[2], r[2])
      /\ Meet(b, r)[3] = Lesser(b[3], r[3]) /\ Meet(b, r)[4] = Lesser(b[4], r[4])
  BY DEF Meet
<1> DEFINE m == Meet(b, r)
<1>4. /\ m[1] \in Int /\ m[1] >= 0 /\ m[2] \in Int /\ m[2] >= 0
      /\ m[3] \in Int /\ m[3] <= W /\ m[4] \in Int /\ m[4] <= H
  BY <1>1, <1>2, <1>3 DEF Greater, Lesser
<1> HIDE DEF m
<1>5. m[1] < m[3] /\ m[2] < m[4]
  BY <1>4 DEF IsEmpty, m
<1>6. OnGrid(m)
  BY <1>1, <1>4, <1>5 DEF OnGrid
<1> QED
  BY <1>5, <1>6 DEF m

\* The box around all contents is on the grid.
LEMMA UnionOnGrid == OnGrid(union_bbox)
<1>1. UNION {Inside(Content(p)) : p \in Ids} \subseteq Cells
  BY DEF Inside
<1> QED
  BY <1>1, BoxHolds DEF union_bbox

\* The box of a blend that starts is on the grid and not empty.
LEMMA OutputOnGrid ==
  ASSUME blend \in Blends, ~IsEmpty(output_bbox)
  PROVE  /\ OnGrid(output_bbox)
         /\ output_bbox[1] < output_bbox[3] /\ output_bbox[2] < output_bbox[4]
<1>1. blend.roi \in Int \X Int \X Int \X Int
  BY CompositorAssumption
<1>2. OnGrid(<<0, 0, W, H>>)
  BY GridAssumption DEF OnGrid
<1>3. \E b : OnGrid(b) /\ output_bbox = Meet(b, blend.roi)
  BY <1>2, UnionOnGrid DEF output_bbox
<1> QED
  BY <1>1, <1>3, MeetOnGrid

-----------------------------------------------------------------------------
(* A row of the mosaic, as all the panels that show something there make   *)
(* it, and the row clamped as a sink gets it.                              *)

PixelAt(b, m, c) ==
  Pixel(b, m, {p \in DOMAIN b.panels : b.panels[p].px[c] # 0},
        {p \in DOMAIN b.panels : b.panels[p].cov[c] = Full}, c)
Place(m, x, y) == <<m.bbox[1] + x, m.bbox[2] + y>>
CropLine(b, m, y) ==
  [x \in 0 .. m.bbox[3] - m.bbox[1] - 1 |-> PixelAt(b, m, Place(m, x, y))]
Row(b, m, y) ==
  [x \in 0 .. m.bbox[3] - m.bbox[1] - 1 |-> clamp_unit(PixelAt(b, m, Place(m, x, y)))]

Boxed(m) ==
  /\ OnGrid(m.bbox) /\ m.bbox[1] < m.bbox[3] /\ m.bbox[2] < m.bbox[4]

\* Picking the panels of the band drops none that covers a pixel of it.
LEMMA NoneDropped ==
  ASSUME blend \in Blends, Boxed(prep), y0 \in Nat, NEW r \in 0 .. RowsHere - 1,
         RowsHere \in Nat,
         NEW x \in 0 .. out_w - 1, y0 + r < out_h
  PROVE  LET c == Place(prep, x, y0 + r)
         IN  /\ Covering(c) = {p \in Ids : Panels[p].px[c] # 0}
             /\ FullyIn(c) = {p \in Ids : Panels[p].cov[c] = Full}
<1> DEFINE c == Place(prep, x, y0 + r)
<1>1. /\ prep.bbox[1] \in 0 .. W /\ prep.bbox[3] \in 0 .. W
      /\ prep.bbox[2] \in 0 .. H /\ prep.bbox[4] \in 0 .. H
      /\ W \in Nat /\ H \in Nat
  BY GridAssumption DEF Boxed, OnGrid
<1>2. /\ c[1] = prep.bbox[1] + x /\ c[2] = prep.bbox[2] + y0 + r
      /\ c[1] \in 0 .. W - 1 /\ c[2] \in 0 .. H - 1 /\ c = <<c[1], c[2]>>
  BY <1>1 DEF Place, out_w, out_h
<1>3. c \in Cells
  BY <1>2 DEF Cells
<1> HIDE DEF c
<1>4. ASSUME NEW p \in Ids, Panels[p].px[c] # 0
      PROVE  p \in Active /\ c \in Inside(Content(p))
  <2>1. c \in Inside(Content(p)) /\ OnGrid(Content(p))
    BY <1>3, <1>4, BoxHolds DEF Content
  <2>2. /\ Content(p)[2] <= c[2] /\ c[2] < Content(p)[4]
        /\ Content(p)[2] \in Int /\ Content(p)[4] \in Int
    BY <2>1, <1>1 DEF Inside, OnGrid
  <2>3. /\ Content(p)[2] < prep.bbox[2] + y0 + RowsHere
        /\ Content(p)[4] > prep.bbox[2] + y0
    BY <1>1, <1>2, <2>2
  <2> QED
    BY <2>1, <2>3 DEF Active
<1>5. Covering(c) = {p \in Ids : Panels[p].px[c] # 0}
  BY <1>4 DEF Covering, Active
<1>6. ASSUME NEW p \in Ids, Panels[p].cov[c] = Full
      PROVE  c[2] < Content(p)[4] /\ c[2] >= Content(p)[2]
  <2>1. Panels[p].px[c] # 0
    BY <1>3, <1>6, CompositorAssumption DEF Panels, Ids
  <2>2. c \in Inside(Content(p)) /\ OnGrid(Content(p))
    BY <1>4, <2>1, <1>3, BoxHolds DEF Content
  <2> QED
    BY <1>1, <1>2, <2>2 DEF Inside, OnGrid
<1>7. FullyIn(c) = {p \in Ids : Panels[p].cov[c] = Full}
  BY <1>6 DEF FullyIn
<1> QED
  BY <1>5, <1>7 DEF c

\* So a row of the pool is a row of the mosaic.
LEMMA DrawnIsLine ==
  ASSUME blend \in Blends, Boxed(prep), y0 \in Nat, RowsHere \in Nat,
         NEW r \in 0 .. RowsHere - 1, y0 + r < out_h
  PROVE  Drawn(r) = CropLine(blend, prep, y0 + r)
<1>1. ASSUME NEW x \in 0 .. out_w - 1
      PROVE  LET c == At(x, y0 + r)
             IN  Pixel(blend, prep, Covering(c), FullyIn(c), c)
                   = PixelAt(blend, prep, Place(prep, x, y0 + r))
  <2>1. At(x, y0 + r) = Place(prep, x, y0 + r)
    BY DEF At, Place
  <2> QED
    BY <2>1, NoneDropped DEF PixelAt, Panels, Ids
<1> QED
  BY <1>1 DEF Drawn, CropLine, out_w

\* And what the sinks get of it is that row, clamped.
LEMMA AssembledIsRow ==
  ASSUME NEW r \in DOMAIN drawn, drawn[r] = CropLine(blend, prep, y0 + r)
  PROVE  Assembled[r] = Row(blend, prep, y0 + r)
<1>1. Assembled[r] = [x \in DOMAIN drawn[r] |-> clamp_unit(drawn[r][x])]
  BY DEF Assembled
<1>2. /\ DOMAIN drawn[r] = 0 .. prep.bbox[3] - prep.bbox[1] - 1
      /\ \A x \in DOMAIN drawn[r] :
           drawn[r][x] = PixelAt(blend, prep, Place(prep, x, y0 + r))
  BY DEF CropLine
<1> QED
  BY <1>1, <1>2 DEF Row

-----------------------------------------------------------------------------
(* The invariant.  Until the end both sinks hold the same rows, the bands  *)
(* that were handed over; after a failure the first may hold one band more *)
(* than the second.                                                        *)

Early == {"start", "masked", "owned", "prepare", "open", "begin"}
IsSink(s) == s = [rows |-> s.rows, state |-> s.state]

Typed ==
  /\ blend \in Blends /\ y0 \in Nat
  /\ "bbox" \in DOMAIN prep
  /\ stage \in Early \cup {"draw", "ok", "error"}
  /\ \A i \in 1 .. 2 : IsSink(sinks[i])

\* The rows of the first y rows of the box.
Upper(y) == {n \in 0 .. out_h - 1 : n < y}

Handed ==
  /\ stage \in Early =>
       y0 = 0 /\ drawn = <<>> /\ \A i \in 1 .. 2 : sinks[i] = EmptySink
  /\ stage \in {"begin", "draw", "ok"} => Boxed(prep)
  /\ stage = "draw" =>
       \A i \in 1 .. 2 : sinks[i].state = "open" /\ DOMAIN sinks[i].rows = Upper(y0)
  /\ stage = "ok" =>
       \A i \in 1 .. 2 :
         sinks[i].state = "finished" /\ DOMAIN sinks[i].rows = 0 .. out_h - 1
  /\ stage # "error" => sinks[1].rows = sinks[2].rows

\* The rows of the band that are drawn are rows of the mosaic.
Drawing ==
  stage = "draw" =>
    /\ DOMAIN drawn \subseteq 0 .. RowsHere - 1
    /\ \A r \in DOMAIN drawn : drawn[r] = CropLine(blend, prep, y0 + r)

\* And so are those a sink holds.
RowsTrue ==
  \A i \in 1 .. 2 :
    /\ DOMAIN sinks[i].rows \subseteq 0 .. out_h - 1
    /\ \A y \in DOMAIN sinks[i].rows : sinks[i].rows[y] = Row(blend, prep, y)

IInv == Typed /\ Handed /\ Drawing /\ RowsTrue /\ SecondNeverAhead

\* Setting the state of a sink leaves its rows.
LEMMA SinkFields ==
  /\ IsSink(EmptySink) /\ DOMAIN EmptySink.rows = {} /\ EmptySink.state = "created"
  /\ \A s : IsSink(s) =>
       \A v : LET t == [s EXCEPT !.state = v]
              IN  IsSink(t) /\ t.rows = s.rows /\ t.state = v
BY DEF EmptySink, IsSink

\* Before anything is computed no sink holds a row.
LEMMA InitIInv == Init => IInv
<1> SUFFICES ASSUME Init PROVE IInv
  OBVIOUS
<1>1. /\ sinks[1] = EmptySink /\ sinks[2] = EmptySink /\ stage = "start"
      /\ blend \in Blends /\ y0 = 0 /\ drawn = <<>>
  BY DEF Init
<1>2. "bbox" \in DOMAIN prep
  BY DEF Init, NoMaps
<1>3. Typed
  BY <1>1, <1>2, SinkFields DEF Typed, Early
<1>4. Handed /\ Drawing /\ RowsTrue /\ SecondNeverAhead
  BY <1>1, SinkFields DEF Handed, Drawing, RowsTrue, SecondNeverAhead, Early
<1> QED
  BY <1>3, <1>4 DEF IInv

\* While the maps are made the sinks stay as they were created.
LEMMA PreparationStep ==
  ASSUME IInv, Mask \/ Own \/ Transitions \/ prep_from_summaries \/ Open
  PROVE  IInv'
<1>1. /\ UNCHANGED <<blend, y0, drawn, sinks>>
      /\ stage \in Early \ {"begin"} /\ stage' \in Early \cup {"error"}
  BY DEF Mask, Own, Transitions, prep_from_summaries, Open, Early
<1>2. "bbox" \in DOMAIN prep'
  BY DEF IInv, Typed, Mask, Own, Transitions, prep_from_summaries, Open
<1>3. stage' = "begin" => Boxed(prep')
  <2> SUFFICES ASSUME stage' = "begin" PROVE Boxed(prep')
    OBVIOUS
  <2>1. Open
    BY DEF Mask, Own, Transitions, prep_from_summaries
  <2>2. prep'.bbox = output_bbox /\ ~IsEmpty(output_bbox)
    BY <2>1 DEF Open, IInv, Typed
  <2>3. blend \in Blends
    BY DEF IInv, Typed
  <2> QED
    BY <2>2, <2>3, OutputOnGrid DEF Boxed
<1>4. /\ y0 = 0 /\ drawn = <<>> /\ \A i \in 1 .. 2 : sinks[i] = EmptySink
      /\ blend \in Blends
  BY <1>1 DEF IInv, Typed, Handed
<1>5. Typed'
  BY <1>1, <1>2, <1>4, SinkFields DEF Typed
<1>6. Handed'
  BY <1>1, <1>3, <1>4, SinkFields DEF Handed, Early
<1>7. Drawing' /\ RowsTrue'
  BY <1>1, <1>4, SinkFields DEF Drawing, RowsTrue, Early
<1>8. SecondNeverAhead'
  BY <1>1, <1>4, SinkFields DEF SecondNeverAhead
<1> QED
  BY <1>5, <1>6, <1>7, <1>8 DEF IInv

\* begin() reaches the first sink, then the second.
LEMMA BeginStep ==
  ASSUME IInv, Begin
  PROVE  IInv'
<1>1. /\ UNCHANGED <<blend, prep, y0, drawn>> /\ stage = "begin"
      /\ y0 = 0 /\ drawn = <<>> /\ Boxed(prep) /\ blend \in Blends
      /\ "bbox" \in DOMAIN prep /\ \A i \in 1 .. 2 : sinks[i] = EmptySink
  BY DEF Begin, IInv, Typed, Handed, Early
<1>2. PICK failing \in 0 .. 2 :
        /\ sinks' = [i \in 1 .. 2 |->
              IF i = failing THEN [sinks[i] EXCEPT !.state = "failed"]
              ELSE IF Reached(i, failing) THEN [sinks[i] EXCEPT !.state = "open"]
              ELSE sinks[i]]
        /\ stage' = IF failing = 0 THEN "draw" ELSE "error"
  BY DEF Begin, Tee
<1>3. \A i \in 1 .. 2 :
        /\ IsSink(sinks'[i]) /\ sinks'[i].rows = EmptySink.rows
        /\ sinks'[i].state = IF i = failing THEN "failed"
                             ELSE IF Reached(i, failing) THEN "open" ELSE "created"
  <2> TAKE i \in 1 .. 2
  <2>1. sinks[i] = EmptySink
    BY <1>1
  <2>2. CASE i = failing
    <3>1. sinks'[i] = [EmptySink EXCEPT !.state = "failed"]
      BY <1>2, <2>1, <2>2
    <3> QED
      BY <2>2, <3>1, SinkFields
  <2>3. CASE i # failing /\ Reached(i, failing)
    <3>1. sinks'[i] = [EmptySink EXCEPT !.state = "open"]
      BY <1>2, <2>1, <2>3
    <3> QED
      BY <2>3, <3>1, SinkFields
  <2>4. CASE i # failing /\ ~Reached(i, failing)
    BY <1>2, <2>1, <2>4, SinkFields
  <2> QED
    BY <2>2, <2>3, <2>4
<1>4. Typed'
  BY <1>1, <1>2, <1>3 DEF Typed
<1>5. Upper(0)' = {}
  BY DEF Upper
<1>6. Handed'
  BY <1>1, <1>2, <1>3, <1>5, SinkFields DEF Handed, Early, Reached, Upper
<1>7. Drawing' /\ RowsTrue'
  BY <1>1, <1>3, SinkFields DEF Drawing, RowsTrue
<1>8. SecondNeverAhead'
  BY <1>2, <1>3 DEF SecondNeverAhead, Reached
<1> QED
  BY <1>4, <1>6, <1>7, <1>8 DEF IInv

\* The rows of the present band are those of the box from y0 on, as many as a
\* band has.
LEMMA BandFits ==
  ASSUME blend \in Blends, y0 \in Nat, Boxed(prep), y0 < out_h
  PROVE  /\ RowsHere \in Nat /\ blend.band_rows \in Nat /\ out_h \in Nat
         /\ \A n \in 0 .. out_h - 1 :
              n >= y0 /\ n < y0 + blend.band_rows <=> n - y0 \in 0 .. RowsHere - 1
         /\ \A r \in 0 .. RowsHere - 1 : y0 + r \in 0 .. out_h - 1
<1>1. blend.band_rows \in Nat \ {0}
  BY CompositorAssumption
<1>2. out_h \in Nat
  BY GridAssumption DEF Boxed, OnGrid, out_h
<1> QED
  BY <1>1, <1>2 DEF RowsHere, Lesser

\* A thread of the pool draws a row of the band.
LEMMA DrawStep ==
  ASSUME IInv, NEW r \in Rows, DrawRow(r)
  PROVE  IInv'
<1>1. /\ UNCHANGED <<blend, stage, prep, y0, sinks>> /\ stage = "draw" /\ y0 < out_h
      /\ r \in 0 .. RowsHere - 1
      /\ drawn' = [q \in DOMAIN drawn \cup {r} |-> IF q = r THEN Drawn(r) ELSE drawn[q]]
  BY DEF DrawRow
<1>2. /\ blend \in Blends /\ y0 \in Nat /\ Boxed(prep)
      /\ DOMAIN drawn \subseteq 0 .. RowsHere - 1
      /\ \A q \in DOMAIN drawn : drawn[q] = CropLine(blend, prep, y0 + q)
  BY <1>1 DEF IInv, Typed, Handed, Drawing
<1>3. RowsHere \in Nat /\ y0 + r < out_h
  BY <1>1, <1>2, BandFits
<1>4. Drawn(r) = CropLine(blend, prep, y0 + r)
  BY <1>1, <1>2, <1>3, DrawnIsLine
<1>5. RowsHere' = RowsHere
  BY <1>1 DEF RowsHere, out_h
<1>6. Drawing'
  BY <1>1, <1>2, <1>4, <1>5 DEF Drawing
<1>7. Typed' /\ Handed' /\ RowsTrue' /\ SecondNeverAhead'
  BY <1>1
    DEF IInv, Typed, Handed, RowsTrue, SecondNeverAhead, Early, Upper, out_h
<1> QED
  BY <1>6, <1>7 DEF IInv

\* A band that is handed over adds its rows to those above it.
LEMMA WriteRows ==
  ASSUME IInv, stage = "draw", y0 < out_h, DOMAIN drawn = 0 .. RowsHere - 1,
         NEW i \in 1 .. 2
  PROVE  LET s == Write(sinks[i])
         IN  /\ IsSink(s) /\ s.state = "open"
             /\ DOMAIN s.rows = Upper(y0 + blend.band_rows)
             /\ \A y \in DOMAIN s.rows : s.rows[y] = Row(blend, prep, y)
<1> DEFINE s == Write(sinks[i])
           old == sinks[i].rows
<1>1. /\ IsSink(sinks[i]) /\ sinks[i].state = "open" /\ DOMAIN old = Upper(y0)
      /\ \A y \in DOMAIN old : old[y] = Row(blend, prep, y)
      /\ blend \in Blends /\ y0 \in Nat /\ Boxed(prep)
      /\ \A r \in DOMAIN drawn : drawn[r] = CropLine(blend, prep, y0 + r)
  BY DEF IInv, Typed, Handed, RowsTrue, Drawing
<1> DEFINE new == [y \in DOMAIN old \cup {y0 + r : r \in DOMAIN drawn} |->
                     IF y - y0 \in DOMAIN drawn THEN Assembled[y - y0] ELSE old[y]]
<1>2. IsSink(s) /\ s.state = "open" /\ s.rows = new
  BY <1>1 DEF Write, IsSink
<1>3. /\ RowsHere \in Nat /\ blend.band_rows \in Nat /\ out_h \in Nat
      /\ \A n \in 0 .. out_h - 1 :
           n >= y0 /\ n < y0 + blend.band_rows <=> n - y0 \in 0 .. RowsHere - 1
      /\ \A r \in 0 .. RowsHere - 1 : y0 + r \in 0 .. out_h - 1
  BY <1>1, BandFits
<1>4. DOMAIN new = Upper(y0 + blend.band_rows)
  <2>1. DOMAIN new = Upper(y0) \cup {y0 + r : r \in 0 .. RowsHere - 1}
    BY <1>1
  <2>2. \A n \in Upper(y0 + blend.band_rows) :
          n \in Upper(y0) \/ n \in {y0 + r : r \in 0 .. RowsHere - 1}
    <3> SUFFICES ASSUME NEW n \in Upper(y0 + blend.band_rows), n \notin Upper(y0)
                 PROVE  n \in {y0 + r : r \in 0 .. RowsHere - 1}
      OBVIOUS
    <3>1. n \in 0 .. out_h - 1 /\ n >= y0 /\ n < y0 + blend.band_rows
      BY <1>1, <1>3 DEF Upper
    <3>2. n - y0 \in 0 .. RowsHere - 1 /\ n = y0 + (n - y0)
      BY <1>1, <1>3, <3>1
    <3> QED
      BY <3>2
  <2>3. Upper(y0) \subseteq Upper(y0 + blend.band_rows)
    BY <1>1, <1>3 DEF Upper
  <2>4. ASSUME NEW r \in 0 .. RowsHere - 1
        PROVE  y0 + r \in Upper(y0 + blend.band_rows)
    <3>1. y0 + r \in 0 .. out_h - 1 /\ y0 + r >= y0 /\ (y0 + r) - y0 = r
      BY <1>1, <1>3
    <3>2. y0 + r < y0 + blend.band_rows
      BY <1>3, <3>1
    <3> QED
      BY <3>1, <3>2 DEF Upper
  <2> QED
    BY <2>1, <2>2, <2>3, <2>4
<1>5. ASSUME NEW y \in DOMAIN new PROVE new[y] = Row(blend, prep, y)
  <2>1. y \in Int
    BY <1>4 DEF Upper
  <2>2. CASE y - y0 \in DOMAIN drawn
    <3>1. Assembled[y - y0] = Row(blend, prep, y0 + (y - y0))
      BY <1>1, <2>2, AssembledIsRow
    <3>2. y0 + (y - y0) = y
      BY <1>1, <2>1
    <3> QED
      BY <2>2, <3>1, <3>2
  <2>3. CASE y - y0 \notin DOMAIN drawn
    <3>1. y \in DOMAIN old
      <4>1. ASSUME NEW r \in DOMAIN drawn, y = y0 + r PROVE FALSE
        <5>1. y - y0 = r
          BY <1>1, <4>1
        <5> QED
          BY <2>3, <5>1
      <4> QED
        BY <4>1
    <3> QED
      BY <1>1, <2>3, <3>1
  <2> QED
    BY <2>2, <2>3
<1> HIDE DEF new, s
<1> QED
  BY <1>2, <1>4, <1>5 DEF s

\* The Tee takes a band.
LEMMA BandStep ==
  ASSUME IInv, Band
  PROVE  IInv'
<1>1. /\ UNCHANGED <<blend, prep>> /\ stage = "draw" /\ y0 < out_h
      /\ DOMAIN drawn = 0 .. RowsHere - 1 /\ y0' = y0 + blend.band_rows /\ drawn' = <<>>
  BY DEF Band
<1>2. PICK failing \in 0 .. 2 :
        /\ sinks' = [i \in 1 .. 2 |->
              IF i = failing THEN [sinks[i] EXCEPT !.state = "failed"]
              ELSE IF Reached(i, failing) THEN Write(sinks[i])
              ELSE sinks[i]]
        /\ stage' = IF failing = 0 THEN "draw" ELSE "error"
  BY DEF Band, Tee
<1>3. /\ blend \in Blends /\ y0 \in Nat /\ Boxed(prep) /\ "bbox" \in DOMAIN prep
      /\ blend.band_rows \in Nat /\ out_h \in Nat
      /\ sinks[1].rows = sinks[2].rows
      /\ \A i \in 1 .. 2 :
           /\ IsSink(sinks[i]) /\ sinks[i].state = "open"
           /\ DOMAIN sinks[i].rows = Upper(y0)
           /\ \A y \in DOMAIN sinks[i].rows : sinks[i].rows[y] = Row(blend, prep, y)
  BY <1>1, BandFits DEF IInv, Typed, Handed, RowsTrue
<1> DEFINE wrote(i) == Write(sinks[i])
<1>4. \A i \in 1 .. 2 :
        /\ IsSink(wrote(i)) /\ wrote(i).state = "open"
        /\ DOMAIN wrote(i).rows = Upper(y0 + blend.band_rows)
        /\ \A y \in DOMAIN wrote(i).rows : wrote(i).rows[y] = Row(blend, prep, y)
  BY <1>1, WriteRows
<1>5. wrote(1).rows = wrote(2).rows
  BY <1>3 DEF Write, IsSink
<1>6. ASSUME NEW i \in 1 .. 2
      PROVE  /\ i = failing => /\ IsSink(sinks'[i]) /\ sinks'[i].state = "failed"
                               /\ sinks'[i].rows = sinks[i].rows
             /\ i # failing /\ Reached(i, failing) => sinks'[i] = wrote(i)
             /\ i # failing /\ ~Reached(i, failing) => sinks'[i] = sinks[i]
  <2>1. CASE i = failing
    <3>1. sinks'[i] = [sinks[i] EXCEPT !.state = "failed"]
      BY <1>2, <2>1
    <3> QED
      BY <1>3, <2>1, <3>1, SinkFields
  <2>2. CASE i # failing
    BY <1>2, <2>2
  <2> QED
    BY <2>1, <2>2
<1> HIDE DEF wrote
<1>7. Upper(y0) \subseteq Upper(y0 + blend.band_rows)
      /\ Upper(y0 + blend.band_rows) \subseteq 0 .. out_h - 1
  BY <1>3 DEF Upper
<1>8. out_h' = out_h /\ Upper(y0)' = Upper(y0 + blend.band_rows)
  BY <1>1 DEF out_h, Upper
<1>9. Typed'
  BY <1>1, <1>2, <1>3, <1>4, <1>6 DEF Typed
<1>10. Handed'
  <2>1. CASE failing = 0
    <3>1. sinks'[1] = wrote(1) /\ sinks'[2] = wrote(2) /\ stage' = "draw"
      BY <1>2, <1>6, <2>1 DEF Reached
    <3> QED
      BY <1>1, <1>3, <1>4, <1>5, <1>8, <3>1 DEF Handed, Early
  <2>2. CASE failing # 0
    BY <1>2, <2>2 DEF Handed, Early
  <2> QED
    BY <2>1, <2>2
<1>11. Drawing'
  BY <1>1 DEF Drawing
<1>12. RowsTrue'
  BY <1>1, <1>3, <1>4, <1>6, <1>7, <1>8 DEF RowsTrue
<1>13. SecondNeverAhead'
  <2>1. CASE failing = 0
    BY <1>4, <1>5, <1>6, <2>1 DEF SecondNeverAhead, Reached
  <2>2. CASE failing = 1
    BY <1>2, <1>3, <1>6, <2>2 DEF SecondNeverAhead, Reached
  <2>3. CASE failing = 2
    BY <1>2, <1>3, <1>4, <1>6, <1>7, <2>3 DEF SecondNeverAhead, Reached
  <2> QED
    BY <2>1, <2>2, <2>3
<1> QED
  BY <1>9, <1>10, <1>11, <1>12, <1>13 DEF IInv

\* finish() is called with all rows written, and not on the second sink when
\* the first one fails.
LEMMA FinishStep ==
  ASSUME IInv, Finish
  PROVE  IInv'
<1>1. UNCHANGED <<blend, prep, y0, drawn>> /\ stage = "draw" /\ y0 >= out_h
  BY DEF Finish
<1>2. PICK failing \in 0 .. 2 :
        /\ sinks' = [i \in 1 .. 2 |->
              IF i = failing THEN [sinks[i] EXCEPT !.state = "failed"]
              ELSE IF Reached(i, failing) THEN [sinks[i] EXCEPT !.state = "finished"]
              ELSE sinks[i]]
        /\ stage' = IF failing = 0 THEN "ok" ELSE "error"
  BY DEF Finish, Tee
<1>3. /\ blend \in Blends /\ y0 \in Nat /\ Boxed(prep) /\ "bbox" \in DOMAIN prep
      /\ sinks[1].rows = sinks[2].rows
      /\ \A i \in 1 .. 2 :
           /\ IsSink(sinks[i]) /\ sinks[i].state = "open"
           /\ DOMAIN sinks[i].rows = Upper(y0)
           /\ DOMAIN sinks[i].rows \subseteq 0 .. out_h - 1
           /\ \A y \in DOMAIN sinks[i].rows : sinks[i].rows[y] = Row(blend, prep, y)
  BY <1>1 DEF IInv, Typed, Handed, RowsTrue
<1>4. Upper(y0) = 0 .. out_h - 1
  <2>1. out_h \in Nat
    BY <1>3 DEF out_h, Boxed, OnGrid
  <2> QED
    BY <1>1, <1>3, <2>1 DEF Upper
<1>5. \A i \in 1 .. 2 :
        /\ IsSink(sinks'[i]) /\ sinks'[i].rows = sinks[i].rows
        /\ sinks'[i].state = IF i = failing THEN "failed"
                             ELSE IF Reached(i, failing) THEN "finished" ELSE "open"
  <2> TAKE i \in 1 .. 2
  <2>1. CASE i = failing
    <3>1. sinks'[i] = [sinks[i] EXCEPT !.state = "failed"]
      BY <1>2, <2>1
    <3> QED
      BY <1>3, <2>1, <3>1, SinkFields
  <2>2. CASE i # failing /\ Reached(i, failing)
    <3>1. sinks'[i] = [sinks[i] EXCEPT !.state = "finished"]
      BY <1>2, <2>2
    <3> QED
      BY <1>3, <2>2, <3>1, SinkFields
  <2>3. CASE i # failing /\ ~Reached(i, failing)
    BY <1>2, <1>3, <2>3
  <2> QED
    BY <2>1, <2>2, <2>3
<1>6. out_h' = out_h
  BY <1>1 DEF out_h
<1>7. Typed'
  BY <1>1, <1>2, <1>3, <1>5 DEF Typed
<1>8. Handed'
  BY <1>1, <1>2, <1>3, <1>4, <1>5, <1>6 DEF Handed, Early, Reached
<1>9. Drawing'
  BY <1>2 DEF Drawing
<1>10. RowsTrue'
  BY <1>1, <1>3, <1>5, <1>6 DEF RowsTrue
<1>11. SecondNeverAhead'
  BY <1>2, <1>3, <1>5 DEF SecondNeverAhead, Reached
<1> QED
  BY <1>7, <1>8, <1>9, <1>10, <1>11 DEF IInv

\* Every step of the blend keeps the invariant.
LEMMA IInvNext == IInv /\ [Next]_vars => IInv'
<1> SUFFICES ASSUME IInv, [Next]_vars PROVE IInv'
  OBVIOUS
<1>1. CASE Mask \/ Own \/ Transitions \/ prep_from_summaries \/ Open
  BY <1>1, PreparationStep
<1>2. CASE Begin
  BY <1>2, BeginStep
<1>3. CASE \E r \in Rows : DrawRow(r)
  BY <1>3, DrawStep
<1>4. CASE Band
  BY <1>4, BandStep
<1>5. CASE Finish
  BY <1>5, FinishStep
<1>6. CASE UNCHANGED vars
  BY <1>6
    DEF vars, IInv, Typed, Handed, Drawing, RowsTrue, SecondNeverAhead, Upper,
     out_h, RowsHere
<1> QED
  BY <1>1, <1>2, <1>3, <1>4, <1>5, <1>6 DEF Next

\* For every canvas, all panels, modes, extents and regions, bands of any
\* height and rows drawn in any order: a blend that reports success has
\* written every row of its box to both sinks, each drawn from all the panels
\* that cover it, and after a failure the second sink is never ahead.
THEOREM SinksAlwaysHoldTheCrop == Spec => []SinksHoldTheCrop
<1>1. IInv => SinksHoldTheCrop
  <2> SUFFICES ASSUME IInv PROVE SinksHoldTheCrop
    OBVIOUS
  <2>1. \A y : Row(blend, prep, y) = [x \in 0 .. out_w - 1 |->
           LET c == At(x, y)
           IN  clamp_unit(Pixel(blend, prep, Seen(c), WholeIn(c), c))]
    BY DEF Row, out_w, At, Place, PixelAt, Seen, WholeIn, Panels, Ids
  <2> QED
    BY <2>1 DEF IInv, Handed, RowsTrue, SinksHoldTheCrop
<1> QED
  BY <1>1, InitIInv, IInvNext, PTL DEF Spec

-----------------------------------------------------------------------------
(* The maps of the blend, from the step that makes them on.  *)

Mapped ==
  /\ DOMAIN prep = DOMAIN NoMaps
  /\ TwoBand /\ stage \in {"prepare", "open", "begin", "draw"} =>
        prep.t \in Plane /\ \A p \in Ids : prep.ramps[p] \in Plane
  /\ stage \in {"open", "begin", "draw"} =>
        \A p \in Ids : prep.dist[p] \in Plane /\ prep.base[p] \in Values
  /\ stage # "draw" => DOMAIN drawn = {}

\* Before the first step there are no maps.
LEMMA InitMapped == Init => Mapped
<1> SUFFICES ASSUME Init PROVE Mapped
  OBVIOUS
<1>1. prep = NoMaps /\ stage = "start" /\ drawn = <<>>
  BY DEF Init
<1>2. DOMAIN <<>> = {}
  OBVIOUS
<1> QED
  BY <1>1, <1>2 DEF Mapped

\* What a step that makes maps leaves of the others.
LEMMA MappedNext == IInv /\ Mapped /\ [Next]_vars => Mapped'
<1> SUFFICES ASSUME IInv, Mapped, [Next]_vars PROVE Mapped'
  OBVIOUS
<1>0. blend \in Blends /\ DOMAIN prep = DOMAIN NoMaps /\ (stage \in Early => drawn = <<>>)
  BY DEF IInv, Typed, Handed, Mapped
<1>e. DOMAIN <<>> = {}
  OBVIOUS
<1>f. DOMAIN NoMaps = {"masks", "splits", "owner", "hard", "ramps", "t", "dist", "base", "bbox"}
  BY DEF NoMaps
<1>1. CASE Mask
  <2>1. blend' = blend /\ drawn' = drawn /\ drawn = <<>>
        /\ stage' = IF TwoBand THEN "masked" ELSE "prepare"
    BY <1>0, <1>1 DEF Mask, Early
  <2>2. DOMAIN prep' = DOMAIN prep
    BY <1>1 DEF Mask
  <2> QED
    BY <1>0, <1>e, <2>1, <2>2 DEF Mapped, TwoBand
<1>2. CASE Own
  <2>1. blend' = blend /\ drawn' = drawn /\ drawn = <<>> /\ stage' = "owned"
    BY <1>0, <1>2 DEF Own, Early
  <2>2. DOMAIN prep' = DOMAIN prep
    BY <1>2 DEF Own
  <2> QED
    BY <1>0, <1>e, <2>1, <2>2 DEF Mapped, TwoBand
<1>3. CASE Transitions
  <2>1. blend' = blend /\ drawn' = drawn /\ drawn = <<>> /\ stage' = "prepare"
    BY <1>0, <1>3 DEF Transitions, Early
  <2>2. DOMAIN prep' = DOMAIN prep
    BY <1>3 DEF Transitions
  <2>3. /\ prep'.t = ref_t(prep.masks)
        /\ prep'.ramps = ramps(prep.owner, [p \in Ids |-> prep.splits[p].structure], Len(Panels))
    BY <1>0, <1>3, <1>f DEF Transitions
  <2>4. ASSUME NEW p \in Ids PROVE prep'.ramps[p] \in Plane
    <3>1. p \in 1 .. Len(Panels)
      BY <1>0, CompositorAssumption DEF Panels, Ids
    <3> QED
      BY <2>3, <3>1, RampsOf DEF IsRamp
  <2>5. prep'.t \in Plane
    BY <2>3, SwitchPlane
  <2> QED
    BY <1>0, <1>e, <2>1, <2>2, <2>4, <2>5 DEF Mapped, TwoBand, Ids, Panels
<1>4. CASE prep_from_summaries
  <2>1. blend' = blend /\ drawn' = drawn /\ drawn = <<>> /\ stage' = "open" /\ stage = "prepare"
    BY <1>0, <1>4 DEF prep_from_summaries, Early
  <2>2. DOMAIN prep' = DOMAIN prep /\ prep'.t = prep.t /\ prep'.ramps = prep.ramps
    BY <1>0, <1>4, <1>f DEF prep_from_summaries
  <2>3. ASSUME NEW p \in Ids PROVE prep'.dist[p] \in Plane /\ prep'.base[p] \in Values
    <3>1. /\ prep'.dist[p] = distance_map(Panels[p].cov)
          /\ prep'.base[p] = suppress_stars_in_base([c \in Cells |-> corrected(Panels[p], c)],
                                        Panels[p].cov, prep.masks[p])
      BY <1>0, <1>4, <1>f DEF prep_from_summaries
    <3>2. [c \in Cells |-> corrected(Panels[p], c)] \in Values
      <4>1. \A c \in Cells : corrected(Panels[p], c) \in Int
        BY <1>0, CompositorAssumption DEF corrected, Panels, Ids
      <4> QED
        BY <4>1 DEF Values
    <3> QED
      BY <3>1, <3>2, DistanceMap, FilledBase DEF DistanceOf
  <2> QED
    BY <1>0, <1>e, <2>1, <2>2, <2>3 DEF Mapped, TwoBand, Ids, Panels
<1>5. CASE Open
  <2>1. blend' = blend /\ drawn' = drawn /\ drawn = <<>> /\ stage' \in {"begin", "error"} /\ stage = "open"
    BY <1>0, <1>5 DEF Open, Early
  <2>2. /\ DOMAIN prep' = DOMAIN prep /\ prep'.t = prep.t /\ prep'.ramps = prep.ramps
        /\ prep'.dist = prep.dist /\ prep'.base = prep.base
    BY <1>0, <1>5, <1>f DEF Open
  <2> QED
    BY <1>0, <1>e, <2>1, <2>2 DEF Mapped, TwoBand, Ids, Panels
<1>6. CASE Begin
  <2>1. blend' = blend /\ drawn' = drawn /\ drawn = <<>> /\ prep' = prep
        /\ stage' \in {"draw", "error"} /\ stage = "begin"
    BY <1>0, <1>6 DEF Begin, Tee, Early
  <2> QED
    BY <1>0, <1>e, <2>1 DEF Mapped, TwoBand, Ids, Panels
<1>7. CASE \E r \in Rows : DrawRow(r)
  <2>1. blend' = blend /\ prep' = prep /\ stage' = stage /\ stage = "draw"
    BY <1>7 DEF DrawRow
  <2> QED
    BY <2>1 DEF Mapped, TwoBand, Ids, Panels
<1>8. CASE Band
  <2>1. blend' = blend /\ prep' = prep /\ stage' \in {"draw", "error"} /\ stage = "draw" /\ drawn' = <<>>
    BY <1>8 DEF Band, Tee
  <2> QED
    BY <1>e, <2>1 DEF Mapped, TwoBand, Ids, Panels
<1>9. CASE Finish
  <2>1. /\ blend' = blend /\ prep' = prep /\ stage' \in {"ok", "error"} /\ stage = "draw"
        /\ drawn' = drawn /\ y0 >= out_h
    BY <1>9 DEF Finish, Tee
  <2>2. DOMAIN drawn \subseteq 0 .. RowsHere - 1 /\ Boxed(prep) /\ y0 \in Nat
    BY <2>1 DEF IInv, Drawing, Handed, Typed
  <2>3. blend.band_rows \in Nat \ {0}
    BY <1>0, CompositorAssumption
  <2>4. out_h \in Int
    BY <2>2, GridAssumption DEF out_h, Boxed, OnGrid
  <2>5. RowsHere \in Int /\ RowsHere <= 0
    BY <2>1, <2>2, <2>3, <2>4 DEF RowsHere, Lesser
  <2>6. DOMAIN drawn = {}
    <3>1. 0 .. RowsHere - 1 = {}
      BY <2>5
    <3> QED
      BY <2>2, <3>1
  <2> QED
    BY <2>1, <2>6 DEF Mapped, TwoBand, Ids, Panels
<1>10. CASE UNCHANGED vars
  BY <1>10 DEF Mapped, vars, TwoBand, Ids, Panels
<1> QED
  BY <1>1, <1>2, <1>3, <1>4, <1>5, <1>6, <1>7, <1>8, <1>9, <1>10 DEF Next

\* Whatever the canvas, the panels, the mode and the order the rows are drawn in,
\* a pixel is nothing where no panel has one; and where the parts of base and
\* detail cancel, it is between the least and the greatest pixel of the panels.
THEOREM PixelsAlwaysStayBetween == Spec => []StaysBetween
<1>1. IInv /\ Mapped => StaysBetween
  <2> SUFFICES ASSUME IInv, Mapped, blend.mode # "l8", NEW r \in DOMAIN drawn,
                      NEW x \in DOMAIN drawn[r]
               PROVE  LET c    == At(x, y0 + r)
            cov  == Seen(c)
            full == {Full_(Panels[p], c) : p \in cov}
            cancels == \/ blend.mode = "feather"
                       \/ prep.t[c] = HaloCells * Straight
                       \/ blend.mode = "twoband" /\ \A p, q \in cov : prep.base[p][c] = prep.base[q][c]
        IN  /\ cov = {} => drawn[r][x] = Zero
            /\ cov # {} /\ cancels => /\ AtMost(<<Min(full), 1>>, drawn[r][x])
                                      /\ AtMost(drawn[r][x], <<Max(full), 1>>)
    BY DEF StaysBetween
  <2>1. stage = "draw"
    BY DEF Mapped
  <2>2. /\ blend \in Blends /\ Boxed(prep) /\ y0 \in Nat
        /\ r \in 0 .. RowsHere - 1 /\ drawn[r] = CropLine(blend, prep, y0 + r)
    BY <2>1 DEF IInv, Typed, Handed, Drawing
  <2> DEFINE c == At(x, y0 + r)
  <2>3. x \in 0 .. out_w - 1 /\ drawn[r][x] = PixelAt(blend, prep, c)
    BY <2>2 DEF CropLine, Place, At, out_w
  <2>4. c \in Cells
    <3>1. /\ prep.bbox[1] \in 0 .. W /\ prep.bbox[3] \in 0 .. W
          /\ prep.bbox[2] \in 0 .. H /\ prep.bbox[4] \in 0 .. H
          /\ W \in Nat /\ H \in Nat
      BY <2>2, GridAssumption DEF Boxed, OnGrid
    <3>2. y0 + r < out_h
      <4>1. out_h \in Int /\ blend.band_rows \in Nat \ {0}
        <5>1. out_h \in Int
          BY <3>1 DEF out_h
        <5>2. blend.band_rows \in Nat \ {0}
          BY <2>2, CompositorAssumption
        <5> QED
          BY <5>1, <5>2
      <4>2. RowsHere \in Int /\ RowsHere <= out_h - y0
        BY <2>2, <4>1 DEF RowsHere, Lesser
      <4> QED
        BY <2>2, <4>1, <4>2
    <3>3. prep.bbox[1] + x \in 0 .. W - 1 /\ prep.bbox[2] + (y0 + r) \in 0 .. H - 1
      BY <2>2, <2>3, <3>1, <3>2 DEF out_w, out_h
    <3> QED
      BY <3>3 DEF Cells, At
  <2>5. MapsOf(blend, prep)
    BY <2>1 DEF Mapped, MapsOf, TwoBand, Ids, Panels
  <2> HIDE DEF c
  <2>6. PixelInside(blend, prep, c)
    BY <2>2, <2>4, <2>5, PixelStaysInside
  <2> QED
    BY <2>3, <2>6
      DEF PixelInside, PixelAt, Seen, Panels, Ids, Between, Cancels, c
<1> QED
  BY <1>1, InitIInv, IInvNext, InitMapped, MappedNext, PTL DEF Spec
=============================================================================

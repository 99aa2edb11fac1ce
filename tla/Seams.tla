------------------------------- MODULE Seams --------------------------------
(* seam.rs: the star masks, their split into compact stars and extended       *)
(* structure, and the owner map that every blend mode shares: Voronoi labels  *)
(* refined edge by edge with a dynamic-programming seam.                      *)
(* A panel is [cov, det, mean, gain, off, surf]: coverage, channel-max detail *)
(* energy and mean per cell, its photometric terms and its residual surface   *)
(* evaluated at the cells.  One channel stands for all: the code takes the    *)
(* largest value over the channels wherever it uses them.                     *)
EXTENDS Overlap

CONSTANTS SeedFactor,                        \* MASK_SEED_FACTOR
          GrowTimes, GrowOver,               \* MASK_GROW_FACTOR, as a fraction
          CompactArea, CompactDim, ThinRatio,\* COMPACT_MAX_AREA, _MAX_DIM, _THIN_RATIO
          MaskCostFactor, DetailBeta, DpMinLong,
          Uncuttable,                        \* UNSHARED_COST
          FeatherSteps, FloorSteps           \* feather width and MIN_WEIGHT, as distances

ASSUME SeamAssumption ==
    /\ {SeedFactor, GrowTimes, GrowOver, CompactArea, CompactDim, ThinRatio} \subseteq Nat
    /\ {MaskCostFactor, DetailBeta, DpMinLong, FeatherSteps, Uncuttable} \subseteq Nat
    /\ FloorSteps \in Nat \ {0} /\ FloorSteps <= FeatherSteps /\ Uncuttable > Far

NoOwner == 0    \* u16::MAX: no panel covers the cell

-----------------------------------------------------------------------------
(* star_mask: seeds are the cells with detail far above the median of the     *)
(* fully covered cells, grown over covered cells that are merely bright.      *)

Covered(p)    == {c \in Cells : p.cov[c] > 0}
MedianDetail(p) == Median([c \in FullCells(p.cov) |-> p.det[c]])
Seeds(p) == {c \in Covered(p) : p.det[c] > SeedFactor * MedianDetail(p)}
Bright(p) == {c \in Covered(p) : GrowOver * p.det[c] > GrowTimes * MedianDetail(p)}

star_mask_unconnected(p) ==                                              \* mutant
    IF FullCells(p.cov) = {} THEN {} ELSE Seeds(p) \cup Bright(p)
star_mask(p) ==
    IF FullCells(p.cov) = {} THEN {} ELSE Flood(Seeds(p), Bright(p), Near)

(* split_mask_components: the part of the mask in small or thin components.   *)
Component(mask, c) == Flood({c}, mask, Near)
IsCompact(comp) ==
    LET b   == Box(comp)
        dim == Greater(b[3] - b[1], b[4] - b[2])
        n   == Cardinality(comp)
    IN  n <= CompactArea \/ dim <= CompactDim \/ n <= ThinRatio * dim
split_mask_components(mask) ==
    LET compact == {c \in mask : IsCompact(Component(mask, c))}
    IN  [compact |-> compact, structure |-> mask \ compact]

-----------------------------------------------------------------------------
(* compute_owner_map_masked, first stage: the panel with the largest feather  *)
(* weight, ties by distance, then by the lower index.  Distances are the      *)
(* chamfer distances, infinite ones taken for a very large number.            *)

WeightOf(d) == Lesser(Greater(d, FloorSteps), FeatherSteps)
voronoi(panels, dists) ==
    LET Key(p, c) == << WeightOf(dists[p][c]), dists[p][c], -p >>
        Beats(k, l) == \/ k[1] > l[1]
                       \/ k[1] = l[1] /\ (k[2] > l[2] \/ (k[2] = l[2] /\ k[3] >= l[3]))
    IN  [c \in Cells |->
            LET here == {p \in DOMAIN panels : panels[p].cov[c] > 0}
            IN  IF here = {} THEN NoOwner
                ELSE CHOOSE p \in here : \A q \in here : Beats(Key(p, c), Key(q, c))]

(* CellCorr: a mean with the photometry and the surface of its panel, and its *)
(* detail scaled by the gain.                                                 *)
corrected(p, c) == p.mean[c] * p.gain + p.off + p.surf[c]
detail(p, c)    == Greater(p.det[c] * p.gain, 0)

-----------------------------------------------------------------------------
(* edge_seam: the band is the box of an edge, its long axis t, its short axis *)
(* s.  The seam runs at a boundary between two short-axis cells (0 and SLen   *)
(* give the whole band to one side) and moves by at most one per step.        *)

AlongX(e) == e.bbox8[3] - e.bbox8[1] >= e.bbox8[4] - e.bbox8[2]
TLen(e) == IF AlongX(e) THEN e.bbox8[3] - e.bbox8[1] ELSE e.bbox8[4] - e.bbox8[2]
SLen(e) == IF AlongX(e) THEN e.bbox8[4] - e.bbox8[2] ELSE e.bbox8[3] - e.bbox8[1]
CellAt(e, t, s) == IF AlongX(e) THEN <<e.bbox8[1] + t, e.bbox8[2] + s>>
                                ELSE <<e.bbox8[1] + s, e.bbox8[2] + t>>
Shared(panels, e) ==
    {c \in Inside(e.bbox8) : panels[e.a].cov[c] = Full /\ panels[e.b].cov[c] = Full}

(* Cost of a cell: disagreement plus detail, more in the star masks, and out  *)
(* of bounds where the panels do not both cover it in full.                   *)
PlainCost(panels, e, c) ==
    Abs(corrected(panels[e.a], c) - corrected(panels[e.b], c))
      + DetailBeta * Greater(detail(panels[e.a], c), detail(panels[e.b], c))
CellCostsUnmasked(panels, masks, e) ==                                   \* mutant
    [c \in Inside(e.bbox8) |->
        IF c \notin Shared(panels, e) THEN Uncuttable ELSE PlainCost(panels, e, c)]
StarPenalty(panels, e) ==      \* on the median of what the shared cells plainly cost
    IF Shared(panels, e) = {} THEN 0
    ELSE MaskCostFactor * Median([c \in Shared(panels, e) |-> PlainCost(panels, e, c)])
CellCosts(panels, masks, e) ==
    LET shared  == Shared(panels, e)
        penalty == StarPenalty(panels, e)
    IN  [c \in Inside(e.bbox8) |->
            IF c \notin shared THEN Uncuttable
            ELSE PlainCost(panels, e, c)
                   + (IF c \in masks[e.a] \cup masks[e.b] THEN penalty ELSE 0)]

(* Cutting at boundary s costs the cells on both sides of it.                 *)
BoundaryCost(cost, e, t, s) ==
    (IF s > 0 THEN cost[CellAt(e, t, s - 1)] ELSE 0)
      + (IF s < SLen(e) THEN cost[CellAt(e, t, s)] ELSE 0)

(* Of the boundaries next to s in the column before: s itself, then s - 1,    *)
(* then s + 1, the later ones only when strictly cheaper.                     *)
Cheapest(column, s) ==
    LET low == IF s - 1 \in DOMAIN column /\ column[s - 1].cost < column[s].cost
               THEN s - 1 ELSE s
    IN  IF s + 1 \in DOMAIN column /\ column[s + 1].cost < column[low].cost
        THEN s + 1 ELSE low

FirstColumn(cost, e) ==
    [s \in 0 .. SLen(e) |-> [cost |-> BoundaryCost(cost, e, 0, s), from |-> s]]
NextColumn(cost, e, t, prev) ==
    [s \in 0 .. SLen(e) |->
        LET f == Cheapest(prev, s)
        IN  [cost |-> prev[f].cost + BoundaryCost(cost, e, t, s), from |-> f]]
Columns(cost, e) ==
    FoldLeft(LAMBDA cols, t : Append(cols, NextColumn(cost, e, t, cols[Len(cols)])),
             <<FirstColumn(cost, e)>>, [i \in 1 .. TLen(e) - 1 |-> i])

(* The cheapest last boundary (the first of equals), then back column by      *)
(* column.  Positions of the path count from 1.                               *)
SeamPath(cost, e) ==
    LET cols == Columns(cost, e)
        end  == cols[TLen(e)]
        last == CHOOSE s \in DOMAIN end : \A r \in DOMAIN end :
                    end[s].cost < end[r].cost \/ (end[s].cost = end[r].cost /\ s <= r)
    IN  FoldLeft(LAMBDA path, t : <<cols[t + 1][path[1]].from>> \o path,
                 <<last>>, [i \in 1 .. TLen(e) - 1 |-> TLen(e) - i])

edge_seam_box(panels, dists, masks, e) ==                                \* mutant
    LET path == SeamPath(CellCosts(panels, masks, e), e)
    IN  [c \in Inside(e.bbox8) |-> IF c[2] < path[1] THEN e.a ELSE e.b]

(* The side of low s goes to the panel that is deeper along the low edge of   *)
(* the band; only shared cells change hands.  No seam in a small corner.      *)
edge_seam(panels, dists, masks, e) ==
    LET path  == SeamPath(CellCosts(panels, masks, e), e)
        score == MapThenSumSet(LAMBDA t : dists[e.a][CellAt(e, t, 0)]
                                            - dists[e.b][CellAt(e, t, 0)], 0 .. TLen(e) - 1)
        low   == IF score >= 0 THEN e.a ELSE e.b
        high  == IF score >= 0 THEN e.b ELSE e.a
        where == [c \in Inside(e.bbox8) |->
                    CHOOSE ts \in (0 .. TLen(e) - 1) \X (0 .. SLen(e) - 1) :
                        CellAt(e, ts[1], ts[2]) = c]
    IN  IF e.bbox8[3] - e.bbox8[1] < DpMinLong /\ e.bbox8[4] - e.bbox8[2] < DpMinLong
        THEN [c \in {} |-> NoOwner]
        ELSE [c \in Shared(panels, e) |->
                IF where[c][2] < path[where[c][1] + 1] THEN low ELSE high]

(* Second stage: the relabelled cells of every edge, later edges over earlier.*)
Relabelled(owner, ops) == [c \in Cells |-> IF c \in DOMAIN ops THEN ops[c] ELSE owner[c]]
Refined(owner, pair, panels, dists, masks, edges) ==
    IF ~ \E e \in edges : <<e.a, e.b>> = pair THEN owner
    ELSE Relabelled(owner, edge_seam(panels, dists, masks,
                                     CHOOSE e \in edges : <<e.a, e.b>> = pair))
compute_owner_map_masked(panels, edges, masks) ==
    LET dists == [p \in DOMAIN panels |-> distance_map(panels[p].cov)]
    IN  FoldLeft(LAMBDA owner, pair : Refined(owner, pair, panels, dists, masks, edges),
                 voronoi(panels, dists), EdgeOrder(Len(panels)))

compute_owner_map(panels, edges) ==
    compute_owner_map_masked(panels, edges, [p \in DOMAIN panels |-> star_mask(panels[p])])

-----------------------------------------------------------------------------
(* What the results should be.                                                *)

(* The mask is the smallest set that holds the seeds and is closed under      *)
(* stepping to a bright neighbour: nothing bright is left next to it, every   *)
(* part of it goes back to a seed, and nothing else is in it.                 *)
IsStarMask(p, mask) ==
    IF FullCells(p.cov) = {} THEN mask = {}
    ELSE /\ Seeds(p) \subseteq mask
         /\ \A c \in Bright(p) : Near(c) \cap mask # {} => c \in mask
         /\ \A c \in mask : Component(mask, c) \cap Seeds(p) # {}
         /\ mask \subseteq Seeds(p) \cup Bright(p)

(* The two parts are disjoint, make up the mask, and no component is cut.     *)
IsSplit(mask, parts) ==
    /\ parts.compact \cap parts.structure = {}
    /\ parts.compact \cup parts.structure = mask
    /\ \A c, d \in mask : d \in Near(c) => (c \in parts.compact <=> d \in parts.compact)

(* A cell has an owner exactly when a panel has pixels in it; the owner is    *)
(* one of those panels, and one that covers the cell in full if there is one. *)
OwnersCover(panels, owner) ==
    \A c \in Cells :
        LET here  == {p \in DOMAIN panels : panels[p].cov[c] > 0}
            whole == {p \in DOMAIN panels : panels[p].cov[c] = Full}
        IN  /\ owner[c] = NoOwner <=> here = {}
            /\ here # {} => owner[c] \in here
            /\ whole # {} => owner[c] \in whole

(* No path that moves by at most one per step is cheaper than the seam.       *)
CostIn(cost, e, path, T) ==
    SumFunctionOnSet([t \in 1 .. TLen(e) |-> BoundaryCost(cost, e, t - 1, path[t])], T)
PathCost(cost, e, path) == CostIn(cost, e, path, 1 .. TLen(e))
Paths(e) ==
    {p \in [1 .. TLen(e) -> 0 .. SLen(e)] :
        \A t \in 2 .. TLen(e) : Abs(p[t] - p[t - 1]) <= 1}
IsOptimal(cost, e, path) ==
    /\ path \in Paths(e)
    /\ \A p \in Paths(e) : PathCost(cost, e, path) <= PathCost(cost, e, p)

(* The cells a seam touches in the columns T: those beside its boundary.      *)
Touched(e, path, T) ==
    {CellAt(e, t - 1, path[t] - 1) : t \in {u \in T : path[u] > 0}}
      \cup {CellAt(e, t - 1, path[t]) : t \in {u \in T : path[u] < SLen(e)}}

(* A seam goes round a star where a way round is cheap: if another path, in   *)
(* the columns T where it leaves the seam, runs over shared cells off the     *)
(* stars and their plain costs stay below the penalty on one starred cell,    *)
(* the seam touches no starred cell there.                                    *)
SparesStars(panels, masks, e, path) ==
    LET shared == Shared(panels, e)
        stars  == shared \cap (masks[e.a] \cup masks[e.b])
        plain  == [c \in Inside(e.bbox8) |-> PlainCost(panels, e, c)]
    IN  \A p \in Paths(e) :
            LET T == {t \in 1 .. TLen(e) : p[t] # path[t]}
            IN  /\ Touched(e, p, T) \subseteq shared \ stars
                /\ CostIn(plain, e, p, T) < StarPenalty(panels, e)
                => Touched(e, path, T) \cap stars = {}
=============================================================================

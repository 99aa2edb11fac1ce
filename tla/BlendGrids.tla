----------------------------- MODULE BlendGrids -----------------------------
(* The cell grids a blend is drawn from (blend.rs): the base plane with the   *)
(* stars filled in, the zone a panel's base is valid in, the ramps and the    *)
(* star locks at the seams, and the plane that switches the detail reference  *)
(* where base content is invented.  Values of cells are integers; a mean is   *)
(* rounded down, which stands for the rounding of f32.                        *)
EXTENDS Seams

CONSTANTS FillLocalLayers,       \* FILL_LOCAL_LAYERS
          AnchorMad,             \* ANCHOR_MAD_K
          RampCells, WideCells,  \* RAMP_PX and WIDE_RAMP_PX over BLOCK
          HaloCells              \* the halo of the switch, feather over BLOCK, clamped

ASSUME GridsAssumption ==
    /\ {FillLocalLayers, AnchorMad} \subseteq Nat /\ HaloCells \in Nat \ {0}
    /\ RampCells \in Nat \ {0} /\ WideCells = 2 * RampCells

-----------------------------------------------------------------------------
(* suppress_stars_in_base: the trusted cells are fully covered and unmasked;  *)
(* every other cell the base can be sampled at is filled from outside in.     *)

base_reach(cov) == Dilated({c \in Cells : cov[c] > 0}, 2)

Trusted(cov, mask) == FullCells(cov) \ mask
BrightThreshold(val, trusted) ==
    LET med == Median([c \in trusted |-> val[c]])
        mad == Median([c \in trusted |-> Abs(val[c] - med)])
    IN  med + AnchorMad * mad

MeanOver(val, S) == SumFunctionOnSet(val, S) \div Cardinality(S)

(* One pass: cells next to an available one take the mean of those around     *)
(* them.  After the local passes only cells at background level go on giving. *)
FillPass(st, threshold) ==
    LET avail == IF st.round = FillLocalLayers
                 THEN {c \in st.avail : st.val[c] <= threshold} ELSE st.avail
        newly == {c \in st.unfilled : Near(c) \cap avail # {}}
    IN  [val      |-> [c \in Cells |-> IF c \in newly THEN MeanOver(st.val, Near(c) \cap avail)
                                       ELSE st.val[c]],
         avail    |-> avail \cup newly,
         unfilled |-> st.unfilled \ newly,
         round    |-> st.round + 1,
         stuck    |-> newly = {}]

(* The number of cells bounds the passes; the 256 of the code is not reached. *)
Unfilled(val, cov, mask) ==
    [val |-> val, avail |-> Trusted(cov, mask),
     unfilled |-> base_reach(cov) \ Trusted(cov, mask), round |-> 0, stuck |-> FALSE]
Fills(start, threshold) ==
    FoldLeft(LAMBDA st, c : IF st.unfilled = {} \/ st.stuck THEN st ELSE FillPass(st, threshold),
             start, Raster)
suppress_stars_in_base(val, cov, mask) ==
    LET trusted == Trusted(cov, mask)
    IN  IF trusted = {} THEN val
        ELSE Fills(Unfilled(val, cov, mask), BrightThreshold(val, trusted)).val

(* What the fill promises.  The cells the local passes can get to are those a *)
(* few layers around the trusted ones.                                        *)
Peel(cov, S) == S \cup {d \in base_reach(cov) : Near(d) \cap S # {}}
LocalReach(cov, mask) ==
    FoldLeft(LAMBDA S, i : Peel(cov, S), Trusted(cov, mask), [i \in 1 .. FillLocalLayers |-> i])

(* Trusted cells and cells out of reach keep their value; a cell a few layers *)
(* in is filled from trusted values and lies among them; one further in may   *)
(* stay raw, but never takes a value above the background.                    *)
IsOnionFill(val, cov, mask, out) ==
    LET trusted == Trusted(cov, mask)
        among   == {val[c] : c \in trusted}
        local   == LocalReach(cov, mask)
    IN  \A c \in Cells :
            IF trusted = {} \/ c \in trusted \/ c \notin base_reach(cov) THEN out[c] = val[c]
            ELSE IF c \in local THEN Min(among) <= out[c] /\ out[c] <= Max(among)
                 ELSE out[c] = val[c] \/ out[c] <= BrightThreshold(val, trusted)

-----------------------------------------------------------------------------
(* detail_transition_maps: around a boundary between two owners, lock the     *)
(* cells where a compact star touches it, widen the ramp where extended       *)
(* structure does.                                                            *)

Boundaries(owner) ==
    {p \in Cells \X Cells :
        /\ p[2] \in {<<p[1][1] + 1, p[1][2]>>, <<p[1][1], p[1][2] + 1>>}
        /\ NoOwner \notin {owner[p[1]], owner[p[2]]} /\ owner[p[1]] # owner[p[2]]}
Zone(owner, masks, r) ==
    Dilated(UNION {{p[1], p[2]} : p \in {q \in Boundaries(owner) :
                q[1] \in masks[owner[q[1]]] \/ q[2] \in masks[owner[q[2]]]}}, r)
hard(owner, compact)   == Zone(owner, compact, RampCells)
wide(owner, structure) == Zone(owner, structure, WideCells)

(* The ramp of a panel from 0 to 2 * WideCells * Straight, which stands for   *)
(* 1: the signed distance to its owned cells over the half width.             *)
RampTop == 2 * WideCells * Straight
Owned(owner, p) == {c \in Cells : owner[c] = p}
Indicator(S) == [c \in Cells |-> IF c \in S THEN Full ELSE 0]
rampInverted(owner, structure, p) ==                                     \* mutant
    LET d_in == distance_map(Indicator(Cells \ Owned(owner, p)))
    IN  [c \in Cells |-> Lesser(d_in[c], RampTop)]
ramp(owner, structure, p) ==
    LET d_in  == distance_map(Indicator(Owned(owner, p)))
        d_out == distance_map(Indicator(Cells \ Owned(owner, p)))
        At(c) == IF c \in wide(owner, structure) THEN WideCells * Straight + d_in[c] - d_out[c]
                 ELSE 2 * (RampCells * Straight + d_in[c] - d_out[c])
    IN  [c \in Cells |-> Lesser(Greater(At(c), 0), RampTop)]
ramps(owner, structure, n) ==
    [p \in 1 .. n |-> IF Owned(owner, p) = {} THEN [c \in Cells |-> 0]
                      ELSE ramp(owner, structure, p)]

(* What the maps promise.  In every owned cell the owner's ramp is above a    *)
(* half and every other panel's below, whatever the widths of the cells       *)
(* around it; a star that touches a seam is locked on both sides of it.       *)
OwnerLeads(owner, rs) ==
    \A c \in Cells : owner[c] # NoOwner =>
        \A p \in DOMAIN rs : IF p = owner[c] THEN 2 * rs[p][c] > RampTop
                                             ELSE 2 * rs[p][c] < RampTop
StarsLocked(owner, compact, locked) ==
    \A c, d \in Cells :
        /\ d \in Beside(c) /\ NoOwner \notin {owner[c], owner[d]} /\ owner[c] # owner[d]
        /\ c \in compact[owner[c]]
        => Near(c) \cup Near(d) \subseteq locked

-----------------------------------------------------------------------------
(* fill_plane_holes, and the switch plane of blend_twoband: 0 to HaloCells *  *)
(* Straight, deep inside the union of the star masks and fading out around.   *)

fill_plane_holes(plane) ==
    LET border == {c \in Cells : c[1] \in {0, W - 1} \/ c[2] \in {0, H - 1}}
    IN  plane \cup (Cells \ Flood(border \ plane, Cells \ plane, Beside))

ref_t(masks) ==
    LET union   == UNION {masks[p] : p \in DOMAIN masks}
        depth   == distance_map(Indicator(Dilated(union, 2)))
        deep    == fill_plane_holes({c \in Cells : depth[c] > (FillLocalLayers + 2) * Straight})
        to_deep == distance_map(Indicator(Cells \ deep))
    IN  [c \in Cells |-> Greater(HaloCells * Straight - to_deep[c], 0)]
=============================================================================

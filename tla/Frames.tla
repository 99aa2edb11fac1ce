------------------------------- MODULE Frames -------------------------------
(* reference.rs, and the geometry of align.rs and analyze.rs: what the headers *)
(* of a panel set say about it, the frame the set is put on, and whether a set *)
(* fits a frame it was given.  The sky has one axis.  A position on it is a    *)
(* number of steps, Sub of them to a pixel; all panels have the same scale.    *)
(* A panel is [w, ch, at, solved, opens, content]: its width in pixels and its *)
(* channels, the position of its left edge by its linear solution (<<>> if it  *)
(* has none), whether it yields a model, whether it opens, and the pixels that *)
(* hold data.  An optional value is a sequence of at most one element.         *)
EXTENDS Integers, Sequences, FiniteSetsExt

CONSTANTS Sub,      \* steps to a pixel
          Margin,   \* FRAME_MARGIN_PX
          Pad,      \* BBOX_PAD
          Taps,     \* half the width of the kernel, 3 in the code
          Tol       \* ALIGNED_WCS_TOLERANCE_PX, in steps

(* Positions are even, so that the middle of two of them is a position.        *)
ASSUME FramesAssumption ==
    /\ Sub \in Nat \ {0} /\ Sub % 2 = 0
    /\ Margin \in Nat /\ Pad \in Nat /\ Taps \in Nat \ {0} /\ Tol \in Nat

None    == <<>>
Some(x) == <<x>>
Abs(x)  == IF x < 0 THEN -x ELSE x
Floor(x) == x \div Sub
Ceil(x)  == -((-x) \div Sub)

Ends(p) == <<p.at[1], p.at[1] + p.w * Sub>>     \* its boundary on the sky
InsideOf(x, lo, hi) == IF x < lo THEN lo ELSE IF x > hi THEN hi ELSE x

-----------------------------------------------------------------------------
(* Registered canvases, or raw panels?                                         *)

wcs_displacement_px(a, b) == Abs(a - b)

same_geometry(ps) == \A i \in DOMAIN ps : ps[i].w = ps[1].w

(* Only the first solution is compared with the others.                        *)
same_geometry_reads_aligned(wcs) ==
    \/ wcs[1] = None
    \/ \E i \in DOMAIN wcs : wcs[i] = None
    \/ \A i \in DOMAIN wcs : wcs_displacement_px(wcs[i][1], wcs[1][1]) <= Tol

Solutions(ps) == [i \in DOMAIN ps |-> ps[i].at]

-----------------------------------------------------------------------------
(* The frame of a set of solved panels, the extent of all their boundaries in  *)
(* whole pixels and a margin, with the middle of that extent in its centre.    *)

choose_frameFloored(ps) ==
    LET lo    == Min({Ends(ps[i])[1] : i \in DOMAIN ps})
        hi    == Max({Ends(ps[i])[2] : i \in DOMAIN ps})
        width == Floor(hi - lo)
    IN  [kind |-> "solved", w |-> width, at |-> Some(((lo + hi) - width * Sub) \div 2)]

choose_frame(ps) ==
    LET lo    == Min({Ends(ps[i])[1] : i \in DOMAIN ps})
        hi    == Max({Ends(ps[i])[2] : i \in DOMAIN ps})
        width == Ceil(hi - lo) + 2 * Margin
    IN  [kind |-> "solved", w |-> width, at |-> Some(((lo + hi) - width * Sub) \div 2)]

Solved(ps) == \A i \in DOMAIN ps : ps[i].solved

derive_items(ps, input) ==
    LET aligned == \/ input = "Aligned"
                   \/ /\ input = "Auto" /\ Len(ps) >= 2 /\ same_geometry(ps)
                      /\ same_geometry_reads_aligned(Solutions(ps))
    IN  CASE ps = <<>>                       -> None
          [] aligned /\ ~same_geometry(ps)   -> None
          [] aligned /\ same_geometry(ps)    ->
                 Some([kind |-> "aligned", w |-> ps[1].w, at |-> ps[1].at])
          [] ~aligned /\ Solved(ps)          -> Some(choose_frame(ps))
          [] OTHER                           -> None

derive(ps, input) ==
    IF \A i \in DOMAIN ps : ps[i].opens THEN derive_items(ps, input) ELSE None

derive_from_descs(ps, input) == derive_items(ps, input)

-----------------------------------------------------------------------------
(* A set against a frame it was given.                                         *)

Overshoot(p, frame) ==
    << frame.at[1] - Ends(p)[1], Ends(p)[2] - (frame.at[1] + frame.w * Sub) >>

check_footprintsLeft(ps, frame) ==
    \A i \in DOMAIN ps : Overshoot(ps[i], frame)[1] <= 0

check_footprints(ps, frame) ==
    \A i \in DOMAIN ps : \A side \in 1 .. 2 : Overshoot(ps[i], frame)[side] <= 0

check_alignedGeometry(canvas, wcs, width, reference) == canvas = width

check_aligned(canvas, wcs, width, reference) ==
    /\ canvas = width
    /\ (wcs # None /\ reference # None) => wcs_displacement_px(wcs[1], reference[1]) <= Tol

check_uniform_channels(ps) == ps # <<>> /\ \A i \in DOMAIN ps : ps[i].ch = ps[1].ch

(* The frame over panels that carry models, or none: solved_frame of the wire  *)
(* and the probe of files share it.                                            *)
frame_from_models(ps) ==
    IF Solved(ps) /\ check_uniform_channels(ps) THEN Some(choose_frame(ps)) ELSE None

-----------------------------------------------------------------------------
(* Reprojection of a panel onto a frame.  Index x of the output carries the    *)
(* sky at x pixels from the edge of the frame; it is sampled at half a pixel   *)
(* less in the array of the source, if the whole kernel lies inside it.        *)

cache_bbox(p, frame) ==
    << InsideOf(Floor(Ends(p)[1] - frame.at[1]) - Pad, 0, frame.w),
       InsideOf(Ceil(Ends(p)[2] - frame.at[1]) + 1 + Pad, 0, frame.w) >>

Tapped(p, frame, x) ==
    LET k0 == Floor(frame.at[1] + x * Sub - p.at[1] - Sub \div 2)
    IN  (k0 - (Taps - 1)) .. (k0 + Taps)

HasSupport(p, frame, x) == Tapped(p, frame, x) \subseteq 0 .. p.w - 1

reproject(p, frame) ==
    LET b == cache_bbox(p, frame)
    IN  {x \in b[1] .. b[2] - 1 : /\ HasSupport(p, frame, x)
                                  /\ Tapped(p, frame, x) \cap p.content # {}}

Misses(p, frame) == cache_bbox(p, frame)[1] >= cache_bbox(p, frame)[2]
=============================================================================

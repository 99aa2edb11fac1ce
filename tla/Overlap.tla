------------------------------ MODULE Overlap -------------------------------
(* overlap.rs: which panels share fully covered cells, the connected groups   *)
(* of panels, and the chamfer distance of a cell to the edge of a panel.      *)
(* Coverage of a cell is 0 (none), 1 (some pixels) or Full.  Distances are    *)
(* integers: a straight step is Straight (1 in the code), a diagonal one      *)
(* Diagonal (the square root of 2).                                           *)
EXTENDS Grid

CONSTANTS Full,              \* coverage of a cell whose every pixel is covered
          MinEdgeCells,      \* MIN_EDGE_CELLS
          Straight, Diagonal,
          Far                \* stands for f32::INFINITY

ASSUME OverlapAssumption ==
    /\ {Full, MinEdgeCells} \subseteq Nat \ {0}
    /\ Straight \in Nat \ {0} /\ {Diagonal, Far} \subseteq Nat
    /\ Straight <= Diagonal /\ Diagonal <= 2 * Straight
    /\ Far > Diagonal * W * H

-----------------------------------------------------------------------------
(* The graph.  covs is a sequence of coverage planes, one per panel.          *)

FullCells(cov)   == {c \in Cells : cov[c] = Full}
full_cov_bbox(cov) == Box(FullCells(cov))

(* One edge, or none: only the intersection of the two boxes is scanned.      *)
SharedCells(covs, a, b) ==
    LET box == Meet(full_cov_bbox(covs[a]), full_cov_bbox(covs[b]))
    IN  IF IsEmpty(box) THEN {}
        ELSE {c \in Inside(box) : covs[a][c] = Full /\ covs[b][c] = Full}

build(covs) ==
    { [a |-> p[1], b |-> p[2], bbox8 |-> Box(SharedCells(covs, p[1], p[2])),
       n_cells |-> Cardinality(SharedCells(covs, p[1], p[2]))] :
         p \in {q \in (DOMAIN covs) \X (DOMAIN covs) :
                   /\ q[1] < q[2]
                   /\ Cardinality(SharedCells(covs, q[1], q[2])) >= MinEdgeCells} }

(* The order of the list of edges: by a, then by b.                           *)
EdgeOrder(n) == [i \in 1 .. n * n |-> <<((i - 1) \div n) + 1, ((i - 1) % n) + 1>>]

(* components: union-find.  find halves nothing and unions nothing: it points *)
(* every node of its chain at the root; the lower root becomes the parent.    *)
Root(parent, i) ==
    LET climb[j \in DOMAIN parent] == IF parent[j] = j THEN j ELSE climb[parent[j]]
    IN  climb[i]
Chain(parent, i) ==
    LET climb[j \in DOMAIN parent] ==
            IF parent[j] = j THEN {j} ELSE {j} \cup climb[parent[j]]
    IN  climb[i]
Compressed(parent, i) ==
    [j \in DOMAIN parent |-> IF j \in Chain(parent, i) THEN Root(parent, i) ELSE parent[j]]

UnionOfEnds(parent, a, b) ==                                             \* mutant
    [parent EXCEPT ![Greater(a, b)] = Lesser(a, b)]
Union(parent, a, b) ==
    LET found == Compressed(Compressed(parent, a), b)
        ra    == Root(found, a)
        rb    == Root(found, b)
    IN  [found EXCEPT ![Greater(ra, rb)] = Lesser(ra, rb)]

(* The unions of the edges, in the order of the list.                         *)
JoinEnds(parent, p, edges) ==
    IF \E e \in edges : <<e.a, e.b>> = p THEN Union(parent, p[1], p[2]) ELSE parent
Parents(n, edges) ==
    FoldLeft(LAMBDA parent, p : JoinEnds(parent, p, edges), [i \in 1 .. n |-> i], EdgeOrder(n))

(* A panel opens a component, or is in that of an earlier one.                *)
Opened(comps, i, root) ==
    IF \E j \in 1 .. i - 1 : root[j] = root[i] THEN comps
    ELSE Append(comps, {j \in DOMAIN root : root[j] = root[i]})
components(n, edges) ==
    LET parent == Parents(n, edges)
        root   == [i \in 1 .. n |-> Root(parent, i)]
    IN  FoldLeft(LAMBDA comps, i : Opened(comps, i, root), <<>>, [i \in 1 .. n |-> i])

-----------------------------------------------------------------------------
(* distance_map: a forward pass in row-major order that looks left and up, a  *)
(* backward pass in the opposite order that looks right and down.             *)

(* The neighbours a pass has already settled, in front of it.                 *)
Ahead(c)  == {d \in Near(c) : d[2] < c[2] \/ (d[2] = c[2] /\ d[1] < c[1])}
Behind(c) == {d \in Near(c) : d[2] > c[2] \/ (d[2] = c[2] /\ d[1] > c[1])}
Step(c, d) == IF c[1] = d[1] \/ c[2] = d[2] THEN Straight ELSE Diagonal

Relax(dist, c, settled) ==
    [dist EXCEPT ![c] =
        Min({@} \cup {Lesser(dist[d] + Step(c, d), Far) : d \in settled})]
Sweep(start, order, settled) ==
    FoldLeft(LAMBDA dist, c : Relax(dist, c, settled[c]), start, order)

Unswept(cov) == [c \in Cells |-> IF cov[c] < Full THEN 0 ELSE Far]
Forward(cov) == Sweep(Unswept(cov), Raster, [c \in Cells |-> Ahead(c)])
distance_map(cov) == Sweep(Forward(cov), Reverse(Raster), [c \in Cells |-> Behind(c)])

-----------------------------------------------------------------------------
(* What the results should be.                                                *)

(* Two panels are an edge exactly when they share enough fully covered cells; *)
(* the boxes that prefilter the pairs lose none, and the box of an edge is    *)
(* the box of what is shared.                                                 *)
IsOverlapGraph(covs, edges) ==
    edges = { [a |-> p[1], b |-> p[2],
               bbox8 |-> Box(FullCells(covs[p[1]]) \cap FullCells(covs[p[2]])),
               n_cells |-> Cardinality(FullCells(covs[p[1]]) \cap FullCells(covs[p[2]]))] :
                 p \in {q \in (DOMAIN covs) \X (DOMAIN covs) :
                          q[1] < q[2] /\ Cardinality(FullCells(covs[q[1]])
                                             \cap FullCells(covs[q[2]])) >= MinEdgeCells} }

(* Reachability over the edges: a panel is reached from i if no set that is   *)
(* closed under the edges has i and not the panel.                            *)
Linked(edges, T) == \A e \in edges : e.a \in T <=> e.b \in T
Reach(n, edges, i) ==
    {j \in 1 .. n : \A T \in SUBSET (1 .. n) : i \in T /\ Linked(edges, T) => j \in T}

(* The groups are the classes of reachability, each once, by smallest member. *)
AreComponents(n, edges, comps) ==
    /\ Range(comps) = {Reach(n, edges, i) : i \in 1 .. n}
    /\ \A j, k \in DOMAIN comps : j < k => Min(comps[j]) < Min(comps[k])

(* The distance to the nearest cell that is not fully covered, over the plane *)
(* with no obstacles: the diagonal steps, then the straight ones.             *)
Octile(c, d) ==
    LET dx == Abs(c[1] - d[1])
        dy == Abs(c[2] - d[2])
    IN  Diagonal * Lesser(dx, dy) + Straight * (Greater(dx, dy) - Lesser(dx, dy))
IsDistance(cov, dist) ==
    \A c \in Cells :
        dist[c] = Min({Far} \cup {Octile(c, d) : d \in Cells \ FullCells(cov)})
=============================================================================

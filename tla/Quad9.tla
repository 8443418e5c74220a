------------------------------- MODULE Quad9 -------------------------------
(***************************************************************************)
(* The nine-node quadrilateral (src/src/geom/face_quad9.C) and what it     *)
(* inherits from Quad (face_quad.C): the local numbering tables, the       *)
(* refinement tables, the geometric queries, and the two operations that   *)
(* reorder an element in place, permute and flip.                          *)
(*                                                                         *)
(* The element is one Quad9 of a mesh.  Its node pointers are the global   *)
(* node ids of the mesh, 0..8, loaded in local order; the mesh fixes their *)
(* coordinates and the neighbor across each physical edge (a pair of       *)
(* corner ids).  BoundaryInfo holds boundary ids per (element, side).      *)
(*                                                                         *)
(* Coordinates are integers.  Reference points are in half units of the    *)
(* reference square [-1,1]^2, so a grid position g stands for g/2; the     *)
(* embedding matrix is kept as 64 times its entries, all of which are      *)
(* multiples of 1/64.  Map values are 64 times the physical point.         *)
(***************************************************************************)
EXTENDS Integers, Sequences, Functions

CONSTANTS
  Meshes,       \* [pts : [0..8 -> Int \X Int], across : corner pair -> neighbor]
  BConfigs,     \* [bside : [0..3 -> SUBSET BIds], bedge : [0..3 -> SUBSET BIds]]
  Neighbors,    \* the elements a neighbor pointer may point to
  NoNeighbor,   \* nullptr: the side is on the boundary
  BIds          \* boundary ids

VARIABLES
  mesh,         \* the mesh: node coordinates and neighbor across each edge
  nodes,        \* _nodes: local node -> global node id
  neighbors,    \* _neighbors: local side -> neighbor
  bside,        \* BoundaryInfo side ids of this element, per local side
  bedge         \* BoundaryInfo edge ids of this element, per local edge

vars == <<mesh, nodes, neighbors, bside, bedge>>

Nodes == 0..8
Sides == 0..3
Children == 0..3

\* A C array, indexed from 0.
Z(s) == [i \in 0..Len(s) - 1 |-> s[i + 1]]
ZZ(s) == [i \in 0..Len(s) - 1 |-> Z(s[i + 1])]

-----------------------------------------------------------------------------
(* Tables (face_quad.C, face_quad9.C).                                     *)

\* Quad::_master_points, in half units.
master_points ==
  Z(<< <<-2, -2>>, <<2, -2>>, <<2, 2>>, <<-2, 2>>,
       <<0, -2>>, <<2, 0>>, <<0, 2>>, <<-2, 0>>, <<0, 0>> >>)

adjacent_sides_map == ZZ(<< <<0, 3>>, <<0, 1>>, <<1, 2>>, <<2, 3>> >>)

side_nodes_map == ZZ(<< <<0, 1, 4>>, <<1, 2, 5>>, <<2, 3, 6>>, <<3, 0, 7>> >>)

\* Quad4::side_nodes_map (face_quad4.C, not in this repository).
quad4_side_nodes_map == ZZ(<< <<0, 1>>, <<1, 2>>, <<2, 3>>, <<3, 0>> >>)

\* Quad9::_embedding_matrix, times 64: child, child node, parent node.
embedding_matrix ==
  [c \in Children |-> ZZ(
    << << <<64,0,0,0,0,0,0,0,0>>, <<0,0,0,0,64,0,0,0,0>>, <<0,0,0,0,0,0,0,0,64>>,
          <<0,0,0,0,0,0,0,64,0>>, <<24,-8,0,0,48,0,0,0,0>>, <<0,0,0,0,24,0,-8,0,48>>,
          <<0,0,0,0,0,-8,0,24,48>>, <<24,0,0,-8,0,0,0,48,0>>, <<9,-3,1,-3,18,-6,-6,18,36>> >>,
       << <<0,0,0,0,64,0,0,0,0>>, <<0,64,0,0,0,0,0,0,0>>, <<0,0,0,0,0,64,0,0,0>>,
          <<0,0,0,0,0,0,0,0,64>>, <<-8,24,0,0,48,0,0,0,0>>, <<0,24,-8,0,0,48,0,0,0>>,
          <<0,0,0,0,0,24,0,-8,48>>, <<0,0,0,0,24,0,-8,0,48>>, <<-3,9,-3,1,18,18,-6,-6,36>> >>,
       << <<0,0,0,0,0,0,0,64,0>>, <<0,0,0,0,0,0,0,0,64>>, <<0,0,0,0,0,0,64,0,0>>,
          <<0,0,0,64,0,0,0,0,0>>, <<0,0,0,0,0,-8,0,24,48>>, <<0,0,0,0,-8,0,24,0,48>>,
          <<0,0,-8,24,0,0,48,0,0>>, <<-8,0,0,24,0,0,0,48,0>>, <<-3,1,-3,9,-6,-6,18,18,36>> >>,
       << <<0,0,0,0,0,0,0,0,64>>, <<0,0,0,0,0,64,0,0,0>>, <<0,0,64,0,0,0,0,0,0>>,
          <<0,0,0,0,0,0,64,0,0>>, <<0,0,0,0,0,24,0,-8,48>>, <<0,-8,24,0,0,48,0,0,0>>,
          <<0,0,24,-8,0,0,48,0,0>>, <<0,0,0,0,-8,0,24,0,48>>, <<1,-3,9,-3,-6,18,18,-6,36>> >>
    >>[c + 1])]

\* Quad::_second_order_adjacent_vertices, _second_order_vertex_child_number
\* and _second_order_vertex_child_index.
second_order_adjacent_vertices == ZZ(<< <<0, 1>>, <<1, 2>>, <<2, 3>>, <<0, 3>> >>)
second_order_vertex_child_number == Z(<<99, 99, 99, 99, 0, 1, 2, 0, 0>>)
second_order_vertex_child_index == Z(<<99, 99, 99, 99, 1, 2, 3, 3, 2>>)

\* Mutant: child 3's nodes 5 and 6 looked up at each other's positions.
child_node_lookup_Typo ==
  ZZ(<< <<0, 2, 12, 10, 1, 7, 11, 5, 6>>, <<2, 4, 14, 12, 3, 9, 13, 7, 8>>,
        <<10, 12, 22, 20, 11, 17, 21, 15, 16>>, <<12, 14, 24, 22, 13, 23, 19, 17, 18>> >>)

\* Quad::_child_node_lookup: the 25 positions of a 2x2 refinement, row by row.
child_node_lookup ==
  ZZ(<< <<0, 2, 12, 10, 1, 7, 11, 5, 6>>, <<2, 4, 14, 12, 3, 9, 13, 7, 8>>,
        <<10, 12, 22, 20, 11, 17, 21, 15, 16>>, <<12, 14, 24, 22, 13, 19, 23, 17, 18>> >>)

-----------------------------------------------------------------------------
(* Queries (face_quad.C, face_quad9.C).                                    *)

\* The point of local node i (this->point(i)).
Pt(i) == mesh.pts[nodes[i]]

is_vertex(i) == i < 4
is_edge(i) == ~(i < 4) /\ ~(i > 7)
is_face(i) == i > 7

is_node_on_side(n, s) == \E k \in 0..2 : side_nodes_map[s][k] = n

nodes_on_side(s) == {side_nodes_map[s][k] : k \in 0..2}

local_side_node(side, side_node) == side_nodes_map[side][side_node]

center_node_on_side(side) == side + 4

side_type(s) == "EDGE3"

\* Quad9::key(s) is compute_key(node_id(4 + s)); one id is its own key.
key(s) == nodes[4 + s]

\* Quad9::key() is the key of the center node.
elem_key == nodes[8]

\* Quad::low_order_key(s): compute_key of the two corners, which sorts them.
low_order_key(s) == {nodes[quad4_side_nodes_map[s][n]] : n \in 0..1}

\* Quad::side_ptr(i): an EDGE2 on the side's corners.
side_ptr(i) == [n \in 0..1 |-> nodes[quad4_side_nodes_map[i][n]]]

\* Quad9::build_side_ptr(i): an EDGE3 on the side's three nodes.
build_side_ptr(i) ==
  [type |-> side_type(i), nodes |-> [n \in 0..2 |-> nodes[local_side_node(i, n)]]]

\* Mutant: children taken in node order, without swapping 2 and 3.
is_child_on_side_NoSwap(c, s) == c = s \/ c = (s + 1) % 4

is_child_on_side(c, s) ==
  LET n == IF c < 2 THEN c ELSE 5 - c
  IN  n = s \/ n = (s + 1) % 4

opposite_side(side_in) == (side_in + 2) % 4

side02_nodes_map == Z(<<3, 2, 1, 0, 6, 255, 4, 255>>)
side13_nodes_map == Z(<<1, 0, 3, 2, 255, 7, 255, 5>>)

\* Mutant: sides 1 and 3 also use the table of sides 0 and 2.
opposite_node_OneMap(node_in, side_in) == side02_nodes_map[node_in]

opposite_node(node_in, side_in) ==
  IF side_in \in {0, 2} THEN side02_nodes_map[node_in] ELSE side13_nodes_map[node_in]

\* Mutant: Edge::is_flipped's test, node 0 right of node 1.
is_flipped_EdgeTest == Pt(0)[1] > Pt(1)[1]

\* Quad::is_flipped; the points lie in the XY plane.
is_flipped ==
  (Pt(1)[1] - Pt(0)[1]) * (Pt(3)[2] - Pt(0)[2])
    < (Pt(3)[1] - Pt(0)[1]) * (Pt(1)[2] - Pt(0)[2])

edges_adjacent_to_node(n) ==
  IF is_vertex(n) THEN {adjacent_sides_map[n][k] : k \in 0..1}
  ELSE IF is_edge(n) THEN {n - 4}
  ELSE {}

\* Quad::on_reference_element for a point p in half units, eps in half units.
on_reference_element(p, eps) ==
  /\ p[1] >= -2 - eps /\ p[1] <= 2 + eps
  /\ p[2] >= -2 - eps /\ p[2] <= 2 + eps

Minus(p, q) == <<p[1] - q[1], p[2] - q[2]>>
Twice(p) == <<2 * p[1], 2 * p[2]>>

\* Mutant: the check of node 5 left out.
has_affine_map_NoNode5 ==
  LET v == Minus(Pt(1), Pt(0))
      w == Minus(Pt(3), Pt(0))
  IN  /\ v = Minus(Pt(2), Pt(3))
      /\ Twice(Minus(Pt(4), Pt(0))) = v /\ Twice(Minus(Pt(6), Pt(3))) = v
      /\ Twice(Minus(Pt(7), Pt(0))) = w /\ Twice(Minus(Pt(8), Pt(4))) = w

\* Quad9::has_affine_map: the corners form a parallelogram, the sides are
\* straight and the center is centered.  The coordinates are exact, so
\* relative_fuzzy_equals is equality; v / 2 is compared as 2 * (p - q) = v.
has_affine_map ==
  LET v == Minus(Pt(1), Pt(0))
      w == Minus(Pt(3), Pt(0))
  IN  /\ v = Minus(Pt(2), Pt(3))
      /\ Twice(Minus(Pt(4), Pt(0))) = v /\ Twice(Minus(Pt(6), Pt(3))) = v
      /\ Twice(Minus(Pt(7), Pt(0))) = w /\ Twice(Minus(Pt(5), Pt(1))) = w
      /\ Twice(Minus(Pt(8), Pt(4))) = w

\* Mutant: corner 2's cross product taken in the other order.
corner_vec_Swap2(k) ==
  LET a == Minus(Pt((k + 1) % 4), Pt(k))
      b == Minus(Pt((k + 3) % 4), Pt(k))
  IN  IF k = 2 THEN b[1] * a[2] - b[2] * a[1] ELSE a[1] * b[2] - a[2] * b[1]

\* Quad::quality(TWIST)'s cross product at corner k, (point(k+1) - point(k))
\* x (point(k-1) - point(k)); in the XY plane only its z component is not 0.
corner_vec(k) ==
  LET a == Minus(Pt((k + 1) % 4), Pt(k))
      b == Minus(Pt((k + 3) % 4), Pt(k))
  IN  a[1] * b[2] - a[2] * b[1]

\* Quad::quality(TWIST): 0 when a corner's cross product has a norm below
\* TOLERANCE^2 (with integer coordinates of unit size, when it is 0) or
\* points against corner 0's, 1 otherwise.
quality_twist ==
  IF \/ \E k \in 0..3 : corner_vec(k) = 0
     \/ \E k \in 1..3 : corner_vec(0) * corner_vec(k) <= 0
  THEN 0 ELSE 1

\* The TECPLOT sub-quads of Quad9::connectivity.
tecplot_sub_quads == ZZ(<< <<0, 4, 8, 7>>, <<4, 1, 5, 8>>, <<7, 8, 6, 3>>, <<8, 5, 2, 6>> >>)

connectivity(sf, iop) ==
  IF iop = "TECPLOT" THEN [k \in 0..3 |-> nodes[tecplot_sub_quads[sf][k]] + 1]
  ELSE [k \in Nodes |-> nodes[k]]

Abs(x) == IF x < 0 THEN -x ELSE x

\* Quad9::loose_bounding_box: per coordinate, the center plus and minus the
\* largest distance of a node from it.
loose_bounding_box ==
  [d \in 1..2 |->
     LET center == Pt(8)[d]
         hd == FoldFunction(LAMBDA a, b : IF a > b THEN a ELSE b,
                            Abs(center - Pt(0)[d]),
                            [p \in 0..7 |-> Abs(center - Pt(p)[d])])
     IN  <<center - hd, center + hd>>]

\* Mutant: kp3 taken as k + 2, the diagonal, instead of k + 3.
NodalEdges_Diagonal(k) ==
  <<Minus(Pt(IF k + 1 > 3 THEN k + 1 - 4 ELSE k + 1), Pt(k)),
    Minus(Pt(IF k + 2 > 3 THEN k + 2 - 4 ELSE k + 2), Pt(k))>>

\* Quad::quality(SHAPE)'s nodal Jacobian at corner k: the edges to
\* k + 1 and k + 3 (kp1, kp3), and the metric tensor T_k = A_k^T A_k as
\* its entries top_left, off_diag, bot_rigt.
NodalEdges(k) ==
  <<Minus(Pt(IF k + 1 > 3 THEN k + 1 - 4 ELSE k + 1), Pt(k)),
    Minus(Pt(IF k + 3 > 3 THEN k + 3 - 4 ELSE k + 3), Pt(k))>>

Dot2(a, b) == a[1] * b[1] + a[2] * b[2]

\* The nodal area alpha_k = sqrt(det T_k).  In the plane det T_k is the
\* square of the 2D cross product of the two edges (Lagrange's identity),
\* so the square root is exact: its absolute value.
alpha(k) ==
  LET e == NodalEdges(k) IN Abs(e[1][1] * e[2][2] - e[1][2] * e[2][1])

\* Quad::quality(SHAPE) (lines 327-395), as a fraction [num, den]: 0 when
\* a nodal area is 0, else 8 / sum_k (T_k[0] + T_k[3]) / alpha_k.
quality_shape ==
  LET tr(k) == Dot2(NodalEdges(k)[1], NodalEdges(k)[1]) + Dot2(NodalEdges(k)[2], NodalEdges(k)[2])
      prod == alpha(0) * alpha(1) * alpha(2) * alpha(3)
      others(k) == prod \div alpha(k)
      den == tr(0) * others(0) + tr(1) * others(1) + tr(2) * others(2) + tr(3) * others(3)
  IN  IF \E k \in 0..3 : alpha(k) = 0 THEN [num |-> 0, den |-> 1]
      ELSE IF den = 0 THEN [num |-> 0, den |-> 1]
      ELSE [num |-> 8 * prod, den |-> den]

n_second_order_adjacent_vertices(n) == IF n = 8 THEN 4 ELSE 2

second_order_adjacent_vertex(n, v) ==
  IF n = 8 THEN v ELSE second_order_adjacent_vertices[n - 4][v]

second_order_child_vertex(n) ==
  <<second_order_vertex_child_number[n], second_order_vertex_child_index[n]>>

-----------------------------------------------------------------------------
(* Operations.  Elem::swap2nodes, swap4nodes and their neighbor and        *)
(* boundary versions are inline in elem.h, not in this repository:         *)
(* swap4nodes(a, b, c, d) is swap2nodes(a, b), (b, c), (c, d) in turn.      *)

Swap2(f, a, b) == [f EXCEPT ![a] = f[b], ![b] = f[a]]
Swap4(f, a, b, c, d) == Swap2(Swap2(Swap2(f, a, b), b, c), c, d)

PermuteOnce(s) ==
  [nodes |-> Swap4(Swap4(s.nodes, 0, 1, 2, 3), 4, 5, 6, 7),
   neighbors |-> Swap4(s.neighbors, 0, 1, 2, 3)]

RECURSIVE PermuteLoop(_, _)
PermuteLoop(s, i) == IF i = 0 THEN s ELSE PermuteLoop(PermuteOnce(s), i - 1)

\* Quad9::permute(perm_num), perm_num < 4.  BoundaryInfo is not touched.
permute(perm_num) ==
  LET s == PermuteLoop([nodes |-> nodes, neighbors |-> neighbors], perm_num)
  IN  /\ nodes' = s.nodes
      /\ neighbors' = s.neighbors
      /\ UNCHANGED <<mesh, bside, bedge>>

\* Mutant: node 7 copied to 5 instead of swapped with it.
flip_CopiesMid ==
  /\ nodes' = [Swap2(Swap2(nodes, 0, 1), 2, 3) EXCEPT ![5] = nodes[7]]
  /\ neighbors' = Swap2(neighbors, 1, 3)
  /\ bside' = Swap2(bside, 1, 3)
  /\ bedge' = Swap2(bedge, 1, 3)
  /\ UNCHANGED mesh

\* Mutant: swap2boundaryedges left out.
flip_NoEdgeIds ==
  /\ nodes' = Swap2(Swap2(Swap2(nodes, 0, 1), 2, 3), 5, 7)
  /\ neighbors' = Swap2(neighbors, 1, 3)
  /\ bside' = Swap2(bside, 1, 3)
  /\ UNCHANGED <<mesh, bedge>>

\* Quad9::flip(boundary_info).
flip ==
  /\ nodes' = Swap2(Swap2(Swap2(nodes, 0, 1), 2, 3), 5, 7)
  /\ neighbors' = Swap2(neighbors, 1, 3)
  /\ bside' = Swap2(bside, 1, 3)
  /\ bedge' = Swap2(bedge, 1, 3)
  /\ UNCHANGED mesh

\* The element as the mesh loads it: nodes in local order, each neighbor
\* the one across the side's corners.
Init ==
  /\ mesh \in Meshes
  /\ nodes = [i \in Nodes |-> i]
  /\ neighbors = [s \in Sides |-> mesh.across[{s, (s + 1) % 4}]]
  /\ \E b \in BConfigs : bside = b.bside /\ bedge = b.bedge

Next == (\E perm_num \in 0..3 : permute(perm_num)) \/ flip

Spec == Init /\ [][Next]_vars

-----------------------------------------------------------------------------
(* Reference definitions.                                                  *)

\* 8 times the quadratic Lagrange polynomial of the node at a (half units)
\* on the points -1, 0, 1, evaluated at k / 2.
Lag(a, k) == CASE a = -2 -> k * (k - 2)
               [] a = 0  -> 8 - 2 * k * k
               [] a = 2  -> k * (k + 2)

SumNodes(f) == FoldFunction(LAMBDA x, y : x + y, 0, f)

\* 64 times the point of the biquadratic Lagrange map at grid position g.
MapAt(g) ==
  [d \in 1..2 |->
     SumNodes([j \in Nodes |-> Lag(master_points[j][1], g[1])
                               * Lag(master_points[j][2], g[2]) * Pt(j)[d]])]

\* 64 times the point of the affine map through corners 0, 1 and 3.
AffineAt(g) ==
  [d \in 1..2 |-> 64 * Pt(0)[d] + 16 * (g[1] + 2) * (Pt(1)[d] - Pt(0)[d])
                                 + 16 * (g[2] + 2) * (Pt(3)[d] - Pt(0)[d])]

\* 64 times the point of child c's node n, by the embedding matrix.
ChildPoint(c, n) ==
  [d \in 1..2 |-> SumNodes([j \in Nodes |-> embedding_matrix[c][n][j] * Pt(j)[d]])]

\* 64 times the Jacobian determinant, at grid position g, of the bilinear
\* map of the four corners.
JacDet(g) ==
  LET u == [d \in 1..2 |-> (2 - g[2]) * (Pt(1)[d] - Pt(0)[d]) + (2 + g[2]) * (Pt(2)[d] - Pt(3)[d])]
      v == [d \in 1..2 |-> (2 - g[1]) * (Pt(3)[d] - Pt(0)[d]) + (2 + g[1]) * (Pt(2)[d] - Pt(1)[d])]
  IN  u[1] * v[2] - u[2] * v[1]

\* The reference position (half units) of one of the 25 lookup positions.
Grid(l) == <<(l % 5) - 2, (l \div 5) - 2>>

\* Sample points: the grid of quarter points, those on the reference element.
RefGrid == {g \in (-3..3) \X (-3..3) : on_reference_element(g, 0)}

\* g lies on the line of side s of the reference element.
OnSideLine(g, s) ==
  LET a == master_points[side_nodes_map[s][0]]
      b == master_points[side_nodes_map[s][1]]
  IN  (b[1] - a[1]) * (g[2] - a[2]) = (b[2] - a[2]) * (g[1] - a[1])

\* The physical edges of the mesh: corner id pairs, and each one's midpoint.
PhysEdges == DOMAIN mesh.across
MidOf(ends) == CHOOSE m \in 4..7 : {m - 4, (m - 3) % 4} = ends

-----------------------------------------------------------------------------
(* Properties.                                                             *)

TypeOK ==
  /\ mesh \in Meshes
  /\ nodes \in [Nodes -> Nodes] /\ {nodes[i] : i \in Nodes} = Nodes
  /\ neighbors \in [Sides -> Neighbors \cup {NoNeighbor}]
  /\ bside \in [Sides -> SUBSET BIds] /\ bedge \in [Sides -> SUBSET BIds]

FlipCarriesBoundaryIds ==
  [][flip => \A s, t \in Sides :
               low_order_key(t)' = low_order_key(s)
                 => bside'[t] = bside[s] /\ bedge'[t] = bedge[s]]_vars

\* On an element that is not twisted (quality(TWIST) = 1), is_flipped
\* changes on every flip and never on a permute: it tracks the orientation
\* of the node numbering, not the position of node 0.  (is_flipped looks
\* at corner 0 only, so on a dart or a degenerate quad it depends on which
\* corner permute put first.)
FlipReversesOrientation ==
  [][quality_twist = 1 =>
       /\ flip => is_flipped' # is_flipped
       /\ \A p \in 0..3 : permute(p) => is_flipped' = is_flipped]_vars

\* Every row of the embedding matrix is the biquadratic map of the parent
\* evaluated where _child_node_lookup puts that child node: the two tables
\* of refinement describe the same children, in every orientation.
EmbeddingMatchesLookup ==
  \A c \in Children, n \in Nodes :
    ChildPoint(c, n) = MapAt(Grid(child_node_lookup[c][n]))

\* is_child_on_side(c, s) holds exactly when child c's side s lies on the
\* parent's side s (by _child_node_lookup), and the TECPLOT sub-quad sf of
\* connectivity has the corners of child sf, in the child's order.
ChildTablesAgree ==
  /\ \A c \in Children, s \in Sides :
       is_child_on_side(c, s)
         <=> \A i \in 0..1 :
               OnSideLine(Grid(child_node_lookup[c][side_nodes_map[s][i]]), s)
  /\ \A sf \in Children, k \in 0..3 :
       \E m \in Nodes : /\ master_points[m] = Grid(child_node_lookup[sf][k])
                        /\ connectivity(sf, "TECPLOT")[k] = nodes[m] + 1

\* The local numbering queries agree with the master points: vertices,
\* edge nodes and the face node; the sides each node is on; the center
\* node of a side is its midpoint; opposite_side and opposite_node are the
\* reflections across the element's midlines; and a second-order node is
\* the average of its adjacent vertices.
LocalNodeTablesAgree ==
  /\ \A n \in Nodes :
       /\ is_vertex(n) <=> \A d \in 1..2 : Abs(master_points[n][d]) = 2
       /\ is_face(n) <=> master_points[n] = <<0, 0>>
       /\ is_edge(n) <=> ~is_vertex(n) /\ ~is_face(n)
       /\ edges_adjacent_to_node(n)
            = {s \in Sides : \E k \in 0..2 : build_side_ptr(s).nodes[k] = nodes[n]}
  /\ \A s \in Sides :
       LET c == center_node_on_side(s)
           a == master_points[side_nodes_map[s][0]]
           b == master_points[side_nodes_map[s][1]]
       IN  /\ build_side_ptr(s).nodes[2] = nodes[c]
           /\ Twice(master_points[c]) = <<a[1] + b[1], a[2] + b[2]>>
           /\ master_points[center_node_on_side(opposite_side(s))]
                = <<-master_points[c][1], -master_points[c][2]>>
           /\ \A n \in 0..7 :
                is_node_on_side(n, s) =>
                  master_points[opposite_node(n, s)]
                    = IF a[2] = b[2] THEN <<master_points[n][1], -master_points[n][2]>>
                                     ELSE <<-master_points[n][1], master_points[n][2]>>
  /\ \A n \in 4..8 :
       LET k == n_second_order_adjacent_vertices(n)
       IN  \A d \in 1..2 :
             k * master_points[n][d]
               = SumNodes([v \in 0..k - 1 |-> master_points[second_order_adjacent_vertex(n, v)][d]])

\* has_affine_map holds exactly when the element's biquadratic map is the
\* affine map of its corners at every sample point.
HasAffineMapIffAffine ==
  has_affine_map <=> \A g \in RefGrid : MapAt(g) = AffineAt(g)

\* quality(TWIST) is 1 exactly when the element is not twisted: the
\* Jacobian of its corners' bilinear map keeps one strict sign over the
\* whole reference element.  A reflex or degenerate corner, in either
\* orientation and after any permute or flip, gives 0.
TwistIffJacobianKeepsSign ==
  quality_twist = 1 <=> \/ \A g \in RefGrid : JacDet(g) > 0
                        \/ \A g \in RefGrid : JacDet(g) < 0

\* quality(SHAPE) is at most 1, and 1 exactly when the corners form a
\* square (every corner a right angle between equal edges), in either
\* orientation: Knupp's shape metric, with kp1 and kp3 the corner's two
\* neighbours and T_k's trace over its nodal area.
ShapeIsOneExactlyForSquares ==
  LET q == quality_shape
      side(k) == Minus(Pt((k + 1) % 4), Pt(k))
      square == \A k \in 0..3 :
                  /\ Dot2(side(k), side((k + 1) % 4)) = 0
                  /\ Dot2(side(k), side(k)) = Dot2(side(0), side(0))
  IN  /\ q.num <= q.den
      /\ q.num = q.den <=> square

\* second_order_child_vertex(n) names a child and a child node at the
\* position of the parent's second-order node n (not checked by a run:
\* see the README).
SecondOrderChildVertexIsNode ==
  \A n \in 4..8 :
    LET cv == second_order_child_vertex(n)
    IN  Grid(child_node_lookup[cv[1]][cv[2]]) = master_points[n]

\* loose_bounding_box contains the element: every sample point of the map
\* (not checked by a run: see the README).
LooseBoundingBoxContainsElement ==
  \A g \in RefGrid, d \in 1..2 :
    /\ 64 * loose_bounding_box[d][1] <= MapAt(g)[d]
    /\ MapAt(g)[d] <= 64 * loose_bounding_box[d][2]

=============================================================================

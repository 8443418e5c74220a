------------------------------- MODULE InfHex -------------------------------
(***************************************************************************)
(* The infinite hexahedron base class (src/src/geom/cell_inf_hex.C): its   *)
(* numbering tables and the queries it answers from them and from its      *)
(* points.  An InfHex8 has a base face of four vertices 0..3 and four      *)
(* vertices 4..7 on the rays from the origin through them; sides 0 (the    *)
(* base) to 4, edges 0..3 in the base and 4..7 along the rays, children    *)
(* 0..3 in the base.                                                       *)
(*                                                                         *)
(* The tables of InfHex8 itself (side_nodes_map, edge_nodes_map) and of    *)
(* the node kinds live in cell_inf_hex8.C, which is not in this            *)
(* repository; they are the standard ones and are marked where used.       *)
(* Points are integer triples.                                             *)
(***************************************************************************)
EXTENDS Integers, Sequences, FiniteSetsExt

VARIABLES
  node,      \* local node -> global node id (node_id)
  point,     \* local node -> its point (this->point(i))
  origin     \* origin(): where the rays of the element start

Vertices == 0..7
IHSides == 0..4
IHEdges == 0..7
IHChildren == 0..3

\* A C array, indexed from 0.
IZ(s) == [i \in 0..Len(s) - 1 |-> s[i + 1]]
IZZ(s) == [i \in 0..Len(s) - 1 |-> IZ(s[i + 1])]

-----------------------------------------------------------------------------
(* Tables.                                                                 *)

\* InfHex::_master_points: base nodes at zeta 0, outer nodes at zeta 1.
master_points ==
  IZ(<< <<-1, -1, 0>>, <<1, -1, 0>>, <<1, 1, 0>>, <<-1, 1, 0>>,
        <<-1, -1, 1>>, <<1, -1, 1>>, <<1, 1, 1>>, <<-1, 1, 1>>,
        <<0, -1, 0>>, <<1, 0, 0>>, <<0, 1, 0>>, <<-1, 0, 0>>,
        <<0, -1, 1>>, <<1, 0, 1>>, <<0, 1, 1>>, <<-1, 0, 1>>,
        <<0, 0, 0>>, <<0, 0, 1>> >>)

edge_sides_map ==
  IZZ(<< <<0, 1>>, <<0, 2>>, <<0, 3>>, <<0, 4>>,
         <<1, 4>>, <<1, 2>>, <<2, 3>>, <<3, 4>> >>)

\* 99 marks "no edge" in the rows of the outer vertices.
adjacent_edges_map ==
  IZZ(<< <<0, 3, 4>>, <<0, 1, 5>>, <<1, 2, 6>>, <<2, 3, 7>>,
         <<4, 99, 99>>, <<5, 99, 99>>, <<6, 99, 99>>, <<7, 99, 99>> >>)

\* InfHex8::side_nodes_map and edge_nodes_map (cell_inf_hex8.C).
side_nodes_map ==
  IZZ(<< <<0, 1, 2, 3>>, <<0, 1, 4, 5>>, <<1, 2, 5, 6>>,
         <<2, 3, 6, 7>>, <<3, 0, 7, 4>> >>)
edge_nodes_map ==
  IZZ(<< <<0, 1>>, <<1, 2>>, <<2, 3>>, <<0, 3>>,
         <<0, 4>>, <<1, 5>>, <<2, 6>>, <<3, 7>> >>)

second_order_adjacent_vertices ==
  IZZ(<< <<0, 1>>, <<1, 2>>, <<2, 3>>, <<0, 3>>,
         <<4, 5>>, <<5, 6>>, <<6, 7>>, <<4, 7>> >>)
second_order_vertex_child_number ==
  IZ(<<99, 99, 99, 99, 99, 99, 99, 99, 0, 1, 2, 0, 0, 1, 2, 0, 0, 0>>)
second_order_vertex_child_index ==
  IZ(<<99, 99, 99, 99, 99, 99, 99, 99, 1, 2, 3, 3, 5, 6, 7, 7, 2, 6>>)

-----------------------------------------------------------------------------
(* Queries.                                                                *)

\* compute_key of the side's four node ids; it sorts them, so the key
\* stands for the set.  key(s) and low_order_key(s) are the same.
key(s) == {node[side_nodes_map[s][k]] : k \in 0..3}
low_order_key(s) == {node[side_nodes_map[s][k]] : k \in 0..3}

local_side_node(side, side_node) == side_nodes_map[side][side_node]
local_edge_node(edge, edge_node) == edge_nodes_map[edge][edge_node]

\* side_ptr(i): the base is a QUAD4, the other sides INFQUAD4s.
side_ptr(i) ==
  [type  |-> IF i = 0 THEN "QUAD4" ELSE "INFQUAD4",
   nodes |-> [n \in 0..3 |-> node[side_nodes_map[i][n]]]]

\* Mutant: side s % 4 compared with c + 1 as well as c.
is_child_on_side_Off(c, s) == s = 0 \/ c + 1 = s \/ c = s

is_child_on_side(c, s) == s = 0 \/ c + 1 = s \/ c = s % 4

is_edge_on_side(e, s) == edge_sides_map[e][0] = s \/ edge_sides_map[e][1] = s

sides_on_edge(e) == IZ(<<edge_sides_map[e][0], edge_sides_map[e][1]>>)

Sub(p, q) == [d \in 1..3 |-> p[d] - q[d]]
Cross(a, b) == <<a[2] * b[3] - a[3] * b[2], a[3] * b[1] - a[1] * b[3],
                 a[1] * b[2] - a[2] * b[1]>>
Dot(a, b) == a[1] * b[1] + a[2] * b[2] + a[3] * b[3]
NormSq(a) == Dot(a, a)

\* Mutant: the second and third vectors swapped.
is_flipped_Swapped ==
  Dot(Sub(point[1], point[0]),
      Cross(Sub(point[4], point[0]), Sub(point[3], point[0]))) < 0

\* triple_product(a, b, c) = a . (b x c).
is_flipped ==
  Dot(Sub(point[1], point[0]),
      Cross(Sub(point[3], point[0]), Sub(point[4], point[0]))) < 0

\* InfHex8: every node is a vertex.  An outer vertex keeps only the first
\* entry of its row (the trim of 2).
is_vertex(n) == n < 8
edges_adjacent_to_node(n) ==
  IF is_vertex(n)
  THEN {adjacent_edges_map[n][k] : k \in 0..(IF n < 4 THEN 2 ELSE 0)}
  ELSE {}

(***************************************************************************)
(* contains_point's first test (lines 473-500): with                       *)
(*   min_distance_sq = min_i |point(i) - o|^2                              *)
(*                     - 0.5 max(|point(0) - point(2)|^2,                  *)
(*                               |point(1) - point(3)|^2),                 *)
(* a point with 1.01 |p - o|^2 < min_distance_sq is "definitely not        *)
(* contained" and false is returned.  Otherwise the code goes on to a test *)
(* on the unit sphere and the inverse map, which are not modelled.  p is   *)
(* given scaled by sc (p = P / sc); the test is multiplied by 200 sc^2.    *)
(***************************************************************************)
MinVertexDistSq == Min({NormSq(Sub(point[i], origin)) : i \in 0..3})

MaxDiagSq == Max({NormSq(Sub(point[0], point[2])), NormSq(Sub(point[1], point[3]))})

\* Mutant: the estimate without the correction for a flat base.
contains_point_rejects_NoCorrection(P, sc) ==
  202 * NormSq(Sub(P, [d \in 1..3 |-> sc * origin[d]]))
    < 200 * sc * sc * MinVertexDistSq

contains_point_rejects(P, sc) ==
  202 * NormSq(Sub(P, [d \in 1..3 |-> sc * origin[d]]))
    < 200 * sc * sc * MinVertexDistSq - 100 * sc * sc * MaxDiagSq

\* on_reference_element: the reference element is [-1,1]^3; p and eps in
\* units of 1/sc.
on_reference_element(p, eps, sc) == \A d \in 1..3 : -sc - eps <= p[d] /\ p[d] <= sc + eps

-----------------------------------------------------------------------------
(* Reference definitions.                                                  *)

\* The global ids of the nodes of edge e.
EdgeIds(e) == {node[edge_nodes_map[e][k]] : k \in 0..1}

\* Twice the reference point of vertex k of child c, for children laid out
\* as is_child_on_side and the second-order tables assume: child c holds
\* base vertex c, spans a quarter of the base and the whole of zeta.
ChildVertex(c, k) ==
  <<master_points[c][1] + master_points[k % 4][1],
    master_points[c][2] + master_points[k % 4][2],
    2 * master_points[k][3]>>

\* 16 times the point of the base's bilinear map at grid position g (half
\* units of the reference square).
BasePoint(g) ==
  [d \in 1..3 |->
     LET w(i) == (2 + master_points[i][1] * g[1]) * (2 + master_points[i][2] * g[2])
     IN  w(0) * point[0][d] + w(1) * point[1][d] + w(2) * point[2][d] + w(3) * point[3][d]]

BaseGrid == (-2..2) \X (-2..2)

-----------------------------------------------------------------------------
(* Properties.                                                             *)

\* The numbering tables of InfHex agree with InfHex8's sides and edges on
\* the element's node ids: a child is on the base and on each side through
\* its vertex; an edge is on exactly the sides holding both its nodes, and
\* those are sides_on_edge; edges_adjacent_to_node of an outer vertex is
\* trimmed to its one ray; a second-order node lies midway between its
\* adjacent vertices; and the second-order child tables name a child
\* vertex at the node's position.
TablesAgree ==
  /\ \A c \in IHChildren, s \in IHSides :
       is_child_on_side(c, s) <=> s = 0 \/ node[c] \in key(s)
  /\ \A e \in IHEdges :
       /\ \A s \in IHSides : is_edge_on_side(e, s) <=> EdgeIds(e) \subseteq key(s)
       /\ {sides_on_edge(e)[0], sides_on_edge(e)[1]}
            = {s \in IHSides : EdgeIds(e) \subseteq key(s)}
  /\ \A n \in Vertices :
       edges_adjacent_to_node(n) = {e \in IHEdges : node[n] \in EdgeIds(e)}
  /\ \A n \in 8..15 :
       \A d \in 1..3 :
         2 * master_points[n][d]
           = master_points[second_order_adjacent_vertices[n - 8][0]][d]
             + master_points[second_order_adjacent_vertices[n - 8][1]][d]
  /\ \A n \in 8..17 :
       ChildVertex(second_order_vertex_child_number[n], second_order_vertex_child_index[n])
         = [d \in 1..3 |-> 2 * master_points[n][d]]

\* contains_point's quick rejection never rejects a point of the element:
\* no point of the base face (sampled on a grid of its bilinear map) is
\* "definitely not contained".  Points further out on the rays are further
\* from the origin, so the base is where the estimate is tightest.
FastRejectSound == \A g \in BaseGrid : ~contains_point_rejects(BasePoint(g), 16)

=============================================================================

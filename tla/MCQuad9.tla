------------------------------ MODULE MCQuad9 ------------------------------
(***************************************************************************)
(* Quad9 elements for model checking: nine shapes, each inside a mesh and  *)
(* on its corner, and two BoundaryInfo assignments; and the InfHex8 built  *)
(* on the element as its base, with its origin on one of two points behind *)
(* the base.                                                               *)
(***************************************************************************)
EXTENDS Quad9

CONSTANTS E0, E1, E2, E3, Null

VARIABLE ihOrigin   \* the origin of the infinite element on the base

MCNeighbors == {E0, E1, E2, E3}
MCBIds == {1, 2, 3}

\* Node coordinates in local order: corners, edge midpoints, center.
Pts(s) == [i \in Nodes |-> s[i + 1]]

Square == Pts(<< <<0,0>>, <<4,0>>, <<4,4>>, <<0,4>>, <<2,0>>, <<4,2>>, <<2,4>>, <<0,2>>, <<2,2>> >>)
Parallelogram == Pts(<< <<0,0>>, <<4,0>>, <<6,4>>, <<2,4>>, <<2,0>>, <<5,2>>, <<4,4>>, <<1,2>>, <<3,2>> >>)
Trapezoid == Pts(<< <<0,0>>, <<8,0>>, <<6,4>>, <<2,4>>, <<4,0>>, <<7,2>>, <<4,4>>, <<1,2>>, <<4,2>> >>)
\* A square whose side 1 is curved: only node 5 is off its straight place.
BentSide == Pts(<< <<0,0>>, <<4,0>>, <<4,4>>, <<0,4>>, <<2,0>>, <<5,2>>, <<2,4>>, <<0,2>>, <<2,2>> >>)
\* A curved element: side 2 bulges and the center moves with it.
Curved == Pts(<< <<0,0>>, <<4,0>>, <<4,4>>, <<0,4>>, <<2,0>>, <<4,2>>, <<1,5>>, <<0,2>>, <<2,3>> >>)
\* A convex quadrilateral whose side 1 bulges out beyond its corners.
Bulged == Pts(<< <<0,0>>, <<6,0>>, <<8,8>>, <<0,8>>, <<3,0>>, <<8,4>>, <<4,8>>, <<0,4>>, <<4,4>> >>)
\* A dart: corner 2 is a reflex corner, the numbering twisted there.
Dart == Pts(<< <<0,0>>, <<6,0>>, <<2,2>>, <<0,6>>, <<3,0>>, <<4,1>>, <<1,4>>, <<0,3>>, <<2,2>> >>)
\* Corner 2 on the line from corner 1 to corner 3: a triangle.
Degenerate == Pts(<< <<0,0>>, <<8,0>>, <<4,4>>, <<0,8>>, <<4,0>>, <<6,2>>, <<2,6>>, <<0,4>>, <<3,3>> >>)
\* A skewed quadrilateral with straight sides and a centered center node.
Skewed == Pts(<< <<0,0>>, <<6,2>>, <<4,6>>, <<-2,4>>, <<3,1>>, <<5,4>>, <<1,5>>, <<-1,2>>, <<2,3>> >>)

Corner(i) == {i, (i + 1) % 4}

Interior == [e \in {Corner(i) : i \in Sides} |->
               CASE e = Corner(0) -> E0 [] e = Corner(1) -> E1
                 [] e = Corner(2) -> E2 [] e = Corner(3) -> E3]
OnCorner == [e \in {Corner(i) : i \in Sides} |->
               CASE e = Corner(0) -> E0 [] e = Corner(1) -> E1
                 [] e = Corner(2) -> Null [] e = Corner(3) -> Null]

MCMeshes == {[pts |-> p, across |-> a] :
               p \in {Square, Parallelogram, Trapezoid, BentSide, Curved, Skewed, Bulged,
                      Dart, Degenerate},
               a \in {Interior, OnCorner}}

SideIds(s) == [i \in Sides |-> s[i + 1]]

MCBConfigs ==
  { [bside |-> SideIds(<<{}, {1}, {2}, {}>>), bedge |-> SideIds(<<{}, {}, {}, {3}>>)],
    [bside |-> SideIds(<<{}, {}, {2}, {1}>>), bedge |-> SideIds(<<{}, {}, {}, {}>>)] }

-----------------------------------------------------------------------------
(* The infinite element on the quad.  Its base vertices are the quad's      *)
(* corners, in the XY plane; InfElemBuilder (not in this repository) puts   *)
(* outer vertex i + 4 at 2 point(i) - origin and gives it an id of its own. *)

Origins == {<<2, 2, -3>>, <<-3, 1, -1>>}

IH == INSTANCE InfHex
        WITH node   <- [i \in 0..7 |-> IF i < 4 THEN nodes[i] ELSE 9 + nodes[i - 4]],
             point  <- [i \in 0..7 |->
                          IF i < 4 THEN <<Pt(i)[1], Pt(i)[2], 0>>
                          ELSE [d \in 1..3 |-> 2 * <<Pt(i - 4)[1], Pt(i - 4)[2], 0>>[d]
                                               - ihOrigin[d]]],
             origin <- ihOrigin

MCInit == Init /\ ihOrigin \in Origins
MCSpec == MCInit /\ [][Next /\ UNCHANGED ihOrigin]_<<vars, ihOrigin>>

\* See InfHex.
InfHexTablesAgree == IH!TablesAgree
InfHexFastRejectSound == IH!FastRejectSound

\* With the origin behind the base (below the XY plane), the infinite
\* element is flipped (InfHex::is_flipped, a triple product) exactly when
\* its base quad is (Quad::is_flipped, a 2D cross product), through any
\* sequence of permute and flip of the quad.
InfHexFlippedWithBase == IH!is_flipped <=> is_flipped

=============================================================================

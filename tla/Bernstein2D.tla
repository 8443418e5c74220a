----------------------------- MODULE Bernstein2D -----------------------------
(***************************************************************************)
(* The 2D Bernstein finite element: FE<2,BERNSTEIN>::shape, shape_deriv    *)
(* and shape_second_deriv (src/src/fe/fe_bernstein_shape_2D.C) and the     *)
(* degree-of-freedom layout BERNSTEIN_n_dofs, BERNSTEIN_n_dofs_at_node and *)
(* BERNSTEIN_n_dofs_per_elem (src/src/fe/fe_bernstein.C).                  *)
(*                                                                         *)
(* The code evaluates a polynomial at a point p.  The model returns that   *)
(* polynomial itself, exactly, so a call stands for its value at every     *)
(* point at once.  A polynomial is a function from exponent tuples to      *)
(* integer coefficients.  A quad polynomial is written in                  *)
(* <<u0, v0, u1, v1>> with u = (1-xi)/2 and v = (1+xi)/2 (and the same for  *)
(* eta).  A triangle polynomial is written in <<x, y, r>> with             *)
(* r = 1-x-y, the triangle's barycentric coordinates.  A k-th derivative   *)
(* along one axis is scaled by 2^k, so every coefficient is an integer.    *)
(*                                                                         *)
(* An element is its type and the rank of its vertices' points in the     *)
(* lexicographic order of Point: the code compares points only to orient  *)
(* edges.                                                                  *)
(***************************************************************************)
EXTENDS Integers, FiniteSets, Sequences, FiniteSetsExt, Combinatorics, TLC

CONSTANTS
  ShapeTypes,   \* element types the shape functions are called on
  ShapeOrders,  \* total orders they are called with
  DofTypes,     \* element types the dof layout is asked about
  DofOrders     \* orders it is asked about

\* Calls are independent of each other: a state holds the last one only.
VARIABLES
  call,    \* the last shape-function call and what it returned
  layout   \* the last dof-layout query and what each function answered

vars == <<call, layout>>

----------------------------------------------------------------------------
(* Polynomials *)

NoPoly == [e \in {} |-> 0]

Coef(q, e) == IF e \in DOMAIN q THEN q[e] ELSE 0

\* The polynomial with coefficient c(e) at each e of S, zero terms dropped.
PolyOn(S, c(_)) == [e \in {d \in S : c(d) # 0} |-> c(e)]

PolyAdd(q, r) == PolyOn(DOMAIN q \cup DOMAIN r, LAMBDA e : Coef(q, e) + Coef(r, e))

PolyScale(k, q) == PolyOn(DOMAIN q, LAMBDA e : k * q[e])

\* The product of a polynomial in (u0, v0) and one in (u1, v1).
Tensor(q0, q1) ==
  [e \in {a \o b : a \in DOMAIN q0, b \in DOMAIN q1} |->
     q0[<<e[1], e[2]>>] * q1[<<e[3], e[4]>>]]

\* A call's answer: a polynomial, or a libmesh_error_msg.
Ok(q) == [ok |-> TRUE, val |-> q]
Err == [ok |-> FALSE, val |-> NoPoly]

----------------------------------------------------------------------------
(* FE<1,BERNSTEIN> on EDGE3 (not in this repository).  Its shape i is the  *)
(* Bernstein polynomial B(p, b) = C(p,b) u^(p-b) v^b with b = 0 for i = 0, *)
(* b = p for i = 1 and b = i-1 for the interior shapes; i > p is an error. *)
(* Derivatives follow dB(p,b)/dv = p (B(p-1,b-1) - B(p-1,b)).             *)

B(p, b) == IF p >= 0 /\ b \in 0..p THEN <<p - b, b>> :> choose(p, b) ELSE NoPoly

bernstein_1d(p, i, d) ==
  LET b == CASE i = 0 -> 0 [] i = 1 -> p [] OTHER -> i - 1
      dB == PolyScale(p, PolyAdd(B(p - 1, b - 1), PolyScale(-1, B(p - 1, b))))
      ddB == PolyScale(p * (p - 1),
               PolyAdd(PolyAdd(B(p - 2, b - 2), PolyScale(-2, B(p - 2, b - 1))),
                       B(p - 2, b)))
  IN IF i > p THEN Err ELSE Ok(<<B(p, b), dB, ddB>>[d + 1])

Tensor2(r0, r1) == IF r0.ok /\ r1.ok THEN Ok(Tensor(r0.val, r1.val)) ELSE Err

----------------------------------------------------------------------------
(* Elements *)

QuadTypes == {"QUAD4", "QUADSHELL4", "QUAD8", "QUADSHELL8", "QUAD9", "QUADSHELL9"}
TriTypes == {"TRI3", "TRISHELL3", "TRI6", "TRI7"}

NVertices(t) == IF t \in TriTypes THEN 3 ELSE 4

\* The element's local edges as (first node, second node).
EdgeNodes(t) ==
  IF t \in TriTypes THEN <<<<0, 1>>, <<1, 2>>, <<2, 0>>>>
  ELSE <<<<0, 1>>, <<1, 2>>, <<2, 3>>, <<3, 0>>>>

Ranks(t) == {r \in [0..NVertices(t) - 1 -> 1..NVertices(t)] :
               \A a, b \in DOMAIN r : a # b => r[a] # r[b]}

Elems(t) == [type : {t}, rank : Ranks(t)]

\* Elem::positive_edge_orientation: the edge's first vertex is greater.
positive_edge_orientation(e, E) ==
  e.rank[EdgeNodes(e.type)[E + 1][1]] > e.rank[EdgeNodes(e.type)[E + 1][2]]

----------------------------------------------------------------------------
(* Quads: tensor products of FE<1,BERNSTEIN> *)

\* square_number_column / square_number_row (number_lookups, not in this
\* repository): the k-th interior pair walks the squares' borders layer by
\* layer: (0,n), (1,n), ..., (n,n), (n,n-1), ..., (n,0).
SquareLayer(k) == CHOOSE n \in 0..k : n * n <= k /\ k < (n + 1) * (n + 1)
square_number_column(k) ==
  LET n == SquareLayer(k) IN IF k - n * n <= n THEN k - n * n ELSE n
square_number_row(k) ==
  LET n == SquareLayer(k) IN IF k - n * n <= n THEN n ELSE 2 * n - (k - n * n)

QuadVertex == <<<<0, 0>>, <<1, 0>>, <<1, 1>>, <<0, 1>>>>

\* The 1D indices (i0, i1) of quad shape i before edge orientation.
QuadIndex(i, p) ==
  IF i < 4 THEN QuadVertex[i + 1]
  ELSE IF i < p + 3 THEN <<i - 2, 0>>
  ELSE IF i < 2 * p + 2 THEN <<1, i - p - 1>>
  ELSE IF i < 3 * p + 1 THEN <<i - 2 * p, 1>>
  ELSE IF i < 4 * p THEN <<0, i - 3 * p + 1>>
  ELSE <<square_number_column(i - 4 * p) + 2, square_number_row(i - 4 * p) + 2>>

Flip(k, p) == p + 2 - k

\* quad_i0_i1: an edge's interior indices run from the edge's smaller point.
\* Mutant: edge 2 oriented by point(2) > point(3).
quad_i0_i1_Swapped(i, p, pt) ==
  LET ij == QuadIndex(i, p) IN
  IF i >= 4 /\ i <= 4 + p - 2 /\ pt[0] > pt[1] THEN <<Flip(ij[1], p), ij[2]>>
  ELSE IF i >= 4 + p - 1 /\ i <= 4 + 2 * p - 3 /\ pt[1] > pt[2] THEN <<ij[1], Flip(ij[2], p)>>
  ELSE IF i >= 4 + 2 * p - 2 /\ i <= 4 + 3 * p - 4 /\ pt[2] > pt[3] THEN <<Flip(ij[1], p), ij[2]>>
  ELSE IF i >= 4 + 3 * p - 3 /\ i <= 4 + 4 * p - 5 /\ pt[0] > pt[3] THEN <<ij[1], Flip(ij[2], p)>>
  ELSE ij

quad_i0_i1(i, p, pt) ==
  LET ij == QuadIndex(i, p) IN
  IF i >= 4 /\ i <= 4 + p - 2 /\ pt[0] > pt[1] THEN <<Flip(ij[1], p), ij[2]>>
  ELSE IF i >= 4 + p - 1 /\ i <= 4 + 2 * p - 3 /\ pt[1] > pt[2] THEN <<ij[1], Flip(ij[2], p)>>
  ELSE IF i >= 4 + 2 * p - 2 /\ i <= 4 + 3 * p - 4 /\ pt[3] > pt[2] THEN <<Flip(ij[1], p), ij[2]>>
  ELSE IF i >= 4 + 3 * p - 3 /\ i <= 4 + 4 * p - 5 /\ pt[0] > pt[3] THEN <<ij[1], Flip(ij[2], p)>>
  ELSE ij

\* The tensor-product shape with d0 xi- and d1 eta-derivatives.
QuadTensorShape(e, p, i, d0, d1) ==
  LET ij == quad_i0_i1(i, p, e.rank)
  IN Tensor2(bernstein_1d(p, ij[1], d0), bernstein_1d(p, ij[2], d1))

\* QUAD8: i0[], i1[] and 4 * scal[] of the serendipity element.
Q8i0 == <<0, 1, 1, 0, 2, 1, 2, 0, 2>>
Q8i1 == <<0, 0, 1, 1, 0, 2, 1, 2, 2>>
Q8Scal4 == <<-1, -1, -1, -1, 2, 2, 2, 2>>

\* B(i0[i]) B(i1[i]) + scal[i] B(i0[8]) B(i1[8]); the bubble's coefficients
\* are multiples of 4 at the one order QUAD8 accepts.
Serendipity(p, i, d0, d1) ==
  LET t == Tensor2(bernstein_1d(p, Q8i0[i + 1], d0), bernstein_1d(p, Q8i1[i + 1], d1))
      bubble == Tensor2(bernstein_1d(p, Q8i0[9], d0), bernstein_1d(p, Q8i1[9], d1))
  IN IF t.ok /\ bubble.ok
     THEN Ok(PolyAdd(t.val, PolyOn(DOMAIN bubble.val,
                                   LAMBDA x : (Q8Scal4[i + 1] * bubble.val[x]) \div 4)))
     ELSE Err

----------------------------------------------------------------------------
(* Triangles: explicit Bernstein tables *)

\* TriTable[p][shape + 1] = <<c, a, b, g>> for the case "return c x^a y^b r^g".
TriTableLow ==
  << << <<1, 0, 0, 1>>, <<1, 1, 0, 0>>, <<1, 0, 1, 0>> >>,
     << <<1, 0, 0, 2>>, <<1, 2, 0, 0>>, <<1, 0, 2, 0>>,
        <<2, 1, 0, 1>>, <<2, 1, 1, 0>>, <<2, 0, 1, 1>> >>,
     << <<1, 0, 0, 3>>, <<1, 3, 0, 0>>, <<1, 0, 3, 0>>,
        <<3, 1, 0, 2>>, <<3, 2, 0, 1>>, <<3, 2, 1, 0>>, <<3, 1, 2, 0>>,
        <<3, 0, 1, 2>>, <<3, 0, 2, 1>>, <<6, 1, 1, 1>> >> >>

\* Mutant: FOURTH case 13 returns 12 x y^2 r, a copy of case 14.
TriTableHigh_Dup ==
  << << <<1, 0, 0, 4>>, <<1, 4, 0, 0>>, <<1, 0, 4, 0>>,
        <<4, 1, 0, 3>>, <<6, 2, 0, 2>>, <<4, 3, 0, 1>>,
        <<4, 3, 1, 0>>, <<6, 2, 2, 0>>, <<4, 1, 3, 0>>,
        <<4, 0, 1, 3>>, <<6, 0, 2, 2>>, <<4, 0, 3, 1>>,
        <<12, 1, 1, 2>>, <<12, 1, 2, 1>>, <<12, 1, 2, 1>> >>,
     << <<1, 0, 0, 5>>, <<1, 5, 0, 0>>, <<1, 0, 5, 0>>,
        <<5, 1, 0, 4>>, <<10, 2, 0, 3>>, <<10, 3, 0, 2>>, <<5, 4, 0, 1>>,
        <<5, 4, 1, 0>>, <<10, 3, 2, 0>>, <<10, 2, 3, 0>>, <<5, 1, 4, 0>>,
        <<5, 0, 1, 4>>, <<10, 0, 2, 3>>, <<10, 0, 3, 2>>, <<5, 0, 4, 1>>,
        <<20, 1, 1, 3>>, <<30, 1, 2, 2>>, <<30, 2, 1, 2>>,
        <<20, 1, 3, 1>>, <<20, 3, 1, 1>>, <<30, 2, 2, 1>> >>,
     << <<1, 0, 0, 6>>, <<1, 6, 0, 0>>, <<1, 0, 6, 0>>,
        <<6, 1, 0, 5>>, <<15, 2, 0, 4>>, <<20, 3, 0, 3>>, <<15, 4, 0, 2>>, <<6, 5, 0, 1>>,
        <<6, 5, 1, 0>>, <<15, 4, 2, 0>>, <<20, 3, 3, 0>>, <<15, 2, 4, 0>>, <<6, 1, 5, 0>>,
        <<6, 0, 1, 5>>, <<15, 0, 2, 4>>, <<20, 0, 3, 3>>, <<15, 0, 4, 2>>, <<6, 0, 5, 1>>,
        <<30, 1, 1, 4>>, <<60, 1, 2, 3>>, <<60, 2, 1, 3>>, <<60, 1, 3, 2>>,
        <<60, 3, 1, 2>>, <<90, 2, 2, 2>>, <<30, 1, 4, 1>>, <<60, 2, 3, 1>>,
        <<60, 3, 2, 1>>, <<30, 4, 1, 1>> >> >>

TriTableHigh ==
  << << <<1, 0, 0, 4>>, <<1, 4, 0, 0>>, <<1, 0, 4, 0>>,
        <<4, 1, 0, 3>>, <<6, 2, 0, 2>>, <<4, 3, 0, 1>>,
        <<4, 3, 1, 0>>, <<6, 2, 2, 0>>, <<4, 1, 3, 0>>,
        <<4, 0, 1, 3>>, <<6, 0, 2, 2>>, <<4, 0, 3, 1>>,
        <<12, 1, 1, 2>>, <<12, 2, 1, 1>>, <<12, 1, 2, 1>> >>,
     << <<1, 0, 0, 5>>, <<1, 5, 0, 0>>, <<1, 0, 5, 0>>,
        <<5, 1, 0, 4>>, <<10, 2, 0, 3>>, <<10, 3, 0, 2>>, <<5, 4, 0, 1>>,
        <<5, 4, 1, 0>>, <<10, 3, 2, 0>>, <<10, 2, 3, 0>>, <<5, 1, 4, 0>>,
        <<5, 0, 1, 4>>, <<10, 0, 2, 3>>, <<10, 0, 3, 2>>, <<5, 0, 4, 1>>,
        <<20, 1, 1, 3>>, <<30, 1, 2, 2>>, <<30, 2, 1, 2>>,
        <<20, 1, 3, 1>>, <<20, 3, 1, 1>>, <<30, 2, 2, 1>> >>,
     << <<1, 0, 0, 6>>, <<1, 6, 0, 0>>, <<1, 0, 6, 0>>,
        <<6, 1, 0, 5>>, <<15, 2, 0, 4>>, <<20, 3, 0, 3>>, <<15, 4, 0, 2>>, <<6, 5, 0, 1>>,
        <<6, 5, 1, 0>>, <<15, 4, 2, 0>>, <<20, 3, 3, 0>>, <<15, 2, 4, 0>>, <<6, 1, 5, 0>>,
        <<6, 0, 1, 5>>, <<15, 0, 2, 4>>, <<20, 0, 3, 3>>, <<15, 0, 4, 2>>, <<6, 0, 5, 1>>,
        <<30, 1, 1, 4>>, <<60, 1, 2, 3>>, <<60, 2, 1, 3>>, <<60, 1, 3, 2>>,
        <<60, 3, 1, 2>>, <<90, 2, 2, 2>>, <<30, 1, 4, 1>>, <<60, 2, 3, 1>>,
        <<60, 3, 2, 1>>, <<30, 4, 1, 1>> >> >>

TriTable == TriTableLow \o TriTableHigh

\* The "if (...) shape = s - i" renumberings of orders 3 to 6: on edge E the
\* dofs in "dofs" become s - i when positive_edge_orientation(E) = pos.
TriFlips(p) ==
  CASE p = 3 -> {[edge |-> 0, dofs |-> {3, 4}, s |-> 7, pos |-> TRUE],
                 [edge |-> 1, dofs |-> {5, 6}, s |-> 11, pos |-> TRUE],
                 [edge |-> 2, dofs |-> {7, 8}, s |-> 15, pos |-> FALSE]}
    [] p = 4 -> {[edge |-> 0, dofs |-> {3, 5}, s |-> 8, pos |-> TRUE],
                 [edge |-> 1, dofs |-> {6, 8}, s |-> 14, pos |-> TRUE],
                 [edge |-> 2, dofs |-> {9, 11}, s |-> 20, pos |-> FALSE]}
    [] p = 5 -> {[edge |-> 0, dofs |-> 3..6, s |-> 9, pos |-> TRUE],
                 [edge |-> 1, dofs |-> 7..10, s |-> 17, pos |-> TRUE],
                 [edge |-> 2, dofs |-> 11..14, s |-> 25, pos |-> FALSE]}
    [] p = 6 -> {[edge |-> 0, dofs |-> 3..7, s |-> 10, pos |-> TRUE],
                 [edge |-> 1, dofs |-> 8..12, s |-> 20, pos |-> TRUE],
                 [edge |-> 2, dofs |-> 13..17, s |-> 30, pos |-> FALSE]}
    [] OTHER -> {}

TriShapeNumber(e, p, i) ==
  LET hit == {f \in TriFlips(p) : i \in f.dofs /\ positive_edge_orientation(e, f.edge) = f.pos}
  IN IF hit = {} THEN i ELSE (CHOOSE f \in hit : TRUE).s - i

TriShape(e, p, i) ==
  IF p \in 1..6
  THEN LET row == TriTable[p][TriShapeNumber(e, p, i) + 1]
       IN Ok(<<row[2], row[3], row[4]>> :> row[1])
  ELSE Err

----------------------------------------------------------------------------
(* FE<2,BERNSTEIN>::shape, shape_deriv, shape_second_deriv *)

TensorTypes == {"QUAD4", "QUADSHELL4", "QUAD9", "QUADSHELL9"}
DerivTensorTypes == {"QUAD4", "QUAD9", "QUADSHELL9"}
SerendipityTypes == {"QUAD8", "QUADSHELL8"}

\* The types whose derivatives go to fe_fdm_deriv / fe_fdm_second_deriv.
FdmDerivTypes == TriTypes
FdmSecondTypes == TriTypes \cup SerendipityTypes

shape(e, p, i) ==
  CASE e.type \in TensorTypes -> QuadTensorShape(e, p, i, 0, 0)
    [] e.type \in SerendipityTypes -> Serendipity(p, i, 0, 0)
    [] e.type \in TriTypes -> TriShape(e, p, i)
    [] OTHER -> Err

\* j = 0: d/dxi, j = 1: d/deta (each scaled by 2).
\* Mutant: the tensor case differentiates the other factor.
shape_deriv_Swapped(e, p, i, j) ==
  CASE j \notin {0, 1} -> Err
    [] e.type \in DerivTensorTypes -> QuadTensorShape(e, p, i, j, 1 - j)
    [] e.type \in SerendipityTypes -> Serendipity(p, i, 1 - j, j)
    [] OTHER -> Err

shape_deriv(e, p, i, j) ==
  CASE j \notin {0, 1} -> Err
    [] e.type \in DerivTensorTypes -> QuadTensorShape(e, p, i, 1 - j, j)
    [] e.type \in SerendipityTypes -> Serendipity(p, i, 1 - j, j)
    [] OTHER -> Err

\* j = 0: d2/dxi2, j = 1: d2/dxi deta, j = 2: d2/deta2 (scaled by 4).
shape_second_deriv(e, p, i, j) ==
  IF e.type \in DerivTensorTypes /\ j \in 0..2
  THEN QuadTensorShape(e, p, i, 2 - j, j)
  ELSE Err

----------------------------------------------------------------------------
(* The dof layout (fe_bernstein.C).  An answer is a count, a               *)
(* libmesh_error_msg (ok = FALSE), and whether a libmesh_assert on the way *)
(* failed: a debug build aborts there, an optimized build goes on through  *)
(* the fallthrough.  Counts are unsigned int; with o >= 1, as in every run, *)
(* no o - 1 wraps, and o - 2 wraps only where o - 1 = 0 multiplies it.     *)

Count(n) == [ok |-> TRUE, asserted |-> FALSE, n |-> n]
NoCount == [ok |-> FALSE, asserted |-> FALSE, n |-> 0]
Asserting(c, r) == [r EXCEPT !.asserted = @ \/ ~c]

\* Elem::n_nodes of each type (the element classes, not in this repository).
NNodes(t) ==
  ("NODEELEM" :> 1 @@ "EDGE2" :> 2 @@ "EDGE3" :> 3
   @@ "TRI3" :> 3 @@ "TRISHELL3" :> 3 @@ "TRI6" :> 6 @@ "TRI7" :> 7
   @@ "QUAD4" :> 4 @@ "QUADSHELL4" :> 4 @@ "QUAD8" :> 8 @@ "QUADSHELL8" :> 8
   @@ "QUAD9" :> 9 @@ "QUADSHELL9" :> 9
   @@ "HEX8" :> 8 @@ "HEX20" :> 20 @@ "HEX27" :> 27
   @@ "TET4" :> 4 @@ "TET10" :> 10 @@ "TET14" :> 14)[t]

BERNSTEIN_n_dofs(t, o) ==
  CASE t = "NODEELEM" -> Count(1)
    [] t \in {"EDGE2", "EDGE3"} -> Count(o + 1)
    [] t \in {"QUAD4", "QUADSHELL4", "QUAD8", "QUADSHELL8"} ->
         Asserting(t \in {"QUAD8", "QUADSHELL8"} \/ o < 2,
                CASE o = 1 -> Count(4) [] o = 2 -> Count(8) [] OTHER -> NoCount)
    [] t \in {"QUAD9", "QUADSHELL9"} -> Count((o + 1) * (o + 1))
    [] t \in {"HEX8", "HEX20"} ->
         Asserting(t = "HEX20" \/ o < 2,
                CASE o = 1 -> Count(8) [] o = 2 -> Count(20) [] OTHER -> NoCount)
    [] t = "HEX27" -> Count((o + 1) * (o + 1) * (o + 1))
    [] t \in {"TRI3", "TRISHELL3", "TRI6", "TRI7"} ->
         Asserting(t \in {"TRI6", "TRI7"} \/ o < 2, Count(((o + 1) * (o + 2)) \div 2))
    [] t \in {"TET4", "TET10", "TET14"} ->
         Asserting(t # "TET4" \/ o < 2,
                Asserting(o < 3, Count(((o + 1) * (o + 2) * (o + 3)) \div 6)))
    [] OTHER -> NoCount

\* Vertices, edges, faces and the interior of the Lagrange node numbering.
NodeCount(nv, ne, nf, n, o) ==
  CASE n < nv -> Count(1)
    [] n < nv + ne -> Count(o - 1)
    [] n < nv + ne + nf -> Count((o - 1) * (o - 1))
    [] OTHER -> Count((o - 1) * (o - 1) * (o - 1))

BERNSTEIN_n_dofs_at_node(t, o, n) ==
  CASE t = "NODEELEM" -> Count(1)
    [] t \in {"EDGE2", "EDGE3"} ->
         CASE n \in {0, 1} -> Count(1)
           [] n = 2 -> Asserting(o > 1, Count(o - 1))
           [] OTHER -> NoCount
    [] t \in {"TRI3", "TRI6", "TRI7"} ->
         Asserting(t # "TRI3" \/ (n < 3 /\ o < 2),
           Asserting(t = "TRI7" \/ n < 6,
             CASE n < 3 -> Count(1)
               [] n < 6 -> Count(o - 1)
               [] n = 6 -> Count(((o - 1) * (o - 2)) \div 2)
               [] OTHER -> NoCount))
    [] t \in {"QUAD4", "QUAD8", "QUAD9"} ->
         Asserting(t # "QUAD4" \/ (n < 4 /\ o < 2),
           Asserting(t = "QUAD9" \/ (n < 8 /\ o < 3),
             IF n < 9 THEN NodeCount(4, 4, 1, n, o) ELSE NoCount))
    [] t \in {"HEX8", "HEX20", "HEX27"} ->
         Asserting(t # "HEX8" \/ (n < 8 /\ o < 2),
           Asserting(t = "HEX27" \/ (n < 20 /\ o < 3),
             IF n < 27 THEN NodeCount(8, 12, 6, n, o) ELSE NoCount))
    [] t \in {"TET4", "TET10", "TET14"} ->
         Asserting(t # "TET4" \/ (n < 4 /\ o < 2),
           Asserting(t = "TET14" \/ n < 10,
             Asserting(o < 3,
               CASE n < 4 -> Count(1)
                 [] n < 10 -> Count(o - 1)
                 [] n < 14 -> Count(0)
                 [] OTHER -> NoCount)))
    [] OTHER -> NoCount

\* Mutant: TRI6 keeps no interior dofs of its own, as TRI7.
BERNSTEIN_n_dofs_per_elem_Tri7(t, o) ==
  CASE t \in {"NODEELEM", "EDGE2", "EDGE3", "TRI3", "TRISHELL3", "QUAD4",
              "QUADSHELL4", "TRI7", "QUAD8", "QUADSHELL8", "QUAD9",
              "QUADSHELL9", "HEX27", "TRI6"} -> Count(0)
    [] t = "HEX8" -> Asserting(o < 2, Count(0))
    [] t = "HEX20" -> Asserting(o < 3, Count(0))
    [] t \in {"TET4", "TET10", "TET14"} ->
         Asserting(t # "TET4" \/ o < 2, Asserting(o < 3, Count(0)))
    [] OTHER -> NoCount

BERNSTEIN_n_dofs_per_elem(t, o) ==
  CASE t \in {"NODEELEM", "EDGE2", "EDGE3", "TRI3", "TRISHELL3", "QUAD4",
              "QUADSHELL4", "TRI7", "QUAD8", "QUADSHELL8", "QUAD9",
              "QUADSHELL9", "HEX27"} -> Count(0)
    [] t = "TRI6" -> Count(((o - 1) * (o - 2)) \div 2)
    [] t = "HEX8" -> Asserting(o < 2, Count(0))
    [] t = "HEX20" -> Asserting(o < 3, Count(0))
    [] t \in {"TET4", "TET10", "TET14"} ->
         Asserting(t # "TET4" \/ o < 2, Asserting(o < 3, Count(0)))
    [] OTHER -> NoCount

----------------------------------------------------------------------------
(* Calls *)

NoElem == [type |-> "none", rank |-> <<>>]
NoCall == [fn |-> "none", elem |-> NoElem, p |-> 0, res |-> <<>>]
NoLayout == [type |-> "none", o |-> 0, total |-> NoCount, nodes |-> <<>>, elem |-> NoCount]

\* The FE object only asks for shapes i < n_dofs of orders n_dofs accepts.
Accepts(t, p) == BERNSTEIN_n_dofs(t, p).ok /\ ~BERNSTEIN_n_dofs(t, p).asserted
Dofs(t, p) == 0..BERNSTEIN_n_dofs(t, p).n - 1

\* A call of fn for every dof i and direction j of one element, as the FE
\* object makes them when it computes phi, dphi or d2phi on an element.
Evaluation(fn, e, p, js, F(_, _)) ==
  [fn |-> fn, elem |-> e, p |-> p,
   res |-> [i \in Dofs(e.type, p) |-> [j \in js |-> F(i, j)]]]

\* The elements and orders fn is asked about on types other than "skip".
Inputs(skip) ==
  {<<e, p>> \in (UNION {Elems(t) : t \in ShapeTypes \ skip}) \X ShapeOrders :
     Accepts(e.type, p)}

\* shape(elem, order, i, p) and shape(fe_type, elem, i, p).
ShapeEvaluations ==
  {Evaluation("shape", x[1], x[2], {0}, LAMBDA i, j : shape(x[1], x[2], i)) :
     x \in Inputs({})}

\* shape_deriv on the types that do not hand over to fe_fdm_deriv.
DerivEvaluations ==
  {Evaluation("deriv", x[1], x[2], 0..1, LAMBDA i, j : shape_deriv(x[1], x[2], i, j)) :
     x \in Inputs(FdmDerivTypes)}

\* shape_second_deriv on the types that do not use fe_fdm_second_deriv.
SecondDerivEvaluations ==
  {Evaluation("second", x[1], x[2], 0..2, LAMBDA i, j : shape_second_deriv(x[1], x[2], i, j)) :
     x \in Inputs(FdmSecondTypes)}

Init ==
  /\ call = NoCall
  /\ layout = NoLayout

Evaluate(ev) ==
  /\ call' = ev
  /\ layout' = NoLayout

ShapeCall == \E ev \in ShapeEvaluations : Evaluate(ev)
DerivCall == \E ev \in DerivEvaluations : Evaluate(ev)
SecondDerivCall == \E ev \in SecondDerivEvaluations : Evaluate(ev)

\* The overloads given only an ElemType cannot orient edges and fail.
NoElemCall ==
  \E fn \in {"shape", "deriv", "second"} :
    Evaluate([fn |-> fn, elem |-> NoElem, p |-> 0, res |-> 0 :> (0 :> Err)])

\* What the DofMap asks of one element: n_dofs, n_dofs_at_node at each node
\* and n_dofs_per_elem.
LayoutQuery ==
  \E t \in DofTypes, o \in DofOrders :
    /\ layout' = [type |-> t, o |-> o, total |-> BERNSTEIN_n_dofs(t, o),
                  nodes |-> [n \in 0..NNodes(t) - 1 |-> BERNSTEIN_n_dofs_at_node(t, o, n)],
                  elem |-> BERNSTEIN_n_dofs_per_elem(t, o)]
    /\ call' = NoCall

Next == ShapeCall \/ DerivCall \/ SecondDerivCall \/ NoElemCall \/ LayoutQuery

Spec == Init /\ [][Next]_vars

----------------------------------------------------------------------------
(* Properties *)

\* The dofs of node n come after those of nodes 0..n-1 (the DofMap's
\* numbering); DofNode is the node dof i sits at, NNodes(t) for the
\* element's own dofs.
FirstDof(t, p, n) ==
  MapThenSumSet(LAMBDA m : BERNSTEIN_n_dofs_at_node(t, p, m).n, 0..n - 1)
DofNode(t, p, i) ==
  Min({n \in 0..NNodes(t) - 1 : i < FirstDof(t, p, n + 1)} \cup {NNodes(t)})

\* Restriction to edge E as a polynomial in (a, b), the weights of the
\* edge's first and second node: positions of u0, v0, u1, v1 (x, y, r).
Sides(t) ==
  IF t \in TriTypes
  THEN << [zero |-> 2, a |-> 3, b |-> 1], [zero |-> 3, a |-> 1, b |-> 2],
          [zero |-> 1, a |-> 2, b |-> 3] >>
  ELSE << [zero |-> 4, a |-> 1, b |-> 2], [zero |-> 1, a |-> 3, b |-> 4],
          [zero |-> 3, a |-> 2, b |-> 1], [zero |-> 2, a |-> 4, b |-> 3] >>

Trace(q, s) ==
  LET on == {x \in DOMAIN q : x[s.zero] = 0}
      img(x) == <<x[s.a], x[s.b]>>
  IN PolyOn({img(x) : x \in on},
            LAMBDA z : MapThenSumSet(LAMBDA x : q[x], {x \in on : img(x) = z}))

\* What a shape must restrict to on edge E for the field to be continuous
\* between any two elements sharing E: a vertex's shape is its own weight
\* to the p-th power; the k-th dof of the edge's node is the Bernstein
\* polynomial of degree k+1 in the weight of the edge's GREATER point,
\* whatever the local direction; every other shape vanishes on E.
CanonicalTrace(e, p, i, E) ==
  LET ends == EdgeNodes(e.type)[E + 1]
      n == DofNode(e.type, p, i)
      k == i - FirstDof(e.type, p, n)
      up == e.rank[ends[1]] < e.rank[ends[2]]
  IN CASE n = ends[1] -> <<p, 0>> :> 1
       [] n = ends[2] -> <<0, p>> :> 1
       [] n = NVertices(e.type) + E ->
            IF up THEN <<p - k - 1, k + 1>> :> choose(p, k + 1)
                  ELSE <<k + 1, p - k - 1>> :> choose(p, k + 1)
       [] OTHER -> NoPoly

\* C0 continuity: every shape a call returns restricts on each edge to the
\* canonical trace, whichever way the element's local numbering runs along
\* the edge (quad_i0_i1's point comparisons, the triangles'
\* positive_edge_orientation renumbering, the QUAD8 bubble).
EdgeTracesAreCanonical ==
  call.fn = "shape" =>
    \A i \in DOMAIN call.res : call.res[i][0].ok =>
      \A E \in 0..NVertices(call.elem.type) - 1 :
        Trace(call.res[i][0].val, Sides(call.elem.type)[E + 1])
          = CanonicalTrace(call.elem, call.p, i, E)

\* (x + y + r)^p, or (u0 + v0)^p (u1 + v1)^p, expanded.
FullExpansion(t, p) ==
  IF t \in TriTypes
  THEN [x \in {<<a, b, p - a - b>> : a \in 0..p, b \in 0..p} \cap [1..3 -> 0..p] |->
          factorial[p] \div (factorial[x[1]] * factorial[x[2]] * factorial[x[3]])]
  ELSE [x \in {<<p - a, a, p - b, b>> : a, b \in 0..p} |-> choose(p, x[2]) * choose(p, x[4])]

\* The element's shapes sum to one as polynomials: every Bernstein
\* polynomial of the element is some shape exactly once (the tables of
\* orders 1 to 6, square_number_column/row, the QUAD8 scal[] weights).
PartitionOfUnity ==
  (call.fn = "shape" /\ call.elem # NoElem /\ \A d \in DOMAIN call.res : call.res[d][0].ok) =>
    LET S == [i \in DOMAIN call.res |-> call.res[i][0].val]
        F == FullExpansion(call.elem.type, call.p)
    IN \A x \in DOMAIN F \cup UNION {DOMAIN S[i] : i \in DOMAIN S} :
         MapThenSumSet(LAMBDA i : Coef(S[i], x), DOMAIN S) = Coef(F, x)

\* d/dv - d/du at positions (k, k+1): 2 d/dxi (k = 1) or 2 d/deta (k = 3).
PD(q, k) ==
  PolyOn({[x EXCEPT ![k] = @ - 1] : x \in {y \in DOMAIN q : y[k] > 0}},
         LAMBDA x : (x[k] + 1) * Coef(q, [x EXCEPT ![k] = @ + 1]))
D(q, k) == PolyAdd(PD(q, k + 1), PolyScale(-1, PD(q, k)))

Differentiated(fn, j, q) ==
  IF fn = "deriv" THEN <<D(q, 1), D(q, 3)>>[j + 1]
  ELSE <<D(D(q, 1), 1), D(D(q, 1), 3), D(D(q, 3), 3)>>[j + 1]

\* shape_deriv and shape_second_deriv return the derivatives of shape:
\* the right 1D factor is differentiated, with the same (i0, i1).
DerivativesDifferentiateShapes ==
  call.fn \in {"deriv", "second"} =>
    \A i \in DOMAIN call.res : \A j \in DOMAIN call.res[i] : call.res[i][j].ok =>
      LET s == shape(call.elem, call.p, i)
      IN s.ok /\ call.res[i][j].val = Differentiated(call.fn, j, s.val)

\* The DofMap gives an element n_dofs_at_node dofs at each node and
\* n_dofs_per_elem of its own; whenever n_dofs accepts a type and order,
\* those accept it too and add up to n_dofs.
NodeDofsAddUp ==
  layout.total.ok /\ ~layout.total.asserted =>
    /\ \A n \in DOMAIN layout.nodes : layout.nodes[n].ok /\ ~layout.nodes[n].asserted
    /\ layout.elem.ok /\ ~layout.elem.asserted
    /\ MapThenSumSet(LAMBDA n : layout.nodes[n].n, DOMAIN layout.nodes) + layout.elem.n
         = layout.total.n

============================================================================

------------------------------ MODULE FEShape1D ------------------------------
(***************************************************************************)
(* The one-dimensional HIERARCHIC, HERMITE and CLOUGH shape functions and  *)
(* their first and second derivatives (src/src/fe/fe_hierarchic_shape_1D.C,*)
(* fe_hermite_shape_1D.C, fe_clough_shape_1D.C), evaluated by a caller on  *)
(* reference points.  CLOUGH keeps the coefficients of the last element in *)
(* static variables.  Real arithmetic is exact rational arithmetic         *)
(* (DoubleArith): what is checked is the polynomial each branch computes,  *)
(* not its rounding.                                                       *)
(*                                                                         *)
(* Reference definitions: a polynomial is the sequence of its              *)
(* coefficients, constant term first; the hierarchic functions are the     *)
(* linear nodal pair and (xi^p - 1)/p!, (xi^p - xi)/p!; the Hermite ones   *)
(* are the cubics whose values and physical slopes at the two vertices are *)
(* those of their degree of freedom, and the bubbles xi^(p-4)(xi^2-1)^2/p!.*)
(***************************************************************************)
EXTENDS Integers, Sequences, SequencesExt, DoubleArith

CONSTANTS
  MaxOrder,      \* the highest order (p-level included) evaluated
  Points,        \* the reference points xi, as DoubleArith values
  Elems          \* edges for HERMITE: [type |-> "EDGE2" | "EDGE3", x |-> node
                 \* coordinates, vertices first then the midpoint]

VARIABLES
  call,          \* [family, fn, i, xi, order, elem]: fn 0 shape, 1 shape_deriv,
                 \* 2 shape_second_deriv
  result,        \* [ok, val]: ok FALSE when the call is a libmesh_error
  cache          \* CLOUGH's statics: [elem (old_elem_id/ptr), d1xd1x, d2xd2x]

vars == <<call, result, cache>>

\* Utility::pow<n>, and the factorial the default branches build.
Pow(x, n) == FoldLeft(LAMBDA a, j : Mul(a, x), One, [j \in 1..n |-> j])

Fact(n) == FoldLeft(LAMBDA a, j : a * j, 1, [j \in 1..n |-> j])

Over(x, d) == Div(x, Whole(d))

Scale(c, x) == Mul(Whole(c), x)

-----------------------------------------------------------------------------
(* fe_hierarchic_shape_1D.C, lines 430-642.                                *)

\* The default branch's loop "for (n = 1; n <= i; ++n)" (or n != i).
LoopPow(x, last) == Pow(x, last)

fe_hierarchic_1D_shape(i, x) ==
  CASE i = 0 -> Mul(R(1, 2), Sub(One, x))
    [] i = 1 -> Mul(R(1, 2), Add(One, x))
    [] i = 2 -> Over(Sub(Mul(x, x), One), 2)
    [] i = 4 -> Over(Sub(Pow(x, 4), One), 24)
    [] i = 6 -> Over(Sub(Pow(x, 6), One), 720)
    [] i = 3 -> Over(Sub(Pow(x, 3), x), 6)
    [] i = 5 -> Over(Sub(Pow(x, 5), x), 120)
    [] i = 7 -> Over(Sub(Pow(x, 7), x), 5040)
    [] OTHER -> Over(Sub(LoopPow(x, i), IF i % 2 = 1 THEN x ELSE One), Fact(i))

\* Mutant: the derivative's default loop run to n <= i.
fe_hierarchic_1D_shape_deriv_LoopToI(i, x) ==
  CASE i = 0 -> R(-1, 2)
    [] i = 1 -> R(1, 2)
    [] i = 2 -> x
    [] i = 4 -> Over(Pow(x, 3), 6)
    [] i = 6 -> Over(Pow(x, 5), 120)
    [] i = 3 -> Over(Sub(Scale(3, Mul(x, x)), One), 6)
    [] i = 5 -> Over(Sub(Scale(5, Pow(x, 4)), One), 120)
    [] i = 7 -> Over(Sub(Scale(7, Pow(x, 6)), One), 5040)
    [] OTHER -> IF i % 2 = 1
                THEN Over(Over(Sub(Scale(i, LoopPow(x, i)), One), Fact(i)), i)
                ELSE Over(LoopPow(x, i), Fact(i))

fe_hierarchic_1D_shape_deriv(i, x) ==
  CASE i = 0 -> R(-1, 2)
    [] i = 1 -> R(1, 2)
    [] i = 2 -> x
    [] i = 4 -> Over(Pow(x, 3), 6)
    [] i = 6 -> Over(Pow(x, 5), 120)
    [] i = 3 -> Over(Sub(Scale(3, Mul(x, x)), One), 6)
    [] i = 5 -> Over(Sub(Scale(5, Pow(x, 4)), One), 120)
    [] i = 7 -> Over(Sub(Scale(7, Pow(x, 6)), One), 5040)
    [] OTHER -> IF i % 2 = 1
                THEN Over(Over(Sub(Scale(i, LoopPow(x, i - 1)), One), Fact(i - 1)), i)
                ELSE Over(LoopPow(x, i - 1), Fact(i - 1))

\* Lines 576-642; the default branch (625-638) is the first derivative's.
fe_hierarchic_1D_shape_second_deriv(i, x) ==
  CASE i \in {0, 1} -> Zero
    [] i = 2 -> One
    [] i = 3 -> x
    [] i = 4 -> Over(Pow(x, 2), 2)
    [] i = 5 -> Over(Pow(x, 3), 6)
    [] i = 6 -> Over(Pow(x, 4), 24)
    [] i = 7 -> Over(Pow(x, 5), 120)
    [] OTHER -> IF i % 2 = 1
                THEN Over(Over(Sub(Scale(i, LoopPow(x, i - 1)), One), Fact(i - 1)), i)
                ELSE Over(LoopPow(x, i - 1), Fact(i - 1))

HierarchicFn(fn, i, x) ==
  CASE fn = 0 -> fe_hierarchic_1D_shape(i, x)
    [] fn = 1 -> fe_hierarchic_1D_shape_deriv(i, x)
    [] fn = 2 -> fe_hierarchic_1D_shape_second_deriv(i, x)

-----------------------------------------------------------------------------
(* fe_hermite_shape_1D.C.                                                  *)

\* The default branches' xi^(i-6) and 720 * 7 * ... * i = i!.
XiPower(x, i) == Pow(x, i - 6)

X2m1(x) == Sub(Mul(x, x), One)

hermite_raw_shape(i, x) ==
  CASE i = 0 -> Mul(R(1, 4), Add(Sub(Whole(2), Scale(3, x)), Pow(x, 3)))
    [] i = 1 -> Mul(R(1, 4), Sub(Add(Whole(2), Scale(3, x)), Pow(x, 3)))
    [] i = 2 -> Mul(R(1, 4), Add(Sub(Sub(One, x), Mul(x, x)), Pow(x, 3)))
    [] i = 3 -> Mul(R(1, 4), Add(Add(Sub(Neg(One), x), Mul(x, x)), Pow(x, 3)))
    [] i = 4 -> Over(Mul(X2m1(x), X2m1(x)), 24)
    [] i = 5 -> Over(Mul(x, Mul(X2m1(x), X2m1(x))), 120)
    [] OTHER -> Over(Mul(Mul(Mul(x, x), XiPower(x, i)), Mul(X2m1(x), X2m1(x))), Fact(i))

hermite_raw_shape_deriv(i, x) ==
  CASE i = 0 -> Mul(R(3, 4), Add(Neg(One), Mul(x, x)))
    [] i = 1 -> Mul(R(3, 4), Sub(One, Mul(x, x)))
    [] i = 2 -> Mul(R(1, 4), Add(Sub(Neg(One), Scale(2, x)), Scale(3, Mul(x, x))))
    [] i = 3 -> Mul(R(1, 4), Add(Add(Neg(One), Scale(2, x)), Scale(3, Mul(x, x))))
    [] i = 4 -> Over(Mul(Scale(4, x), X2m1(x)), 24)
    [] i = 5 -> Over(Add(Mul(Scale(4, Mul(x, x)), X2m1(x)), Mul(X2m1(x), X2m1(x))), 120)
    [] OTHER -> Over(Add(Mul(Scale(4, Mul(Pow(x, 3), XiPower(x, i))), X2m1(x)),
                         Scale(i - 4, Mul(Mul(x, XiPower(x, i)), Mul(X2m1(x), X2m1(x))))),
                     Fact(i))

hermite_raw_shape_second_deriv(i, x) ==
  CASE i = 0 -> Mul(R(3, 2), x)
    [] i = 1 -> Mul(R(-3, 2), x)
    [] i = 2 -> Mul(R(1, 2), Add(Neg(One), Scale(3, x)))
    [] i = 3 -> Mul(R(1, 2), Add(One, Scale(3, x)))
    [] i = 4 -> Over(Add(Scale(8, Mul(x, x)), Scale(4, X2m1(x))), 24)
    [] i = 5 -> Over(Add(Scale(8, Pow(x, 3)), Scale(12, Mul(x, X2m1(x)))), 120)
    [] OTHER -> Over(Add(Add(Scale(8, Mul(Pow(x, 4), XiPower(x, i))),
                             Mul(Mul(Whole(8 * (i - 4) + 4), Mul(Mul(x, x), XiPower(x, i))), X2m1(x))),
                         Scale((i - 4) * (i - 5), Mul(XiPower(x, i), Mul(X2m1(x), X2m1(x))))),
                     Fact(i))

\* dN_n/dxi at xi of the default-order LAGRANGE map's shape functions
\* (FE<1,LAGRANGE>, outside this excerpt): EDGE2 nodes -1, 1; EDGE3 nodes
\* -1, 1 and the midpoint 0.
LagrangeShapeDeriv(type, n, xi) ==
  IF type = "EDGE2" THEN R(IF n = 1 THEN -1 ELSE 1, 2)
  ELSE CASE n = 1 -> Sub(xi, R(1, 2))
         [] n = 2 -> Add(xi, R(1, 2))
         [] n = 3 -> Scale(-2, xi)

\* ... at HERMITE's dofpt[p], xi = -1 and xi = 1.
MapShapeDeriv(type, n, p) == LagrangeShapeDeriv(type, n, Whole(IF p = 1 THEN -1 ELSE 1))

\* Mutant: the two vertices' scaling factors swapped.
hermite_compute_coefs_Swapped(e) ==
  LET dxdxi(p) == FoldLeft(LAMBDA a, n : Add(a, Mul(e.x[n], MapShapeDeriv(e.type, n, p))),
                           Zero, [n \in DOMAIN e.x |-> n])
  IN [d1xd1x |-> dxdxi(2), d2xd2x |-> dxdxi(1)]

\* Lines 30-64: dx/dxi at the two vertices, from the map's shape functions.
hermite_compute_coefs(e) ==
  LET dxdxi(p) == FoldLeft(LAMBDA a, n : Add(a, Mul(e.x[n], MapShapeDeriv(e.type, n, p))),
                           Zero, [n \in DOMAIN e.x |-> n])
  IN [d1xd1x |-> dxdxi(1), d2xd2x |-> dxdxi(2)]

HermiteRaw(fn, i, x) ==
  CASE fn = 0 -> hermite_raw_shape(i, x)
    [] fn = 1 -> hermite_raw_shape_deriv(i, x)
    [] fn = 2 -> hermite_raw_shape_second_deriv(i, x)

\* Lines 182-229 (and shape_deriv, shape_second_deriv): the global
\* functions value-left, slope-left, value-right, slope-right, then the
\* bubbles; the slope functions scaled by dx/dxi at their vertex.
HermiteFn(fn, e, i, x) ==
  LET c == hermite_compute_coefs(e) IN
  CASE i = 0 -> HermiteRaw(fn, 0, x)
    [] i = 1 -> Mul(c.d1xd1x, HermiteRaw(fn, 2, x))
    [] i = 2 -> HermiteRaw(fn, 1, x)
    [] i = 3 -> Mul(c.d2xd2x, HermiteRaw(fn, 3, x))
    [] OTHER -> HermiteRaw(fn, i, x)

-----------------------------------------------------------------------------
(* fe_clough_shape_1D.C: the C1 cubic on xi in [0, 1].                     *)

\* old_elem_ptr = nullptr (line 35).
NoElem == [type |-> "none", x |-> <<>>]

\* Lines 192-212, 161-190 and 125-156 (deriv_type j is 0 in 1D).
\* Mutant: a factor xi dropped from the last term of basis 1.
clough_raw_shape_Dropped(i, x) ==
  CASE i = 0 -> Add(Sub(One, Scale(3, Mul(x, x))), Scale(2, Pow(x, 3)))
    [] i = 1 -> Sub(Scale(3, Mul(x, x)), Scale(2, Mul(x, x)))
    [] i = 2 -> Add(Sub(x, Scale(2, Mul(x, x))), Pow(x, 3))
    [] i = 3 -> Add(Neg(Mul(x, x)), Pow(x, 3))

clough_raw_shape(i, x) ==
  CASE i = 0 -> Add(Sub(One, Scale(3, Mul(x, x))), Scale(2, Pow(x, 3)))
    [] i = 1 -> Sub(Scale(3, Mul(x, x)), Scale(2, Pow(x, 3)))
    [] i = 2 -> Add(Sub(x, Scale(2, Mul(x, x))), Pow(x, 3))
    [] i = 3 -> Add(Neg(Mul(x, x)), Pow(x, 3))

clough_raw_shape_deriv(i, x) ==
  CASE i = 0 -> Add(Scale(-6, x), Scale(6, Mul(x, x)))
    [] i = 1 -> Sub(Scale(6, x), Scale(6, Mul(x, x)))
    [] i = 2 -> Add(Sub(One, Scale(4, x)), Scale(3, Mul(x, x)))
    [] i = 3 -> Add(Scale(-2, x), Scale(3, Mul(x, x)))

clough_raw_shape_second_deriv(i, x) ==
  CASE i = 0 -> Add(Whole(-6), Scale(12, x))
    [] i = 1 -> Sub(Whole(6), Scale(12, x))
    [] i = 2 -> Add(Whole(-4), Scale(6, x))
    [] i = 3 -> Add(Whole(-2), Scale(6, x))

\* Lines 58-119 (an optimized build): the coefficients of the element of
\* the last call are reused; otherwise dxdxi[p] sums dofpt[p](0) times the
\* map's shape derivatives at dofpt[p] = 0, 1 (line 98).
clough_compute_coefs(e) ==
  LET dofpt == <<Zero, One>>
      dxdxi(p) == FoldLeft(LAMBDA a, n : Add(a, Mul(dofpt[p], LagrangeShapeDeriv(e.type, n, dofpt[p]))),
                           Zero, [n \in DOMAIN e.x |-> n])
  IN IF e = cache.elem THEN cache
     ELSE [elem |-> e, d1xd1x |-> dxdxi(1), d2xd2x |-> dxdxi(2)]

CloughRaw(fn, i, x) ==
  CASE fn = 0 -> clough_raw_shape(i, x)
    [] fn = 1 -> clough_raw_shape_deriv(i, x)
    [] fn = 2 -> clough_raw_shape_second_deriv(i, x)

\* Lines 226-276, 317-366, 385-434: THIRD order on an EDGE2 or EDGE3,
\* i < 4; the slope functions 2 and 3 scaled by d1xd1x and d2xd2x.
CloughFn(fn, c, i, x) ==
  CASE i \in {0, 1} -> CloughRaw(fn, i, x)
    [] i = 2 -> Mul(c.d1xd1x, CloughRaw(fn, 2, x))
    [] i = 3 -> Mul(c.d2xd2x, CloughRaw(fn, 3, x))

-----------------------------------------------------------------------------

Init ==
  /\ call = [family |-> "none", fn |-> 0, i |-> 0, xi |-> Zero, order |-> 0,
             elem |-> "none"]
  /\ result = [ok |-> TRUE, val |-> Zero]
  /\ cache = [elem |-> NoElem, d1xd1x |-> Zero, d2xd2x |-> Zero]

(***************************************************************************)
(* FE<1,HIERARCHIC>::shape / shape_deriv / shape_second_deriv (lines       *)
(* 101-123, 214-239, 341-365): the order is fet.order plus the element's   *)
(* p-level when add_p_level; order 0 is a libmesh_error (line 438).       *)
(* L2_HIERARCHIC's overloads (lines 76-84, 127-148, 188-197, 243-270,      *)
(* 367-394) call the same three functions the same way, so these calls    *)
(* stand for both families.  The calls of the stateless families are       *)
(* gathered with their results in a table, evaluated once.                 *)
(***************************************************************************)
HierarchicCalls ==
  { o \in { LET total == order + (IF add THEN plevel ELSE 0) IN
            [call |-> [family |-> "HIERARCHIC", fn |-> fn, i |-> i, xi |-> xi,
                       order |-> total, elem |-> "none"],
             result |-> IF total <= 0 THEN [ok |-> FALSE, val |-> Zero]
                        ELSE [ok |-> TRUE, val |-> HierarchicFn(fn, i, xi)]] :
            fn \in 0..2, order \in 0..MaxOrder, plevel \in 0..1, add \in BOOLEAN,
            xi \in Points, i \in 0..MaxOrder } :
      o.call.i <= o.call.order /\ o.call.order <= MaxOrder }

HierarchicCall(fn) ==
  \E o \in HierarchicCalls :
    /\ o.call.fn = fn
    /\ call' = o.call
    /\ result' = o.result
    /\ UNCHANGED cache

\* FE<1,SIDE_HIERARCHIC> (lines 87-95, 150-174, 198-206, 272-296,
\* 396-418): shape i is 1 on the side it stands for (right_side = p(0) > 0),
\* and every derivative is 0.
SideHierarchicCalls ==
  { [call |-> [family |-> "SIDE_HIERARCHIC", fn |-> fn, i |-> i, xi |-> xi,
               order |-> 0, elem |-> "none"],
     result |-> [ok |-> TRUE,
                 val |-> IF fn = 0 /\ Lt(Zero, xi) = (i = 1) THEN One ELSE Zero]] :
    fn \in 0..2, i \in 0..1, xi \in Points }

SideHierarchicCall(fn) ==
  \E o \in SideHierarchicCalls :
    /\ o.call.fn = fn
    /\ call' = o.call
    /\ result' = o.result
    /\ UNCHANGED cache

\* FE<1,HERMITE>::shape / shape_deriv / shape_second_deriv on an edge.
HermiteCalls ==
  { [call |-> [family |-> "HERMITE", fn |-> fn, i |-> i, xi |-> xi,
               order |-> MaxOrder, elem |-> e],
     result |-> [ok |-> TRUE, val |-> HermiteFn(fn, e, i, xi)]] :
    fn \in 0..2, e \in Elems, i \in 0..MaxOrder, xi \in Points }

HermiteCall(fn) ==
  \E o \in HermiteCalls :
    /\ o.call.fn = fn
    /\ call' = o.call
    /\ result' = o.result
    /\ UNCHANGED cache

\* FE<1,CLOUGH>::shape / shape_deriv / shape_second_deriv on an edge: the
\* coefficients are computed (or reused) before the order is looked at;
\* an order other than THIRD, or i >= 4, is a libmesh_error.
CloughCall(fn) ==
  \E e \in Elems, order \in 2..3, plevel \in 0..1, add \in BOOLEAN, i \in 0..4,
    xi \in {x \in Points : ~Lt(x, Zero) /\ ~Lt(One, x)} :
    LET total == order + (IF add THEN plevel ELSE 0)
        c == clough_compute_coefs(e)
    IN /\ cache' = c
       /\ call' = [family |-> "CLOUGH", fn |-> fn, i |-> i, xi |-> xi,
                   order |-> total, elem |-> e]
       /\ result' = IF total = 3 /\ i < 4 THEN [ok |-> TRUE, val |-> CloughFn(fn, c, i, xi)]
                    ELSE [ok |-> FALSE, val |-> Zero]

\* The overloads without an element (lines 280-288, 303-312, 437-446).
CloughNoElem(fn) ==
  /\ call' = [family |-> "CLOUGH", fn |-> fn, i |-> 0, xi |-> Zero, order |-> 3,
              elem |-> "none"]
  /\ result' = [ok |-> FALSE, val |-> Zero]
  /\ UNCHANGED cache

Next ==
  \E fn \in 0..2 :
    \/ HierarchicCall(fn) \/ SideHierarchicCall(fn) \/ HermiteCall(fn)
    \/ CloughCall(fn) \/ CloughNoElem(fn)

Spec == Init /\ [][Next]_vars

-----------------------------------------------------------------------------
(* Reference polynomials.                                                  *)

Poly(cs) == [j \in 1..Len(cs) |-> cs[j]]

Monomial(n, c) == [j \in 1..(n + 1) |-> IF j = n + 1 THEN c ELSE Zero]

PolyAdd(p, q) ==
  [j \in 1..(IF Len(p) > Len(q) THEN Len(p) ELSE Len(q)) |->
     Add(IF j <= Len(p) THEN p[j] ELSE Zero, IF j <= Len(q) THEN q[j] ELSE Zero)]

PolyMul(p, q) ==
  [j \in 1..(Len(p) + Len(q) - 1) |->
     FoldLeft(LAMBDA a, m : Add(a, Mul(p[m], q[j + 1 - m])), Zero,
              SelectSeq([m \in 1..Len(p) |-> m], LAMBDA m : j + 1 - m \in 1..Len(q)))]

Diff(p) == [j \in 1..(Len(p) - 1) |-> Scale(j, p[j + 1])]

RECURSIVE DiffN(_, _)
DiffN(p, n) == IF n = 0 \/ Len(p) = 0 THEN p ELSE DiffN(Diff(p), n - 1)

Eval(p, x) == FoldRight(LAMBDA c, a : Add(c, Mul(a, x)), p, Zero)

RefHierarchic(i) ==
  CASE i = 0 -> <<R(1, 2), R(-1, 2)>>
    [] i = 1 -> <<R(1, 2), R(1, 2)>>
    [] OTHER -> PolyAdd(Monomial(i, R(1, Fact(i))),
                        Monomial(i % 2, R(-1, Fact(i))))

\* The cubic with values vm, vp and xi-slopes sm, sp at xi = -1, 1.
HermiteCubic(vm, vp, sm, sp) ==
  LET c == Over(Sub(sp, sm), 4)
      d == Over(Sub(Add(sp, sm), Sub(vp, vm)), 4)
  IN <<Sub(Over(Add(vp, vm), 2), c), Sub(Over(Sub(vp, vm), 2), d), c, d>>

\* A unit physical slope dN/dx = 1 at a vertex is a xi-slope of dx/dxi there.
RefHermite(e, i) ==
  LET x == e.x
      \* dx/dxi at xi = -1 and 1 of the edge's geometry
      dm == IF e.type = "EDGE2" THEN Over(Sub(x[2], x[1]), 2)
            ELSE Sub(Over(Sub(x[2], x[1]), 2), Sub(Add(x[1], x[2]), Scale(2, x[3])))
      dp == IF e.type = "EDGE2" THEN Over(Sub(x[2], x[1]), 2)
            ELSE Add(Over(Sub(x[2], x[1]), 2), Sub(Add(x[1], x[2]), Scale(2, x[3])))
      bump == PolyMul(<<Neg(One), Zero, One>>, <<Neg(One), Zero, One>>)
  IN CASE i = 0 -> HermiteCubic(One, Zero, Zero, Zero)
       [] i = 1 -> HermiteCubic(Zero, Zero, dm, Zero)
       [] i = 2 -> HermiteCubic(Zero, One, Zero, Zero)
       [] i = 3 -> HermiteCubic(Zero, Zero, Zero, dp)
       [] OTHER -> PolyMul(Monomial(i - 4, R(1, Fact(i))), bump)

\* The cubic with values v0, v1 and xi-slopes s0, s1 at xi = 0, 1.
CloughCubic(v0, v1, s0, s1) ==
  <<v0, s0, Sub(Sub(Scale(3, Sub(v1, v0)), Scale(2, s0)), s1),
   Add(Scale(2, Sub(v0, v1)), Add(s0, s1))>>

RefClough(i) == IF i = 0 THEN CloughCubic(One, Zero, Zero, Zero) ELSE CloughCubic(Zero, One, Zero, Zero)

Reference(c) ==
  Eval(DiffN(CASE c.family = "HIERARCHIC" -> RefHierarchic(c.i)
               [] c.family = "HERMITE" -> RefHermite(c.elem, c.i)
               [] c.family = "CLOUGH" -> RefClough(c.i),
             c.fn), c.xi)

\* Every HIERARCHIC shape function and first derivative of a valid order
\* is the hierarchic polynomial (resp. its derivative): the explicit cases
\* 0-7 and the default loop for higher orders agree with (xi^p - 1)/p! and
\* (xi^p - xi)/p!.
HierarchicIsReference ==
  (call.family = "HIERARCHIC" /\ call.fn \in {0, 1} /\ result.ok)
    => result.val = Reference(call)

\* Every HERMITE shape function and its first and second derivatives on
\* an edge are the polynomial of the degree of freedom it stands for:
\* value 1 or physical slope 1 at one vertex and 0 for the other three,
\* which needs hermite_compute_coefs to scale each slope function by
\* dx/dxi at its own vertex; the bubbles are xi^(p-4)(xi^2-1)^2/p!.
HermiteIsReference ==
  call.family = "HERMITE" => result.val = Reference(call)

\* Every HIERARCHIC shape_second_deriv of a valid order is the second
\* derivative of the shape function, xi^(p-2)/(p-2)! for p >= 2.
HierarchicSecondDerivIsReference ==
  (call.family = "HIERARCHIC" /\ call.fn = 2 /\ result.ok)
    => result.val = Reference(call)

\* The CLOUGH value functions 0 and 1, and their derivatives, are the C1
\* cubics with value 1 at one end of [0, 1] and value 0 and slope 0 at
\* the other three degrees of freedom.
CloughValueShapesAreReference ==
  (call.family = "CLOUGH" /\ result.ok /\ call.i \in {0, 1}) => result.val = Reference(call)

\* The CLOUGH slope functions 2 and 3 carry the C1 degrees of freedom:
\* on an edge of positive length each has a nonzero slope at its own
\* vertex, which needs clough_compute_coefs to give dx/dxi there.
CloughSlopeShapesNonzero ==
  (call.family = "CLOUGH" /\ result.ok /\ call.fn = 1
     /\ \/ call.i = 2 /\ call.xi = Zero
        \/ call.i = 3 /\ call.xi = One)
    => result.val # Zero

==============================================================================

----------------------------- MODULE DoubleArith -----------------------------
(***************************************************************************)
(* The C++ `Real` (IEEE double) arithmetic the adaptive time solvers do,   *)
(* on the values they reach: finite values are exact rationals (the        *)
(* solvers only halve, double, multiply and divide small numbers, so no    *)
(* rounding happens in the modelled cases), plus +Inf and NaN, which a     *)
(* division by zero produces.  Comparisons with NaN are false, as in IEEE. *)
(* A value is a record [num, den]: den > 0 for n/d in lowest terms, den = 0 *)
(* for +Inf (num 1) and NaN (num 0).                                       *)
(***************************************************************************)
EXTENDS Integers

RECURSIVE GCD(_, _)
GCD(a, b) == IF b = 0 THEN a ELSE GCD(b, a % b)

Abs(n) == IF n < 0 THEN -n ELSE n

\* The finite value n / d (d > 0), in lowest terms.
R(n, d) ==
  LET g == GCD(Abs(n), d) IN [num |-> n \div g, den |-> d \div g]

Whole(n) == R(n, 1)

Zero == Whole(0)

Inf == [num |-> 1, den |-> 0]

NaN == [num |-> 0, den |-> 0]

IsFinite(x) == x.den # 0

Neg(x) == IF IsFinite(x) THEN [num |-> -x.num, den |-> x.den] ELSE x

\* Over the common denominator lcm(x.den, y.den), to keep the integers small.
Add(x, y) ==
  IF IsFinite(x) /\ IsFinite(y)
  THEN LET l == (x.den \div GCD(x.den, y.den)) * y.den
       IN R(x.num * (l \div x.den) + y.num * (l \div y.den), l)
  ELSE IF x = NaN \/ y = NaN THEN NaN ELSE Inf

\* x * y for x, y >= 0 or finite.
Mul(x, y) ==
  CASE IsFinite(x) /\ IsFinite(y)     ->
         R(x.num * y.num, x.den * y.den)
    [] x = NaN \/ y = NaN             -> NaN
    [] x = Zero \/ y = Zero           -> NaN
    [] OTHER                          -> Inf

\* x / y for x >= 0 (the only divisions the solvers do with a zero divisor).
Div(x, y) ==
  CASE IsFinite(x) /\ IsFinite(y) /\ y.num # 0 ->
         R(x.num * y.den * (IF y.num < 0 THEN -1 ELSE 1), x.den * Abs(y.num))
    [] IsFinite(x) /\ IsFinite(y)     -> IF x.num = 0 THEN NaN ELSE Inf
    [] x = NaN \/ y = NaN             -> NaN
    [] ~IsFinite(x) /\ ~IsFinite(y)   -> NaN
    [] ~IsFinite(x)                   -> Inf
    [] OTHER                          -> Zero

\* x < y, false when either is NaN.
Lt(x, y) ==
  CASE IsFinite(x) /\ IsFinite(y) -> x.num * y.den < y.num * x.den
    [] x = NaN \/ y = NaN         -> FALSE
    [] OTHER                      -> x # Inf /\ y = Inf

\* `if (x)` on a Real: nonzero (NaN is nonzero).
NonZero(x) == x # Zero

Sub(x, y) == Add(x, Neg(y))

One == Whole(1)

Half(x) == Mul(x, R(1, 2))

Twice(x) == Mul(x, Whole(2))

==============================================================================

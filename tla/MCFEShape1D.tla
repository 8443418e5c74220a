---------------------------- MODULE MCFEShape1D ----------------------------
(***************************************************************************)
(* Orders up to 9 (the hierarchic default branches start at 8, the Hermite *)
(* ones at 6), dyadic reference points, and two edges: an EDGE2 and an     *)
(* EDGE3 whose midpoint node is off centre, so that dx/dxi differs at the  *)
(* two vertices.                                                           *)
(***************************************************************************)
EXTENDS FEShape1D

MCMaxOrder == 9

MCPoints == {Whole(-1), Zero, R(1, 2), Whole(1)}

MCElems ==
  { [type |-> "EDGE2", x |-> <<Zero, Whole(1)>>],
    [type |-> "EDGE3", x |-> <<Zero, Whole(2), R(3, 4)>>] }

==============================================================================

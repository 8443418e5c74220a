------------------------------- MODULE Mesh1D --------------------------------
(***************************************************************************)
(* The part of libMesh's Elem interface that MetisPartitioner reads,       *)
(* for a one-dimensional mesh of EDGE elements (dim 1, two sides) with     *)
(* NODEELEM boundary elements (dim 0, no sides) that may carry an          *)
(* interior parent.  Elem itself is not in this repository's sources, so   *)
(* these operators follow libMesh's documented semantics (spec §3, §6).    *)
(*                                                                         *)
(* A mesh universe U maps an element key (a pointer, in the code) to a     *)
(* record:                                                                 *)
(*   id       elem->id(); unique within one mesh, may repeat across meshes *)
(*   tag      which Mesh object the element lives in                       *)
(*   dim      elem->dim()                                                  *)
(*   lo, hi   end points of an EDGE (lo = hi for a NODEELEM)               *)
(*   level    refinement level; parent: the element refined into it       *)
(*   iparent  elem->interior_parent(), or NoElem                           *)
(*   nnodes   elem->n_nodes(); rational: NODEELEM with                     *)
(*            RATIONAL_BERNSTEIN_MAP (a spline node)                       *)
(* Coordinates are integers on the finest grid, so the geometry of a       *)
(* refinement tree is exact.                                               *)
(***************************************************************************)
EXTENDS Naturals, FiniteSets

CONSTANT NoElem      \* nullptr

\* elem->n_sides(): an EDGE has a left (0) and a right (1) side.
Sides(U, e) == IF U[e].dim = 1 THEN {0, 1} ELSE {}

Children(U, e) == {c \in DOMAIN U : U[c].parent = e}

\* elem->active(): a leaf of the refinement forest.
IsActive(U, e) == Children(U, e) = {}

\* elem->active_family_tree(): e itself if active, else all its active
\* descendants.
RECURSIVE ActiveFamilyTree(_, _)
ActiveFamilyTree(U, e) ==
  IF IsActive(U, e) THEN {e}
  ELSE UNION {ActiveFamilyTree(U, c) : c \in Children(U, e)}

\* The EDGEs of e's mesh, no finer than e, that lie across side s of e.
Across(U, e, s) ==
  {n \in DOMAIN U :
     /\ U[n].tag = U[e].tag
     /\ U[n].dim = 1
     /\ U[n].level <= U[e].level
     /\ IF s = 0 THEN U[n].hi = U[e].lo ELSE U[n].lo = U[e].hi}

\* elem->neighbor_ptr(s): the element across side s at e's own level if
\* there is one (it may be refined), otherwise the coarser active element
\* there, otherwise nullptr (a boundary side).
NeighborPtr(U, e, s) ==
  IF Across(U, e, s) = {} THEN NoElem
  ELSE CHOOSE n \in Across(U, e, s) :
         \A m \in Across(U, e, s) : U[m].level <= U[n].level

RECURSIVE AncestorAtLevel(_, _, _)
AncestorAtLevel(U, e, l) ==
  IF U[e].level <= l THEN e ELSE AncestorAtLevel(U, U[e].parent, l)

\* n->which_neighbor_am_i(e): the side of n whose neighbor is e, or e's
\* ancestor at n's level; n_sides() (invalid) when there is none.
WhichNeighborAmI(U, n, e) ==
  LET ep == AncestorAtLevel(U, e, U[n].level)
      S  == {s \in Sides(U, n) : NeighborPtr(U, n, s) = ep}
  IN  IF S = {} THEN 2 ELSE CHOOSE s \in S : TRUE

\* elem->find_interior_neighbors(): the active elements of the interior
\* parent's mesh that contain this lower-dimensional element.
FindInteriorNeighbors(U, b) ==
  {l \in DOMAIN U :
     /\ U[l].tag = U[U[b].iparent].tag
     /\ U[l].dim = 1
     /\ IsActive(U, l)
     /\ U[l].lo <= U[b].lo /\ U[b].hi <= U[l].hi}

\* mesh.query_elem_ptr(id): the element of mesh `tag` with that id, or
\* nullptr.
QueryElemPtr(U, tag, id) ==
  IF \E k \in DOMAIN U : U[k].tag = tag /\ U[k].id = id
  THEN CHOOSE k \in DOMAIN U : U[k].tag = tag /\ U[k].id = id
  ELSE NoElem

\* Twice the centroid: the spatial position the Hilbert key is taken of.
Centroid2(U, e) == U[e].lo + U[e].hi

==============================================================================

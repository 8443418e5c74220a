-------------------------- MODULE MCMetisPartitioner --------------------------
(***************************************************************************)
(* Meshes and calls of partition_range for model checking.  Element keys  *)
(* are small numbers (the Elem pointers); two processors.                 *)
(***************************************************************************)
EXTENDS MetisPartitioner

MCProcs == {0, 1}

\* An EDGE2 [a, b] at refinement level l, child of par, in mesh t.
Ln(i, t, a, b, l, par) ==
  [id |-> i, tag |-> t, dim |-> 1, lo |-> a, hi |-> b, level |-> l,
   parent |-> par, iparent |-> NoElem, nnodes |-> 2, rational |-> FALSE]

\* A NODEELEM at x in mesh t with interior parent ip; rat: a spline node.
Nd(i, t, x, ip, rat) ==
  [id |-> i, tag |-> t, dim |-> 0, lo |-> x, hi |-> x, level |-> 0,
   parent |-> NoElem, iparent |-> ip, nnodes |-> 1, rational |-> rat]

(***************************************************************************)
(* AMR mesh: [0,4] and [4,8]; [4,8] refined into [4,6], [6,8]; [4,6]       *)
(* refined again into [4,5], [5,6] (not level-one regular); a NODEELEM at  *)
(* 4 whose interior parent is [0,4].  Active: 0, 3, 4, 5, 6.               *)
(***************************************************************************)
MeshAMR ==
  0 :> Ln(0, 1, 0, 4, 0, NoElem) @@ 1 :> Ln(1, 1, 4, 8, 0, NoElem)
  @@ 2 :> Ln(2, 1, 4, 6, 1, 1) @@ 3 :> Ln(3, 1, 6, 8, 1, 1)
  @@ 4 :> Ln(4, 1, 4, 5, 2, 2) @@ 5 :> Ln(5, 1, 5, 6, 2, 2)
  @@ 6 :> Nd(6, 1, 4, 0, FALSE)

\* Two EDGEs and two coincident NODEELEMs at 4 (overlapping elements: the
\* same Hilbert key without unique_id); node 3 is a spline node.
MeshOverlap ==
  0 :> Ln(0, 1, 0, 4, 0, NoElem) @@ 1 :> Ln(1, 1, 4, 8, 0, NoElem)
  @@ 2 :> Nd(2, 1, 4, 0, FALSE) @@ 3 :> Nd(3, 1, 4, 1, TRUE)

\* Two EDGEs.
MeshPair ==
  0 :> Ln(0, 1, 0, 4, 0, NoElem) @@ 1 :> Ln(1, 1, 4, 8, 0, NoElem)

\* A BoundaryMesh (tag 2) of the two end points of a mesh of two EDGEs
\* (tag 1): ids restart at 0, interior parents live in the other mesh.
MeshBoundary ==
  10 :> Nd(0, 2, 0, 20, FALSE) @@ 11 :> Nd(1, 2, 8, 21, FALSE)
  @@ 20 :> Ln(0, 1, 0, 4, 0, NoElem) @@ 21 :> Ln(1, 1, 4, 8, 0, NoElem)

\* A call on a replicated mesh: every processor iterates the same range.
Serial(U, t, r, k, uid, w) ==
  [U |-> U, tag |-> t, range |-> r, npieces |-> k, uniqueId |-> uid,
   weights |-> w, serial |-> TRUE,
   local |-> [p \in MCProcs |-> {r[i] : i \in DOMAIN r}]]

\* A call on a distributed mesh: loc[p] is what p stores before gathering.
Distributed(U, t, r, k, loc) ==
  [U |-> U, tag |-> t, range |-> r, npieces |-> k, uniqueId |-> TRUE,
   weights |-> NoWeights, serial |-> FALSE, local |-> loc]

ScenariosCore ==
  { Serial(MeshAMR, 1, <<0, 3, 4, 5, 6>>, 2, TRUE, NoWeights),
    Serial(MeshAMR, 1, <<0, 4, 6>>, 2, FALSE, NoWeights),
    Serial(MeshAMR, 1, <<0, 3, 5>>, 2, FALSE, NoWeights),
    Serial(MeshAMR, 1, <<0, 3>>, 3, TRUE, NoWeights),
    Serial(MeshAMR, 1, <<0, 3, 4, 5, 6>>, 1, TRUE, NoWeights),
    Serial(MeshAMR, 1, <<>>, 2, TRUE, NoWeights),
    Serial(MeshOverlap, 1, <<0, 1, 2, 3>>, 2, FALSE, NoWeights),
    Serial(MeshOverlap, 1, <<0, 1, 2, 3>>, 2, TRUE, 0 :> 3 @@ 1 :> 1 @@ 2 :> 2 @@ 3 :> 1),
    Distributed(MeshPair, 1, <<0, 1>>, 2, 0 :> {0} @@ 1 :> {1}),
    Distributed(MeshPair, 1, <<0, 1>>, 1, 0 :> {0} @@ 1 :> {0, 1}) }

\* n_pieces > 8 selects METIS_PartGraphKway.
ScenariosKway == { Serial(MeshPair, 1, <<0, 1>>, 9, TRUE, NoWeights) }


\* A range that holds a boundary element but not one of its interior
\* neighbors in the same mesh (e.g. one subdomain of a SubdomainPartitioner).
ScenarioSplit == Serial(MeshAMR, 1, <<0, 3, 5, 6>>, 2, TRUE, NoWeights)

ScenariosPartition == ScenariosCore \cup ScenariosKway \cup {ScenarioSplit}

ScenariosBoundaryMesh == { Serial(MeshBoundary, 2, <<10, 11>>, 2, TRUE, NoWeights) }

==============================================================================

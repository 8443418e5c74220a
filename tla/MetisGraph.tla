------------------------------ MODULE MetisGraph ------------------------------
(***************************************************************************)
(* The sequential computations inside MetisPartitioner::partition_range    *)
(* (src/src/partitioning/metis_partitioner.C), as operators of a           *)
(* partitioning scenario sc:                                               *)
(*   sc.U        the element universe (see Mesh1D)                         *)
(*   sc.tag      the Mesh being partitioned                                *)
(*   sc.range    the elements [beg, end) in iteration order                *)
(*   sc.npieces  n_pieces                                                  *)
(*   sc.uniqueId LIBMESH_ENABLE_UNIQUE_ID                                  *)
(*   sc.weights  the optional _weights vector (by elem id), or NoWeights   *)
(* The global index map, the interior-to-boundary multimap and the CSR     *)
(* graph built by the two passes on processor 0.                           *)
(***************************************************************************)
EXTENDS Mesh1D, Integers, SequencesExt

CONSTANT NoWeights

LIBMESH_DIM == 3

RangeSet(sc) == {sc.range[i] : i \in DOMAIN sc.range}

NRangeElem(sc) == Len(sc.range)

ElemId(sc, e) == sc.U[e].id

(***************************************************************************)
(* MeshCommunication::find_global_indices (not in this repository): each   *)
(* element's index is the rank of its Hilbert key among the distinct keys  *)
(* of the range.  The key is the centroid's position on the curve (in 1D   *)
(* the curve order is the coordinate order), extended by unique_id() when  *)
(* that is enabled; without it, coincident elements share an index.        *)
(***************************************************************************)
HilbertKey(sc, e) ==
  IF sc.uniqueId THEN Centroid2(sc.U, e) * 1000 + e ELSE Centroid2(sc.U, e)

FindGlobalIndices(sc) ==
  LET keys == {HilbertKey(sc, e) : e \in RangeSet(sc)}
  IN  [i \in 1..NRangeElem(sc) |->
         Cardinality({k \in keys : k < HilbertKey(sc, sc.range[i])})]

\* First, check for duplicates in O(N) time.
FoundDuplicateIndices(gi) ==
  \E i, j \in DOMAIN gi : i < j /\ gi[i] = gi[j]

\* Iterating the buckets of sorted_inverses in key order, each bucket's
\* elem ids in the order they were pushed (the range's iteration order).
SortedRenumbering(gi, i) ==
  Cardinality({j \in DOMAIN gi : gi[j] < gi[i]})
    + Cardinality({j \in 1..(i - 1) : gi[j] = gi[i]})

\* Mutant: the Hilbert indices used as they are, duplicates unfixed.
GlobalIndexMapNoDuplicateFix(sc) ==
  LET gi  == FindGlobalIndices(sc)
      pos(x) == CHOOSE i \in DOMAIN sc.range : ElemId(sc, sc.range[i]) = x
  IN  [x \in {ElemId(sc, e) : e \in RangeSet(sc)} |-> gi[pos(x)]]

\* global_index_map: elem id -> contiguous index.
GlobalIndexMap(sc) ==
  LET gi  == FindGlobalIndices(sc)
      pos(x) == CHOOSE i \in DOMAIN sc.range : ElemId(sc, sc.range[i]) = x
  IN  [x \in {ElemId(sc, e) : e \in RangeSet(sc)} |->
         IF ~sc.uniqueId /\ FoundDuplicateIndices(gi)
         THEN SortedRenumbering(gi, pos(x))
         ELSE gi[pos(x)]]

\* elem->dim() < LIBMESH_DIM && elem->interior_parent()
HasInteriorParent(sc, e) ==
  sc.U[e].dim < LIBMESH_DIM /\ sc.U[e].iparent # NoElem

\* interior_to_boundary_map, as a set of <<interior, boundary>> pairs.
InteriorToBoundary(sc) ==
  UNION {{<<n, b>> : n \in FindInteriorNeighbors(sc.U, b)} :
           b \in {x \in RangeSet(sc) : HasInteriorParent(sc, x)}}

\* The weight defining a balanced graph.
VertexWeight(sc, e) ==
  IF sc.weights = NoWeights
  THEN IF sc.U[e].dim = 0 /\ sc.U[e].rational THEN 50 ELSE sc.U[e].nnodes
  ELSE sc.weights[ElemId(sc, e)]

SideNeighbors(sc, gim, e, s) ==
  LET U == sc.U
      n == NeighborPtr(U, e, s)
  IN  IF n = NoElem THEN {}
      ELSE IF IsActive(U, n)
      THEN IF U[n].id \in DOMAIN gim THEN {n} ELSE {}
      ELSE LET ns == WhichNeighborAmI(U, n, e)
           IN  {c \in ActiveFamilyTree(U, n) :
                  /\ U[c].id \in DOMAIN gim
                  /\ NeighborPtr(U, c, ns) = e}

\* (1) first pass: the row size counted for e.
RowCount(sc, gim, i2b, e) ==
  MapThenSumSet(LAMBDA s : Cardinality(SideNeighbors(sc, gim, e, s)),
                Sides(sc.U, e))
  + (IF HasInteriorParent(sc, e)
     THEN Cardinality(FindInteriorNeighbors(sc.U, e)) ELSE 0)
  + Cardinality({pr \in i2b : pr[1] = e})

\* The interior neighbors pass 2 writes: only those that are elements of
\* this mesh (a BoundaryMesh's interior parents belong to another mesh).
InteriorNeighborsWritten(sc, e) ==
  IF HasInteriorParent(sc, e)
  THEN {nb \in FindInteriorNeighbors(sc.U, e) :
          QueryElemPtr(sc.U, sc.tag, sc.U[nb].id) = nb}
  ELSE {}

\* libmesh_map_find fails: an interior neighbor of this mesh is not in
\* the range.
Pass2Fails(sc, gim) ==
  \E e \in RangeSet(sc) :
    \E nb \in InteriorNeighborsWritten(sc, e) : sc.U[nb].id \notin DOMAIN gim

\* (2) second pass: the global indices written into e's row, in order.
RowFill(sc, gim, i2b, e) ==
  LET ix(S) == SetToSeq({gim[sc.U[x].id] : x \in S})
  IN  ix(UNION {SideNeighbors(sc, gim, e, s) : s \in Sides(sc.U, e)})
        \o ix(InteriorNeighborsWritten(sc, e))
        \o ix({pr[2] : pr \in {q \in i2b : q[1] = e}})

(***************************************************************************)
(* METIS_CSR_Graph (header not in this repository): prep_n_nonzeros(i, m)  *)
(* stores m at offsets[i+1]; prepare_for_use() takes the partial sums and  *)
(* sizes vals to offsets[n], with one dummy 0 if that is empty;            *)
(* operator()(i, c) is vals[offsets[i] + c].  Slots that pass 2 never      *)
(* writes keep their initial 0.                                            *)
(***************************************************************************)
CSRGraph(sc, gim, i2b) ==
  LET n       == NRangeElem(sc)
      elemOf  == [v \in 0..(n - 1) |->
                    CHOOSE e \in RangeSet(sc) : gim[ElemId(sc, e)] = v]
      width   == [v \in 0..(n - 1) |-> RowCount(sc, gim, i2b, elemOf[v])]
      offsets == [i \in 0..n |-> MapThenSumSet(LAMBDA v : width[v], 0..(i - 1))]
      nvals   == IF offsets[n] = 0 THEN 1 ELSE offsets[n]
      fill    == [v \in 0..(n - 1) |-> RowFill(sc, gim, i2b, elemOf[v])]
      writer(j) == {v \in 0..(n - 1) :
                      offsets[v] <= j /\ j < offsets[v] + Len(fill[v])}
  IN  [offsets |-> offsets,
       vals    |-> [j \in 0..(nvals - 1) |->
                      IF writer(j) = {} THEN 0
                      ELSE LET v == CHOOSE v \in writer(j) : TRUE
                           IN  fill[v][j - offsets[v] + 1]],
       vwgt    |-> [v \in 0..(n - 1) |-> VertexWeight(sc, elemOf[v])]]

==============================================================================

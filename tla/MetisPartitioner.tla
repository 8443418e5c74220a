--------------------------- MODULE MetisPartitioner ---------------------------
(***************************************************************************)
(* MetisPartitioner::partition_range (metis_partitioner.C:69-546) run by   *)
(* every processor of the communicator, each on its own copy of the mesh.  *)
(* Each processor is single-threaded and runs the call straight through;   *)
(* processors interact only in three collectives: mesh.allgather(), the    *)
(* parallel sort inside find_global_indices, and comm().broadcast(part).   *)
(* METIS runs on processor 0 only.                                         *)
(*                                                                         *)
(* A scenario sc (see MetisGraph) also gives, for each processor p,        *)
(* sc.local[p]: the elements of [beg, end) stored on p before any gather   *)
(* (the whole range on every processor when sc.serial).                    *)
(***************************************************************************)
EXTENDS MetisGraph, TLC

CONSTANTS
  Procs,       \* processor ids
  Root,        \* processor 0
  InvalidPid,  \* DofObject::invalid_processor_id
  NoGraph,     \* no CSR graph built yet
  Scenarios    \* the inputs of the call

ASSUME Root \in Procs

VARIABLES
  sc,          \* the input of this call
  pc,          \* pc[p]: where processor p is in partition_range
  gim,         \* gim[p]: p's global_index_map, elem id -> vertex
  i2b,         \* i2b[p]: p's interior_to_boundary_map
  metisCall,   \* which METIS entry point processor 0 used
  part,        \* part[p]: p's partition vector, vertex -> piece
  owner        \* owner[p][e]: elem e's processor_id() in p's copy

vars == <<sc, pc, gim, i2b, metisCall, part, owner>>

\* Position in the call; "returned" is an early return, "aborted" a fatal
\* error (libmesh_error aborts every processor).
Stage == [start |-> 0, gather |-> 1, index |-> 2, graph |-> 3, bcast |-> 4,
          apply |-> 5, done |-> 6, returned |-> -1, aborted |-> -1]

Reached(q, s) == Stage[pc[q]] >= Stage[s]

MeshElems(s) == {k \in DOMAIN s.U : s.U[k].tag = s.tag}

Goto(p, s) == pc' = [pc EXCEPT ![p] = s]

Init ==
  /\ sc \in Scenarios
  /\ pc = [p \in Procs |-> "start"]
  /\ gim = [p \in Procs |-> <<>>]
  /\ i2b = [p \in Procs |-> {}]
  /\ metisCall = "none"
  /\ part = [p \in Procs |-> <<>>]
  /\ owner = [p \in Procs |-> [e \in MeshElems(sc) |-> InvalidPid]]

(***************************************************************************)
(* Easy returns (lines 74-82).                                             *)
(***************************************************************************)
EmptyRange(p) ==
  /\ pc[p] = "start"
  /\ sc.local[p] = {}
  /\ Goto(p, "returned")
  /\ UNCHANGED <<sc, gim, i2b, metisCall, part, owner>>

\* single_partition_range: processor id 0 for every element of the range.
SinglePartitionRange(p) ==
  /\ pc[p] = "start"
  /\ sc.local[p] # {}
  /\ sc.npieces = 1
  /\ owner' = [owner EXCEPT ![p] =
                 [e \in DOMAIN @ |-> IF e \in sc.local[p] THEN 0 ELSE @[e]]]
  /\ Goto(p, "returned")
  /\ UNCHANGED <<sc, gim, i2b, metisCall, part>>

\* A distributed mesh is gathered first (lines 86-91).
CheckSerial(p) ==
  /\ pc[p] = "start"
  /\ sc.local[p] # {}
  /\ sc.npieces # 1
  /\ Goto(p, IF sc.serial THEN "index" ELSE "gather")
  /\ UNCHANGED <<sc, gim, i2b, metisCall, part, owner>>

\* mesh.allgather(): collective; completes once every processor called it.
AllGather ==
  /\ \A q \in Procs : pc[q] = "gather"
  /\ pc' = [q \in Procs |-> "index"]
  /\ UNCHANGED <<sc, gim, i2b, metisCall, part, owner>>

(***************************************************************************)
(* Lines 109-214: the global index map (find_global_indices is collective: *)
(* p leaves it once every processor has entered it), the interior to      *)
(* boundary multimap, and part, sized n_range_elem and zero-filled.        *)
(***************************************************************************)
BuildIndices(p) ==
  /\ pc[p] = "index"
  /\ \A q \in Procs : Reached(q, "index")
  /\ gim' = [gim EXCEPT ![p] = GlobalIndexMap(sc)]
  /\ i2b' = [i2b EXCEPT ![p] = InteriorToBoundary(sc)]
  /\ part' = [part EXCEPT ![p] = [v \in 0..(NRangeElem(sc) - 1) |-> 0]]
  /\ Goto(p, IF p = Root THEN "graph" ELSE "bcast")
  /\ UNCHANGED <<sc, metisCall, owner>>

(***************************************************************************)
(* Lines 218-524, processor 0 only: build the CSR graph in two passes and  *)
(* call METIS, which returns some piece in [0, nparts) for every vertex.   *)
(* METIS_PartGraphRecursive for n_pieces <= 8, else METIS_PartGraphKway.   *)
(***************************************************************************)
\* Mutant: nparts off by one.
MetisPartGraphOffByOne(entry) ==
  /\ \E f \in [0..(NRangeElem(sc) - 1) -> 0..sc.npieces] :
       part' = [part EXCEPT ![Root] = f]
  /\ metisCall' = entry
  /\ Goto(Root, "bcast")
  /\ UNCHANGED <<sc, gim, i2b, owner>>

MetisPartGraph(entry) ==
  /\ \E f \in [0..(NRangeElem(sc) - 1) -> 0..(sc.npieces - 1)] :
       part' = [part EXCEPT ![Root] = f]
  /\ metisCall' = entry
  /\ Goto(Root, "bcast")
  /\ UNCHANGED <<sc, gim, i2b, owner>>

PartGraphRecursive ==
  /\ pc[Root] = "graph"
  /\ ~Pass2Fails(sc, gim[Root])
  /\ sc.npieces <= 8
  /\ MetisPartGraph("recursive")

PartGraphKway ==
  /\ pc[Root] = "graph"
  /\ ~Pass2Fails(sc, gim[Root])
  /\ sc.npieces > 8
  /\ MetisPartGraph("kway")

\* Pass 2's libmesh_map_find on an interior neighbor outside the range.
GraphBuildFails ==
  /\ pc[Root] = "graph"
  /\ Pass2Fails(sc, gim[Root])
  /\ pc' = [q \in Procs |-> "aborted"]
  /\ UNCHANGED <<sc, gim, i2b, metisCall, part, owner>>

\* The CSR graph processor 0 built and handed to METIS: a transient of
\* the call, determined by the index map and the interior-to-boundary map.
Graph ==
  IF metisCall = "none" THEN NoGraph ELSE CSRGraph(sc, gim[Root], i2b[Root])

\* Mutant: only processor 0 takes part in the broadcast.
BroadcastRootOnly(p) ==
  /\ pc[p] = "bcast"
  /\ Reached(Root, "bcast")
  /\ UNCHANGED part
  /\ Goto(p, "apply")
  /\ UNCHANGED <<sc, gim, i2b, metisCall, owner>>

\* mesh.comm().broadcast(part) (line 527): the root's send completes at
\* once; every other processor receives once the root has sent.
Broadcast(p) ==
  /\ pc[p] = "bcast"
  /\ Reached(Root, "bcast")
  /\ part' = [part EXCEPT ![p] = part[Root]]
  /\ Goto(p, "apply")
  /\ UNCHANGED <<sc, gim, i2b, metisCall, owner>>

\* Lines 532-544: elem->processor_id() = part[global_index_map[elem->id()]].
AssignProcIds(p) ==
  /\ pc[p] = "apply"
  /\ owner' = [owner EXCEPT ![p] =
                 [e \in DOMAIN @ |->
                    IF e \in RangeSet(sc)
                    THEN part[p][gim[p][sc.U[e].id]] ELSE @[e]]]
  /\ Goto(p, "done")
  /\ UNCHANGED <<sc, gim, i2b, metisCall, part>>

\* A processor inside a collective that cannot complete yet polls MPI's
\* progress engine: it is running, but its state does not change.
WaitInCollective(p) ==
  /\ pc[p] \in {"gather", "index", "bcast"}
  /\ UNCHANGED vars

Finished == \A q \in Procs : pc[q] \in {"done", "returned", "aborted"}

\* Every processor has returned (or the program aborted): stutter.
Terminated == Finished /\ UNCHANGED vars

Proc(p) ==
  \/ EmptyRange(p) \/ SinglePartitionRange(p) \/ CheckSerial(p)
  \/ BuildIndices(p) \/ Broadcast(p) \/ AssignProcIds(p)
  \/ WaitInCollective(p)

Next ==
  \/ \E p \in Procs : Proc(p)
  \/ AllGather
  \/ PartGraphRecursive \/ PartGraphKway \/ GraphBuildFails
  \/ Terminated

Spec == Init /\ [][Next]_vars

-----------------------------------------------------------------------------

TypeOK ==
  /\ pc \in [Procs -> DOMAIN Stage]
  /\ metisCall \in {"none", "recursive", "kway"}
  /\ \A p \in Procs :
       /\ DOMAIN gim[p] \subseteq {ElemId(sc, e) : e \in RangeSet(sc)}
       /\ \A x \in DOMAIN gim[p] : gim[p][x] \in Nat
       /\ \A v \in DOMAIN part[p] : part[p][v] \in 0..(sc.npieces - 1)
       /\ owner[p] \in [MeshElems(sc) -> 0..(sc.npieces - 1) \cup {InvalidPid}]

(***************************************************************************)
(* Global index map (lines 117-187): on every processor that built it, the *)
(* map is a bijection from the range's elem ids onto 0..n_range_elem-1,    *)
(* which the graph rows, vwgt and part are indexed by.  Without unique_id  *)
(* coincident elements share a Hilbert index, and only the duplicate fix   *)
(* keeps two elements from being written to one vertex.                    *)
(***************************************************************************)
GlobalIndexBijective ==
  \A p \in Procs :
    DOMAIN gim[p] # {} =>
      /\ Cardinality(DOMAIN gim[p]) = NRangeElem(sc)
      /\ {gim[p][x] : x \in DOMAIN gim[p]} = 0..(NRangeElem(sc) - 1)

(***************************************************************************)
(* The reference adjacency of the range: two EDGEs that share an end       *)
(* point, or a boundary element and an active EDGE of its interior         *)
(* parent's mesh that contains it.                                         *)
(***************************************************************************)
Couples(bd, in) ==
  /\ HasInteriorParent(sc, bd)
  /\ sc.U[in].dim = 1
  /\ sc.U[in].tag = sc.U[sc.U[bd].iparent].tag
  /\ sc.U[in].lo <= sc.U[bd].lo /\ sc.U[bd].hi <= sc.U[in].hi

Adjacent(a, b) ==
  /\ a # b
  /\ \/ /\ sc.U[a].dim = 1 /\ sc.U[b].dim = 1
        /\ (sc.U[a].hi = sc.U[b].lo \/ sc.U[b].hi = sc.U[a].lo)
     \/ Couples(a, b)
     \/ Couples(b, a)

(***************************************************************************)
(* The CSR graph handed to METIS (lines 235-486) is exactly the adjacency  *)
(* of the range: each element's row holds the vertices of the elements it  *)
(* touches, each once, and no slot is left unwritten.  This is what the    *)
(* two passes must agree on, across refined neighbors (the active family   *)
(* tree filtered by side), neighbors outside the range, and the two        *)
(* directions of interior/boundary coupling.  It implies the symmetry that *)
(* METIS requires.                                                         *)
(***************************************************************************)
GraphMatchesMesh ==
  LET graph == Graph IN
  graph # NoGraph =>
    \A e \in RangeSet(sc) :
      LET g   == gim[Root]
          v   == g[sc.U[e].id]
          row == graph.offsets[v]..(graph.offsets[v + 1] - 1)
          adj == {g[sc.U[f].id] : f \in {f \in RangeSet(sc) : Adjacent(e, f)}}
      IN  /\ {graph.vals[j] : j \in row} = adj
          /\ Cardinality(row) = Cardinality(adj)

(***************************************************************************)
(* Refinement: the processors together implement PartitionSpec.  The      *)
(* abstract owners are the processors' copies once every processor has     *)
(* returned; before that the call has not taken effect.  This checks that  *)
(* every processor maps the broadcast vector back through the same index   *)
(* map, so all copies agree, that n_pieces = 1 gives 0, and that elements  *)
(* outside the range are untouched.  A fatal error aborts the program, so  *)
(* the call never returns and the abstract call stays running.             *)
(***************************************************************************)
InitOwner == [p \in Procs |-> [e \in MeshElems(sc) |-> InvalidPid]]

Returned == \A q \in Procs : pc[q] \in {"done", "returned"}

PS == INSTANCE PartitionSpec WITH
        status <- IF Returned THEN "finished" ELSE "running",
        owner  <- IF Returned THEN owner ELSE InitOwner

PartitionContract == PS!Init /\ [][PS!Next]_PS!vars

==============================================================================

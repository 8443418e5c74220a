----------------------------- MODULE PartitionSpec -----------------------------
(***************************************************************************)
(* What a call partition_range(mesh, beg, end, n_pieces) promises (spec    *)
(* §4.4, §4.5, §8 properties 2 and 3), seen from every processor's copy of *)
(* the elements' processor_id():                                           *)
(*   - in one step, every element of the range gets a piece in             *)
(*     [0, n_pieces), the same piece on every processor;                   *)
(*   - with n_pieces = 1 every element a processor sees gets piece 0 and   *)
(*     no graph is involved;                                               *)
(*   - elements outside the range keep their processor id;                 *)
(*   - the call eventually returns on every processor.                     *)
(***************************************************************************)
EXTENDS Naturals

CONSTANTS
  Procs,       \* the processors of the communicator
  InvalidPid,  \* DofObject::invalid_processor_id
  Scenarios    \* the (mesh, range, n_pieces) inputs of the call

VARIABLES
  sc,          \* the input of this call
  status,      \* "running" until the call has returned everywhere
  owner        \* owner[p][e]: elem e's processor_id() in p's copy

vars == <<sc, status, owner>>

MeshElems(s) == {k \in DOMAIN s.U : s.U[k].tag = s.tag}

PartRange(s) == {s.range[i] : i \in DOMAIN s.range}

\* The elements processor p assigns: the whole range, or with one piece the
\* elements of the range p can see.
AssignedOn(p) == IF sc.npieces = 1 THEN sc.local[p] ELSE PartRange(sc)

Init ==
  /\ sc \in Scenarios
  /\ status = "running"
  /\ owner = [p \in Procs |-> [e \in MeshElems(sc) |-> InvalidPid]]

Partition ==
  /\ status = "running"
  /\ \E f \in [PartRange(sc) \cup UNION {sc.local[p] : p \in Procs}
                 -> 0..(sc.npieces - 1)] :
       owner' = [p \in Procs |->
                   [e \in MeshElems(sc) |->
                      IF e \in AssignedOn(p) THEN f[e] ELSE owner[p][e]]]
  /\ status' = "finished"
  /\ UNCHANGED sc

Next == Partition

Spec == Init /\ [][Next]_vars /\ WF_vars(Next)

==============================================================================

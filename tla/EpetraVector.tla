----------------------------- MODULE EpetraVector -----------------------------
(***************************************************************************)
(* libMesh::EpetraVector (src/src/numerics/trilinos_epetra_vector.C): a    *)
(* distributed vector whose entries 0..N-1 are owned by processors in      *)
(* contiguous blocks.  set/add/insert/add_vector on an entry a processor   *)
(* does not own go to that processor's nonlocal buffer (nonlocalIDs_ /     *)
(* nonlocalCoefs_, the code copied from Epetra_FEVector); close() sends    *)
(* the buffers to the owners (GlobalAssemble) with the combine mode of the *)
(* edits, Insert for set and Add for add.                                  *)
(*                                                                         *)
(* Local operations are steps of one processor.  Collective operations     *)
(* (close, the reductions, localize) are one step of all processors: the   *)
(* processors call them in the same order, and what each does in between   *)
(* touches only its own state, so any interleaving gives the same result.  *)
(*                                                                         *)
(* Two ghost variables describe the caller's view: intended, the global    *)
(* vector the calls made so far define, and synced, whether no edit was    *)
(* made since the last close().  A strict caller applies whole-vector      *)
(* operations and reads only to a synced vector; otherwise the caller      *)
(* relies on the closed() assertions of the code.                          *)
(***************************************************************************)
EXTENDS Integers, Sequences, SequencesExt, FiniteSets

CONSTANTS
  Procs,         \* processor ids 0..n-1
  N,             \* the global size
  First,         \* First[p]: first_local_index() of processor p
  W,             \* a second, closed vector (entries 0..N-1), for add(a, v) etc.
  Vals,          \* values passed to set / add / insert
  Factors,       \* scale factors and the a of add(a, v)
  IdxSeqs,       \* dof_indices arguments of add_vector / insert
  FullVecs,      \* std::vector arguments of operator= (global or local size)
  Scenarios,     \* [ignore |-> ignoreNonLocalEntries_, strict |-> BOOLEAN]
  MaxEdits       \* a bound on the local operations of a behaviour

VARIABLES
  sc,            \* the scenario
  own,           \* entry -> value, held by its owner (_vec)
  nl,            \* p -> (entry -> value): p's nonlocal buffer
  lastEdit,      \* p -> 0 (none), 1 (replace) or 2 (accumulate)
  closed,        \* p -> _is_closed
  intended,      \* ghost: the global vector the calls define
  synced,        \* ghost: no edit since the last close()
  epochKind,     \* ghost: the edit kind since the last close (caller contract)
  setInEpoch,    \* ghost: entries set since the last close (caller contract)
  edits,         \* local operations so far
  result         \* the last read: [op, got, want]

vars == <<sc, own, nl, lastEdit, closed, intended, synced, epochKind, setInEpoch,
          edits, result>>

GIDs == 0..(N - 1)

\* _vec->Map().MyGID(i): the contiguous block [First[p], First[p+1]).
Owner(i) == CHOOSE p \in Procs : First[p] <= i /\ \A q \in Procs : First[q] <= i => First[q] <= First[p]

MyGID(p, i) == Owner(i) = p

Owned(p) == {i \in GIDs : MyGID(p, i)}

NoBuffer == [i \in {} |-> 0]

AbsVal(x) == IF x < 0 THEN -x ELSE x

-----------------------------------------------------------------------------
(* The Epetra_FEVector part (lines 587-921).                               *)

\* Mutant: an accumulated value replacing the buffered one.
inputNonlocalValue_Replace(buf, gid, value, accumulate) ==
  IF gid \in DOMAIN buf THEN [buf EXCEPT ![gid] = value]
  ELSE buf @@ (gid :> value)

\* Lines 729-769: the GID found by binary search has its coefficient
\* replaced or accumulated; a new GID is inserted at the insert point
\* (nonlocalIDs_ stays sorted, so the buffer is a function of the GID).
inputNonlocalValue(buf, gid, value, accumulate) ==
  IF gid \in DOMAIN buf
  THEN [buf EXCEPT ![gid] = IF accumulate THEN @ + value ELSE value]
  ELSE buf @@ (gid :> value)

\* Lines 649-683: inputValues over [own, buf] of processor p, one GID at a
\* time; an entry p does not own is buffered unless ignoreNonLocalEntries_.
InputOne(st, p, gid, value, accumulate) ==
  CASE MyGID(p, gid) ->
         [st EXCEPT !.own[gid] = IF accumulate THEN @ + value ELSE value]
    [] sc.ignore -> st
    [] OTHER -> [st EXCEPT !.buf = inputNonlocalValue(@, gid, value, accumulate)]

inputValues(p, gids, values, accumulate) ==
  FoldLeft(LAMBDA st, j : InputOne(st, p, gids[j], values[j], accumulate),
           [own |-> own, buf |-> nl[p]], [j \in 1..Len(gids) |-> j])

\* The kind inputValues records in last_edit (lines 655-661).
EditKind(accumulate) == IF accumulate THEN 2 ELSE 1

\* Lines 831-872 and 905-921: GlobalAssemble(mode) exports every buffer to
\* the owners, combining with Add or Insert; with one processor or when
\* non-local entries are ignored it returns at once, buffers kept.  With
\* Insert, which of several buffered values for an entry lands is the
\* order the export delivers them in.
GlobalAssembled(mode, from) ==
  [i \in GIDs |->
     LET senders == {p \in Procs : i \in DOMAIN nl[p]} IN
     IF senders = {} THEN own[i]
     ELSE IF mode = "Add"
          THEN own[i] + FoldSet(LAMBDA p, a : a + nl[p][i], 0, senders)
          ELSE nl[from[i]][i]]

-----------------------------------------------------------------------------

Init ==
  /\ sc \in Scenarios
  /\ own = [i \in GIDs |-> 0]
  /\ nl = [p \in Procs |-> NoBuffer]
  /\ lastEdit = [p \in Procs |-> 0]
  /\ closed = [p \in Procs |-> TRUE]
  /\ intended = [i \in GIDs |-> 0]
  /\ synced = TRUE
  /\ epochKind = 0
  /\ setInEpoch = {}
  /\ edits = 0
  /\ result = [op |-> "none", got |-> <<>>, want |-> <<>>]

\* The caller may take this whole-vector operation or read now.
MayUseWhole == sc.strict => synced

\* An entry edit of kind k by the caller: one kind between two closes (the
\* assertions at lines 655-661 and in close()), and entries set twice in
\* that time set to the same value.
EditAllowed(k) == epochKind \in {0, k}

\* What the edits do to the caller's global vector.
IntendedAfter(gids, values, accumulate) ==
  FoldLeft(LAMBDA g, j : [g EXCEPT ![gids[j]] = IF accumulate THEN @ + values[j] ELSE values[j]],
           intended, [j \in 1..Len(gids) |-> j])

\* Entries an edit by p loses because they are ignored non-local entries.
Dropped(p, gids) == {gids[j] : j \in {j \in DOMAIN gids : sc.ignore /\ ~MyGID(p, gids[j])}}

\* One entry edit by p through inputValues; unclose: whether the call sets
\* _is_closed = false.
Edit(p, gids, values, accumulate, unclose) ==
  LET st == inputValues(p, gids, values, accumulate)
      kept == SelectSeq([j \in 1..Len(gids) |-> j], LAMBDA j : gids[j] \notin Dropped(p, gids))
  IN /\ edits < MaxEdits
     /\ EditAllowed(EditKind(accumulate))
     /\ accumulate \/ \A j \in DOMAIN gids :
          gids[j] \in setInEpoch => intended[gids[j]] = values[j]
     /\ own' = st.own
     /\ nl' = [nl EXCEPT ![p] = st.buf]
     /\ lastEdit' = [lastEdit EXCEPT ![p] = EditKind(accumulate)]
     /\ closed' = IF unclose THEN [closed EXCEPT ![p] = FALSE] ELSE closed
     /\ intended' = IntendedAfter([k \in DOMAIN kept |-> gids[kept[k]]],
                                  [k \in DOMAIN kept |-> values[kept[k]]], accumulate)
     /\ synced' = FALSE
     /\ epochKind' = EditKind(accumulate)
     /\ setInEpoch' = IF accumulate THEN setInEpoch
                      ELSE setInEpoch \cup {gids[j] : j \in DOMAIN gids}
     /\ edits' = edits + 1
     /\ UNCHANGED <<sc, result>>

\* Lines 161-173 (through ReplaceGlobalValues, 619-624): set(i, value).
Set(p) == \E i \in GIDs, v \in Vals : Edit(p, <<i>>, <<v>>, FALSE, TRUE)

\* Lines 213-225 (through SumIntoGlobalValues, 588-593): add(i, value).
AddEntry(p) == \E i \in GIDs, v \in Vals : Edit(p, <<i>>, <<v>>, TRUE, TRUE)

\* Lines 229-239: add_vector(v, dof_indices); _is_closed is left alone.
AddVector(p) ==
  \E gids \in IdxSeqs, v \in Vals : Edit(p, gids, [j \in DOMAIN gids |-> v], TRUE, FALSE)

\* Lines 303-314: insert(v, dof_indices).
Insert(p) ==
  \E gids \in IdxSeqs, v \in Vals : Edit(p, gids, [j \in DOMAIN gids |-> v], FALSE, TRUE)

\* A whole-vector operation of p on its own entries: own and intended get
\* f(value, entry) on Owned(p); unclose as above.
Whole(p, f(_, _), unclose) ==
  /\ edits < MaxEdits
  /\ MayUseWhole
  /\ own' = [i \in GIDs |-> IF MyGID(p, i) THEN f(own[i], i) ELSE own[i]]
  /\ intended' = [i \in GIDs |-> IF MyGID(p, i) THEN f(intended[i], i) ELSE intended[i]]
  /\ closed' = IF unclose THEN [closed EXCEPT ![p] = FALSE] ELSE closed
  /\ synced' = (synced /\ ~unclose)
  /\ edits' = edits + 1
  /\ UNCHANGED <<sc, nl, lastEdit, epochKind, setInEpoch, result>>

\* Lines 270-281: add(v) to every local value.
AddScalar(p) == \E v \in Vals : Whole(p, LAMBDA x, i : x + v, TRUE)

\* Lines 284-299: add(a, v) and add(v) (operator+= and -=, lines 104-126,
\* are add(1, v) and add(-1, v)): _vec->Update(a, v, 1).
AddScaled(p) == \E a \in Factors : Whole(p, LAMBDA x, i : x + a * W[i], FALSE)

\* Lines 318-328 and 355-362: scale(factor), abs(), operator=(s).
Scale(p) == \E f \in Factors : Whole(p, LAMBDA x, i : f * x, FALSE)

Abs(p) == Whole(p, LAMBDA x, i : AbsVal(x), FALSE)

AssignScalar(p) == \E s \in Vals : Whole(p, LAMBDA x, i : s, FALSE)

\* Lines 129-141: operator*=(v), which asserts closed().
MulAssign(p) == closed[p] /\ Whole(p, LAMBDA x, i : x * W[i], FALSE)

\* Lines 344-352: pointwise_mult(v, v).
PointwiseMult(p) == Whole(p, LAMBDA x, i : W[i] * W[i], FALSE)

\* Lines 381-415: operator=(std::vector): a global-size vector gives the
\* local entries from first_local_index(), a local-size one from 0.
AssignVector(p) ==
  \E v \in FullVecs :
    /\ Len(v) \in {N, Cardinality(Owned(p))}
    /\ Whole(p, LAMBDA x, i : IF Len(v) = N THEN v[i + 1] ELSE v[i - First[p] + 1], FALSE)

-----------------------------------------------------------------------------
(* Collective operations.                                                  *)

\* close() (in the class header, outside this excerpt): the processors take
\* the maximum of last_edit, call GlobalAssemble with Insert for 1 and Add
\* for 2, and end closed with last_edit = 0.
Close ==
  LET gle == FoldSet(LAMBDA p, m : IF lastEdit[p] > m THEN lastEdit[p] ELSE m, 0, Procs)
      runs == gle # 0 /\ Cardinality(Procs) >= 2 /\ ~sc.ignore
      insert == runs /\ gle = 1
  IN \E from \in IF insert THEN [GIDs -> Procs] ELSE {[i \in GIDs |-> CHOOSE p \in Procs : TRUE]} :
       /\ insert => \A i \in GIDs : (\E p \in Procs : i \in DOMAIN nl[p]) => i \in DOMAIN nl[from[i]]
       /\ own' = IF runs THEN GlobalAssembled(IF insert THEN "Insert" ELSE "Add", from) ELSE own
       /\ nl' = IF runs THEN [p \in Procs |-> NoBuffer] ELSE nl
       /\ lastEdit' = [p \in Procs |-> 0]
       /\ closed' = [p \in Procs |-> TRUE]
       /\ synced' = TRUE
       /\ epochKind' = 0
       /\ setInEpoch' = {}
       /\ UNCHANGED <<sc, intended, edits, result>>

\* Mutant: the local part one entry short.
LocalPart_Short(v, p) == [k \in 1..(Cardinality(Owned(p)) - 1) |-> v[First[p] + k - 1]]

\* The loop "for i < local_size(): push_back((*_vec)[i])" (lines 546-547).
LocalPart(v, p) == [k \in 1..Cardinality(Owned(p)) |-> v[First[p] + k - 1]]

\* The processors' local parts concatenated in rank order (allgather).
Gathered(v) == FoldLeft(LAMBDA acc, p : acc \o LocalPart(v, p), <<>>,
                        [k \in 1..Cardinality(Procs) |-> k - 1])

SumOver(f(_)) == FoldSet(LAMBDA i, a : a + f(i), 0, GIDs)

MaxOver(f(_)) == FoldSet(LAMBDA i, a : IF f(i) > a THEN f(i) ELSE a, 0, GIDs)

\* A read by all processors: its value on own, and on intended.  The code
\* asserts closed() first where needsClosed.
Read(op, got, want, needsClosed) ==
  /\ MayUseWhole
  /\ needsClosed => \A p \in Procs : closed[p]
  /\ result' = [op |-> op, got |-> got, want |-> want]
  /\ UNCHANGED <<sc, own, nl, lastEdit, closed, intended, synced, epochKind, setInEpoch, edits>>

\* Lines 49-66: sum(), the local sums summed over the communicator.
Sum == Read("sum", <<SumOver(LAMBDA i : own[i])>>, <<SumOver(LAMBDA i : intended[i])>>, TRUE)

\* Lines 68-78 and 92-102: l1_norm() and linfty_norm() (Norm1, NormInf).
L1Norm ==
  Read("l1", <<SumOver(LAMBDA i : AbsVal(own[i]))>>, <<SumOver(LAMBDA i : AbsVal(intended[i]))>>, TRUE)

LinftyNorm ==
  Read("linfty", <<MaxOver(LAMBDA i : AbsVal(own[i]))>>,
       <<MaxOver(LAMBDA i : AbsVal(intended[i]))>>, TRUE)

\* Lines 331-341: dot(v).
Dot == Read("dot", <<SumOver(LAMBDA i : own[i] * W[i])>>, <<SumOver(LAMBDA i : intended[i] * W[i])>>, FALSE)

\* Lines 419-429 and 531-578: localize(NumericVector), localize(std::vector)
\* and localize_to_one: the local parts gathered to every processor or to one.
\* What they promise: the global vector, entry i at position i + 1.
GlobalSeq(v) == [k \in 1..N |-> v[k - 1]]

Localize == Read("localize", Gathered(own), GlobalSeq(intended), FALSE)

\* localize_to_one(v, pid): the same gather, its result on pid only.
LocalizeToOne == Read("to_one", Gathered(own), GlobalSeq(intended), FALSE)

\* Lines 455-490: localize(v_local, indices), an import of the entries.
LocalizeIndices ==
  \E idx \in IdxSeqs :
    Read("indices", [j \in DOMAIN idx |-> own[idx[j]]], [j \in DOMAIN idx |-> intended[idx[j]]], FALSE)

Next ==
  \/ \E p \in Procs :
       \/ Set(p) \/ AddEntry(p) \/ AddVector(p) \/ Insert(p)
       \/ AddScalar(p) \/ AddScaled(p) \/ Scale(p) \/ Abs(p) \/ AssignScalar(p)
       \/ MulAssign(p) \/ PointwiseMult(p) \/ AssignVector(p)
  \/ Close
  \/ Sum \/ L1Norm \/ LinftyNorm \/ Dot \/ Localize \/ LocalizeToOne \/ LocalizeIndices

Spec == Init /\ [][Next]_vars

-----------------------------------------------------------------------------

\* After close(), every entry's owner holds the value the calls define: the
\* nonlocal buffers of inputValues / inputNonlocalValue, accumulated or
\* replaced, are exported to the owners with the combine mode of the edits
\* (or dropped when non-local entries are ignored), and the whole-vector
\* operations agree with them.
CloseAssembles == synced => own = intended

\* Every read the caller makes (sum, the norms, dot and the localize
\* family) returns what the calls made so far define: nothing the caller
\* added or set is missing from it.
ReadsSeeEveryEdit == result.got = result.want

\* The reads that assert closed() first (sum, l1_norm, linfty_norm) see
\* every edit: the assertion is there because a vector with contributions
\* still buffered, or not yet exported, is not closed.
ClosedReadsSeeEveryEdit ==
  result.op \in {"sum", "l1", "linfty"} => result.got = result.want

==============================================================================

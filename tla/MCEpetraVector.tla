--------------------------- MODULE MCEpetraVector ----------------------------
(***************************************************************************)
(* Two processors, three entries: processor 0 owns 0 and 1, processor 1    *)
(* owns 2, so each processor has entries it does not own.                  *)
(***************************************************************************)
EXTENDS EpetraVector

MCProcs == {0, 1}

MCFirst == 0 :> 0 @@ 1 :> 2

MCFactors == {-1, 2}

MCW == 0 :> 1 @@ 1 :> 2 @@ 2 :> 1

\* Single entries and a two-entry dof_indices across the two owners.
MCIdxSeqs == {<<2>>, <<0>>, <<1, 2>>}

\* A global-size and a local-size right-hand side of operator=.
MCFullVecs == {<<1, 2, 1>>, <<2>>, <<1, 1>>}

\* A strict caller, with non-local entries kept or ignored.
ScenariosStrict == {[ignore |-> FALSE, strict |-> TRUE], [ignore |-> TRUE, strict |-> TRUE]}

\* A caller that relies only on the closed() assertions.
ScenariosLax == {[ignore |-> FALSE, strict |-> FALSE]}

==============================================================================

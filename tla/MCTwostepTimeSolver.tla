------------------------- MODULE MCTwostepTimeSolver -------------------------
(***************************************************************************)
(* Solver parameters and core-solver behaviours for model checking.  Times *)
(* are in units of the initial deltat / 8, so that three halvings stay     *)
(* exact and the 0.5 * deltat half step is reached by every retry.         *)
(***************************************************************************)
EXTENDS TwostepTimeSolver

\* One parameter setting; u, tg < 0 mean "set from the first step".
Cfg(red, u, tg, mg, mx, mn) ==
  [deltat |-> Whole(8), reduce |-> red, upper |-> Whole(u),
   target |-> Whole(tg), maxGrowth |-> Whole(mg),
   maxDeltat |-> Whole(mx), minDeltat |-> Whole(mn)]

\* C: relative error per unit of deltat; f: DiffSolver failures per attempt.
Step(c, z, f) == [C |-> c, zeroNorms |-> z, failures |-> f]

\* Retries happen (upper 4 against errors up to 4 * 8), growth is capped or
\* clamped, the tolerances may be set from the first step, and the core
\* solver may shrink deltat or give up.
ConfigsMain ==
  { Cfg(0, 4, 8, 0, 0, 0), Cfg(1, 4, 8, 2, 0, 0), Cfg(1, -1, -1, 0, 8, 0),
    Cfg(0, 0, 8, 0, 16, 2), Cfg(2, 4, -1, 2, 0, 1) }

StepsMain == { Step(1, FALSE, 0), Step(4, FALSE, 1), Step(2, FALSE, 2) }

\* A call whose solution is identically zero.
StepsZeroNorm == StepsMain \cup { Step(1, TRUE, 0) }

\* A steady solution: the two-step error is zero.
StepsSteady == { Step(1, FALSE, 0), Step(0, FALSE, 0) }

ConfigsDefault == { Cfg(0, 0, 8, 0, 0, 0) }

==============================================================================

-------------------------- MODULE TwostepTimeSolver --------------------------
(***************************************************************************)
(* TwostepTimeSolver::solve (src/src/solvers/twostep_time_solver.C:55-297) *)
(* called repeatedly by a driver that advances time between calls.         *)
(*                                                                         *)
(* solve() takes one step of length deltat with the core (Euler) solver,   *)
(* then two of length deltat/2, compares them, and either retries with     *)
(* deltat halved or accepts the step and picks the next deltat.  The core  *)
(* solver and the driver are not in this repository; they appear at their  *)
(* interface:                                                              *)
(*   - core solve with reduce_deltat_on_diffsolver_failure = n: each       *)
(*     DiffSolver failure halves deltat and retries, up to n times, and    *)
(*     the n+1st failure is a fatal error; with n = 0 the result is not    *)
(*     checked;                                                            *)
(*   - core advance_timestep: time += deltat, then the solution is stored  *)
(*     in the solution history at the new time;                            *)
(*   - the norms: each solve call has an error constant C (the relative    *)
(*     error of a first-order method is C * deltat; C = 0 for a steady     *)
(*     solution) and may have an identically zero solution (both norms 0); *)
(*   - error_order() = 1 (implicit Euler), global_tolerance = true.        *)
(***************************************************************************)
EXTENDS DoubleArith, FiniteSets

CONSTANTS
  Configs,     \* the solver's parameters, set before the first solve
  Steps,       \* what the core solver produces in one solve call
  NoStep,      \* no solve call yet
  MaxSolves    \* bound on the driver's solve calls

VARIABLES
  pc,          \* "idle", "double", "half", "judge", "returned", "failed"
  cfg,         \* reduce_deltat_on_diffsolver_failure, max_growth, ...
  step,        \* the core solver's behaviour in this solve call
  time,        \* _system.time
  deltat,      \* _system.deltat
  oldTime,     \* old_time
  oldDeltat,   \* old_deltat
  lastDeltat,  \* last_deltat
  completed,   \* completed_timestep_size
  upperTol,    \* upper_tolerance
  targetTol,   \* target_tolerance
  history,     \* the times the solution history holds a solution for
  firstSolve,  \* first_solve
  nSolves      \* solve calls made so far

vars == <<pc, cfg, step, time, deltat, oldTime, oldDeltat, lastDeltat,
          completed, upperTol, targetTol, history, firstSolve, nSolves>>

Init ==
  /\ cfg \in Configs
  /\ pc = "idle"
  /\ step = NoStep
  /\ time = Zero
  /\ deltat = cfg.deltat
  /\ oldTime = Zero
  /\ oldDeltat = Zero
  /\ lastDeltat = Zero
  /\ completed = Zero
  /\ upperTol = cfg.upper
  /\ targetTol = cfg.target
  /\ history = {}
  /\ firstSolve = TRUE
  /\ nSolves = 0

\* Lines 55-79: the first call stores the initial condition.
Solve ==
  /\ pc = "idle"
  /\ nSolves < MaxSolves
  /\ IsFinite(deltat)
  /\ \E s \in Steps : step' = s
  /\ history' = IF firstSolve THEN history \cup {time} ELSE history
  /\ firstSolve' = FALSE
  /\ nSolves' = nSolves + 1
  /\ pc' = "double"
  /\ UNCHANGED <<cfg, time, deltat, oldTime, oldDeltat, lastDeltat,
                 completed, upperTol, targetTol>>

\* 2^-k * x
RECURSIVE Halved(_, _)
Halved(x, k) == IF k = 0 THEN x ELSE Halved(Half(x), k - 1)

(***************************************************************************)
(* Lines 81-117: the double-length solve, with the core solver allowed to *)
(* reduce deltat on DiffSolver failure.                                    *)
(***************************************************************************)
DoubleSolve ==
  /\ pc = "double"
  /\ step.failures <= cfg.reduce \/ cfg.reduce = 0
  /\ deltat' = IF cfg.reduce = 0 THEN deltat ELSE Halved(deltat, step.failures)
  /\ pc' = "half"
  /\ UNCHANGED <<cfg, step, time, oldTime, oldDeltat, lastDeltat, completed,
                 upperTol, targetTol, history, firstSolve, nSolves>>

\* More failures than reductions allowed: the core solver's fatal error.
DoubleSolveFails ==
  /\ pc = "double"
  /\ 0 < cfg.reduce /\ cfg.reduce < step.failures
  /\ pc' = "failed"
  /\ UNCHANGED <<cfg, step, time, deltat, oldTime, oldDeltat, lastDeltat,
                 completed, upperTol, targetTol, history, firstSolve, nSolves>>

\* Lines 119-141: two half steps, the core solver advancing time between.
HalfSteps ==
  /\ pc = "half"
  /\ oldTime' = time
  /\ oldDeltat' = deltat
  /\ deltat' = Half(deltat)
  /\ lastDeltat' = Half(deltat)
  /\ time' = Add(time, Half(deltat))
  /\ history' = history \cup {Add(time, Half(deltat))}
  /\ pc' = "judge"
  /\ UNCHANGED <<cfg, step, completed, upperTol, targetTol, firstSolve, nSolves>>

\* relative_error = error_norm / old_deltat / max(double_norm, single_norm)
RelativeError == Mul(Whole(step.C), oldDeltat)

\* Lines 173-174: a negative tolerance is set from the first step's error.
FromFirstStep(tol) == IF Lt(tol, Zero) THEN Mul(Neg(tol), RelativeError) ELSE tol

\* Lines 153-155: both norms zero, "the relative error makes no sense".
EarlyReturn ==
  /\ pc = "judge"
  /\ step.zeroNorms
  /\ pc' = "returned"
  /\ UNCHANGED <<cfg, step, time, deltat, oldTime, oldDeltat, lastDeltat,
                 completed, upperTol, targetTol, history, firstSolve, nSolves>>

Rejected(upper) == NonZero(upper) /\ Lt(upper, RelativeError)

\* Mutant: the half solution erased after time is restored.
RetryEraseAfterRestore ==
  /\ pc = "judge"
  /\ ~step.zeroNorms
  /\ upperTol' = FromFirstStep(upperTol)
  /\ Rejected(FromFirstStep(upperTol))
  /\ history' = history \ {oldTime}
  /\ time' = oldTime
  /\ deltat' = Half(oldDeltat)
  /\ pc' = "double"
  /\ UNCHANGED <<cfg, step, oldTime, oldDeltat, lastDeltat, completed,
                 targetTol, firstSolve, nSolves>>

\* Mutant: deltat restored but not chopped.
RetryNoChop ==
  /\ pc = "judge"
  /\ ~step.zeroNorms
  /\ upperTol' = FromFirstStep(upperTol)
  /\ Rejected(FromFirstStep(upperTol))
  /\ history' = history \ {time}
  /\ time' = oldTime
  /\ deltat' = oldDeltat
  /\ pc' = "double"
  /\ UNCHANGED <<cfg, step, oldTime, oldDeltat, lastDeltat, completed,
                 targetTol, firstSolve, nSolves>>

\* Lines 173-201: the upper tolerance is not met; erase the half solution,
\* restore time and deltat, and retry with deltat / 2.
Retry ==
  /\ pc = "judge"
  /\ ~step.zeroNorms
  /\ upperTol' = FromFirstStep(upperTol)
  /\ Rejected(FromFirstStep(upperTol))
  /\ history' = history \ {time}
  /\ time' = oldTime
  /\ deltat' = Half(oldDeltat)
  /\ pc' = "double"
  /\ UNCHANGED <<cfg, step, oldTime, oldDeltat, lastDeltat, completed,
                 targetTol, firstSolve, nSolves>>

(***************************************************************************)
(* Lines 227-290: the next deltat, old_deltat times (target / relative     *)
(* error)^(1/error_order), capped by max_growth, then restricted to        *)
(* max_deltat and min_deltat (a zero parameter means no restriction).      *)
(***************************************************************************)
\* Mutant: max_deltat applied without checking that it is set.
NextDeltatMaxUnchecked(target) ==
  LET factor0 == Div(target, RelativeError)
      factor  == IF NonZero(cfg.maxGrowth) /\ Lt(cfg.maxGrowth, factor0)
                 THEN cfg.maxGrowth ELSE factor0
      d1 == Mul(oldDeltat, factor)
      d2 == IF Lt(cfg.maxDeltat, d1) THEN cfg.maxDeltat ELSE d1
  IN  IF NonZero(cfg.minDeltat) /\ Lt(d2, cfg.minDeltat) THEN cfg.minDeltat ELSE d2

NextDeltat(target) ==
  LET factor0 == Div(target, RelativeError)
      factor  == IF NonZero(cfg.maxGrowth) /\ Lt(cfg.maxGrowth, factor0)
                 THEN cfg.maxGrowth ELSE factor0
      d1 == Mul(oldDeltat, factor)
      d2 == IF NonZero(cfg.maxDeltat) /\ Lt(cfg.maxDeltat, d1)
            THEN cfg.maxDeltat ELSE d1
  IN  IF NonZero(cfg.minDeltat) /\ Lt(d2, cfg.minDeltat) THEN cfg.minDeltat ELSE d2

\* Lines 211-296: the step is accepted; time and deltat are restored and
\* the next deltat is chosen.
Accept ==
  /\ pc = "judge"
  /\ ~step.zeroNorms
  /\ upperTol' = FromFirstStep(upperTol)
  /\ ~Rejected(FromFirstStep(upperTol))
  /\ lastDeltat' = deltat
  /\ completed' = Twice(deltat)
  /\ time' = oldTime
  /\ targetTol' = FromFirstStep(targetTol)
  /\ deltat' = NextDeltat(FromFirstStep(targetTol))
  /\ pc' = "returned"
  /\ UNCHANGED <<cfg, step, oldTime, oldDeltat, history, firstSolve, nSolves>>

\* The driver's advance_timestep between solves: time moves by the size
\* of the completed step and the solution is stored there.
AdvanceTimestep ==
  /\ pc = "returned"
  /\ time' = Add(time, completed)
  /\ history' = history \cup {time'}
  /\ pc' = "idle"
  /\ UNCHANGED <<cfg, step, deltat, oldTime, oldDeltat, lastDeltat, completed,
                 upperTol, targetTol, firstSolve, nSolves>>

\* The driver has made its last call, or the program has stopped.
Stopped ==
  /\ \/ pc = "idle" /\ (nSolves = MaxSolves \/ ~IsFinite(deltat))
     \/ pc = "failed"
  /\ UNCHANGED vars

Next ==
  \/ Solve \/ DoubleSolve \/ DoubleSolveFails \/ HalfSteps
  \/ EarlyReturn \/ Retry \/ Accept \/ AdvanceTimestep \/ Stopped

\* solve() runs on one thread without blocking: each step it can take, it
\* eventually takes.
Spec ==
  /\ Init /\ [][Next]_vars
  /\ WF_vars(DoubleSolve \/ DoubleSolveFails \/ HalfSteps)
  /\ WF_vars(EarlyReturn \/ Retry \/ Accept)

-----------------------------------------------------------------------------

InSolve == pc \in {"double", "half", "judge"}

TypeOK ==
  /\ pc \in {"idle", "double", "half", "judge", "returned", "failed"}
  /\ nSolves \in 0..MaxSolves
  /\ firstSolve \in BOOLEAN
  /\ deltat \in {Inf, NaN} \/ Lt(Zero, deltat)

(***************************************************************************)
(* The solution history, when solve() returns, holds exactly one solution *)
(* past the start of the step: the accepted attempt's half-step solution.  *)
(* Each rejected attempt's half solution was erased (line 184) before     *)
(* time was restored, whatever deltat the core solver used.                *)
(***************************************************************************)
HistoryHoldsAcceptedHalfStep ==
  pc = "returned" =>
    {t \in history : Lt(oldTime, t)} = {Add(oldTime, lastDeltat)}

\* Every solve() call returns (or the program stops on a fatal error): the
\* retry loop ends because each retry halves the step, and the relative
\* error of a first-order method shrinks with it.
SolveReturns == InSolve ~> pc \in {"returned", "failed"}

\* deltat stays a positive finite number across steps.
DeltatFinite == IsFinite(deltat)

==============================================================================

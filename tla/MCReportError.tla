---------------------------- MODULE MCReportError ----------------------------
(***************************************************************************)
(* Builds and workloads for model checking report_error.                   *)
(***************************************************************************)
EXTENDS ReportError

CONSTANTS t1, t2, t3

MCThreads == {t1, t2, t3}

Scenario(threaded, threads, outcomes, maxErrors) ==
  [threaded |-> threaded, threads |-> threads, outcomes |-> outcomes,
   maxErrors |-> maxErrors]

\* A threaded build in which three threads raise two errors each and the
\* traces print; a serial build (one thread, no-op spin_mutex) whose trace
\* printing may print, raise a nested error or throw, over ten errors.
ScenariosMain ==
  { Scenario(TRUE, MCThreads, {"ok"}, 2),
    Scenario(FALSE, {t1}, {"ok", "nested", "throws"}, 10) }

\* A threaded build in which printing the trace may raise a nested error.
ScenariosNested == { Scenario(TRUE, {t1, t2}, {"ok", "nested"}, 1) }

\* A serial build in which a nested error unwinds the outer report.
ScenariosStuck == { Scenario(FALSE, {t1}, {"ok", "nested"}, 2) }

==============================================================================

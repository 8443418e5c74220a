----------------------------- MODULE ReportError -----------------------------
(***************************************************************************)
(* libMesh::MacroFunctions::report_error (src/src/base/libmesh_common.C:  *)
(* 75-102), called by libmesh_error() on any thread, possibly again from   *)
(* inside itself when printing the trace fails.                            *)
(*                                                                         *)
(* report_error_spin_mtx is a Threads::spin_mutex: with a threading        *)
(* backend (TBB, pthreads) a non-recursive spin lock, so a thread that     *)
(* locks it twice spins forever; without one (a serial build, one thread)  *)
(* an empty class.  The static reporting_error flag is shared by all       *)
(* threads.  A libmesh_error() call reports and then throws; the thrower's *)
(* exception unwinds the frames below it (the scoped lock is released,     *)
(* the flag is left as it is).                                             *)
(***************************************************************************)
EXTENDS Naturals, Sequences

CONSTANTS
  Threads,       \* the threads of the program
  NoThread,      \* nobody holds the lock
  Scenarios      \* builds and workloads, records [threaded, threads,
                 \* outcomes, maxErrors]: threaded TRUE when spin_mutex is a
                 \* real lock, the threads (of Threads) that raise errors,
                 \* what printing the trace may do ("ok", "nested",
                 \* "throws"), and the errors a thread raises and catches

VARIABLES
  sc,            \* this behaviour's scenario
  holder,        \* the thread holding report_error_spin_mtx, or NoThread
  reporting,     \* static bool reporting_error
  frames,        \* frames[t]: t's report_error frames, innermost last
  raised         \* raised[t]: errors t has raised so far

vars == <<sc, holder, reporting, frames, raised>>

Threaded == sc.threaded

TraceOutcomes == sc.outcomes

\* A frame is where the call is: "lock", "check", "set", "trace", "here",
\* or "unwind" (a nested report returned and its libmesh_error throws).
Top(t) == frames[t][Len(frames[t])]

SetTop(t, s) == frames' = [frames EXCEPT ![t][Len(frames[t])] = s]

Pop(t) == frames' = [frames EXCEPT ![t] = SubSeq(@, 1, Len(@) - 1)]

\* The scoped_lock's destructor.
Release(t) == holder' = IF Threaded THEN NoThread ELSE holder

Init ==
  /\ sc \in Scenarios
  /\ holder = NoThread
  /\ reporting = FALSE
  /\ frames = [t \in Threads |-> <<>>]
  /\ raised = [t \in Threads |-> 0]

\* Thread t hits libmesh_error() in its own code.
RaiseError(t) ==
  /\ t \in sc.threads
  /\ frames[t] = <<>>
  /\ raised[t] < sc.maxErrors
  /\ frames' = [frames EXCEPT ![t] = <<"lock">>]
  /\ raised' = [raised EXCEPT ![t] = @ + 1]
  /\ UNCHANGED <<sc, holder, reporting>>

\* Mutant: the scoped lock taken without waiting for the holder.
LockIgnored(t) ==
  /\ frames[t] # <<>> /\ Top(t) = "lock"
  /\ holder' = IF Threaded THEN t ELSE holder
  /\ SetTop(t, "check")
  /\ UNCHANGED <<sc, reporting, raised>>

\* Line 80: scoped_lock lock(report_error_spin_mtx).
Lock(t) ==
  /\ frames[t] # <<>> /\ Top(t) = "lock"
  /\ ~Threaded \/ holder = NoThread
  /\ holder' = IF Threaded THEN t ELSE holder
  /\ SetTop(t, "check")
  /\ UNCHANGED <<sc, reporting, raised>>

\* A thread spinning on the lock: running, but nothing changes.
Spin(t) ==
  /\ frames[t] # <<>> /\ Top(t) = "lock"
  /\ Threaded /\ holder # NoThread
  /\ UNCHANGED vars

\* Mutant: the reporting_error test left out.
CheckNoGuard(t) ==
  /\ frames[t] # <<>> /\ Top(t) = "check"
  /\ SetTop(t, "set")
  /\ UNCHANGED <<sc, holder, reporting, raised>>

\* Lines 84-91: an error while reporting prints one line and returns.
Check(t) ==
  /\ frames[t] # <<>> /\ Top(t) = "check"
  /\ \/ /\ reporting
        /\ Release(t)
        /\ Pop(t)
     \/ /\ ~reporting
        /\ SetTop(t, "set")
        /\ UNCHANGED holder
  /\ UNCHANGED <<sc, reporting, raised>>

\* Line 92: reporting_error = true.
SetFlag(t) ==
  /\ frames[t] # <<>> /\ Top(t) = "set"
  /\ reporting' = TRUE
  /\ SetTop(t, "trace")
  /\ UNCHANGED <<sc, holder, raised>>

(***************************************************************************)
(* Lines 94-98: print_trace / write_traceout.  It prints; or it hits       *)
(* libmesh_error(), which calls report_error on this thread; or it throws, *)
(* which unwinds every frame of this thread's error handling.              *)
(***************************************************************************)
Trace(t) ==
  /\ frames[t] # <<>> /\ Top(t) = "trace"
  /\ \/ /\ "ok" \in TraceOutcomes
        /\ SetTop(t, "here")
        /\ UNCHANGED holder
     \/ /\ "nested" \in TraceOutcomes
        /\ frames' = [frames EXCEPT ![t] = [@ EXCEPT ![Len(@)] = "unwind"]
                                              \o <<"lock">>]
        /\ UNCHANGED holder
     \/ /\ "throws" \in TraceOutcomes
        /\ frames' = [frames EXCEPT ![t] = <<>>]
        /\ Release(t)
  /\ UNCHANGED <<sc, reporting, raised>>

\* After a nested report returns, its libmesh_error() throws through the
\* outer report_error, releasing the lock but not resetting the flag.
Unwind(t) ==
  /\ frames[t] # <<>> /\ Top(t) = "unwind"
  /\ frames' = [frames EXCEPT ![t] = <<>>]
  /\ Release(t)
  /\ UNCHANGED <<sc, reporting, raised>>

\* Lines 99-101: print where, reset the flag, return (unlocking).
Here(t) ==
  /\ frames[t] # <<>> /\ Top(t) = "here"
  /\ reporting' = FALSE
  /\ Release(t)
  /\ Pop(t)
  /\ UNCHANGED <<sc, raised>>

Done ==
  /\ \A t \in sc.threads : frames[t] = <<>> /\ raised[t] = sc.maxErrors
  /\ UNCHANGED vars

Thread(t) ==
  \/ RaiseError(t) \/ Lock(t) \/ Spin(t) \/ Check(t) \/ SetFlag(t)
  \/ Trace(t) \/ Unwind(t) \/ Here(t)

Next == (\E t \in Threads : Thread(t)) \/ Done

Spec == Init /\ [][Next]_vars

-----------------------------------------------------------------------------

\* Printing: between the flag test and the return.
Printing(t) == \E i \in 1..Len(frames[t]) : frames[t][i] \in {"set", "trace", "here"}

\* Two threads never print their error reports at the same time: the lock
\* and the flag keep traces from interleaving.
ReportsNotInterleaved ==
  \A t, u \in Threads : t # u => ~(Printing(t) /\ Printing(u))

\* An error report raised by a thread's own code (not from inside another
\* report) prints the trace: the flag is clear when it is tested.
TopLevelReportPrintsTrace ==
  \A t \in Threads :
    (Len(frames[t]) = 1 /\ Top(t) = "check") => ~reporting

\* An error raised while printing a trace is reported at most one level
\* deep: the reporting_error test stops the recursion at the nested call.
NestingBounded == \A t \in Threads : Len(frames[t]) <= 2

==============================================================================

----------------------------- MODULE Supervisor -----------------------------
(***************************************************************************)
(* arbor-node: fail-fast task supervision.  Supervisor::run waits for a    *)
(* signal of the operating system or the exit of a critical task, asks the *)
(* other tasks to stop, and waits for them for a grace period.             *)
(***************************************************************************)
EXTENDS FiniteSets

CONSTANTS Task,
          Stubborn    \* the tasks that do not look at the shutdown signal

ASSUME SupervisorAssumption == Stubborn \subseteq Task

VARIABLES task,       \* "running", how it ended, or "aborted"
          joined,     \* the tasks join_next has returned
          signal,     \* a signal is pending at the process
          cancelled,  \* the watch channel of ShutdownTrigger
          run_phase,  \* of run: "select", "drain", "returned"
          outcome,    \* of the select, and the result of run
          culprit,    \* the task that the error names
          early       \* history: the tasks that ended before the shutdown was requested

sup_vars == <<task, joined, signal, cancelled, run_phase, outcome, culprit, early>>

-----------------------------------------------------------------------------
Ends == {"ok", "err", "panic"}
Ended(t) == task[t] \in Ends

\* The error that names a task which has ended.
Exit(t) == CASE task[t] = "ok"    -> "UnexpectedExit"
             [] task[t] = "err"   -> "Task"
             [] task[t] = "panic" -> "Join"

\* Leaving run drops the JoinSet, which aborts what still runs.
Aborted == [t \in Task |-> IF task[t] = "running" THEN "aborted" ELSE task[t]]

SupInit ==
    /\ task = [t \in Task |-> "running"]
    /\ joined = {} /\ early = {} /\ culprit = {}
    /\ signal = FALSE /\ cancelled = FALSE
    /\ run_phase = "select" /\ outcome = "none"

\* Ctrl-C or SIGTERM.
Signal ==
    /\ ~ signal
    /\ signal' = TRUE
    /\ UNCHANGED <<task, joined, cancelled, run_phase, outcome, culprit, early>>

\* A task ends by itself.
End(t, how) ==
    /\ task[t] = "running"
    /\ task' = [task EXCEPT ![t] = how]
    /\ early' = IF cancelled THEN early ELSE early \cup {t}
    /\ UNCHANGED <<joined, signal, cancelled, run_phase, outcome, culprit>>

\* A task that awaits Shutdown::cancelled returns.
Stop(t) ==
    /\ task[t] = "running" /\ t \notin Stubborn
    /\ cancelled
    /\ task' = [task EXCEPT ![t] = "ok"]
    /\ UNCHANGED <<joined, signal, cancelled, run_phase, outcome, culprit, early>>

\* The two branches of select!, either when both are ready, and trigger.shutdown().
SelectSignal ==
    /\ run_phase = "select" /\ signal
    /\ outcome' = "Ok"
    /\ cancelled' = TRUE
    /\ run_phase' = "drain"
    /\ UNCHANGED <<task, joined, signal, culprit, early>>

SelectTask(t) ==
    /\ run_phase = "select" /\ Ended(t)
    /\ joined' = joined \cup {t}
    /\ outcome' = Exit(t) /\ culprit' = {t}
    /\ cancelled' = TRUE
    /\ run_phase' = "drain"
    /\ UNCHANGED <<task, signal, early>>

\* The signal handler cannot be installed: run returns at once, without the trigger.
SignalError ==
    /\ run_phase = "select" /\ ~ signal
    /\ outcome' = "Signal"
    /\ task' = Aborted
    /\ run_phase' = "returned"
    /\ UNCHANGED <<joined, signal, cancelled, culprit, early>>

\* Mutant: an error seen while draining replaces the outcome.
join_next_reporting(t) ==
    /\ run_phase = "drain" /\ Ended(t) /\ t \notin joined
    /\ joined' = joined \cup {t}
    /\ outcome' = IF task[t] = "ok" THEN outcome ELSE Exit(t)
    /\ culprit' = IF task[t] = "ok" THEN culprit ELSE {t}
    /\ UNCHANGED <<task, signal, cancelled, run_phase, early>>

\* The drain loop drops what the tasks return.
join_next(t) ==
    /\ run_phase = "drain" /\ Ended(t) /\ t \notin joined
    /\ joined' = joined \cup {t}
    /\ UNCHANGED <<task, signal, cancelled, run_phase, outcome, culprit, early>>

Drained ==
    /\ run_phase = "drain" /\ joined = Task
    /\ run_phase' = "returned"
    /\ UNCHANGED <<task, joined, signal, cancelled, outcome, culprit, early>>

\* Mutant: the drain loop has no limit in time.
Timeout_never == FALSE /\ UNCHANGED sup_vars

\* The grace period passes first.
Timeout ==
    /\ run_phase = "drain" /\ joined # Task
    /\ outcome' = "ShutdownTimeout" /\ culprit' = {}
    /\ task' = Aborted
    /\ run_phase' = "returned"
    /\ UNCHANGED <<joined, signal, cancelled, early>>

SupNext ==
    \/ Signal
    \/ \E t \in Task, how \in Ends : End(t, how)
    \/ \E t \in Task : Stop(t)
    \/ SelectSignal
    \/ \E t \in Task : SelectTask(t)
    \/ SignalError
    \/ \E t \in Task : join_next(t)
    \/ Drained
    \/ Timeout

\* The runtime polls run and the tasks, and the timer fires; signals and failures need not
\* come.
SupFairness ==
    /\ WF_sup_vars(SelectSignal \/ \E t \in Task : SelectTask(t))
    /\ WF_sup_vars(\E t \in Task : Stop(t))
    /\ WF_sup_vars(\E t \in Task : join_next(t))
    /\ WF_sup_vars(Drained)
    /\ WF_sup_vars(Timeout)

SupSpec == SupInit /\ [][SupNext]_sup_vars /\ SupFairness

-----------------------------------------------------------------------------
\* The outcome is what the select saw: a signal, or a task that ended before the shutdown was
\* requested and how it ended.
Told ==
    \/ outcome = "Ok" /\ culprit = {} /\ signal
    \/ \E t \in early : culprit = {t} /\ Ended(t) /\ outcome = Exit(t)

\* What each result of run means.  Signal: the handlers could not be installed.
\* ShutdownTimeout: a task was not joined in the grace period; it names no cause, and replaces
\* the error of a task that had failed.  Otherwise every task was joined, none cut off in its
\* work, and the result is the cause: Ok for a signal, or the exit of a task that ended before
\* the shutdown was requested, never of one that failed because of it.
OutcomeHonest ==
    run_phase = "returned" =>
        \/ outcome = "Signal" /\ culprit = {} /\ ~ cancelled
        \/ outcome = "ShutdownTimeout" /\ culprit = {} /\ joined # Task
        \/ Told /\ joined = Task /\ \A t \in Task : Ended(t)

\* A signal or the exit of any task ends the process, also when a task ignores the signal.
ShutsDown ==
    (signal \/ \E t \in Task : Ended(t)) ~> (run_phase = "returned")

\* The strengthening of OutcomeHonest that is inductive.
SupInv ==
    /\ task \in [Task -> {"running", "aborted"} \cup Ends]
    /\ cancelled => run_phase # "select"
    /\ ~ cancelled => \A t \in Task : Ended(t) => t \in early
    /\ joined \subseteq Task /\ \A t \in joined : Ended(t)
    /\ early \subseteq Task
    /\ run_phase \in {"select", "drain", "returned"}
    /\ run_phase = "select" => culprit = {} /\ ~ cancelled
    /\ run_phase = "drain" => Told /\ cancelled
    /\ OutcomeHonest
=============================================================================

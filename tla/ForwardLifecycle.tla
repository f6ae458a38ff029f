-------------------------- MODULE ForwardLifecycle --------------------------
(***************************************************************************)
(* The life cycle of NotificationForwardService and of what it owns: the   *)
(* consumer's and the producer's worker manager, each with one worker, its *)
(* publisher and, for the consumer, the subscriber.                        *)
(*                                                                         *)
(* A critical section is one step. A mutex that a return forgot to release *)
(* is a flag.                                                              *)
(***************************************************************************)
EXTENDS Naturals

CONSTANTS
    MaxStarts,      \* bound: calls of Start
    MaxFailures     \* bound: failures to reach RabbitMQ, calls of Close that time out

Managers == {"consumer", "producer"}

VARIABLES
    service,        \* "stopped", "started", "stopping" (the flags started and stopping)
    closer,         \* where NotificationForwardService.Close is
    starter,        \* the goroutine that runs a manager's Start; counted by s.wg
    disabled,       \* managers switched off by the configuration
    running,        \* m.started
    cancelled,      \* managerCtx is done
    leaked,         \* m.mu is locked and nobody holds it
    publisher,      \* the worker's publisher is open
    subscriber,     \* the consumer's subscriber is open
    worker,         \* the worker goroutine; counted by m.wg
    starts, failures

vars == <<service, closer, starter, disabled, running, cancelled, leaked, publisher, subscriber,
          worker, starts, failures>>

(* Where Close is while it waits for a manager's workers. *)
WaitsFor(m) == IF m = "consumer" THEN "consumer's workers" ELSE "producer's workers"

TypeOK ==
    /\ service \in {"stopped", "started", "stopping"}
    /\ closer \in {"none", "wg"} \cup Managers \cup {WaitsFor(m) : m \in Managers}
    /\ starter \in [Managers -> {"none", "launched", "blocked", "clearing"}]
    /\ disabled \subseteq Managers
    /\ {running, cancelled, leaked, publisher} \subseteq [Managers -> BOOLEAN]
    /\ subscriber \in BOOLEAN
    /\ worker \in [Managers -> {"none", "idle", "busy"}]
    /\ starts \in 0 .. MaxStarts
    /\ failures \in 0 .. MaxFailures

Init ==
    /\ service = "stopped" /\ closer = "none"
    /\ starter = [m \in Managers |-> "none"]
    /\ disabled \in SUBSET Managers
    /\ running = [m \in Managers |-> FALSE]
    /\ cancelled = [m \in Managers |-> FALSE]
    /\ leaked = [m \in Managers |-> FALSE]
    /\ publisher = [m \in Managers |-> FALSE]
    /\ subscriber = FALSE
    /\ worker = [m \in Managers |-> "none"]
    /\ starts = 0 /\ failures = 0

-----------------------------------------------------------------------------
(* NotificationForwardService: Start, and Close in its stages *)

Start ==
    /\ service = "stopped" /\ starts < MaxStarts
    /\ service' = "started" /\ starts' = starts + 1
    /\ starter' = [m \in Managers |-> "launched"]
    /\ UNCHANGED <<closer, disabled, running, cancelled, leaked, publisher, subscriber,
                   worker, failures>>

Close ==
    /\ service = "started"
    /\ service' = "stopping" /\ closer' = "consumer"
    /\ UNCHANGED <<starter, disabled, running, cancelled, leaked, publisher, subscriber,
                   worker, starts, failures>>

AfterManager(m) == IF m = "consumer" THEN "producer" ELSE "wg"

(* Close of a manager: an error if it is not started, else the subscriber first, then the
   workers' context. *)
CloseManager(m) ==
    /\ closer = m /\ ~leaked[m]
    /\ IF running[m]
       THEN /\ closer' = WaitsFor(m)
            /\ cancelled' = [cancelled EXCEPT ![m] = TRUE]
            /\ subscriber' = (subscriber /\ m # "consumer")
       ELSE /\ closer' = AfterManager(m)
            /\ UNCHANGED <<cancelled, subscriber>>
    /\ UNCHANGED <<service, starter, disabled, running, leaked, publisher, worker, starts,
                   failures>>

ManagerClosed(m) ==
    /\ closer = WaitsFor(m)
    /\ \/ worker[m] = "none" /\ UNCHANGED failures
       \/ failures < MaxFailures /\ failures' = failures + 1      \* the context of Close ends
    /\ closer' = AfterManager(m)
    /\ UNCHANGED <<service, starter, disabled, running, cancelled, leaked, publisher,
                   subscriber, worker, starts>>

(* s.wg.Wait *)
StartersDone == \A m \in Managers : starter[m] = "none"

(* UnregisterAll (see ClientRegistry) and the reset of the flags. *)
Stopped ==
    /\ closer = "wg" /\ StartersDone
    /\ service' = "stopped" /\ closer' = "none"
    /\ UNCHANGED <<starter, disabled, running, cancelled, leaked, publisher, subscriber,
                   worker, starts, failures>>

(* The context of Close ends while it waits: the flags stay as they are. *)
StopTimesOut ==
    /\ closer = "wg" /\ failures < MaxFailures
    /\ closer' = "none" /\ failures' = failures + 1
    /\ UNCHANGED <<service, starter, disabled, running, cancelled, leaked, publisher,
                   subscriber, worker, starts>>

-----------------------------------------------------------------------------
(* Start of a worker manager, called in a goroutine of the service *)

(* The early returns of the two Starts that leave m.mu locked: all of the producer's, one of
   the consumer's. *)
Leaks(m, why) == m = "producer" \/ why = "no subscriber"

(* Switched off, or a configuration that validate refuses. The service's own flag keeps a
   started manager from being started again. *)
StartDisabled(m) ==
    /\ starter[m] = "launched" /\ ~leaked[m]
    /\ m \in disabled
    /\ starter' = [starter EXCEPT ![m] = "none"]
    /\ leaked' = [leaked EXCEPT ![m] = Leaks(m, "disabled")]
    /\ UNCHANGED <<service, closer, disabled, running, cancelled, publisher, subscriber,
                   worker, starts, failures>>

(* RabbitMQ cannot be reached; what was opened before is closed again. *)
StartFails(m) ==
    /\ starter[m] = "launched" /\ ~leaked[m]
    /\ m \notin disabled
    /\ failures < MaxFailures /\ failures' = failures + 1
    /\ \E why \in {"no subscriber", "no deliveries", "no publisher"} :
          /\ m = "producer" => why = "no publisher"
          /\ leaked' = [leaked EXCEPT ![m] = Leaks(m, why)]
    /\ starter' = [starter EXCEPT ![m] = "none"]
    /\ UNCHANGED <<service, closer, disabled, running, cancelled, publisher, subscriber,
                   worker, starts>>

StartSucceeds(m) ==
    /\ starter[m] = "launched" /\ ~leaked[m]
    /\ m \notin disabled
    /\ starter' = [starter EXCEPT ![m] = "blocked"]
    /\ running' = [running EXCEPT ![m] = TRUE]
    /\ cancelled' = [cancelled EXCEPT ![m] = FALSE]
    /\ publisher' = [publisher EXCEPT ![m] = TRUE]
    /\ subscriber' = (subscriber \/ m = "consumer")
    /\ worker' = [worker EXCEPT ![m] = "idle"]
    /\ UNCHANGED <<service, closer, disabled, leaked, starts, failures>>

(* As if the end of the context were enough. *)
WorkersDoneAlways(m) == TRUE

(* m.wg.Wait *)
WorkersDone(m) == worker[m] = "none"

(* After the context and the workers: the subscriber, the publishers, the manager's fields. *)
CloseResources(m) ==
    /\ starter[m] = "blocked" /\ cancelled[m] /\ WorkersDone(m)
    /\ starter' = [starter EXCEPT ![m] = "clearing"]
    /\ publisher' = [publisher EXCEPT ![m] = FALSE]
    /\ subscriber' = (subscriber /\ m # "consumer")
    /\ UNCHANGED <<service, closer, disabled, running, cancelled, leaked, worker, starts,
                   failures>>

ClearManager(m) ==
    /\ starter[m] = "clearing"
    /\ starter' = [starter EXCEPT ![m] = "none"]
    /\ running' = [running EXCEPT ![m] = FALSE]
    /\ UNCHANGED <<service, closer, disabled, cancelled, leaked, publisher, subscriber,
                   worker, starts, failures>>

-----------------------------------------------------------------------------
(* The workers *)

(* As if a worker left only when its deliveries ended, and never looked at its context. *)
WorkerLeavesLate(m) == m = "consumer" /\ ~subscriber

WorkerLeaves(m) == cancelled[m] \/ (m = "consumer" /\ ~subscriber)

WorkerExits(m) ==
    /\ worker[m] = "idle" /\ WorkerLeaves(m)
    /\ worker' = [worker EXCEPT ![m] = "none"]
    /\ UNCHANGED <<service, closer, starter, disabled, running, cancelled, leaked, publisher,
                   subscriber, starts, failures>>

(* A batch (OutboxWorker) or a delivery (Consumer) begins and ends. *)
WorkerWorks(m) ==
    /\ worker[m] \in {"idle", "busy"}
    /\ worker' = [worker EXCEPT ![m] = IF @ = "idle" THEN "busy" ELSE "idle"]
    /\ UNCHANGED <<service, closer, starter, disabled, running, cancelled, leaked, publisher,
                   subscriber, starts, failures>>

-----------------------------------------------------------------------------

ManagerStep(m) ==
    \/ StartDisabled(m) \/ StartFails(m) \/ StartSucceeds(m)
    \/ CloseResources(m) \/ ClearManager(m)

CloserStep ==
    \/ \E m \in Managers : CloseManager(m) \/ ManagerClosed(m)
    \/ Stopped

Next ==
    \/ Start \/ Close \/ CloserStep \/ StopTimesOut
    \/ \E m \in Managers : ManagerStep(m) \/ WorkerWorks(m) \/ WorkerExits(m)

Spec == Init /\ [][Next]_vars

(* Goroutines that can go on do, and a worker comes to the end of what it works on and sees
   there that it has to leave. Nobody has to start or close the service. *)
Fairness ==
    /\ WF_vars(CloserStep)
    /\ \A m \in Managers :
          WF_vars(ManagerStep(m)) /\ WF_vars(WorkerWorks(m)) /\ SF_vars(WorkerExits(m))

FairSpec == Spec /\ Fairness

-----------------------------------------------------------------------------
(* Properties *)

(* A worker has a publisher as long as it runs, and once the service calls itself stopped
   nothing of it runs: no manager, no worker, no open publisher or subscriber. *)
PublishersOutliveWorkers == \A m \in Managers : worker[m] # "none" => publisher[m]

QuietWhenStopped ==
    service = "stopped" =>
        /\ ~subscriber
        /\ \A m \in Managers : ~running[m] /\ worker[m] = "none" /\ ~publisher[m]

OrderlyShutdown == PublishersOutliveWorkers /\ QuietWhenStopped

(* Close that waits behind a mutex nobody will release, or for a manager that was not started
   yet when Close came by and has been started since. *)
Stuck ==
    \/ closer \in Managers /\ leaked[closer]
    \/ closer = "wg" /\ \E m \in Managers :
          starter[m] = "launched" \/ (starter[m] = "blocked" /\ ~cancelled[m])

(* Apart from that, Close comes to an end. *)
CloseCompletes == closer # "none" ~> closer = "none" \/ Stuck
=============================================================================

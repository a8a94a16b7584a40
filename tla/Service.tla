-------------------------------- MODULE Service --------------------------------
(***************************************************************************)
(* us-blkback as a Windows service (Service.cpp, main, Args.hpp).  Four     *)
(* threads take part: main, which runs the service dispatcher and, on it,   *)
(* the control handler; service_main; blkback_worker, which owns the        *)
(* backend; and outside the process the service control manager (SCM),      *)
(* which sees the reports of SetServiceStatus and sends STOP or PRESHUTDOWN *)
(* while the last report accepts them.                                      *)
(*                                                                          *)
(* Each critical section of service_mutex is one step.  wait_on_blkback_-   *)
(* thread counts waits of TIMEOUT ms; a wait may time out at any moment,    *)
(* since nothing bounds how long the backend takes to stop.                 *)
(***************************************************************************)
EXTENDS Integers

CONSTANTS
  WAIT_LIMIT,        \* SERVICE_WAIT_HINT / TIMEOUT: 50 waits of 200 ms
  PRESHUTDOWN_WAITS, \* 3 minutes in waits of 200 ms: 900
  MaxFailures        \* bound: how often SetServiceStatus fails

ASSUME WaitLimits == WAIT_LIMIT \in Nat \ {0} /\ PRESHUTDOWN_WAITS \in Nat /\ MaxFailures \in Nat

VARIABLES
  service_status,    \* [accepts, state, checkpoint]
  reported,          \* SCM: the last service_status it received
  failures,
  stop_event,        \* [open, signalled]
  stop_event_ready,
  blkback_thread,    \* whether the handle is open
  at,                \* where each thread is
  waited,            \* wait_time of the two threads that wait for the worker
  longest_wait,      \* history: the longest wait_time of any wait
  control,           \* SCM: whether a stop control is on its way
  backend,           \* whether the worker holds the backend's resources
  orig_argv          \* "none", "copied" or "freed"

status == <<service_status, reported, failures>>
handles == <<stop_event, stop_event_ready, blkback_thread>>
waits == <<waited, longest_wait>>
others == <<waits, control, backend, orig_argv>>
vars == <<status, handles, at, others>>

Waiter == {"service_main", "handler"}
State == {"none", "START_PENDING", "RUNNING", "STOP_PENDING", "STOPPED"}
Report == [accepts : BOOLEAN, state : State, checkpoint : Nat]

(* The process has ended: at the end of main, or because a thread ended it. *)
Gone == at["main"] \in {"exited", "terminated"}

Go(t, there) == at' = [at EXCEPT ![t] = there]
At(t, here) == at[t] = here /\ ~Gone

(* A step of thread t that only goes on. *)
Moves(t, here, there) == At(t, here) /\ Go(t, there) /\ UNCHANGED <<status, handles, others>>

Init ==
  /\ service_status = [accepts |-> FALSE, state |-> "none", checkpoint |-> 0]
  /\ reported = service_status
  /\ failures = 0
  /\ stop_event = [open |-> FALSE, signalled |-> FALSE]
  /\ stop_event_ready = FALSE
  /\ blkback_thread = FALSE
  /\ at = [main |-> "copyArgs", handler |-> "none", service_main |-> "none", worker |-> "none"]
  /\ waited = [t \in Waiter |-> 0]
  /\ longest_wait = 0
  /\ control = FALSE
  /\ backend = FALSE
  /\ orig_argv = "none"

-----------------------------------------------------------------------------
(* SetServiceStatus, as __set_status calls it; ok is whether it succeeded. *)
SetServiceStatus(new, ok) ==
  \/ ok /\ reported' = new /\ UNCHANGED failures
  \/ /\ ~ok /\ failures < MaxFailures
     /\ failures' = failures + 1 /\ UNCHANGED reported

(* Mutant: the status is reported, but not kept. *)
ReportStatus(accepts, state, ok) ==
  /\ SetServiceStatus([accepts |-> accepts, state |-> state, checkpoint |-> 0], ok)
  /\ UNCHANGED service_status

SetStatus(accepts, state, ok) ==
  /\ service_status' = [accepts |-> accepts, state |-> state, checkpoint |-> 0]
  /\ SetServiceStatus(service_status', ok)

MarkCheckpoint ==
  /\ service_status' = [service_status EXCEPT !.checkpoint = @ + 1]
  /\ \E ok \in BOOLEAN : SetServiceStatus(service_status', ok)

(* Steps of thread t that call set_status or mark_checkpoint. *)
Reports(t, here, there, accepts, state) ==
  /\ At(t, here)
  /\ \E ok \in BOOLEAN : SetStatus(accepts, state, ok)
  /\ Go(t, there)
  /\ UNCHANGED <<handles, others>>

Marks(t, here, there) ==
  At(t, here) /\ MarkCheckpoint /\ Go(t, there) /\ UNCHANGED <<handles, others>>

SendStopSignal ==
  stop_event' = IF stop_event_ready /\ stop_event.open THEN [stop_event EXCEPT !.signalled = TRUE]
                ELSE stop_event

-----------------------------------------------------------------------------
(* Mutant: the arguments are freed before the service starts. *)
CopyArgsFreed ==
  /\ At("main", "copyArgs")
  /\ \/ orig_argv' = "freed" /\ Go("main", "serviceStart")
     \/ UNCHANGED orig_argv /\ Go("main", "exited")
  /\ UNCHANGED <<status, handles, waits, control, backend>>

(* main: the arguments are copied for the worker, and freed when the         *)
(* dispatcher returns, which it does when the service is reported STOPPED.   *)
CopyArgs ==
  /\ At("main", "copyArgs")
  /\ \/ orig_argv' = "copied" /\ Go("main", "serviceStart")
     \/ UNCHANGED orig_argv /\ Go("main", "exited")
  /\ UNCHANGED <<status, handles, waits, control, backend>>

(* StartServiceCtrlDispatcher runs service_main in a thread, or fails. *)
ServiceStart ==
  /\ At("main", "serviceStart")
  /\ \/ at' = [at EXCEPT !["main"] = "dispatch", !["service_main"] = "init"]
     \/ Go("main", "freeArgs")
  /\ UNCHANGED <<status, handles, waits, control, backend, orig_argv>>

(* The dispatcher runs the handler. *)
Dispatch ==
  /\ At("main", "dispatch") /\ at["handler"] = "none"
  /\ control
  /\ control' = FALSE
  /\ Go("handler", "pending")
  /\ UNCHANGED <<status, handles, waits, backend, orig_argv>>

DispatcherReturns ==
  /\ at["handler"] = "none" /\ reported.state = "STOPPED"
  /\ Moves("main", "dispatch", "freeArgs")

FreeArgs ==
  /\ At("main", "freeArgs")
  /\ orig_argv' = "freed"
  /\ Go("main", "exit")
  /\ UNCHANGED <<status, handles, waits, control, backend>>

(* exit ends the other threads where they are. *)
Exit == Moves("main", "exit", "exited")

-----------------------------------------------------------------------------
(* send_stop_signal and wait_on_blkback_thread, called by service_main and   *)
(* by the handler.                                                           *)
Signal(t) ==
  /\ At(t, "signal")
  /\ SendStopSignal
  /\ waited' = [waited EXCEPT ![t] = 0]
  /\ Go(t, "wait")
  /\ UNCHANGED <<status, stop_event_ready, blkback_thread, longest_wait, control, backend, orig_argv>>

CountWait(t) ==
  /\ waited' = [waited EXCEPT ![t] = @ + 1]
  /\ longest_wait' = IF longest_wait < waited'[t] THEN waited'[t] ELSE longest_wait

(* Mutant: the first timeout ends the wait. *)
WaitOnce(t) ==
  /\ At(t, "wait")
  /\ CountWait(t)
  /\ Go(t, "stopped")
  /\ UNCHANGED <<status, handles, control, backend, orig_argv>>

(* Mutant: the wait has no limit. *)
WaitInfinite(t) ==
  /\ at["worker"] = "done" \/ ~blkback_thread
  /\ Moves(t, "wait", "stopped")

(* Mutant: one wait more than the limit. *)
WaitOnceMore(t) ==
  /\ At(t, "wait")
  /\ CountWait(t)
  /\ Go(t, IF at["worker"] # "done" /\ waited[t] <= WAIT_LIMIT THEN "checkpoint" ELSE "stopped")
  /\ UNCHANGED <<status, handles, control, backend, orig_argv>>

(* The handles may be closed by then: the handler outlives service_main.     *)
Wait(t) ==
  /\ At(t, "wait")
  /\ CountWait(t)
  /\ \/ /\ at["worker"] = "done" \/ ~blkback_thread
        /\ Go(t, "stopped")
     \/ /\ at["worker"] # "done" /\ blkback_thread
        /\ Go(t, IF waited'[t] < WAIT_LIMIT THEN "checkpoint" ELSE "stopped")
  /\ UNCHANGED <<status, handles, control, backend, orig_argv>>

Checkpoint(t) == Marks(t, "checkpoint", "wait")

(* The last report of both. *)
Stopped(t) ==
  Reports(t, "stopped", IF t = "handler" THEN "none" ELSE "closeEvent", FALSE, "STOPPED")

(* service_ctrl_handler, for STOP and PRESHUTDOWN. *)
HandlerPending == Reports("handler", "pending", "signal", FALSE, "STOP_PENDING")

Handler == HandlerPending \/ Signal("handler") \/ Wait("handler") \/ Checkpoint("handler") \/ Stopped("handler")

-----------------------------------------------------------------------------
(* service_main. *)
RegisterHandler ==
  /\ At("service_main", "init")
  /\ \/ Go("service_main", "start")
     \/ Go("service_main", "done")
  /\ stop_event_ready' = FALSE
  /\ UNCHANGED <<status, stop_event, blkback_thread, others>>

StartPending == Reports("service_main", "start", "event", FALSE, "START_PENDING")

CreateStopEvent ==
  /\ At("service_main", "event")
  /\ \/ /\ stop_event' = [open |-> TRUE, signalled |-> FALSE]
        /\ Go("service_main", "eventCreated")
     \/ /\ UNCHANGED stop_event
        /\ Go("service_main", "stopWithError")
  /\ UNCHANGED <<status, stop_event_ready, blkback_thread, others>>

EventCreated == Marks("service_main", "eventCreated", "ready")

(* Mutant: the event is not marked ready. *)
StopEventUnmarked == Moves("service_main", "ready", "thread")

StopEventReady ==
  /\ At("service_main", "ready")
  /\ stop_event_ready' = TRUE
  /\ Go("service_main", "thread")
  /\ UNCHANGED <<status, stop_event, blkback_thread, others>>

CreateWorker ==
  /\ At("service_main", "thread")
  /\ \/ /\ blkback_thread' = TRUE
        /\ at' = [at EXCEPT !["service_main"] = "threadCreated", !["worker"] = "parse"]
        /\ UNCHANGED stop_event
     \/ /\ stop_event' = [stop_event EXCEPT !.open = FALSE]
        /\ Go("service_main", "stopWithError")
        /\ UNCHANGED blkback_thread
  /\ UNCHANGED <<status, stop_event_ready, others>>

ThreadCreated == Marks("service_main", "threadCreated", "run")

StopWithError == Reports("service_main", "stopWithError", "done", FALSE, "STOPPED")

Running ==
  /\ At("service_main", "run")
  /\ \E ok \in BOOLEAN :
       /\ SetStatus(TRUE, "RUNNING", ok)
       /\ Go("service_main", IF ok THEN "join" ELSE "signal")
  /\ UNCHANGED <<handles, others>>

Join == at["worker"] = "done" /\ Moves("service_main", "join", "stopped")

CloseStopEvent ==
  /\ At("service_main", "closeEvent")
  /\ stop_event' = [stop_event EXCEPT !.open = FALSE]
  /\ Go("service_main", "closeThread")
  /\ UNCHANGED <<status, stop_event_ready, blkback_thread, others>>

CloseThread ==
  /\ At("service_main", "closeThread")
  /\ blkback_thread' = FALSE
  /\ Go("service_main", "done")
  /\ UNCHANGED <<status, stop_event, stop_event_ready, others>>

ServiceMain ==
  \/ RegisterHandler \/ StartPending \/ CreateStopEvent \/ EventCreated \/ StopEventReady
  \/ CreateWorker \/ ThreadCreated \/ StopWithError \/ Running \/ Join
  \/ Signal("service_main") \/ Wait("service_main") \/ Checkpoint("service_main")
  \/ Stopped("service_main") \/ CloseStopEvent \/ CloseThread

-----------------------------------------------------------------------------
(* blkback_worker.  Parsing, creating or starting the backend can throw;     *)
(* creating it with --wait spins until the Xen interface is there.           *)
ParseOrigArgs ==
  /\ orig_argv = "copied"
  /\ \E there \in {"start", "done"} : Moves("worker", "parse", there)

(* argv is null after freeArgs while orig_argc is not zero. *)
ParseFreedArgs ==
  /\ At("worker", "parse")
  /\ orig_argv = "freed"
  /\ Go("main", "exited")
  /\ UNCHANGED <<status, handles, others>>

StartBackend ==
  /\ At("worker", "start")
  /\ \/ backend' = TRUE /\ Go("worker", "await")
     \/ UNCHANGED backend /\ Go("worker", "done")
  /\ UNCHANGED <<status, handles, waits, control, orig_argv>>

(* Mutant: the event is reset before the wait. *)
ResetAndAwait ==
  /\ At("worker", "await")
  /\ stop_event' = [stop_event EXCEPT !.signalled = FALSE]
  /\ stop_event.signalled /\ Go("worker", "await")
  /\ UNCHANGED <<status, stop_event_ready, blkback_thread, others>>

AwaitStopSignal ==
  /\ ~stop_event_ready \/ stop_event.signalled
  /\ Moves("worker", "await", IF stop_event_ready THEN "reset" ELSE "stop")

ResetStopEvent ==
  /\ At("worker", "reset")
  /\ stop_event' = IF stop_event.open THEN [stop_event EXCEPT !.signalled = FALSE] ELSE stop_event
  /\ Go("worker", "stop")
  /\ UNCHANGED <<status, stop_event_ready, blkback_thread, others>>

StopBackend ==
  /\ At("worker", "stop")
  /\ backend' = FALSE
  /\ Go("worker", "done")
  /\ UNCHANGED <<status, handles, waits, control, orig_argv>>

Worker ==
  \/ ParseOrigArgs \/ ParseFreedArgs \/ StartBackend
  \/ AwaitStopSignal \/ ResetStopEvent \/ StopBackend

(* While there is a backend, the library may have it open an image.  Where   *)
(* that fails, throw; has no exception to throw again, and the process is    *)
(* terminated as it is.                                                      *)
Terminate == \E here \in {"start", "await", "reset", "stop"} :
  At("worker", here) /\ Go("main", "terminated") /\ UNCHANGED <<status, handles, others>>

(* The SCM sends a stop control if the last report accepts it. *)
SendControl ==
  /\ reported.accepts /\ ~control
  /\ at["main"] = "dispatch" /\ at["handler"] = "none"
  /\ control' = TRUE
  /\ UNCHANGED <<status, handles, at, waits, backend, orig_argv>>

Main == CopyArgs \/ ServiceStart \/ Dispatch \/ DispatcherReturns \/ FreeArgs \/ Exit

Next == Main \/ Handler \/ ServiceMain \/ Worker \/ Terminate \/ SendControl

Spec == Init /\ [][Next]_vars

(* The threads of the process are scheduled.  The worker is not assumed to   *)
(* get anywhere: creating or stopping the backend may take for ever.  Nor    *)
(* need an image ever fail to open.                                          *)
FairSpec == Spec /\ WF_vars(Main) /\ WF_vars(Handler) /\ WF_vars(ServiceMain)

-----------------------------------------------------------------------------
(* The variables have their types, and the worker exists from CreateThread   *)
(* on.                                                                       *)
TypeOK ==
  /\ service_status \in Report /\ reported \in Report
  /\ stop_event \in [open : BOOLEAN, signalled : BOOLEAN]
  /\ waited \in [Waiter -> 0 .. WAIT_LIMIT] /\ longest_wait \in 0 .. WAIT_LIMIT
  /\ blkback_thread => at["worker"] # "none"
  /\ backend => at["worker"] \in {"await", "reset", "stop"}

(* As long as service_main has not made its last report, the SCM can send a  *)
(* stop control only when that control will reach the worker: the event      *)
(* exists and is marked ready, and the handler has a thread to wait for.     *)
AcceptingMeansStoppable ==
  reported.accepts /\ at["service_main"] \notin {"closeEvent", "closeThread", "done"} =>
    stop_event_ready /\ stop_event.open /\ blkback_thread

(* Whatever happens at the same time (checkpoints of both threads, a failed  *)
(* report of RUNNING, a worker that ends by itself), the SCM never sees the  *)
(* service run again once it was told that it stops.                         *)
NeverRunsAgain ==
  [][reported.state \in {"STOP_PENDING", "STOPPED"} =>
       reported'.state \in {"STOP_PENDING", "STOPPED"}]_vars

(* STOPPED is reported, and the process exits, before the worker has         *)
(* released the backend only if a thread has waited for it as long as        *)
(* SERVICE_WAIT_HINT says.                                                   *)
GivenUp == reported.state = "STOPPED" /\ at["worker"] \notin {"none", "done"}
StopsOnlyAfterWait == GivenUp => longest_wait >= WAIT_LIMIT

(* The worker may find its arguments freed, which is the end of the process, *)
(* and main exits without waiting for other threads.  Still, once            *)
(* service_main has begun, the process is gone without a report of STOPPED   *)
(* only if an image failed to open in a backend that was there.              *)
ExitIsReported ==
  Gone /\ at["service_main"] # "none" => reported.state = "STOPPED" \/ at["main"] = "terminated"

(* The comment in service_main (Service.cpp, lines 267 to 273): accepting    *)
(* only PRESHUTDOWN gives the worker 3 minutes to release its resources.     *)
WorkerHasThreeMinutes == GivenUp => longest_wait >= PRESHUTDOWN_WAITS

(* A checkpoint is reported in a pending state; mark_checkpoint logs any     *)
(* other as invalid (Service.cpp, lines 170 to 186).                         *)
CheckpointsWhilePending ==
  reported.checkpoint > 0 => reported.state \in {"START_PENDING", "STOP_PENDING"}

(* A stop control ends in a report of STOPPED, or the process is gone,       *)
(* however long the worker takes: no thread waits for ever for another.      *)
(* (A report may fail, and nobody repeats the last one.)                     *)
StopIsReported ==
  control ~> (reported.state = "STOPPED" \/ Gone \/ failures > 0)

(* The stop signal is not lost, whether the worker waits for it already, is  *)
(* still starting, or has failed, if the worker gets on at all.              *)
StopReachesWorker ==
  WF_vars(Worker) =>
    (stop_event.signalled ~> (at["worker"] = "done" \/ Gone))
=============================================================================

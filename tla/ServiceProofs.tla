----------------------------- MODULE ServiceProofs -----------------------------
(* The safety properties of Service, proved for every wait limit and every   *)
(* number of failing reports.                                                *)
EXTENDS Service, TLAPS

-----------------------------------------------------------------------------
(* The inductive invariant.  BeforeRun is where service_main has reported    *)
(* nothing but START_PENDING, AfterRun is where it has tried to report       *)
(* RUNNING, and Ended is after its last report.                              *)
BeforeRun ==
  {"none", "init", "start", "event", "eventCreated", "ready", "thread", "threadCreated", "run", "stopWithError"}
AfterRun == {"join", "signal", "wait", "checkpoint", "stopped"}
Ended == {"closeEvent", "closeThread", "done"}
Stopping == {"STOP_PENDING", "STOPPED"}
Thread == {"main", "handler", "service_main", "worker"}

Positions ==
  /\ DOMAIN at = Thread
  /\ at["main"] \in {"copyArgs", "serviceStart", "dispatch", "freeArgs", "exit", "exited", "terminated"}
  /\ at["handler"] \in {"none", "pending", "signal", "wait", "checkpoint", "stopped"}
  /\ at["service_main"] \in BeforeRun \cup AfterRun \cup Ended
  /\ at["worker"] \in {"none", "parse", "start", "await", "reset", "stop", "done"}

(* Which thread can exist, given where the others are.                       *)
Lifetimes ==
  /\ at["service_main"] # "none" => at["main"] \notin {"copyArgs", "serviceStart"}
  /\ at["handler"] # "none" => at["main"] \in {"dispatch", "terminated"} /\ ~control
  /\ at["worker"] # "none" =>
       /\ at["service_main"] \in {"threadCreated", "run"} \cup AfterRun \cup Ended
       /\ blkback_thread \/ at["service_main"] = "done"
  /\ orig_argv = "freed" => at["main"] \in {"exit", "exited", "terminated"}

(* What service_main has created where it is.                                *)
Created ==
  /\ at["service_main"] \in {"eventCreated", "ready", "thread", "threadCreated", "run"} \cup AfterRun =>
       stop_event.open
  /\ at["service_main"] \in {"thread", "threadCreated", "run"} \cup AfterRun => stop_event_ready
  /\ at["service_main"] \in {"threadCreated", "run"} \cup AfterRun => blkback_thread

(* What has been reported where service_main is: nothing that accepts a stop *)
(* or says one before RUNNING; and when nobody stops the service any more,   *)
(* STOPPED is not followed by another state.                                 *)
Reported ==
  /\ at["service_main"] \in BeforeRun =>
       /\ at["handler"] = "none" /\ ~control
       /\ ~reported.accepts /\ ~service_status.accepts
       /\ reported.state \notin Stopping /\ service_status.state \notin Stopping
  /\ reported.state \in Stopping => service_status.state \in Stopping
  /\ reported.state = "STOPPED" /\ at["handler"] = "none" =>
       service_status.state = "STOPPED" \/ at["service_main"] \in Ended
  /\ at["main"] \in {"freeArgs", "exit", "exited"} /\ at["service_main"] # "none" =>
       reported.state = "STOPPED"

(* STOPPED is only reported, or about to be, after a wait to the limit,      *)
(* unless the worker is done.                                                *)
Waited ==
  /\ \A t \in Waiter : at[t] \in {"wait", "checkpoint"} => waited[t] < WAIT_LIMIT
  /\ \/ at["worker"] \in {"none", "done"}
     \/ longest_wait >= WAIT_LIMIT
     \/ /\ at["handler"] # "stopped" /\ at["service_main"] \notin {"stopped"} \cup Ended
        /\ service_status.state # "STOPPED" /\ reported.state # "STOPPED"

ServiceInv == TypeOK /\ Positions /\ Lifetimes /\ Created /\ Reported /\ Waited

-----------------------------------------------------------------------------
(* The invariant holds before the service starts.                            *)
LEMMA ServiceInit == Init => ServiceInv
<1> SUFFICES ASSUME Init PROVE ServiceInv
  OBVIOUS
<1>1. TypeOK
  BY WaitLimits DEF Init, TypeOK, Report, State, Waiter
<1>2. Positions
  BY DEF Init, Positions, Thread, BeforeRun
<1>3. QED
  BY <1>1, <1>2 DEF Init, ServiceInv, Lifetimes, Created, Reported, Waited, BeforeRun, AfterRun, Ended, Stopping, Waiter

(* main, the dispatcher and the SCM preserve it.                             *)
LEMMA MainSteps ==
  ASSUME ServiceInv, Main \/ SendControl
  PROVE  ServiceInv'
<1> USE DEF ServiceInv, TypeOK, Positions, Lifetimes, Created, Reported, Waited, Thread, BeforeRun, AfterRun, Ended, Stopping, Waiter, At, Gone, Go, Moves, status, handles, others, waits
<1>1. CASE CopyArgs
  BY <1>1 DEF CopyArgs
<1>2. CASE ServiceStart
  BY <1>2 DEF ServiceStart
<1>3. CASE Dispatch
  BY <1>3 DEF Dispatch
<1>4. CASE DispatcherReturns
  BY <1>4 DEF DispatcherReturns
<1>5. CASE FreeArgs
  BY <1>5 DEF FreeArgs
<1>6. CASE Exit
  BY <1>6 DEF Exit
<1>7. CASE SendControl
  BY <1>7 DEF SendControl
<1>8. QED
  BY <1>1, <1>2, <1>3, <1>4, <1>5, <1>6, <1>7 DEF Main

(* What set_status leaves: the status asked for, reported or not.            *)
LEMMA ReportTypes ==
  ASSUME TypeOK, NEW accepts \in BOOLEAN, NEW state \in State, NEW ok \in BOOLEAN,
         SetStatus(accepts, state, ok)
  PROVE  /\ service_status'.accepts = accepts /\ service_status'.state = state
         /\ reported' = service_status' \/ (reported' = reported /\ ~ok)
         /\ service_status' \in Report /\ reported' \in Report
<1> DEFINE new == [accepts |-> accepts, state |-> state, checkpoint |-> 0]
<1>1. new \in Report /\ new.accepts = accepts /\ new.state = state
  BY DEF Report
<1>2. service_status' = new /\ SetServiceStatus(service_status', ok)
  BY DEF SetStatus
<1> HIDE DEF new
<1>3. reported' = service_status' \/ (reported' = reported /\ ~ok)
  BY <1>2 DEF SetServiceStatus
<1>4. QED
  BY <1>1, <1>2, <1>3 DEF TypeOK

(* An event stays an event, and signalling it does not close it.            *)
LEMMA EventTypes ==
  ASSUME NEW event \in [open : BOOLEAN, signalled : BOOLEAN], NEW b \in BOOLEAN
  PROVE  /\ [event EXCEPT !.open = b] \in [open : BOOLEAN, signalled : BOOLEAN]
         /\ [event EXCEPT !.signalled = b] \in [open : BOOLEAN, signalled : BOOLEAN]
         /\ [event EXCEPT !.signalled = b].open = event.open
  OBVIOUS

(* A checkpoint reports the state that was set last.                        *)
LEMMA CheckpointTypes ==
  ASSUME TypeOK, MarkCheckpoint
  PROVE  /\ service_status'.accepts = service_status.accepts
         /\ service_status'.state = service_status.state
         /\ reported' = service_status' \/ reported' = reported
         /\ service_status' \in Report /\ reported' \in Report
  BY DEF MarkCheckpoint, SetServiceStatus, TypeOK, Report

(* The steps service_main and the handler have in common.                    *)
LEMMA WaitingSteps ==
  ASSUME ServiceInv, NEW t \in Waiter,
         Signal(t) \/ Wait(t) \/ Checkpoint(t) \/ Stopped(t)
  PROVE  ServiceInv'
<1> USE WaitLimits DEF ServiceInv, TypeOK, Positions, Lifetimes, Created, Reported, Waited, Thread, BeforeRun, AfterRun, Ended, Stopping, Waiter, At, Gone, Go, status, handles, others, waits
<1>1. CASE Signal(t)
  <2>1. stop_event' \in [open : BOOLEAN, signalled : BOOLEAN] /\ stop_event'.open = stop_event.open
    BY <1>1, EventTypes DEF Signal, SendStopSignal
  <2>2. QED
    BY <1>1, <2>1 DEF Signal
<1>2. CASE Wait(t)
  BY <1>2 DEF Wait, CountWait
<1>3. CASE Checkpoint(t)
  BY <1>3, CheckpointTypes DEF Checkpoint, Marks
<1>4. CASE Stopped(t)
  <2>1. CASE t = "handler"
    BY ZenonT(40), <1>4, <2>1, ReportTypes DEF Stopped, Reports, State
  <2>2. CASE t = "service_main"
    BY ZenonT(40), <1>4, <2>2, ReportTypes DEF Stopped, Reports, State
  <2>3. QED
    BY <2>1, <2>2
<1>5. QED
  BY <1>1, <1>2, <1>3, <1>4

(* The handler's steps.                                                      *)
LEMMA HandlerSteps ==
  ASSUME ServiceInv, Handler
  PROVE  ServiceInv'
<1>1. CASE HandlerPending
  BY ZenonT(40), <1>1, ReportTypes
     DEF ServiceInv, TypeOK, Positions, Lifetimes, Created, Reported, Waited, Thread, BeforeRun, AfterRun, Ended, Stopping, Waiter, At, Gone, Go, handles, others, waits, HandlerPending, Reports, State
<1>2. QED
  BY <1>1, WaitingSteps DEF Handler, Waiter

(* service_main's steps.                                                     *)
LEMMA ServiceMainSteps ==
  ASSUME ServiceInv, ServiceMain
  PROVE  ServiceInv'
<1> USE DEF ServiceInv, TypeOK, Positions, Lifetimes, Created, Reported, Waited, Thread, BeforeRun, AfterRun, Ended, Stopping, Waiter, At, Gone, Go, Moves, status, handles, others, waits
<1>1. CASE RegisterHandler
  BY <1>1 DEF RegisterHandler
<1>2. CASE StartPending
  BY ZenonT(40), <1>2, ReportTypes DEF StartPending, Reports, State
<1>3. CASE CreateStopEvent
  <2>1. CASE stop_event' = [open |-> TRUE, signalled |-> FALSE] /\ at' = [at EXCEPT !["service_main"] = "eventCreated"]
    <3>1. stop_event' \in [open : BOOLEAN, signalled : BOOLEAN] /\ stop_event'.open
      BY <2>1
    <3>2. QED
      BY <1>3, <2>1, <3>1 DEF CreateStopEvent
  <2>2. CASE UNCHANGED stop_event /\ at' = [at EXCEPT !["service_main"] = "stopWithError"]
    BY <1>3, <2>2 DEF CreateStopEvent
  <2>3. QED
    BY <1>3, <2>1, <2>2 DEF CreateStopEvent
<1>4. CASE EventCreated
  BY <1>4, CheckpointTypes DEF EventCreated, Marks
<1>5. CASE StopEventReady
  BY <1>5 DEF StopEventReady
<1>6. CASE CreateWorker
  <2>1. CASE blkback_thread' = TRUE /\ UNCHANGED stop_event
    BY <1>6, <2>1 DEF CreateWorker
  <2>2. CASE stop_event' = [stop_event EXCEPT !.open = FALSE]
    <3>1. stop_event' \in [open : BOOLEAN, signalled : BOOLEAN]
      BY <2>2, EventTypes
    <3>2. QED
      BY <1>6, <3>1 DEF CreateWorker
  <2>3. QED
    BY <1>6, <2>1, <2>2 DEF CreateWorker
<1>7. CASE ThreadCreated
  BY <1>7, CheckpointTypes DEF ThreadCreated, Marks
<1>8. CASE StopWithError
  BY <1>8, ReportTypes DEF StopWithError, Reports, State
<1>9. CASE Running
  BY ZenonT(40), <1>9, ReportTypes DEF Running, State
<1>10. CASE Join
  BY <1>10 DEF Join
<1>11. CASE CloseStopEvent
  BY ZenonT(40), <1>11 DEF CloseStopEvent
<1>12. CASE CloseThread
  BY <1>12 DEF CloseThread
<1>13. QED
  BY <1>1, <1>2, <1>3, <1>4, <1>5, <1>6, <1>7, <1>8, <1>9, <1>10, <1>11, <1>12, WaitingSteps DEF ServiceMain

(* The worker's steps, and the end of the process during one of them.        *)
LEMMA WorkerSteps ==
  ASSUME ServiceInv, Worker \/ Terminate
  PROVE  ServiceInv'
<1> USE DEF ServiceInv, TypeOK, Positions, Lifetimes, Created, Reported, Waited, Thread, BeforeRun, AfterRun, Ended, Stopping, Waiter, At, Gone, Go, Moves, status, handles, others, waits
<1>1. CASE ParseOrigArgs
  BY <1>1 DEF ParseOrigArgs
<1>2. CASE ParseFreedArgs
  BY <1>2 DEF ParseFreedArgs
<1>3. CASE StartBackend
  BY <1>3 DEF StartBackend
<1>4. CASE AwaitStopSignal
  BY <1>4 DEF AwaitStopSignal
<1>5. CASE ResetStopEvent
  <2>1. stop_event' \in [open : BOOLEAN, signalled : BOOLEAN] /\ stop_event'.open = stop_event.open
    BY <1>5, EventTypes DEF ResetStopEvent
  <2>2. QED
    BY <1>5, <2>1 DEF ResetStopEvent
<1>6. CASE StopBackend
  BY <1>6 DEF StopBackend
<1>7. CASE Terminate
  BY <1>7 DEF Terminate
<1>8. QED
  BY <1>1, <1>2, <1>3, <1>4, <1>5, <1>6, <1>7 DEF Worker

(* Every step preserves the invariant.                                       *)
LEMMA ServiceStep == ServiceInv /\ [Next]_vars => ServiceInv'
<1>1. ASSUME ServiceInv, UNCHANGED vars
      PROVE  ServiceInv'
  BY <1>1 DEF ServiceInv, TypeOK, Positions, Lifetimes, Created, Reported, Waited, vars, status, handles, others, waits
<1>2. QED
  BY <1>1, MainSteps, HandlerSteps, ServiceMainSteps, WorkerSteps DEF Next

(* Every reachable state of the service satisfies the invariant.             *)
THEOREM ServiceCorrect == Spec => []ServiceInv
  BY ServiceInit, ServiceStep, PTL DEF Spec

(* The variables keep their types, no wait counts beyond the limit, and the  *)
(* backend's resources are held by a worker that exists.                     *)
THEOREM ServiceTypeCorrect == Spec => []TypeOK
<1>1. ServiceInv => TypeOK
  BY DEF ServiceInv
<1>2. QED
  BY <1>1, ServiceCorrect, PTL

(* A stop control is accepted only while it can be served, for every number  *)
(* of reports that fail.                                                     *)
THEOREM StopControlCorrect == Spec => []AcceptingMeansStoppable
<1>1. ServiceInv => AcceptingMeansStoppable
  BY DEF ServiceInv, AcceptingMeansStoppable, Positions, Created, Reported, BeforeRun, AfterRun, Ended
<1>2. QED
  BY <1>1, ServiceCorrect, PTL

(* The service reports STOPPED over a living worker only after a wait that   *)
(* reached the limit, whatever the limit is.                                 *)
THEOREM WaitCorrect == Spec => []StopsOnlyAfterWait
<1>1. ServiceInv => StopsOnlyAfterWait
  BY DEF ServiceInv, Waited, StopsOnlyAfterWait, GivenUp
<1>2. QED
  BY <1>1, ServiceCorrect, PTL

(* The process does not vanish before the SCM was told that it stopped,      *)
(* unless an image that fails to open takes it down: neither the end of main *)
(* nor a worker that finds its arguments freed can come before the report.   *)
THEOREM ExitCorrect == Spec => []ExitIsReported
<1>1. ServiceInv => ExitIsReported
  BY DEF ServiceInv, Reported, ExitIsReported, Gone
<1>2. QED
  BY <1>1, ServiceCorrect, PTL

-----------------------------------------------------------------------------
(* A step leaves the last report alone, or makes one that does not go back    *)
(* from stopping.                                                            *)
LEMMA ReportSteps ==
  ASSUME ServiceInv, [Next]_vars, reported.state \in Stopping
  PROVE  reported'.state \in Stopping
<1>1. TypeOK /\ service_status.state \in Stopping /\ at["service_main"] \notin {"start", "run"}
  BY DEF ServiceInv, Reported, BeforeRun
<1>2. ASSUME NEW t \in Thread, NEW here, NEW there, NEW accepts \in BOOLEAN, NEW state \in Stopping,
             Reports(t, here, there, accepts, state)
      PROVE  reported'.state \in Stopping
  BY <1>1, <1>2, ReportTypes DEF Reports, Stopping, State
<1>3. ASSUME NEW t \in Thread, NEW here, NEW there, Marks(t, here, there)
      PROVE  reported'.state \in Stopping
  BY <1>1, <1>3, CheckpointTypes DEF Marks
<1>4. ASSUME UNCHANGED status
      PROVE  reported'.state \in Stopping
  BY <1>4 DEF status
<1>5. CASE Main \/ SendControl \/ UNCHANGED vars
  BY <1>4, <1>5 DEF Main, CopyArgs, ServiceStart, Dispatch, DispatcherReturns, FreeArgs, Exit, SendControl, Moves, vars
<1>6. ASSUME NEW t \in Waiter, Signal(t) \/ Wait(t) \/ Checkpoint(t) \/ Stopped(t)
      PROVE  reported'.state \in Stopping
  <2>1. CASE Signal(t) \/ Wait(t)
    BY <1>4, <2>1 DEF Signal, Wait
  <2>2. CASE Checkpoint(t)
    BY <1>3, <2>2 DEF Checkpoint, Waiter, Thread
  <2>3. CASE Stopped(t)
    BY <1>2, <2>3 DEF Stopped, Waiter, Thread, Stopping
  <2>4. QED
    BY <1>6, <2>1, <2>2, <2>3
<1>7. CASE Handler
  <2>1. CASE HandlerPending
    BY <1>2, <2>1 DEF HandlerPending, Thread, Stopping
  <2>2. QED
    BY <1>6, <1>7, <2>1 DEF Handler, Waiter
<1>8. CASE ServiceMain
  <2>1. CASE RegisterHandler \/ CreateStopEvent \/ StopEventReady \/ CreateWorker \/ Join \/ CloseStopEvent \/ CloseThread
    BY <1>4, <2>1 DEF RegisterHandler, CreateStopEvent, StopEventReady, CreateWorker, Join, CloseStopEvent, CloseThread, Moves
  <2>2. CASE StartPending \/ Running
    BY <1>1, <2>2 DEF StartPending, Running, Reports, At
  <2>3. CASE EventCreated \/ ThreadCreated
    BY <1>3, <2>3 DEF EventCreated, ThreadCreated, Thread
  <2>4. CASE StopWithError
    BY <1>2, <2>4 DEF StopWithError, Thread, Stopping
  <2>5. QED
    BY <1>6, <1>8, <2>1, <2>2, <2>3, <2>4 DEF ServiceMain, Waiter
<1>9. CASE Worker \/ Terminate
  BY <1>4, <1>9 DEF Worker, Terminate, ParseOrigArgs, ParseFreedArgs, StartBackend, AwaitStopSignal, ResetStopEvent, StopBackend, Moves
<1>10. QED
  BY <1>5, <1>7, <1>8, <1>9 DEF Next

(* The SCM never sees the service run again once it was told that it stops.  *)
THEOREM StoppingCorrect == Spec => NeverRunsAgain
<1>1. ServiceInv /\ [Next]_vars =>
        [reported.state \in {"STOP_PENDING", "STOPPED"} => reported'.state \in {"STOP_PENDING", "STOPPED"}]_vars
  BY ReportSteps DEF Stopping
<1>2. QED
  BY <1>1, ServiceCorrect, PTL DEF Spec, NeverRunsAgain
=============================================================================

-------------------------- MODULE WifiManagerTask --------------------------
(***************************************************************************)
(* WifiManagerTask.cpp around the manager: the application's thread, the   *)
(* task that waits on the queue and dispatches, the event loop that runs   *)
(* the adapter's handler, the HTTP server that posts credentials, and the  *)
(* driver.  They interleave between handlers: a handler of the manager     *)
(* runs to its end once it has begun.                                      *)
(***************************************************************************)
EXTENDS WifiManager

CONSTANTS
    TickMs,             \* kTickIntervalMs
    Inputs,             \* which of the calls below happen
    StopMayTimeOut,     \* Stop's bounded wait may end before the task does
    MaxDriverEvents     \* bound: nothing adds to so many unhandled driver events

ASSUME TaskAssumption ==
    /\ TickMs \in Nat \ {0}
    /\ Inputs \subseteq {"Init", "Stop", "ForceProvisioning", "Resubmit", "Network",
                   "Destroy", "PowerLoss"}
    /\ StopMayTimeOut \in BOOLEAN
    /\ MaxDriverEvents \in Nat \ {0}

VARIABLES
    taskRunning,    \* the task's running_
    task,           \* where the task is; "none" when taskHandle_ is null
    current,        \* the event it has received
    app             \* where the application's thread is

taskVars == <<taskRunning, task, current, app>>

vars == <<objectVars, queueVars, taskVars>>

NoEvent == PlainEvent(kProvisioningRequested)

TaskSpecInit ==
    /\ ManagerInit
    /\ taskRunning = FALSE
    /\ task = "none"
    /\ current = NoEvent
    /\ app = "idle"

\* A new task with its manager.
TaskConstruct ==
    /\ Construct
    /\ taskRunning' = FALSE
    /\ task' = "none"
    /\ current' = NoEvent
    /\ app' = "idle"

\* The application and the driver wait for room before they may post an event.  The
\* task's handlers do not: they cannot be held up, and may post one past the bound.
DriverHasRoom == Len(drv.events) < MaxDriverEvents

\* An event of a type on its way to the manager.
InQueue(type) == \E i \in 1..Len(queue) : queue[i].type = type
InHand(type) == task = "dispatch" /\ current.type = type

------------------------------------------------------------------------------
\* The application's thread.

TaskInit ==
    /\ app = "idle"
    /\ ~taskRunning
    /\ ~initialized \/ "Init" \in Inputs
    /\ Init
    /\ UNCHANGED <<queueVars, taskVars>>

\* Start up to the creation of the task.  Bound: a task that outlived a Stop is
\* gone before the next Start.
TaskStart ==
    /\ app = "idle"
    /\ ~taskRunning
    /\ task = "none"
    /\ DriverHasRoom
    /\ Start
    /\ queue' = <<>>
    /\ externalQueue' = running'
    /\ taskRunning' = running'
    /\ app' = IF running' THEN "creating" ELSE "idle"
    /\ lostEvent' = FALSE
    /\ UNCHANGED <<task, current>>

TaskCreated ==
    /\ app = "creating"
    /\ task' = "loop"
    /\ app' = "idle"
    /\ UNCHANGED <<objectVars, queueVars, taskRunning, current>>

TaskNotCreated ==
    /\ app = "creating"
    /\ MayFail("xTaskCreate")
    /\ Stop
    /\ externalQueue' = FALSE
    /\ queue' = <<>>
    /\ taskRunning' = FALSE
    /\ app' = "idle"
    /\ UNCHANGED <<lostEvent, task, current>>

\* Stop: lower the flag and wake the task, wait for it, stop the manager.
Stopping ==
    /\ "Stop" \in Inputs
    /\ app = "idle"
    /\ taskRunning
    /\ DriverHasRoom
    /\ taskRunning' = FALSE
    /\ queue' = IF Len(queue) < QueueCapacity
                THEN Append(queue, PlainEvent(kProvisioningRequested)) ELSE queue
    /\ app' = "stopping"
    /\ UNCHANGED <<objectVars, externalQueue, lostEvent, task, current>>

\* The wait is bounded (50 polls of 20 ms), which outlasts a tick but not every
\* handler: it may end while the task is inside one.
Stopped ==
    /\ app = "stopping"
    /\ task = "none" \/ (StopMayTimeOut /\ task \in {"dispatch", "tick"})
    /\ Stop
    /\ externalQueue' = FALSE
    /\ queue' = <<>>
    /\ app' = "idle"
    /\ UNCHANGED <<lostEvent, taskRunning, task, current>>

AppForcesProvisioning ==
    /\ "ForceProvisioning" \in Inputs
    /\ app = "idle"
    /\ DriverHasRoom
    /\ ForceProvisioning
    /\ UNCHANGED <<queueVars, taskVars>>

\* The destructors of the task, which has been stopped, and of its manager.  Bound:
\* an HTTP server that would not stop does not outlive its object.
Destroy ==
    /\ "Destroy" \in Inputs
    /\ app = "idle"
    /\ ~taskRunning
    /\ task = "none"
    /\ initialized
    /\ ~portal.http
    /\ DriverHasRoom
    /\ \E stopped \in AdapterStop(ad, drv) :
         \E o \in AdapterDeinit(stopped.ad, stopped.drv) : drv' = o.drv
    /\ TaskConstruct
    /\ UNCHANGED nvs

------------------------------------------------------------------------------
\* The task.

Receive ==
    /\ task = "loop"
    /\ queue # <<>>
    /\ current' = Head(queue)
    /\ queue' = Tail(queue)
    /\ task' = IF taskRunning THEN "dispatch" ELSE "none"
    /\ UNCHANGED <<objectVars, externalQueue, lostEvent, taskRunning, app>>

\* The queue stayed empty for a tick.
ReceiveTimesOut ==
    /\ task = "loop"
    /\ queue = <<>>
    /\ task' = IF taskRunning THEN "tick" ELSE "none"
    /\ UNCHANGED <<objectVars, queueVars, taskRunning, current, app>>

\* The loop's condition, when the flag is down before the next receive.
LeaveLoop ==
    /\ task = "loop"
    /\ ~taskRunning
    /\ task' = "none"
    /\ UNCHANGED <<objectVars, queueVars, taskRunning, current, app>>

DispatchReceived ==
    /\ task = "dispatch"
    /\ Dispatch(current)
    /\ task' = "loop"
    /\ current' = NoEvent
    /\ UNCHANGED <<queueVars, taskRunning, app>>

Tick ==
    /\ task = "tick"
    /\ AdvanceRetryTimer(TickMs)
    /\ task' = "loop"
    /\ UNCHANGED <<queueVars, taskRunning, current, app>>

------------------------------------------------------------------------------
\* The event loop, the HTTP server and the driver.

\* EventHandler on the oldest event.  Nobody looks at what the sink returns.
HandleAdapterEvent ==
    /\ drv.events # <<>>
    /\ LET event == Head(drv.events)
           face  == FaceOf(state, runtimeStatus, portal, AfterEvent(ad, event),
                           [drv EXCEPT !.events = Tail(@)])
       IN  \/ /\ Emits(ad, event)
              /\ Deliver(EmittedEvent(event), face)
              /\ lostEvent' = (lostEvent \/ (externalQueue /\ Len(queue) = QueueCapacity))
           \/ /\ ~Emits(ad, event)
              /\ Becomes(face)
              /\ UNCHANGED <<sm, activeCredentials, retryScheduler, initialized,
                             running, forceProvisioning, hasStoredCredentials,
                             nvs, eventQueue, queue, lostEvent>>
    /\ UNCHANGED <<externalQueue, taskVars>>

\* HandlePostConnect with a form that names a network; others change nothing.  A
\* request may outlive the access point it came by.
PostConnect ==
    /\ portal.http
    /\ "Resubmit" \in Inputs \/ ~(InQueue(kCredentialsReceived) \/ InHand(kCredentialsReceived))
    /\ \E credentials \in Credentials :
         Deliver([type |-> kCredentialsReceived, credentials |-> credentials], Face)
    /\ UNCHANGED <<externalQueue, lostEvent, taskVars>>

DriverMoves(successors) ==
    /\ DriverHasRoom
    /\ drv' \in successors
    /\ UNCHANGED <<sm, state, runtimeStatus, portal, ad, activeCredentials,
                   retryScheduler, initialized, running, forceProvisioning,
                   hasStoredCredentials, nvs, eventQueue, queueVars, taskVars>>

StationConnects == "Network" \in Inputs /\ DriverMoves(LinkComesUp(drv))
StationFails    == DriverMoves(ConnectFails(drv))
StationIsLost   == DriverMoves(LinkIsLost(drv))

------------------------------------------------------------------------------
\* The credentials a Save may be writing: the task's, or those of a request that a
\* manager without a queue serves on the spot.
BeingSaved ==
    {c \in {current.credentials} : InHand(kCredentialsReceived) /\ HasSsid(c)}
    \cup (IF portal.http /\ ~externalQueue THEN Credentials ELSE {})

\* The device loses its power; it comes back with what is in flash.
PowerLoss ==
    /\ "PowerLoss" \in Inputs
    /\ nvs' \in {nvs} \cup UNION {InterruptedSaves(nvs, c) : c \in BeingSaved}
    /\ drv' = FreshDriver
    /\ TaskConstruct

------------------------------------------------------------------------------
AppStep  == TaskInit \/ TaskStart \/ TaskCreated \/ TaskNotCreated \/ Stopping
            \/ Stopped \/ AppForcesProvisioning \/ Destroy

TaskStep == Receive \/ ReceiveTimesOut \/ LeaveLoop \/ DispatchReceived \/ Tick

Next == AppStep \/ TaskStep \/ HandleAdapterEvent \/ PostConnect
        \/ StationConnects \/ StationFails \/ StationIsLost \/ PowerLoss

Spec == TaskSpecInit /\ [][Next]_vars

------------------------------------------------------------------------------
\* Fairness.  The scheduler runs every thread that can run, and timers expire;
\* nothing obliges an application, a user or a network to do anything.
CodeFairness ==
    /\ WF_vars(TaskCreated)
    /\ WF_vars(Stopped)
    /\ WF_vars(TaskStep)
    /\ WF_vars(HandleAdapterEvent)

FairSpec == Spec /\ CodeFairness

\* The driver also gives every association attempt an answer.
AnsweredSpec == FairSpec /\ WF_vars(StationConnects \/ StationFails)

------------------------------------------------------------------------------
\* Every variable keeps its type, and the queue its length.
TypeOK ==
    /\ ManagerTypeOK
    /\ externalQueue \in BOOLEAN
    /\ queue \in Seq(WifiManagerEvent)
    /\ Len(queue) <= QueueCapacity
    /\ lostEvent \in BOOLEAN
    /\ taskRunning \in BOOLEAN
    /\ task \in {"none", "loop", "dispatch", "tick"}
    /\ current \in WifiManagerEvent
    /\ app \in {"idle", "creating", "stopping"}

\* A manager at rest stays in its state, whatever events were on their way when it
\* came to rest: only the application's Init and Start, or a new object, take it out.
RestingStays ==
    [][~running /\ state' # state => TaskInit \/ TaskStart \/ Destroy \/ PowerLoss]_vars

\* WifiCredentialStore.cpp:57-63: whenever the power goes or a write fails, a
\* complete pair in flash stays complete, and a password enters flash only beside
\* its own network.  (The name is written first, so the converse does not hold.)
PasswordFollowsName ==
    [][nvs' # nvs =>
          /\ nvs.pass # NotStored => nvs'.pass # NotStored
          /\ nvs'.pass # nvs.pass =>
                [ssid |-> nvs'.ssid, password |-> nvs'.pass] \in BeingSaved]_vars

\* WifiManager.cpp:323-328: a portal that is active outlives kPortal only by an
\* error of the adapter.
PortalOutlivesOnlyErrors ==
    [][state = kPortal /\ portal.active /\ portal'.active
         => state' \in {kPortal, kError}]_vars

\* WifiManagerEspIdfAdapter.cpp: a manager that is connecting is not forgotten by
\* the driver: an attempt is under way, or its outcome is on its way, unless a
\* full queue has dropped it.  The suppression of disconnections that were asked
\* for must not swallow the one that was not.
OutcomePending ==
    \/ \E i \in 1..Len(drv.events) : drv.events[i] \in {"fail", "gotip"}
    \/ \E type \in {kConnectionFailed, kConnectionSucceeded} : InQueue(type) \/ InHand(type)

ConnectingIsWatched ==
    taskRunning /\ state = kConnecting =>
        drv.link = "connecting" \/ OutcomePending \/ lostEvent

\* When nobody stops the manager, forces the portal or submits a form twice,
\* kConnected means that the station has its link, or that its loss is on its way.
ConnectedHasLink ==
    state = kConnected => drv.link = "up" \/ OutcomePending \/ lostEvent

\* main.cpp:35, README.md:9: the portal can be reached, because the SoftAP is up.
PortalHasSoftAp == taskRunning /\ state = kPortal => SoftApUp(drv)

\* README.md:31,34,38: a portal is left for new credentials, a stop or an error
\* (or with the power).
PortalLeftAsDrawn ==
    [][state = kPortal /\ state' # kPortal =>
          \/ state' = kConnecting /\ InHand(kCredentialsReceived)
          \/ state' \in {kStopped, kError}
          \/ PowerLoss]_vars

------------------------------------------------------------------------------
\* The manager and its task implement the life cycle: attempts are counted without
\* a gap from failure to failure, a wait ends only in the attempt it was for, only
\* credentials start a count anew, a forced portal is remembered over a stop, and
\* nothing that was under way moves a manager at rest.
Lifecycle == INSTANCE WifiLifecycle WITH
    MaxAttempts <- MaxConnectAttempts,
    NoDelay     <- InitialReconnectDelayMs = 0 \/ MaxReconnectDelayMs = 0,
    active      <- running,
    status      <- state,
    attempt     <- IF state \in {kConnecting, kWaitingToRetry}
                   THEN sm.connectAttempts ELSE 0,
    forced      <- forceProvisioning,
    report      <- IF task = "dispatch" THEN current.type ELSE "none"

ImplementsLifecycle == Lifecycle!Spec

------------------------------------------------------------------------------
\* WifiManagerTask.cpp:165-168: the timer advances only when the queue stays empty
\* for a tick, and still every wait ends: a form that cannot be saved, which came with
\* a forced portal, is dispatched in the wait and leaves it as long as it was.
WaitingEnds == state = kWaitingToRetry ~> state # kWaitingToRetry

\* README.md:26-28: a driver that answers never leaves the manager trying for ever:
\* it ends up connected, in the portal, or without its power.
ConnectingSettles ==
    state \in {kConnecting, kWaitingToRetry} ~>
        state \in {kConnected, kPortal, kError, kStopped, kInit}

\* README.md:92: an attempt to connect does not last for ever.
ConnectTimesOut == state = kConnecting ~> state # kConnecting
==============================================================================

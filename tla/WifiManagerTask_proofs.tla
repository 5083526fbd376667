------------------------- MODULE WifiManagerTask_proofs -------------------------
(***************************************************************************)
(* The invariants of the manager and its task, for every configuration,    *)
(* queue length, set of failing calls and set of inputs; then that a       *)
(* manager that says it has stopped has stopped its driver and its portal, *)
(* and that an active portal outlives kPortal only by an error, whatever   *)
(* fails.                                                                  *)
(***************************************************************************)
EXTENDS WifiManagerTask, WifiManager_proofs

USE DEF kInit, kConnecting, kWaitingToRetry, kConnected, kPortal, kStopped, kError

\* What the external queue may hold: nothing ever puts an elapsed timer into it.
Queues == {q \in Seq(WifiManagerEvent) :
              /\ Len(q) <= QueueCapacity
              /\ \A i \in 1..Len(q) : q[i].type # kRetryTimerElapsed}

\* The manager runs from the task's start until its own stop, so the application is
\* never in the middle of a call with a manager that does not.
PhaseInv ==
    /\ running <=> taskRunning \/ app = "stopping"
    /\ app = "creating" => taskRunning
    /\ app = "stopping" => ~taskRunning

TaskInv ==
    /\ TypeOK
    /\ ManagerInv
    /\ PhaseInv
    /\ queue \in Queues
    /\ current.type # kRetryTimerElapsed

------------------------------------------------------------------------------
LEMMA QueueType ==
    /\ <<>> \in Queues
    /\ \A q \in Queues : q # <<>> => /\ Tail(q) \in Queues
                                    /\ Head(q) \in WifiManagerEvent
                                    /\ Head(q).type # kRetryTimerElapsed
    /\ \A q \in Queues, event \in WifiManagerEvent :
          Len(q) < QueueCapacity /\ event.type # kRetryTimerElapsed
            => Append(q, event) \in Queues
<1>1. <<>> \in Queues
  BY CapacityAssumption DEF Queues
<1>2. ASSUME NEW q \in Queues, q # <<>>
      PROVE  /\ Tail(q) \in Queues
             /\ Head(q) \in WifiManagerEvent
             /\ Head(q).type # kRetryTimerElapsed
  <2>1. q \in Seq(WifiManagerEvent) /\ Len(q) \in Nat \ {0}
    BY <1>2 DEF Queues
  <2>2. /\ Tail(q) \in Seq(WifiManagerEvent)
        /\ Len(Tail(q)) = Len(q) - 1
        /\ \A i \in 1..Len(Tail(q)) : Tail(q)[i] = q[i + 1]
    BY <2>1
  <2>3. Head(q) = q[1] /\ 1 \in 1..Len(q) /\ q[1] \in WifiManagerEvent
    BY <2>1
  <2>4. \A i \in 1..Len(Tail(q)) : i + 1 \in 1..Len(q)
    BY <2>1, <2>2
  <2>5. Len(Tail(q)) <= QueueCapacity
    BY <2>1, <2>2, CapacityAssumption DEF Queues
  <2>6. \A i \in 1..Len(Tail(q)) : Tail(q)[i].type # kRetryTimerElapsed
    BY <2>2, <2>4 DEF Queues
  <2>7. Head(q).type # kRetryTimerElapsed
    BY <2>3 DEF Queues
  <2> QED
    BY <2>2, <2>3, <2>5, <2>6, <2>7 DEF Queues
<1>3. ASSUME NEW q \in Queues, NEW event \in WifiManagerEvent,
             Len(q) < QueueCapacity, event.type # kRetryTimerElapsed
      PROVE  Append(q, event) \in Queues
  <2>1. q \in Seq(WifiManagerEvent) /\ Len(q) \in Nat
    BY DEF Queues
  <2>2. /\ Append(q, event) \in Seq(WifiManagerEvent)
        /\ Len(Append(q, event)) = Len(q) + 1
        /\ \A i \in 1..Len(q) : Append(q, event)[i] = q[i]
        /\ Append(q, event)[Len(q) + 1] = event
    BY <2>1
  <2>3. Len(q) + 1 <= QueueCapacity
    BY <1>3, <2>1, CapacityAssumption
  <2>4. \A i \in 1..Len(q) : q[i].type # kRetryTimerElapsed
    BY DEF Queues
  <2>5. \A i \in 1..(Len(q) + 1) : i \in 1..Len(q) \/ i = Len(q) + 1
    BY <2>1
  <2>6. \A i \in 1..Len(Append(q, event)) : Append(q, event)[i].type # kRetryTimerElapsed
    BY <1>3, <2>2, <2>4, <2>5
  <2> QED
    BY <2>2, <2>3, <2>6 DEF Queues
<1> QED
  BY <1>1, <1>2, <1>3

\* The events that the task, the driver and the portal make.
LEMMA EventType ==
    /\ PlainEvent(kProvisioningRequested) \in WifiManagerEvent
    /\ PlainEvent(kProvisioningRequested).type # kRetryTimerElapsed
    /\ \A event : /\ EmittedEvent(event) \in WifiManagerEvent
                  /\ EmittedEvent(event).type # kRetryTimerElapsed
    /\ \A credentials \in Credentials :
          [type |-> kCredentialsReceived, credentials |-> credentials]
            \in WifiManagerEvent
<1> USE DEF kProvisioningRequested, kCredentialsReceived, kConnectionSucceeded,
            kConnectionFailed, kRetryTimerElapsed
<1>1. \A type \in WifiManagerEventType :
         PlainEvent(type) \in WifiManagerEvent /\ PlainEvent(type).type = type
  BY DEF PlainEvent, WifiManagerEvent
<1> QED
  BY <1>1 DEF EmittedEvent, WifiManagerEventType, WifiManagerEvent

\* What an action has to establish.  A lemma of its own, so that the proofs of the
\* actions need not open TypeOK.
LEMMA TaskTypeSuffices ==
    ASSUME ManagerInv', queue' \in Queues,
           externalQueue' \in BOOLEAN, lostEvent' \in BOOLEAN, taskRunning' \in BOOLEAN,
           task' \in {"none", "loop", "dispatch", "tick"},
           current' \in WifiManagerEvent,
           app' \in {"idle", "creating", "stopping"}
    PROVE  TypeOK'
BY DEF TypeOK, ManagerInv, Queues

LEMMA TaskTypeGives ==
    ASSUME TaskInv
    PROVE  /\ ManagerInv
           /\ queue \in Queues
           /\ externalQueue \in BOOLEAN
           /\ lostEvent \in BOOLEAN
           /\ taskRunning \in BOOLEAN
           /\ task \in {"none", "loop", "dispatch", "tick"}
           /\ current \in WifiManagerEvent
           /\ current.type # kRetryTimerElapsed
           /\ app \in {"idle", "creating", "stopping"}
           /\ running \in BOOLEAN
BY DEF TaskInv, TypeOK, ManagerTypeOK

LEMMA ObjectUnchanged ==
    ASSUME ManagerInv, UNCHANGED objectVars
    PROVE  ManagerInv' /\ UNCHANGED <<running, state, drv>>
BY DEF objectVars, faceVars, ManagerInv, ManagerTypeOK, RetryTimerInv, AttemptsLeft,
       ShadowState, RestInv

------------------------------------------------------------------------------
LEMMA TaskInitially == TaskSpecInit => TaskInv
<1> SUFFICES ASSUME TaskSpecInit PROVE TaskInv
  OBVIOUS
<1>1. Reset \in StateMachine /\ Reset.state = kInit /\ Reset.connectAttempts = 0
  BY FreshType DEF Reset, Fresh, WifiState
<1>2. /\ EmptyCredentials \in WifiCredentials
      /\ NoPortal \in Portal
      /\ FreshAdapter \in Adapter
      /\ FreshDriver \in Driver
  BY DEF EmptyCredentials, WifiCredentials, NoPortal, Portal, FreshAdapter, Adapter,
         FreshDriver, Driver
<1>3. nvs \in Nvs
  <2>1. EmptyNvs \in Nvs
    BY DEF EmptyNvs, Nvs
  <2>2. [ssid : Ssid, pass : Password] \subseteq Nvs
    BY DEF Nvs
  <2> QED
    BY <2>1, <2>2 DEF TaskSpecInit, ManagerInit
<1>4. ManagerTypeOK
  <2>1. "none" \in WifiRuntimeStatus /\ kInit \in WifiState /\ <<>> \in Seq(WifiManagerEvent)
    BY DEF WifiRuntimeStatus, WifiState
  <2> QED
    BY <1>1, <1>2, <1>3, <2>1, SchedulerType DEF TaskSpecInit, ManagerInit, ManagerTypeOK
<1>5. ManagerInv
  BY <1>1, <1>4, SchedulerType
  DEF TaskSpecInit, ManagerInit, ManagerInv, RetryTimerInv, AttemptsLeft, ShadowState,
      RestInv
<1>6. queue \in Queues
  BY QueueType DEF TaskSpecInit, ManagerInit
<1>7. /\ current \in WifiManagerEvent
      /\ current.type # kRetryTimerElapsed
  BY EventType DEF TaskSpecInit, NoEvent
<1>8. TypeOK
  BY <1>5, <1>6, <1>7 DEF TaskSpecInit, ManagerInit, TypeOK, ManagerInv, Queues
<1> QED
  BY <1>5, <1>6, <1>7, <1>8 DEF TaskSpecInit, ManagerInit, TaskInv, PhaseInv

------------------------------------------------------------------------------
\* The application's thread.

\* What an action has to establish besides the manager's invariant.
LEMMA TaskInvSuffices ==
    ASSUME ManagerInv', PhaseInv', queue' \in Queues,
           externalQueue' \in BOOLEAN, lostEvent' \in BOOLEAN, taskRunning' \in BOOLEAN,
           task' \in {"none", "loop", "dispatch", "tick"},
           current' \in WifiManagerEvent, current'.type # kRetryTimerElapsed,
           app' \in {"idle", "creating", "stopping"}
    PROVE  TaskInv'
BY TaskTypeSuffices DEF TaskInv

LEMMA TaskInitStep ==
    ASSUME TaskInv, TaskInit
    PROVE  TaskInv'
<1>1. ~running
  BY DEF TaskInv, PhaseInv, TaskInit
<1>2. ManagerInv' /\ ~running'
  BY <1>1, TaskTypeGives, InitStep DEF TaskInit
<1>3. PhaseInv'
  BY <1>2 DEF PhaseInv, TaskInit, taskVars
<1> QED
  BY <1>2, <1>3, TaskTypeGives, TaskInvSuffices DEF TaskInit, taskVars, queueVars

LEMMA TaskStartStep ==
    ASSUME TaskInv, TaskStart
    PROVE  TaskInv'
<1>1. ~running
  BY DEF TaskInv, PhaseInv, TaskStart
<1>2. ManagerInv'
  BY <1>1, TaskTypeGives, StartStep DEF TaskStart
<1>3. running' \in BOOLEAN
  BY <1>2 DEF ManagerInv, ManagerTypeOK
<1>4. PhaseInv'
  BY <1>3 DEF PhaseInv, TaskStart
<1> QED
  BY <1>2, <1>3, <1>4, TaskTypeGives, TaskInvSuffices, QueueType DEF TaskStart

LEMMA TaskCreatedStep ==
    ASSUME TaskInv, TaskCreated
    PROVE  TaskInv'
<1>1. ManagerInv' /\ UNCHANGED running
  BY TaskTypeGives, ObjectUnchanged DEF TaskCreated
<1>2. PhaseInv'
  BY <1>1 DEF TaskInv, PhaseInv, TaskCreated
<1> QED
  BY <1>1, <1>2, TaskTypeGives, TaskInvSuffices DEF TaskCreated, queueVars

LEMMA TaskNotCreatedStep ==
    ASSUME TaskInv, TaskNotCreated
    PROVE  TaskInv'
<1>1. ManagerInv' /\ ~running'
  BY TaskTypeGives, StopStep DEF TaskNotCreated
<1>2. PhaseInv'
  BY <1>1 DEF PhaseInv, TaskNotCreated
<1> QED
  BY <1>1, <1>2, TaskTypeGives, TaskInvSuffices, QueueType DEF TaskNotCreated

LEMMA StoppingStep ==
    ASSUME TaskInv, Stopping
    PROVE  TaskInv'
<1>1. ManagerInv' /\ UNCHANGED running
  BY TaskTypeGives, ObjectUnchanged DEF Stopping
<1>2. PhaseInv'
  BY <1>1 DEF TaskInv, PhaseInv, Stopping
<1>3. queue' \in Queues
  BY TaskTypeGives, QueueType, EventType DEF Stopping
<1> QED
  BY <1>1, <1>2, <1>3, TaskTypeGives, TaskInvSuffices DEF Stopping

LEMMA StoppedStep ==
    ASSUME TaskInv, Stopped
    PROVE  TaskInv'
<1>1. ManagerInv' /\ ~running'
  BY TaskTypeGives, StopStep DEF Stopped
<1>2. ~taskRunning
  BY DEF TaskInv, PhaseInv, Stopped
<1>3. PhaseInv'
  BY <1>1, <1>2 DEF PhaseInv, Stopped
<1> QED
  BY <1>1, <1>3, TaskTypeGives, TaskInvSuffices, QueueType DEF Stopped

LEMMA AppForcesStep ==
    ASSUME TaskInv, AppForcesProvisioning
    PROVE  TaskInv' /\ (~running => UNCHANGED state)
<1>1. ManagerInv' /\ UNCHANGED running /\ (~running => UNCHANGED state)
  BY TaskTypeGives, ForceStep DEF AppForcesProvisioning
<1>2. PhaseInv'
  BY <1>1 DEF TaskInv, PhaseInv, AppForcesProvisioning, taskVars
<1> QED
  BY <1>1, <1>2, TaskTypeGives, TaskInvSuffices
  DEF AppForcesProvisioning, taskVars, queueVars

\* A new object, whatever is left below it.
LEMMA TaskConstructStep ==
    ASSUME TaskConstruct, drv' \in Driver, nvs' \in Nvs
    PROVE  TaskInv'
<1>1. ManagerInv' /\ ~running'
  BY ConstructStep DEF TaskConstruct
<1>2. PhaseInv'
  BY <1>1 DEF PhaseInv, TaskConstruct
<1> QED
  BY <1>1, <1>2, QueueType, EventType, TaskInvSuffices
  DEF TaskConstruct, Construct, NoEvent

LEMMA DestroyStep ==
    ASSUME TaskInv, Destroy
    PROVE  TaskInv'
<1>1. drv \in Driver /\ ad \in Adapter /\ nvs' \in Nvs
  BY TaskTypeGives DEF ManagerInv, ManagerTypeOK, Destroy
<1>2. drv' \in Driver
  <2>1. PICK stopped \in AdapterStop(ad, drv) :
           \E o \in AdapterDeinit(stopped.ad, stopped.drv) : drv' = o.drv
    BY DEF Destroy
  <2>2. stopped.ad \in Adapter /\ stopped.drv \in Driver
    BY <1>1, AdapterStopType DEF Outcomes
  <2> QED
    BY <2>1, <2>2, AdapterDeinitType
<1> QED
  BY <1>1, <1>2, TaskConstructStep DEF Destroy

LEMMA SavedAreCredentials ==
    ASSUME current \in WifiManagerEvent
    PROVE  BeingSaved \subseteq Credentials
<1>1. current.credentials \in Credentials \/ current.credentials = EmptyCredentials
  BY DEF WifiManagerEvent
<1>2. ~HasSsid(EmptyCredentials)
  BY DEF HasSsid, EmptyCredentials
<1> QED
  BY <1>1, <1>2 DEF BeingSaved

LEMMA PowerLossStep ==
    ASSUME TaskInv, PowerLoss
    PROVE  TaskInv'
<1>1. nvs \in Nvs /\ current \in WifiManagerEvent
  BY TaskTypeGives DEF ManagerInv, ManagerTypeOK
<1>2. BeingSaved \subseteq Credentials
  BY <1>1, SavedAreCredentials
<1>3. ASSUME NEW c \in Credentials PROVE InterruptedSaves(nvs, c) \subseteq Nvs
  BY <1>1 DEF InterruptedSaves, Nvs, Credentials
<1>4. nvs' \in Nvs
  BY <1>1, <1>2, <1>3 DEF PowerLoss
<1>5. FreshDriver \in Driver
  BY DEF FreshDriver, Driver
<1> QED
  BY <1>4, <1>5, TaskConstructStep DEF PowerLoss

------------------------------------------------------------------------------
\* The task.

\* What the steps of the task and of the event sources have in common.
LEMMA StepWithoutApp ==
    ASSUME TaskInv, ManagerInv', UNCHANGED running,
           UNCHANGED <<externalQueue, taskRunning, app>>,
           queue' \in Queues, lostEvent' \in BOOLEAN,
           task' \in {"none", "loop", "dispatch", "tick"},
           current' \in WifiManagerEvent, current'.type # kRetryTimerElapsed
    PROVE  TaskInv'
<1>1. PhaseInv'
  BY DEF TaskInv, PhaseInv
<1> QED
  BY <1>1, TaskTypeGives, TaskInvSuffices

LEMMA ReceiveStep ==
    ASSUME TaskInv, Receive \/ ReceiveTimesOut \/ LeaveLoop
    PROVE  TaskInv' /\ UNCHANGED state
<1>1. UNCHANGED objectVars
  BY DEF Receive, ReceiveTimesOut, LeaveLoop
<1>2. ManagerInv' /\ UNCHANGED <<running, state>>
  BY <1>1, TaskTypeGives, ObjectUnchanged
<1>3. CASE Receive
  BY <1>2, <1>3, TaskTypeGives, QueueType, StepWithoutApp DEF Receive
<1>4. CASE ReceiveTimesOut \/ LeaveLoop
  BY <1>2, <1>4, TaskTypeGives, StepWithoutApp DEF ReceiveTimesOut, LeaveLoop, queueVars
<1> QED
  BY <1>2, <1>3, <1>4

LEMMA DispatchReceivedStep ==
    ASSUME TaskInv, DispatchReceived
    PROVE  TaskInv' /\ (~running => UNCHANGED state)
<1>1. Face \in Faces /\ Face.state = state
  BY TaskTypeGives, FaceType DEF Face, ManagerInv, ManagerTypeOK
<1>2. /\ retryScheduler \in RetryScheduler
      /\ retryScheduler.armed <=> state = kWaitingToRetry
  BY TaskTypeGives DEF ManagerInv, ManagerTypeOK, RetryTimerInv
<1>3. DispatchEvent(current, Face, retryScheduler) /\ UNCHANGED eventQueue
  BY DEF DispatchReceived, Dispatch
<1>4. ManagerInv' /\ UNCHANGED running /\ (~running => UNCHANGED state)
  BY <1>1, <1>2, <1>3, TaskTypeGives, DispatchStep
<1> QED
  BY <1>4, TaskTypeGives, EventType, StepWithoutApp DEF DispatchReceived, NoEvent, queueVars

LEMMA TickStep ==
    ASSUME TaskInv, Tick
    PROVE  TaskInv' /\ (~running => UNCHANGED state)
<1>1. ManagerInv' /\ UNCHANGED running /\ (~running => UNCHANGED state)
  BY TaskTypeGives, TaskAssumption, AdvanceStep DEF Tick
<1> QED
  BY <1>1, TaskTypeGives, StepWithoutApp DEF Tick, queueVars

------------------------------------------------------------------------------
\* The event loop, the HTTP server and the driver.

LEMMA DeliverQueue ==
    ASSUME TaskInv, NEW event \in WifiManagerEvent, event.type # kRetryTimerElapsed,
           NEW face, Deliver(event, face)
    PROVE  queue' \in Queues
BY TaskTypeGives, QueueType DEF Deliver

LEMMA HandleStep ==
    ASSUME TaskInv, HandleAdapterEvent
    PROVE  TaskInv' /\ (~running => UNCHANGED state)
<1> DEFINE event == Head(drv.events)
           rest  == [drv EXCEPT !.events = Tail(@)]
           face  == FaceOf(state, runtimeStatus, portal, AfterEvent(ad, event), rest)
<1>1. rest \in Driver
  <2>1. drv \in Driver /\ drv.events # <<>>
    BY TaskTypeGives DEF ManagerInv, ManagerTypeOK, HandleAdapterEvent
  <2>2. Tail(drv.events) \in Seq(DriverEvent)
    BY <2>1 DEF Driver
  <2> QED
    BY <2>1, <2>2 DEF Driver
<1>2. AfterEvent(ad, event) \in Adapter
  BY TaskTypeGives, AfterEventType DEF ManagerInv, ManagerTypeOK
<1> HIDE DEF rest
<1>3. face \in Faces /\ face.state = state
  BY <1>1, <1>2, TaskTypeGives, FaceType DEF ManagerInv, ManagerTypeOK
<1>4. UNCHANGED <<externalQueue, taskRunning, task, current, app>>
  BY DEF HandleAdapterEvent, taskVars
<1>5. CASE /\ Deliver(EmittedEvent(event), face)
           /\ lostEvent' = (lostEvent \/ (externalQueue /\ Len(queue) = QueueCapacity))
  <2>1. lostEvent' \in BOOLEAN
    BY <1>5
  <2> HIDE DEF face, event
  <2>2. ManagerInv' /\ UNCHANGED running /\ (~running => UNCHANGED state)
    BY <1>3, <1>5, TaskTypeGives, EventType, DeliverStep
  <2>3. queue' \in Queues
    BY <1>5, EventType, DeliverQueue
  <2> QED
    BY <1>4, <2>1, <2>2, <2>3, TaskTypeGives, StepWithoutApp
<1>6. CASE /\ Becomes(face)
           /\ UNCHANGED <<sm, activeCredentials, retryScheduler, initialized,
                          running, forceProvisioning, hasStoredCredentials,
                          nvs, eventQueue, queue, lostEvent>>
  <2>1. /\ retryScheduler \in RetryScheduler
        /\ retryScheduler.armed <=> state = kWaitingToRetry
        /\ nvs' \in Nvs
    BY <1>6, TaskTypeGives DEF ManagerInv, ManagerTypeOK, RetryTimerInv
  <2> HIDE DEF face
  <2>2. Unhandled(face, retryScheduler)
    BY <1>6 DEF Unhandled
  <2>3. ManagerInv' /\ UNCHANGED state
    BY <1>3, <1>6, <2>1, <2>2, TaskTypeGives, UnhandledStep
  <2> QED
    BY <1>4, <1>6, <2>3, TaskTypeGives, StepWithoutApp
<1> QED
  BY <1>5, <1>6 DEF HandleAdapterEvent, rest

LEMMA PostStep ==
    ASSUME TaskInv, PostConnect
    PROVE  TaskInv' /\ (~running => UNCHANGED state)
<1>1. Face \in Faces /\ Face.state = state
  BY TaskTypeGives, FaceType DEF Face, ManagerInv, ManagerTypeOK
<1>2. PICK credentials \in Credentials :
         Deliver([type |-> kCredentialsReceived, credentials |-> credentials], Face)
  BY DEF PostConnect
<1> DEFINE event == [type |-> kCredentialsReceived, credentials |-> credentials]
<1>3. event \in WifiManagerEvent /\ event.type # kRetryTimerElapsed
  BY EventType DEF kCredentialsReceived, kRetryTimerElapsed
<1>4. Deliver(event, Face)
  BY <1>2
<1> HIDE DEF event
<1>5. ManagerInv' /\ UNCHANGED running /\ (~running => UNCHANGED state)
  BY <1>1, <1>3, <1>4, TaskTypeGives, DeliverStep
<1>6. queue' \in Queues
  BY <1>3, <1>4, DeliverQueue
<1> QED
  BY <1>5, <1>6, TaskTypeGives, StepWithoutApp DEF PostConnect, taskVars

LEMMA DriverStep ==
    ASSUME TaskInv, StationConnects \/ StationFails \/ StationIsLost
    PROVE  TaskInv' /\ UNCHANGED state
<1>1. drv \in Driver
  BY TaskTypeGives DEF ManagerInv, ManagerTypeOK
<1>2. /\ drv' \in Driver
      /\ UNCHANGED <<sm, state, runtimeStatus, portal, ad, activeCredentials,
                     retryScheduler, initialized, running, forceProvisioning,
                     hasStoredCredentials, nvs, eventQueue, queueVars, taskVars>>
  BY <1>1, LinkMovesType DEF StationConnects, StationFails, StationIsLost, DriverMoves
<1>3. ManagerInv'
  BY <1>2, TaskTypeGives
  DEF ManagerInv, ManagerTypeOK, RetryTimerInv, AttemptsLeft, ShadowState, RestInv
<1> QED
  BY <1>2, <1>3, TaskTypeGives, StepWithoutApp DEF queueVars, taskVars

------------------------------------------------------------------------------
\* Every step keeps the invariant, and one that changes the state of a manager at
\* rest is an Init, a Start or a new object.
LEMMA NextStep ==
    ASSUME TaskInv, [Next]_vars
    PROVE  TaskInv' /\ (~running /\ state' # state => TaskInit \/ TaskStart \/ Destroy \/ PowerLoss)
<1>1. CASE TaskInit
  BY <1>1, TaskInitStep
<1>2. CASE TaskStart
  BY <1>2, TaskStartStep
<1>3. CASE TaskCreated
  <2>1. UNCHANGED state
    BY <1>3, TaskTypeGives, ObjectUnchanged DEF TaskCreated
  <2> QED
    BY <1>3, <2>1, TaskCreatedStep
<1>4. CASE TaskNotCreated
  <2>1. running
    BY <1>4 DEF TaskInv, PhaseInv, TaskNotCreated
  <2> QED
    BY <1>4, <2>1, TaskNotCreatedStep
<1>5. CASE Stopping
  <2>1. UNCHANGED state
    BY <1>5, TaskTypeGives, ObjectUnchanged DEF Stopping
  <2> QED
    BY <1>5, <2>1, StoppingStep
<1>6. CASE Stopped
  <2>1. running
    BY <1>6 DEF TaskInv, PhaseInv, Stopped
  <2> QED
    BY <1>6, <2>1, StoppedStep
<1>7. CASE AppForcesProvisioning
  BY <1>7, AppForcesStep
<1>8. CASE Receive \/ ReceiveTimesOut \/ LeaveLoop
  BY <1>8, ReceiveStep
<1>9. CASE DispatchReceived
  BY <1>9, DispatchReceivedStep
<1>10. CASE Tick
  BY <1>10, TickStep
<1>11. CASE HandleAdapterEvent
  BY <1>11, HandleStep
<1>12. CASE PostConnect
  BY <1>12, PostStep
<1>13. CASE StationConnects \/ StationFails \/ StationIsLost
  BY <1>13, DriverStep
<1>14. CASE Destroy \/ PowerLoss
  BY <1>14, DestroyStep, PowerLossStep
<1>15. CASE UNCHANGED vars
  <2>1. ManagerInv' /\ UNCHANGED <<running, state>>
    BY <1>15, TaskTypeGives, ObjectUnchanged DEF vars
  <2> QED
    BY <1>15, <2>1, TaskTypeGives, StepWithoutApp DEF vars, queueVars, taskVars
<1> QED
  BY <1>1, <1>2, <1>3, <1>4, <1>5, <1>6, <1>7, <1>8, <1>9, <1>10, <1>11, <1>12,
     <1>13, <1>14, <1>15
  DEF Next, AppStep, TaskStep

\* The inductive invariant of the task and its manager.
THEOREM TaskInvariant == Spec => []TaskInv
<1>1. TaskInv /\ [Next]_vars => TaskInv'
  BY NextStep
<1> QED
  BY <1>1, TaskInitially, PTL DEF Spec

\* Every variable keeps its type, and the queue its length.
THEOREM TypeCorrect == Spec => []TypeOK
<1>1. TaskInv => TypeOK
  BY DEF TaskInv
<1> QED
  BY <1>1, TaskInvariant, PTL

\* WifiManager.cpp: the retry timer is armed exactly in kWaitingToRetry, whichever
\* thread stops, forces, retries or connects, and whatever fails.
THEOREM RetryTimerCorrect == Spec => []RetryTimerInv
<1>1. TaskInv => RetryTimerInv
  BY DEF TaskInv, ManagerInv
<1> QED
  BY <1>1, TaskInvariant, PTL

\* WifiManagerStateMachine.cpp:44-66: no attempt is made beyond the configured
\* number, for any number.
THEOREM AttemptsCorrect == Spec => []AttemptsLeft
<1>1. TaskInv => AttemptsLeft
  BY DEF TaskInv, ManagerInv
<1> QED
  BY <1>1, TaskInvariant, PTL

\* WifiManager.cpp: while it runs, the manager's two copies of the state agree up to
\* an error or a portal forced before the start.
THEOREM ShadowStateCorrect == Spec => []ShadowState
<1>1. TaskInv => ShadowState
  BY DEF TaskInv, ManagerInv
<1> QED
  BY <1>1, TaskInvariant, PTL

\* WifiManager.cpp:191-233: no late event, of any kind and in any order, moves a
\* manager that has been stopped.
THEOREM RestingCorrect == Spec => RestingStays
<1>1. TaskInv /\ [Next]_vars => [~running /\ state' # state => TaskInit \/ TaskStart \/ Destroy \/ PowerLoss]_vars
  BY NextStep
<1> QED
  BY <1>1, TaskInvariant, PTL DEF Spec, RestingStays

------------------------------------------------------------------------------
(* The flash. *)

\* A Save of these credentials, and what the handler makes of its result.
Saves(c) ==
    /\ HasSsid(c)
    /\ \E save \in SaveOutcomes(nvs, c) :
         /\ nvs' = save.nvs
         /\ IF save.saved
            THEN activeCredentials' = c /\ hasStoredCredentials' = TRUE
            ELSE UNCHANGED <<activeCredentials, hasStoredCredentials>>

FlashKept == UNCHANGED <<nvs, activeCredentials, hasStoredCredentials>>

\* Every step leaves flash and its copy alone, saves, loads, or forgets the copy.
FlashMoves ==
    \/ FlashKept
    \/ \E c \in BeingSaved : Saves(c)
    \/ /\ UNCHANGED nvs
       /\ \E load \in LoadOutcomes(nvs) : /\ activeCredentials' = load.credentials
                                          /\ hasStoredCredentials' = load.loaded
    \/ /\ ~hasStoredCredentials'
       /\ nvs' # nvs => \E c \in BeingSaved : nvs' \in InterruptedSaves(nvs, c)

\* WifiManager.cpp:158-237: only new credentials are written.
LEMMA DispatchFlash ==
    ASSUME NEW event, NEW face, NEW timer, DispatchEvent(event, face, timer)
    PROVE  \/ FlashKept
           \/ event.type = kCredentialsReceived /\ Saves(event.credentials)
<1>1. CASE event.type = kCredentialsReceived /\ CredentialsReceived(event.credentials, face, timer)
  BY <1>1 DEF CredentialsReceived, Unhandled, Saves, FlashKept
<1>2. CASE ~(event.type = kCredentialsReceived /\ CredentialsReceived(event.credentials, face, timer))
  BY <1>2 DEF DispatchEvent, ProvisioningRequested, ConnectionSucceeded, ConnectionFailed,
              RetryTimerElapsed, Unhandled, FlashKept
<1> QED
  BY <1>1, <1>2

LEMMA EnqueueFlash ==
    ASSUME ManagerInv, NEW event \in WifiManagerEvent, NEW face, NEW timer,
           EnqueueAndProcess(event, face, timer)
    PROVE  \/ FlashKept
           \/ event.type = kCredentialsReceived /\ Saves(event.credentials)
<1>1. Head(Append(eventQueue, event)) = event
  BY DEF ManagerInv
<1>2. CASE DispatchEvent(Head(Append(eventQueue, event)), face, timer)
  BY <1>1, <1>2, DispatchFlash
<1>3. CASE Unhandled(face, timer) /\ UNCHANGED nvs
  BY <1>3 DEF Unhandled, FlashKept
<1> QED
  BY <1>2, <1>3 DEF EnqueueAndProcess

LEMMA DeliverFlash ==
    ASSUME ManagerInv, NEW event \in WifiManagerEvent, NEW face, Deliver(event, face)
    PROVE  \/ FlashKept
           \/ ~externalQueue /\ event.type = kCredentialsReceived /\ Saves(event.credentials)
<1>1. CASE Unhandled(face, retryScheduler) /\ UNCHANGED nvs
  BY <1>1 DEF Unhandled, FlashKept
<1>2. CASE ~externalQueue /\ EnqueueAndProcess(event, face, retryScheduler)
  BY <1>2, EnqueueFlash
<1> QED
  BY <1>1, <1>2 DEF Deliver

LEMMA NextFlash ==
    ASSUME TaskInv, [Next]_vars
    PROVE  FlashMoves
<1>0. ManagerInv /\ current \in WifiManagerEvent
  BY TaskTypeGives
<1>1. CASE TaskInit
  BY <1>1 DEF TaskInit, Init, FlashMoves
<1>2. CASE TaskStart
  BY <1>2 DEF TaskStart, Start, FlashMoves, FlashKept
<1>3. CASE TaskNotCreated \/ Stopped
  <2>1. Stop
    BY <1>3 DEF TaskNotCreated, Stopped
  <2>2. FlashKept \/ (UNCHANGED nvs /\ ~hasStoredCredentials')
    BY <2>1 DEF Stop, FlashKept
  <2> QED
    BY <2>2 DEF FlashMoves
<1>4. CASE TaskCreated \/ Stopping \/ Receive \/ ReceiveTimesOut \/ LeaveLoop \/ UNCHANGED vars
           \/ StationConnects \/ StationFails \/ StationIsLost
  BY <1>4 DEF TaskCreated, Stopping, Receive, ReceiveTimesOut, LeaveLoop, vars, objectVars,
              StationConnects, StationFails, StationIsLost, DriverMoves, FlashMoves, FlashKept
<1>5. CASE AppForcesProvisioning
  BY <1>5 DEF AppForcesProvisioning, ForceProvisioning, ProvisioningRequested, FlashMoves,
              FlashKept
<1>6. CASE Destroy
  BY <1>6 DEF Destroy, TaskConstruct, Construct, FlashMoves
<1>7. CASE DispatchReceived
  <2>1. task = "dispatch" /\ DispatchEvent(current, Face, retryScheduler)
    BY <1>7 DEF DispatchReceived, Dispatch
  <2>2. CASE FlashKept
    BY <2>2 DEF FlashMoves
  <2>3. CASE current.type = kCredentialsReceived /\ Saves(current.credentials)
    <3>1. current.credentials \in BeingSaved
      BY <2>1, <2>3 DEF BeingSaved, InHand, Saves
    <3> QED
      BY <2>3, <3>1 DEF FlashMoves
  <2> QED
    BY <2>1, <2>2, <2>3, DispatchFlash
<1>8. CASE Tick
  <2>1. CASE EnqueueAndProcess(PlainEvent(kRetryTimerElapsed), Face, Advance(retryScheduler, TickMs))
    <3>1. /\ PlainEvent(kRetryTimerElapsed) \in WifiManagerEvent
          /\ PlainEvent(kRetryTimerElapsed).type # kCredentialsReceived
      BY DEF PlainEvent, WifiManagerEvent, WifiManagerEventType, kRetryTimerElapsed,
             kCredentialsReceived
    <3> QED
      BY <1>0, <2>1, <3>1, EnqueueFlash DEF FlashMoves
  <2>2. CASE FlashKept
    BY <2>2 DEF FlashMoves
  <2> QED
    BY <1>8, <2>1, <2>2 DEF Tick, AdvanceRetryTimer, FlashKept
<1>9. CASE HandleAdapterEvent
  <2> DEFINE event == Head(drv.events)
             face  == FaceOf(state, runtimeStatus, portal, AfterEvent(ad, event),
                             [drv EXCEPT !.events = Tail(@)])
  <2>1. CASE Deliver(EmittedEvent(event), face)
    <3>1. /\ EmittedEvent(event) \in WifiManagerEvent
          /\ EmittedEvent(event).type # kCredentialsReceived
      BY EventType DEF EmittedEvent, PlainEvent, kConnectionSucceeded, kConnectionFailed,
                       kCredentialsReceived
    <3> HIDE DEF event, face
    <3> QED
      BY <1>0, <2>1, <3>1, DeliverFlash DEF FlashMoves
  <2>2. CASE FlashKept
    BY <2>2 DEF FlashMoves
  <2> QED
    BY <1>9, <2>1, <2>2 DEF HandleAdapterEvent, FlashKept
<1>10. CASE PostConnect
  <2>1. PICK c \in Credentials :
           Deliver([type |-> kCredentialsReceived, credentials |-> c], Face)
    BY <1>10 DEF PostConnect
  <2>2. portal.http
    BY <1>10 DEF PostConnect
  <2>3. FlashKept \/ (~externalQueue /\ Saves(c))
    BY <1>0, <2>1, EventType, DeliverFlash
  <2>4. ~externalQueue => c \in BeingSaved
    BY <2>2 DEF BeingSaved
  <2> QED
    BY <2>3, <2>4 DEF FlashMoves
<1>11. CASE PowerLoss
  BY <1>11 DEF PowerLoss, TaskConstruct, Construct, FlashMoves
<1> QED
  BY <1>1, <1>2, <1>3, <1>4, <1>5, <1>6, <1>7, <1>8, <1>9, <1>10, <1>11
  DEF Next, AppStep, TaskStep

\* A Save that returns leaves in flash what one cut short by a loss of power may
\* leave there.
LEMMA SaveIsInterrupted ==
    ASSUME NEW c, NEW save \in SaveOutcomes(nvs, c)
    PROVE  save.nvs \in InterruptedSaves(nvs, c)
BY DEF SaveOutcomes, InterruptedSaves

\* WifiCredentialStore.cpp:57-63: however a Save ends, a complete pair in flash stays
\* complete, and a password enters flash only beside its own network, whatever calls
\* fail and whenever the power goes.
THEOREM PasswordCorrect == Spec => PasswordFollowsName
<1> DEFINE Goal == nvs' # nvs =>
                     /\ nvs.pass # NotStored => nvs'.pass # NotStored
                     /\ nvs'.pass # nvs.pass =>
                           [ssid |-> nvs'.ssid, password |-> nvs'.pass] \in BeingSaved
<1>1. ASSUME TaskInv, [Next]_vars
      PROVE  Goal
  <2>1. nvs' = nvs \/ \E c \in BeingSaved : nvs' \in InterruptedSaves(nvs, c)
    BY <1>1, NextFlash, SaveIsInterrupted DEF FlashMoves, FlashKept, Saves
  <2>2. SUFFICES ASSUME NEW c \in BeingSaved, nvs' \in InterruptedSaves(nvs, c)
                 PROVE  Goal
    BY <2>1
  <2>3. c \in Credentials /\ nvs \in Nvs
    BY <1>1, TaskTypeGives, SavedAreCredentials DEF ManagerInv, ManagerTypeOK
  <2>4. c.password # NotStored /\ c = [ssid |-> c.ssid, password |-> c.password]
    BY <2>3, StoreAssumption DEF Credentials
  <2>5. CASE nvs' = nvs
    BY <2>5
  <2>6. CASE nvs' = [nvs EXCEPT !.ssid = c.ssid]
    BY <2>3, <2>6 DEF Nvs
  <2>7. CASE nvs' = [ssid |-> c.ssid, pass |-> c.password]
    BY <2>4, <2>7
  <2> QED
    BY <2>2, <2>5, <2>6, <2>7 DEF InterruptedSaves
<1> HIDE DEF Goal
<1>2. TaskInv /\ [Next]_vars => [Goal]_vars
  BY <1>1
<1> QED
  BY <1>2, TaskInvariant, PTL DEF Spec, PasswordFollowsName, Goal

\* WifiManager.cpp:108-112, 174-180: the credentials the manager says it has stored are
\* those in flash, together, as long as no write to flash fails; whatever else does,
\* and however stops, losses of power and new forms interleave.
THEOREM StoredCorrect ==
    ASSUME ~MayFail("nvs_set_str"), ~MayFail("nvs_commit")
    PROVE  Spec => []StoredAreActive
<1>1. TaskSpecInit => StoredAreActive
  BY DEF TaskSpecInit, ManagerInit, StoredAreActive
<1>2. ASSUME TaskInv, StoredAreActive, [Next]_vars
      PROVE  StoredAreActive'
  <2>1. CASE FlashKept
    BY <1>2, <2>1 DEF FlashKept, StoredAreActive
  <2>2. CASE \E c \in BeingSaved : Saves(c)
    <3>0. PICK c \in BeingSaved : Saves(c)
      BY <2>2
    <3>1. PICK save \in SaveOutcomes(nvs, c) :
             /\ nvs' = save.nvs
             /\ IF save.saved
                THEN activeCredentials' = c /\ hasStoredCredentials' = TRUE
                ELSE UNCHANGED <<activeCredentials, hasStoredCredentials>>
      BY <3>0 DEF Saves
    <3>2. IF save.saved THEN save.nvs = [ssid |-> c.ssid, pass |-> c.password]
          ELSE save.nvs = nvs
      BY DEF SaveOutcomes
    <3> QED
      BY <1>2, <3>1, <3>2 DEF StoredAreActive
  <2>3. CASE /\ UNCHANGED nvs
             /\ \E load \in LoadOutcomes(nvs) : /\ activeCredentials' = load.credentials
                                                /\ hasStoredCredentials' = load.loaded
    <3>1. PICK load \in LoadOutcomes(nvs) : /\ activeCredentials' = load.credentials
                                            /\ hasStoredCredentials' = load.loaded
      BY <2>3
    <3>2. load.loaded => load.credentials = [ssid |-> nvs.ssid, password |-> nvs.pass]
      <4> DEFINE Loaded(ok, ssid, password) ==
                   [loaded      |-> ok,
                    credentials |-> [ssid |-> ssid, password |-> password]]
      <4>1. \/ load = Loaded(FALSE, "", "")
            \/ load = Loaded(FALSE, nvs.ssid, "")
            \/ load = Loaded(TRUE, nvs.ssid, nvs.pass)
        BY Zenon DEF LoadOutcomes
      <4>2. \A ssid, password : Loaded(FALSE, ssid, password).loaded = FALSE
        OBVIOUS
      <4>3. \A ssid, password : Loaded(TRUE, ssid, password).credentials
                                 = [ssid |-> ssid, password |-> password]
        OBVIOUS
      <4> HIDE DEF Loaded
      <4>4. CASE load = Loaded(FALSE, "", "")
        <5>1. load.loaded = FALSE
          BY <4>2, <4>4
        <5> QED
          BY <5>1
      <4>5. CASE load = Loaded(FALSE, nvs.ssid, "")
        <5>1. load.loaded = FALSE
          BY <4>2, <4>5
        <5> QED
          BY <5>1
      <4>6. CASE load = Loaded(TRUE, nvs.ssid, nvs.pass)
        BY <4>3, <4>6
      <4> QED
        BY <4>1, <4>4, <4>5, <4>6
    <3>3. nvs \in Nvs
      BY <1>2, TaskTypeGives DEF ManagerInv, ManagerTypeOK
    <3>4. nvs = [ssid |-> nvs.ssid, pass |-> nvs.pass]
      BY <3>3 DEF Nvs
    <3> QED
      BY <2>3, <3>1, <3>2, <3>4 DEF StoredAreActive
  <2>4. CASE ~hasStoredCredentials'
    BY <2>4 DEF StoredAreActive
  <2> QED
    BY <1>2, <2>1, <2>2, <2>3, <2>4, NextFlash DEF FlashMoves
<1>3. TaskInv /\ StoredAreActive /\ [Next]_vars => StoredAreActive'
  BY <1>2
<1> QED
  BY <1>1, <1>3, TaskInvariant, PTL DEF Spec

------------------------------------------------------------------------------
(* The driver and the portal of a manager that has stopped. *)

\* What wifiStarted_ says of the driver.  Of an adapter that has just been made it may
\* say too little: the one before it may have failed to stop the driver.
Knows(a, d)   == a.wifiStarted <=> d.started
Follows(a, d) == a.wifiStarted => d.started

\* An adapter and a driver that know as much of each other as those before them.
InStep(a, d, b, e) ==
    /\ Knows(a, d) => Knows(b, e)
    /\ Follows(a, d) => Follows(b, e)

QuietInv ==
    /\ Follows(ad, drv)
    /\ running => Knows(ad, drv) /\ state # kStopped
    /\ state = kStopped => ~drv.started /\ ~portal.active

------------------------------------------------------------------------------
\* The driver's calls.

LEMMA SetModeKeeps ==
    ASSUME NEW drv0 \in Driver, NEW mode, NEW r \in esp_wifi_set_mode(drv0, mode)
    PROVE  r.drv.started = drv0.started
BY DEF esp_wifi_set_mode, Replies, Driver

LEMMA DisconnectKeeps ==
    ASSUME NEW drv0 \in Driver, NEW r \in esp_wifi_disconnect(drv0)
    PROVE  r.drv.started = drv0.started
<1>1. Posted(drv0, "down", "leave").started = drv0.started
  BY DEF Posted
<1> QED
  BY <1>1 DEF esp_wifi_disconnect, Replies

LEMMA ConfigKeeps ==
    ASSUME NEW drv0 \in Driver, NEW r \in esp_wifi_set_sta_config(drv0)
    PROVE  r.drv.started = drv0.started
BY DEF esp_wifi_set_sta_config, Replies

LEMMA ConnectKeeps ==
    ASSUME NEW drv0 \in Driver, NEW r \in esp_wifi_connect(drv0)
    PROVE  r.drv.started = drv0.started
<1> DEFINE connecting == [drv0 EXCEPT !.link = "connecting"]
<1>1. connecting.started = drv0.started
  BY DEF Driver
<1>2. \/ r \in Replies("esp_wifi_connect", drv0, connecting)
      \/ r \in {[result |-> result, drv |-> drv0] : result \in {ESP_OK, ESP_FAIL}}
  BY DEF esp_wifi_connect
<1> HIDE DEF connecting
<1>3. r.drv \in {drv0, connecting}
  BY <1>2 DEF Replies
<1> QED
  BY <1>1, <1>3

\* Outcomes that leave both as they were.
LEMMA SameIsInStep ==
    ASSUME NEW a, NEW d, NEW b, NEW e, b.wifiStarted = a.wifiStarted, e.started = d.started
    PROVE  InStep(a, d, b, e)
BY DEF InStep, Knows, Follows

LEMMA InStepInTurn ==
    ASSUME NEW a, NEW d, NEW b, NEW e, NEW c, NEW f,
           InStep(a, d, b, e), InStep(b, e, c, f)
    PROVE  InStep(a, d, c, f)
BY DEF InStep

LEMMA OutcomeFields ==
    \A result, a, d : /\ Outcome(result, a, d).result = result
                      /\ Outcome(result, a, d).ad = a
                      /\ Outcome(result, a, d).drv = d
BY DEF Outcome

------------------------------------------------------------------------------
\* The adapter's operations.

LEMMA StartWifiGives ==
    ASSUME NEW a \in Adapter, NEW d \in Driver, NEW o \in StartWifi(a, d)
    PROVE  IF o.result = ESP_OK THEN o.ad.wifiStarted /\ o.drv.started
           ELSE o.ad.wifiStarted = a.wifiStarted /\ o.drv.started = d.started
<1> DEFINE On(p) == Outcome(ESP_OK, [p.ad EXCEPT !.wifiStarted = TRUE], p.drv)
<1>1. PICK p \in Calls(a, esp_wifi_start(d)) : o \in IF p.result = ESP_OK THEN {On(p)} ELSE {p}
  BY DEF StartWifi, Then
<1>2. PICK r \in esp_wifi_start(d) : p = Outcome(r.result, a, r.drv)
  BY DEF Calls
<1>3. p.result = r.result /\ p.ad = a /\ p.drv = r.drv
  BY <1>2, OutcomeFields
<1> DEFINE running0 == [d EXCEPT !.started = TRUE]
<1>4. running0.started = TRUE
  BY DEF Driver
<1>5. IF r.result = ESP_OK THEN r.drv.started ELSE r.drv = d
  <2>1. r \in Replies("esp_wifi_start", d, running0)
    BY DEF esp_wifi_start
  <2> HIDE DEF running0
  <2>2. IF r.result = ESP_OK THEN r.drv = running0 ELSE r.drv = d
    BY <2>1 DEF Replies, ESP_OK, ESP_FAIL
  <2> QED
    BY <1>4, <2>2
<1>6. [a EXCEPT !.wifiStarted = TRUE].wifiStarted = TRUE
  BY DEF Adapter
<1>7. CASE p.result = ESP_OK
  <2>1. o = On(p)
    BY <1>1, <1>7
  <2>2. /\ o.result = ESP_OK
        /\ o.ad = [a EXCEPT !.wifiStarted = TRUE]
        /\ o.drv = r.drv
    BY <1>3, <2>1, OutcomeFields
  <2> QED
    BY <1>3, <1>5, <1>6, <1>7, <2>2
<1>8. CASE p.result # ESP_OK
  BY <1>1, <1>3, <1>5, <1>8
<1> QED
  BY <1>7, <1>8

LEMMA StopWifiGives ==
    ASSUME NEW a \in Adapter, NEW d \in Driver, NEW o \in StopWifi(a, d)
    PROVE  IF o.result = ESP_OK THEN ~o.ad.wifiStarted /\ ~o.drv.started
           ELSE o.ad.wifiStarted = a.wifiStarted /\ o.drv.started = d.started
<1> DEFINE Off(p) == Outcome(ESP_OK, [p.ad EXCEPT !.wifiStarted = FALSE], p.drv)
<1>1. PICK p \in Calls(a, esp_wifi_stop(d)) : o \in IF p.result = ESP_OK THEN {Off(p)} ELSE {p}
  BY DEF StopWifi, Then
<1>2. PICK r \in esp_wifi_stop(d) : p = Outcome(r.result, a, r.drv)
  BY DEF Calls
<1>3. p.result = r.result /\ p.ad = a /\ p.drv = r.drv
  BY <1>2, OutcomeFields
<1>4. IF r.result = ESP_OK THEN ~r.drv.started ELSE r.drv = d
  BY DEF esp_wifi_stop, Replies, ESP_OK, ESP_FAIL
<1>5. [a EXCEPT !.wifiStarted = FALSE].wifiStarted = FALSE
  BY DEF Adapter
<1>6. CASE p.result = ESP_OK
  <2>1. o = Off(p)
    BY <1>1, <1>6
  <2>2. /\ o.result = ESP_OK
        /\ o.ad = [a EXCEPT !.wifiStarted = FALSE]
        /\ o.drv = r.drv
    BY <1>3, <2>1, OutcomeFields
  <2> QED
    BY <1>3, <1>4, <1>5, <1>6, <2>2
<1>7. CASE p.result # ESP_OK
  BY <1>1, <1>3, <1>4, <1>7
<1> QED
  BY <1>6, <1>7

\* WifiManagerEspIdfAdapter.cpp:330-345: on success the driver runs if the adapter
\* says so, however little it knew.
LEMMA EnsureGives ==
    ASSUME NEW a \in Adapter, NEW d \in Driver, NEW o \in EnsureWifiStarted(a, d)
    PROVE  /\ InStep(a, d, o.ad, o.drv)
           /\ o.result = ESP_OK /\ Follows(a, d) => Knows(o.ad, o.drv)
           /\ o.result # ESP_OK => /\ o.ad.wifiStarted = a.wifiStarted
                                  /\ o.drv.started = d.started
<1>1. PICK p \in Calls(a, esp_wifi_set_mode(d, "STA")) :
         o \in IF p.result = ESP_OK
               THEN IF p.ad.wifiStarted THEN {Outcome(ESP_OK, p.ad, p.drv)}
                                        ELSE StartWifi(p.ad, p.drv)
               ELSE {p}
  BY DEF EnsureWifiStarted, Then
<1>2. p.ad = a /\ p.drv \in Driver /\ p.drv.started = d.started
  <2>1. PICK r \in esp_wifi_set_mode(d, "STA") : p = Outcome(r.result, a, r.drv)
    BY DEF Calls
  <2> QED
    BY <2>1, OutcomeFields, SetModeKeeps, SetModeType DEF DriverReplies
<1>3. CASE p.result # ESP_OK
  <2>1. o = p
    BY <1>1, <1>3
  <2> QED
    BY <1>2, <1>3, <2>1, SameIsInStep
<1>4. CASE p.result = ESP_OK /\ p.ad.wifiStarted
  <2>1. o.result = ESP_OK /\ o.ad = a /\ o.drv = p.drv
    BY <1>1, <1>2, <1>4, OutcomeFields
  <2>2. InStep(a, d, o.ad, o.drv)
    BY <1>2, <2>1, SameIsInStep
  <2> QED
    BY <1>2, <1>4, <2>1, <2>2 DEF Follows, Knows
<1>5. CASE p.result = ESP_OK /\ ~p.ad.wifiStarted
  <2>1. o \in StartWifi(a, p.drv)
    BY <1>1, <1>2, <1>5
  <2>2. IF o.result = ESP_OK THEN o.ad.wifiStarted /\ o.drv.started
        ELSE o.ad.wifiStarted = a.wifiStarted /\ o.drv.started = d.started
    BY <1>2, <2>1, StartWifiGives
  <2> QED
    BY <2>2, SameIsInStep DEF InStep, Follows, Knows
<1> QED
  BY <1>3, <1>4, <1>5

LEMMA SoftApKeeps ==
    ASSUME NEW a \in Adapter, NEW d \in Driver,
           NEW o \in StartSoftAp(a, d) \cup StopSoftAp(a, d)
    PROVE  o.ad.wifiStarted = a.wifiStarted /\ o.drv.started = d.started
<1>1. ASSUME NEW b \in BOOLEAN
      PROVE  [a EXCEPT !.apNetif = b].wifiStarted = a.wifiStarted
  BY DEF Adapter
<1>2. CASE o \in {Outcome(ESP_OK, a, d)}
  BY <1>2, OutcomeFields
<1>3. ASSUME NEW mode, NEW p \in Calls(a, esp_wifi_set_mode(d, mode))
      PROVE  p.ad = a /\ p.drv.started = d.started
  <2>1. PICK r \in esp_wifi_set_mode(d, mode) : p = Outcome(r.result, a, r.drv)
    BY DEF Calls
  <2> QED
    BY <2>1, OutcomeFields, SetModeKeeps
<1>4. CASE \E p \in Calls(a, esp_wifi_set_mode(d, "APSTA")) :
              o \in IF p.result = ESP_OK THEN CreateSoftAp(p.ad, p.drv) ELSE {p}
  <2>1. PICK p \in Calls(a, esp_wifi_set_mode(d, "APSTA")) :
           o \in IF p.result = ESP_OK THEN CreateSoftAp(p.ad, p.drv) ELSE {p}
    BY <1>4
  <2>2. CASE o \in CreateSoftAp(p.ad, p.drv)
    <3>1. o.drv = p.drv /\ o.ad \in {p.ad, [p.ad EXCEPT !.apNetif = TRUE]}
      BY <2>2, OutcomeFields DEF CreateSoftAp, Calls, Replies
    <3> QED
      BY <1>1, <1>3, <3>1
  <2> QED
    BY <1>3, <2>1, <2>2
<1>5. CASE \E p \in Calls(a, esp_wifi_set_mode(d, "STA")) :
              o \in IF p.result = ESP_OK
                    THEN {Outcome(ESP_OK, [p.ad EXCEPT !.apNetif = FALSE], p.drv)} ELSE {p}
  <2>1. PICK p \in Calls(a, esp_wifi_set_mode(d, "STA")) :
           o \in IF p.result = ESP_OK
                 THEN {Outcome(ESP_OK, [p.ad EXCEPT !.apNetif = FALSE], p.drv)} ELSE {p}
    BY <1>5
  <2>2. o = p \/ (o.drv = p.drv /\ o.ad = [p.ad EXCEPT !.apNetif = FALSE])
    BY <2>1, OutcomeFields
  <2> QED
    BY <1>1, <1>3, <2>2
<1> QED
  BY <1>2, <1>4, <1>5 DEF StartSoftAp, StopSoftAp, Then

LEMMA LeaveKeeps ==
    ASSUME NEW a \in Adapter, NEW d \in Driver, NEW o \in LeaveNetwork(a, d)
    PROVE  o.ad.wifiStarted = a.wifiStarted /\ o.drv.started = d.started
<1>1. PICK r \in esp_wifi_disconnect(d) :
         o = Outcome(IF r.result = ESP_FAIL THEN ESP_FAIL ELSE ESP_OK,
                     [a EXCEPT !.suppress = (r.result = ESP_OK)], r.drv)
  BY DEF LeaveNetwork
<1> DEFINE flagged == [a EXCEPT !.suppress = (r.result = ESP_OK)]
<1>2. flagged.wifiStarted = a.wifiStarted
  BY DEF Adapter
<1>3. o.ad = flagged /\ o.drv = r.drv
  BY <1>1, OutcomeFields
<1> QED
  BY <1>2, <1>3, DisconnectKeeps

LEMMA ConfigureKeeps ==
    ASSUME NEW a \in Adapter, NEW d \in Driver, NEW o \in Configure(a, d)
    PROVE  o.ad.wifiStarted = a.wifiStarted /\ o.drv.started = d.started
<1>1. PICK p \in Calls(a, esp_wifi_set_sta_config(d)) :
         o \in IF p.result = ESP_OK THEN Calls(p.ad, esp_wifi_connect(p.drv)) ELSE {p}
  BY DEF Configure, Then
<1>2. PICK r \in esp_wifi_set_sta_config(d) : p = Outcome(r.result, a, r.drv)
  BY DEF Calls
<1>3. p.ad = a /\ p.drv \in Driver /\ p.drv.started = d.started
  BY <1>2, OutcomeFields, ConfigKeeps, SetConfigType DEF DriverReplies
<1>4. CASE o \in Calls(p.ad, esp_wifi_connect(p.drv))
  <2>1. PICK c \in esp_wifi_connect(p.drv) : o = Outcome(c.result, p.ad, c.drv)
    BY <1>4 DEF Calls
  <2> QED
    BY <1>3, <2>1, OutcomeFields, ConnectKeeps
<1> QED
  BY <1>1, <1>3, <1>4

LEMMA ConnectStationInStep ==
    ASSUME NEW a \in Adapter, NEW d \in Driver, NEW credentials,
           NEW o \in ConnectStation(a, d, credentials)
    PROVE  InStep(a, d, o.ad, o.drv)
<1>1. CASE o \in {Outcome(ESP_FAIL, a, d)}
  BY <1>1, OutcomeFields, SameIsInStep
<1>2. CASE \E p \in EnsureWifiStarted(a, d) :
              o \in IF p.result = ESP_OK THEN Configure(p.ad, p.drv) ELSE {p}
  <2>1. PICK p \in EnsureWifiStarted(a, d) :
           o \in IF p.result = ESP_OK THEN Configure(p.ad, p.drv) ELSE {p}
    BY <1>2
  <2>2. p.ad \in Adapter /\ p.drv \in Driver /\ InStep(a, d, p.ad, p.drv)
    BY <2>1, EnsureWifiStartedType, EnsureGives DEF Outcomes
  <2>3. InStep(p.ad, p.drv, o.ad, o.drv)
    BY <2>1, <2>2, ConfigureKeeps, SameIsInStep
  <2> QED
    BY <2>2, <2>3, InStepInTurn
<1> QED
  BY <1>1, <1>2 DEF ConnectStation, Then

\* WifiManagerEspIdfAdapter.cpp:117-184.
LEMMA ApplyStateInStep ==
    ASSUME NEW a \in Adapter, NEW d \in Driver, NEW s, s # kStopped, NEW credentials,
           NEW o \in ApplyState(a, d, s, credentials)
    PROVE  InStep(a, d, o.ad, o.drv)
<1>1. CASE o = Outcome(ESP_OK, a, d)
  BY <1>1, OutcomeFields, SameIsInStep
<1>2. CASE o \in ApplyConnecting(a, d, credentials)
  <2>1. PICK p \in StopSoftAp(a, d) :
           o \in IF p.result = ESP_OK THEN ConnectStation(p.ad, p.drv, credentials) ELSE {p}
    BY <1>2 DEF ApplyConnecting, Then
  <2>2. p.ad \in Adapter /\ p.drv \in Driver /\ InStep(a, d, p.ad, p.drv)
    BY <2>1, StopSoftApType, SoftApKeeps, SameIsInStep DEF Outcomes
  <2>3. InStep(p.ad, p.drv, o.ad, o.drv)
    BY <2>1, <2>2, ConnectStationInStep, SameIsInStep
  <2> QED
    BY <2>2, <2>3, InStepInTurn
<1>3. CASE o \in ApplyPortal(a, d)
  <2>1. PICK p \in IF a.wifiStarted THEN LeaveNetwork(a, d) ELSE EnsureWifiStarted(a, d) :
           o \in IF p.result = ESP_OK THEN StartSoftAp(p.ad, p.drv) ELSE {p}
    BY <1>3 DEF ApplyPortal, Then
  <2>2. p.ad \in Adapter /\ p.drv \in Driver
    BY <2>1, LeaveNetworkType, EnsureWifiStartedType DEF Outcomes
  <2>3. InStep(a, d, p.ad, p.drv)
    BY <2>1, LeaveKeeps, EnsureGives, SameIsInStep
  <2>4. InStep(p.ad, p.drv, o.ad, o.drv)
    BY <2>1, <2>2, SoftApKeeps, SameIsInStep
  <2> QED
    BY <2>3, <2>4, InStepInTurn
<1> QED
  BY <1>1, <1>2, <1>3 DEF ApplyState

\* Lines 82-115.
LEMMA AdapterStartGives ==
    ASSUME NEW a \in Adapter, NEW d \in Driver, NEW o \in AdapterStart(a, d)
    PROVE  /\ Follows(a, d) => Follows(o.ad, o.drv)
           /\ o.result = ESP_OK /\ Follows(a, d) => Knows(o.ad, o.drv)
           /\ o.result # ESP_OK => /\ o.ad.wifiStarted = a.wifiStarted
                                  /\ o.drv.started = d.started
<1> DEFINE b == [initialized |-> TRUE, started |-> TRUE, wifiStarted |-> a.wifiStarted,
                 apNetif |-> a.apNetif, suppress |-> FALSE]
<1>1. b \in Adapter /\ b.wifiStarted = a.wifiStarted
  BY DEF Adapter
<1>2. Follows(a, d) <=> Follows(b, d)
  BY <1>1 DEF Follows
<1> HIDE DEF b
<1>3. CASE o = Outcome(ESP_FAIL, a, d)
  BY <1>3, OutcomeFields DEF ESP_OK, ESP_FAIL
<1>4. CASE o \in EnsureWifiStarted(b, d)
  BY <1>1, <1>2, <1>4, EnsureGives DEF InStep
<1> QED
  BY <1>3, <1>4 DEF AdapterStart, b

\* Lines 186-218: a stop that succeeds leaves no driver running, if the adapter knew
\* of it.
LEMMA AdapterStopGives ==
    ASSUME NEW a \in Adapter, NEW d \in Driver, Knows(a, d), NEW o \in AdapterStop(a, d)
    PROVE  Follows(o.ad, o.drv) /\ (o.result = ESP_OK => ~o.drv.started)
<1> DEFINE b == [a EXCEPT !.started = FALSE]
           Flagged(r) == [b EXCEPT !.suppress = (r.result # ESP_ERR_WIFI_NOT_CONNECT)]
<1>1. b \in Adapter /\ b.wifiStarted = a.wifiStarted
  BY DEF Adapter
<1>2. CASE ~b.wifiStarted /\ o = Outcome(ESP_OK, b, d)
  <2>1. o.ad = b /\ o.drv = d
    BY <1>2, OutcomeFields
  <2> HIDE DEF b
  <2> QED
    BY <1>1, <1>2, <2>1 DEF Knows, Follows
<1>3. CASE \E r \in esp_wifi_disconnect(d) :
              o \in IF r.result = ESP_FAIL THEN {Outcome(ESP_FAIL, Flagged(r), r.drv)}
                    ELSE StopWifi(Flagged(r), r.drv)
  <2>1. PICK r \in esp_wifi_disconnect(d) :
           o \in IF r.result = ESP_FAIL THEN {Outcome(ESP_FAIL, Flagged(r), r.drv)}
                 ELSE StopWifi(Flagged(r), r.drv)
    BY <1>3
  <2>2. Flagged(r) \in Adapter /\ Flagged(r).wifiStarted = a.wifiStarted
    BY <1>1 DEF Adapter
  <2>3. r.drv \in Driver /\ r.drv.started = d.started
    BY DisconnectKeeps, DisconnectType DEF DriverReplies
  <2> HIDE DEF b, Flagged
  <2>4. CASE o = Outcome(ESP_FAIL, Flagged(r), r.drv)
    BY <2>2, <2>3, <2>4, OutcomeFields DEF Knows, Follows, ESP_OK, ESP_FAIL
  <2>5. CASE o \in StopWifi(Flagged(r), r.drv)
    BY <2>2, <2>3, <2>5, StopWifiGives DEF Knows, Follows
  <2> QED
    BY <2>1, <2>4, <2>5
<1> QED
  BY <1>2, <1>3 DEF AdapterStop

------------------------------------------------------------------------------
\* The manager's operations.

LEMMA StopPortalStops ==
    ASSUME NEW p \in Portal, NEW q \in StopPortal(p)
    PROVE  ~q.active
BY DEF StopPortal, Portal

\* WifiManager.cpp:311-337.
LEMMA SetStateGives ==
    ASSUME NEW face \in Faces, NEW n \in WifiState \ {kStopped, kError}, NEW credentials,
           NEW f \in SetState(face, n, credentials)
    PROVE  /\ InStep(face.ad, face.drv, f.ad, f.drv)
           /\ f \in Faces
           /\ f.state \in {n, kError}
           /\ face.state = kPortal /\ n # kPortal => f.state = kError \/ ~f.portal.active
           /\ face.state # kPortal /\ n # kPortal => f.portal = face.portal
<1> DEFINE Failed(o) == FaceOf(kError, "none", face.portal, o.ad, o.drv)
           Applied(o) == FaceOf(n, face.runtimeStatus, face.portal, o.ad, o.drv)
<1>1. PICK o \in ApplyState(face.ad, face.drv, n, credentials) :
         f \in IF o.result # ESP_OK /\ n # kError THEN {Failed(o)}
               ELSE PortalFollows(face.state, Applied(o))
  BY DEF SetState
<1>2. face.ad \in Adapter /\ face.drv \in Driver /\ face.portal \in Portal
  BY DEF Faces
<1>3. InStep(face.ad, face.drv, o.ad, o.drv)
  BY <1>1, <1>2, ApplyStateInStep
<1>4. f \in Faces /\ f.state \in {n, kError}
  BY SetStateType
<1>5. /\ Failed(o).state = kError /\ Failed(o).portal = face.portal
      /\ Failed(o).ad = o.ad /\ Failed(o).drv = o.drv
      /\ Applied(o).state = n /\ Applied(o).portal = face.portal
      /\ Applied(o).ad = o.ad /\ Applied(o).drv = o.drv
  BY DEF FaceOf
<1> HIDE DEF Failed, Applied
<1>6. CASE f = Failed(o)
  BY <1>3, <1>4, <1>5, <1>6
<1>7. CASE f \in PortalFollows(face.state, Applied(o))
  <2>1. PICK q \in IF n = kPortal THEN StartPortal(face.portal)
                   ELSE IF face.state = kPortal THEN StopPortal(face.portal)
                   ELSE {face.portal} :
           f.portal = q /\ f.ad = o.ad /\ f.drv = o.drv
    BY <1>5, <1>7 DEF PortalFollows, FaceOf
  <2>2. face.state = kPortal /\ n # kPortal => ~f.portal.active
    BY <1>2, <2>1, StopPortalStops
  <2> QED
    BY <1>3, <1>4, <2>1, <2>2
<1> QED
  BY <1>1, <1>6, <1>7

\* What a handler may do to a manager that runs or rests.
Moves ==
    /\ UNCHANGED running
    /\ InStep(ad, drv, ad', drv')
    /\ state = kPortal /\ portal.active /\ portal'.active => state' \in {kPortal, kError}
    /\ \/ running /\ state' # kStopped
       \/ UNCHANGED <<state, portal>> /\ drv'.started = drv.started

\* A face that shows the manager as it is, but for what the event loop has seen.
Shows(face) ==
    /\ face \in Faces
    /\ face.state = state
    /\ face.portal = portal
    /\ face.ad.wifiStarted = ad.wifiStarted
    /\ face.drv.started = drv.started

LEMMA MovesKeeps ==
    ASSUME QuietInv, Moves
    PROVE  QuietInv'
BY DEF QuietInv, Moves, InStep

LEMMA BecomesMoves ==
    ASSUME NEW face, Shows(face), Becomes(face), UNCHANGED running
    PROVE  Moves
<1>1. InStep(ad, drv, ad', drv')
  BY SameIsInStep DEF Shows, Becomes
<1> QED
  BY <1>1 DEF Shows, Becomes, Moves

LEMMA StatusShows ==
    ASSUME NEW face, Shows(face), NEW status \in WifiRuntimeStatus
    PROVE  Shows(WithStatus(face, status))
<1>1. /\ WithStatus(face, status) \in Faces
      /\ WithStatus(face, status).state = face.state
  BY FaceType DEF Shows
<1>2. /\ WithStatus(face, status).portal = face.portal
      /\ WithStatus(face, status).ad = face.ad
      /\ WithStatus(face, status).drv = face.drv
  BY DEF WithStatus, FaceOf
<1> QED
  BY <1>1, <1>2 DEF Shows

\* One SetState, from any face that shows the manager.
LEMMA SetStateMoves ==
    ASSUME NEW face, Shows(face), NEW n \in WifiState \ {kStopped, kError}, NEW credentials,
           NEW f \in SetState(face, n, credentials), Becomes(f), running, UNCHANGED running
    PROVE  Moves
<1>1. InStep(ad, drv, face.ad, face.drv)
  BY SameIsInStep DEF Shows
<1>2. /\ InStep(face.ad, face.drv, f.ad, f.drv)
      /\ f.state \in {n, kError}
      /\ face.state = kPortal /\ n # kPortal => f.state = kError \/ ~f.portal.active
  BY SetStateGives DEF Shows
<1>3. InStep(ad, drv, ad', drv')
  BY <1>1, <1>2, InStepInTurn DEF Becomes
<1> QED
  BY <1>2, <1>3 DEF Shows, Becomes, Moves

LEMMA ProvisioningMoves ==
    ASSUME NEW face, Shows(face), ProvisioningRequested(face), UNCHANGED running
    PROVE  Moves
<1>1. CASE running
  <2>1. PICK f \in SetState(face, kPortal, activeCredentials) : Becomes(f)
    BY <1>1 DEF ProvisioningRequested
  <2> QED
    BY <1>1, <2>1, SetStateMoves DEF WifiState
<1>2. CASE ~running
  BY <1>2, BecomesMoves DEF ProvisioningRequested
<1> QED
  BY <1>1, <1>2

LEMMA CredentialsMoves ==
    ASSUME NEW face, Shows(face), NEW timer, NEW credentials,
           CredentialsReceived(credentials, face, timer), UNCHANGED running
    PROVE  Moves
<1>1. CASE Unhandled(face, timer)
  BY <1>1, BecomesMoves DEF Unhandled
<1>2. CASE IF running
           THEN \E f \in SetState(WithStatus(face, "none"), kConnecting, credentials) : Becomes(f)
           ELSE Becomes(WithStatus(face, "none"))
  <2>1. Shows(WithStatus(face, "none"))
    BY StatusShows DEF WifiRuntimeStatus
  <2>2. CASE running
    <3>1. PICK f \in SetState(WithStatus(face, "none"), kConnecting, credentials) : Becomes(f)
      BY <1>2, <2>2
    <3> QED
      BY <2>1, <2>2, <3>1, SetStateMoves DEF WifiState
  <2>3. CASE ~running
    BY <1>2, <2>1, <2>3, BecomesMoves
  <2> QED
    BY <2>2, <2>3
<1> QED
  BY <1>1, <1>2 DEF CredentialsReceived

LEMMA SucceededMoves ==
    ASSUME NEW face, Shows(face), ConnectionSucceeded(face), UNCHANGED running
    PROVE  Moves
<1>1. PICK f \in SetState(WithStatus(face, "address"), kConnected, activeCredentials) :
         Becomes(f)
  BY DEF ConnectionSucceeded
<1>2. Shows(WithStatus(face, "address"))
  BY StatusShows DEF WifiRuntimeStatus
<1>3. kConnected \in WifiState \ {kStopped, kError}
  BY DEF WifiState
<1> HIDE DEF kConnected
<1> QED
  BY <1>1, <1>2, <1>3, SetStateMoves DEF ConnectionSucceeded

\* WifiManager.cpp:201-224: two of them in a row when there is no delay.
LEMMA FailedMoves ==
    ASSUME NEW face, Shows(face), sm \in StateMachine, ConnectionFailed(face),
           UNCHANGED running
    PROVE  Moves
<1> DEFINE failed == OnConnectionFailed(sm)
           seen == WithStatus(face, "reason")
<1>1. failed.state \in {kWaitingToRetry, kPortal}
  BY FailedType
<1>2. running
  BY DEF ConnectionFailed
<1>3. Shows(seen)
  BY StatusShows DEF WifiRuntimeStatus
<1>4. PICK f \in SetState(seen, failed.state, activeCredentials) :
         IF f.state = kWaitingToRetry /\ failed.reconnectDelayMs = 0
         THEN \E g \in SetState(f, kConnecting, activeCredentials) : Becomes(g)
         ELSE Becomes(f)
  BY DEF ConnectionFailed
<1> HIDE DEF failed, seen
<1>5. failed.state \in WifiState \ {kStopped, kError}
  BY <1>1 DEF WifiState
<1>6. CASE Becomes(f)
  BY <1>2, <1>3, <1>4, <1>5, <1>6, SetStateMoves
<1>7. CASE /\ f.state = kWaitingToRetry
           /\ \E g \in SetState(f, kConnecting, activeCredentials) : Becomes(g)
  <2>1. PICK g \in SetState(f, kConnecting, activeCredentials) : Becomes(g)
    BY <1>7
  <2>2. /\ InStep(seen.ad, seen.drv, f.ad, f.drv)
        /\ f \in Faces
        /\ f.state \in {failed.state, kError}
        /\ seen.state = kPortal /\ failed.state # kPortal => f.state = kError \/ ~f.portal.active
    BY <1>3, <1>4, <1>5, SetStateGives DEF Shows
  <2>3. /\ InStep(f.ad, f.drv, g.ad, g.drv)
        /\ g.state \in {kConnecting, kError}
        /\ g.portal = f.portal
    BY <1>7, <2>1, <2>2, SetStateGives DEF WifiState
  <2>4. InStep(ad, drv, ad', drv')
    <3>1. InStep(ad, drv, seen.ad, seen.drv)
      BY <1>3, SameIsInStep DEF Shows
    <3>2. InStep(ad, drv, g.ad, g.drv)
      BY <2>2, <2>3, <3>1, InStepInTurn
    <3> QED
      BY <2>1, <3>2 DEF Becomes
  <2>5. state = kPortal => ~portal'.active
    BY <1>3, <1>7, <2>1, <2>2, <2>3 DEF Shows, Becomes
  <2>6. state' # kStopped
    BY <2>1, <2>3 DEF Becomes
  <2> QED
    BY <1>2, <2>4, <2>5, <2>6 DEF Moves
<1> QED
  BY <1>4, <1>6, <1>7

LEMMA DispatchMoves ==
    ASSUME NEW face, Shows(face), sm \in StateMachine, NEW event, NEW timer,
           DispatchEvent(event, face, timer)
    PROVE  Moves
<1>1. UNCHANGED running
  BY DEF DispatchEvent
<1>2. CASE ProvisioningRequested(face)
  BY <1>1, <1>2, ProvisioningMoves
<1>3. CASE CredentialsReceived(event.credentials, face, timer)
  BY <1>1, <1>3, CredentialsMoves
<1>4. CASE ConnectionSucceeded(face)
  BY <1>1, <1>4, SucceededMoves
<1>5. CASE ConnectionFailed(face)
  BY <1>1, <1>5, FailedMoves
<1>6. CASE RetryTimerElapsed(face)
  <2>1. PICK f \in SetState(face, kConnecting, activeCredentials) : Becomes(f)
    BY <1>6 DEF RetryTimerElapsed
  <2>2. running
    BY <1>6 DEF RetryTimerElapsed
  <2> QED
    BY <1>1, <2>1, <2>2, SetStateMoves DEF WifiState
<1>7. CASE Unhandled(face, timer)
  BY <1>1, <1>7, BecomesMoves DEF Unhandled
<1> QED
  BY <1>2, <1>3, <1>4, <1>5, <1>6, <1>7 DEF DispatchEvent

LEMMA EnqueueMoves ==
    ASSUME NEW face, Shows(face), sm \in StateMachine, NEW event, NEW timer,
           EnqueueAndProcess(event, face, timer)
    PROVE  Moves
<1>1. CASE DispatchEvent(Head(Append(eventQueue, event)), face, timer)
  BY <1>1, DispatchMoves
<1>2. CASE Unhandled(face, timer) /\ UNCHANGED running
  BY <1>2, BecomesMoves DEF Unhandled
<1> QED
  BY <1>1, <1>2 DEF EnqueueAndProcess

LEMMA DeliverMoves ==
    ASSUME NEW face, Shows(face), sm \in StateMachine, NEW event, Deliver(event, face)
    PROVE  Moves
<1>1. CASE Unhandled(face, retryScheduler) /\ UNCHANGED running
  BY <1>1, BecomesMoves DEF Unhandled
<1>2. CASE EnqueueAndProcess(event, face, retryScheduler)
  BY <1>2, EnqueueMoves
<1> QED
  BY <1>1, <1>2 DEF Deliver

------------------------------------------------------------------------------
\* The steps of the threads.

\* What a step has to show: the invariant, and of an active portal that it outlives
\* kPortal only by an error.
PortalStays ==
    state = kPortal /\ portal.active /\ portal'.active => state' \in {kPortal, kError}

FullInv == TaskInv /\ QuietInv

LEMMA FullGives ==
    ASSUME FullInv
    PROVE  /\ ManagerInv /\ QuietInv
           /\ Shows(Face)
           /\ sm \in StateMachine
           /\ ad \in Adapter /\ drv \in Driver /\ portal \in Portal
           /\ running \in BOOLEAN
           /\ app = "idle" /\ ~taskRunning => ~running
           /\ app = "creating" \/ app = "stopping" => running
           /\ ~running => state # kPortal
<1>1. ManagerInv /\ QuietInv /\ PhaseInv
  BY TaskTypeGives DEF FullInv, TaskInv
<1>2. Face \in Faces /\ Face.state = state
  BY <1>1, FaceType DEF Face, ManagerInv, ManagerTypeOK
<1>3. Shows(Face)
  BY <1>2 DEF Face, FaceOf, Shows
<1>4. /\ sm \in StateMachine
      /\ ad \in Adapter /\ drv \in Driver /\ portal \in Portal
      /\ running \in BOOLEAN
  BY <1>1 DEF ManagerInv, ManagerTypeOK
<1>5. ~running => state # kPortal
  BY <1>1 DEF ManagerInv, RestInv
<1> QED
  BY <1>1, <1>3, <1>4, <1>5 DEF PhaseInv

LEMMA MovesSuffices ==
    ASSUME FullInv, Moves
    PROVE  QuietInv' /\ PortalStays
BY FullGives, MovesKeeps DEF Moves, PortalStays

LEMMA SameSuffices ==
    ASSUME FullInv, UNCHANGED <<running, state, portal, ad>>, drv'.started = drv.started
    PROVE  QuietInv' /\ PortalStays
<1>1. InStep(ad, drv, ad', drv')
  BY SameIsInStep
<1>2. Moves
  BY <1>1 DEF Moves
<1> QED
  BY <1>2, MovesSuffices

LEMMA InitQuiet ==
    ASSUME FullInv, TaskInit
    PROVE  QuietInv' /\ PortalStays
<1>1. ~running /\ ~running'
  BY FullGives DEF TaskInit, Init
<1>2. PICK o \in AdapterInit(ad, drv) :
         LET face == WithStatus(WithOutcome(Face, o), "none") IN
         \E f \in IF o.result = ESP_OK
                  THEN SetState(face, kInit, EmptyCredentials) ELSE {face} : Becomes(f)
  BY DEF TaskInit, Init
<1> DEFINE face == WithStatus(WithOutcome(Face, o), "none")
<1>3. o.ad.wifiStarted = ad.wifiStarted /\ o.drv = drv /\ o \in Outcomes
  <2>1. [ad EXCEPT !.initialized = TRUE].wifiStarted = ad.wifiStarted
    BY FullGives DEF Adapter
  <2>2. o.ad \in {ad, [ad EXCEPT !.initialized = TRUE]} /\ o.drv = drv
    BY OutcomeFields DEF AdapterInit
  <2>3. o \in Outcomes
    BY FullGives, AdapterInitType
  <2> QED
    BY <2>1, <2>2, <2>3
<1>4. Shows(face)
  <2>1. WithOutcome(Face, o).portal = portal /\ WithOutcome(Face, o).ad = o.ad
        /\ WithOutcome(Face, o).drv = o.drv
    BY DEF WithOutcome, FaceOf, Face
  <2>2. WithOutcome(Face, o) \in Faces /\ WithOutcome(Face, o).state = state
    BY <1>3, FullGives, FaceType DEF Shows
  <2>3. Shows(WithOutcome(Face, o))
    BY <1>3, <2>1, <2>2 DEF Shows
  <2> QED
    BY <2>3, StatusShows DEF WifiRuntimeStatus
<1>5. PICK f \in IF o.result = ESP_OK
                 THEN SetState(face, kInit, EmptyCredentials) ELSE {face} : Becomes(f)
  BY <1>2
<1> HIDE DEF face
<1>6. state # kPortal
  BY <1>1, FullGives
<1>7. CASE f = face
  <2>1. UNCHANGED running
    BY <1>1, FullGives DEF TaskInit, Init
  <2> QED
    BY <1>4, <1>5, <1>7, <2>1, BecomesMoves, MovesSuffices
<1>8. CASE f \in SetState(face, kInit, EmptyCredentials)
  <2>1. InStep(face.ad, face.drv, f.ad, f.drv) /\ f.state \in {kInit, kError}
    BY <1>4, <1>8, SetStateGives DEF Shows, WifiState
  <2>2. InStep(ad, drv, ad', drv')
    <3>1. InStep(ad, drv, face.ad, face.drv)
      BY <1>4, SameIsInStep DEF Shows
    <3> QED
      BY <1>5, <2>1, <3>1, InStepInTurn DEF Becomes
  <2>3. state' # kStopped
    BY <1>5, <2>1 DEF Becomes
  <2> QED
    BY <1>1, <1>6, <2>2, <2>3, FullGives DEF QuietInv, InStep, PortalStays
<1> QED
  BY <1>5, <1>7, <1>8

\* WifiManager.cpp:90-114: a start that succeeds knows whether the driver runs, also
\* the first one of a new object; one that fails starts nothing.
LEMMA StartQuiet ==
    ASSUME FullInv, TaskStart
    PROVE  QuietInv' /\ PortalStays
<1>1. ~running /\ Start
  BY FullGives DEF TaskStart
<1>2. PICK o \in IF initialized THEN AdapterStart(ad, drv)
                 ELSE {Outcome(ESP_FAIL, ad, drv)} :
         LET face == WithOutcome(Face, o) IN
         \/ o.result # ESP_OK /\ Becomes(face) /\ UNCHANGED running
         \/ /\ o.result = ESP_OK
            /\ \E n, c : /\ n \in {kConnecting, kPortal}
                         /\ \E f \in SetState(face, n, c) : Becomes(f)
  <2>1. \A load : OnStart(forceProvisioning, load).state \in {kConnecting, kPortal}
    BY DEF OnStart, Fresh
  <2> QED
    BY <1>1, <2>1 DEF Start
<1> DEFINE face == WithOutcome(Face, o)
<1>3. o \in Outcomes
  BY <1>2, FullGives, AdapterStartType, OutcomeType
<1>4. /\ Follows(o.ad, o.drv)
      /\ o.result = ESP_OK => Knows(o.ad, o.drv)
      /\ o.result # ESP_OK => o.ad.wifiStarted = ad.wifiStarted /\ o.drv.started = drv.started
  <2>1. Follows(ad, drv)
    BY FullGives DEF QuietInv
  <2>2. CASE o = Outcome(ESP_FAIL, ad, drv)
    BY <2>1, <2>2, OutcomeFields DEF ESP_OK, ESP_FAIL
  <2>3. CASE o \in AdapterStart(ad, drv)
    BY <2>1, <2>3, FullGives, AdapterStartGives
  <2> QED
    BY <1>2, <2>2, <2>3
<1>5. /\ face \in Faces /\ face.state = state
      /\ face.portal = portal /\ face.ad = o.ad /\ face.drv = o.drv
  <2>1. face.portal = portal /\ face.ad = o.ad /\ face.drv = o.drv
    BY DEF WithOutcome, FaceOf, Face
  <2>2. face \in Faces /\ face.state = state
    BY <1>3, FullGives, FaceType DEF Shows
  <2> QED
    BY <2>1, <2>2
<1> HIDE DEF face
<1>6. CASE o.result # ESP_OK /\ Becomes(face) /\ UNCHANGED running
  <2>1. Shows(face)
    BY <1>4, <1>5, <1>6 DEF Shows
  <2> QED
    BY <1>6, <2>1, BecomesMoves, MovesSuffices
<1>7. CASE /\ o.result = ESP_OK
           /\ \E n, c : /\ n \in {kConnecting, kPortal}
                        /\ \E f \in SetState(face, n, c) : Becomes(f)
  <2>1. PICK n, c : n \in {kConnecting, kPortal} /\ \E f \in SetState(face, n, c) : Becomes(f)
    BY <1>7
  <2>2. PICK f \in SetState(face, n, c) : Becomes(f)
    BY <2>1
  <2>3. InStep(o.ad, o.drv, f.ad, f.drv) /\ f.state \in {n, kError}
    BY <1>5, <2>1, <2>2, SetStateGives DEF WifiState
  <2>4. Knows(ad', drv') /\ Follows(ad', drv')
    BY <1>4, <1>7, <2>2, <2>3 DEF InStep, Becomes
  <2>5. state' # kStopped
    BY <2>1, <2>2, <2>3 DEF Becomes
  <2> QED
    BY <1>1, <2>4, <2>5, FullGives DEF QuietInv, PortalStays
<1> QED
  BY <1>2, <1>6, <1>7 DEF face

\* WifiManager.cpp:239-265: kStopped is reported only when the driver has stopped.
LEMMA StopQuiet ==
    ASSUME FullInv, TaskNotCreated \/ Stopped
    PROVE  QuietInv' /\ PortalStays
<1>1. running /\ Stop
  BY FullGives DEF TaskNotCreated, Stopped
<1>2. PICK o \in AdapterStop(ad, drv) :
         /\ ad' = o.ad
         /\ drv' = o.drv
         /\ IF o.result = ESP_OK THEN state' = kStopped ELSE state' = kError
  BY <1>1 DEF Stop
<1>3. Knows(ad, drv)
  BY <1>1, FullGives DEF QuietInv
<1>4. Follows(o.ad, o.drv) /\ (o.result = ESP_OK => ~o.drv.started)
  BY <1>2, <1>3, FullGives, AdapterStopGives
<1>5. ~portal'.active
  BY <1>1, FullGives, StopPortalStops DEF Stop
<1>6. ~running'
  BY <1>1 DEF Stop
<1> QED
  BY <1>2, <1>4, <1>5, <1>6 DEF QuietInv, PortalStays

LEMMA ConstructQuiet ==
    ASSUME TaskConstruct
    PROVE  QuietInv' /\ PortalStays
BY DEF TaskConstruct, Construct, FreshAdapter, NoPortal, QuietInv, Follows, PortalStays

LEMMA HandleQuiet ==
    ASSUME FullInv, HandleAdapterEvent
    PROVE  QuietInv' /\ PortalStays
<1> DEFINE event == Head(drv.events)
           rest  == [drv EXCEPT !.events = Tail(@)]
           face  == FaceOf(state, runtimeStatus, portal, AfterEvent(ad, event), rest)
<1>1. rest \in Driver /\ rest.started = drv.started
  <2>1. drv \in Driver /\ drv.events # <<>>
    BY FullGives DEF HandleAdapterEvent
  <2>2. Tail(drv.events) \in Seq(DriverEvent)
    BY <2>1 DEF Driver
  <2> QED
    BY <2>1, <2>2 DEF Driver
<1>2. AfterEvent(ad, event) \in Adapter /\ AfterEvent(ad, event).wifiStarted = ad.wifiStarted
  <2>1. [ad EXCEPT !.suppress = FALSE].wifiStarted = ad.wifiStarted
    BY FullGives DEF Adapter
  <2> QED
    BY <2>1, FullGives, AfterEventType DEF AfterEvent
<1> HIDE DEF rest
<1>3. Shows(face)
  <2>1. face \in Faces /\ face.state = state
    BY <1>1, <1>2, FullGives, FaceType DEF ManagerInv, ManagerTypeOK
  <2>2. face.portal = portal /\ face.ad = AfterEvent(ad, event) /\ face.drv = rest
    BY DEF FaceOf
  <2> QED
    BY <1>1, <1>2, <2>1, <2>2 DEF Shows
<1>4. Deliver(EmittedEvent(event), face) \/ (Becomes(face) /\ UNCHANGED running)
  BY DEF HandleAdapterEvent, rest
<1> HIDE DEF face, event
<1>5. Moves
  BY <1>3, <1>4, FullGives, DeliverMoves, BecomesMoves
<1> QED
  BY <1>5, MovesSuffices

LEMMA DriverQuiet ==
    ASSUME FullInv, StationConnects \/ StationFails \/ StationIsLost
    PROVE  QuietInv' /\ PortalStays
<1>1. drv'.started = drv.started
  BY DEF StationConnects, StationFails, StationIsLost, DriverMoves, LinkComesUp,
         ConnectFails, LinkIsLost, Posted
<1> QED
  BY <1>1, SameSuffices DEF StationConnects, StationFails, StationIsLost, DriverMoves

LEMMA TickQuiet ==
    ASSUME FullInv, Tick
    PROVE  QuietInv' /\ PortalStays
<1> DEFINE timer == Advance(retryScheduler, TickMs)
<1>1. \/ EnqueueAndProcess(PlainEvent(kRetryTimerElapsed), Face, timer)
      \/ UNCHANGED <<running, state, portal, ad, drv>>
  BY DEF Tick, AdvanceRetryTimer, faceVars
<1> HIDE DEF timer
<1>2. CASE EnqueueAndProcess(PlainEvent(kRetryTimerElapsed), Face, timer)
  BY <1>2, FullGives, EnqueueMoves, MovesSuffices
<1>3. CASE UNCHANGED <<running, state, portal, ad, drv>>
  BY <1>3, SameSuffices
<1> QED
  BY <1>1, <1>2, <1>3

LEMMA NextQuiet ==
    ASSUME FullInv, [Next]_vars
    PROVE  FullInv' /\ PortalStays
<1> SUFFICES QuietInv' /\ PortalStays
  BY NextStep DEF FullInv
<1>1. CASE TaskInit \/ TaskStart \/ TaskNotCreated \/ Stopped
  BY <1>1, InitQuiet, StartQuiet, StopQuiet
<1>2. CASE TaskCreated \/ Stopping \/ Receive \/ ReceiveTimesOut \/ LeaveLoop \/ UNCHANGED vars
  <2>1. UNCHANGED <<running, state, portal, ad, drv>>
    BY <1>2 DEF TaskCreated, Stopping, Receive, ReceiveTimesOut, LeaveLoop, vars,
                objectVars, faceVars
  <2> QED
    BY <2>1, SameSuffices
<1>3. CASE AppForcesProvisioning
  <2>1. ProvisioningRequested(Face) /\ UNCHANGED running
    BY <1>3 DEF AppForcesProvisioning, ForceProvisioning
  <2> QED
    BY <2>1, FullGives, ProvisioningMoves, MovesSuffices
<1>4. CASE DispatchReceived
  <2>1. DispatchEvent(current, Face, retryScheduler)
    BY <1>4 DEF DispatchReceived, Dispatch
  <2> QED
    BY <2>1, FullGives, DispatchMoves, MovesSuffices
<1>5. CASE Tick
  BY <1>5, TickQuiet
<1>6. CASE HandleAdapterEvent
  BY <1>6, HandleQuiet
<1>7. CASE PostConnect
  <2>1. PICK credentials \in Credentials :
           Deliver([type |-> kCredentialsReceived, credentials |-> credentials], Face)
    BY <1>7 DEF PostConnect
  <2> QED
    BY <2>1, FullGives, DeliverMoves, MovesSuffices
<1>8. CASE StationConnects \/ StationFails \/ StationIsLost
  BY <1>8, DriverQuiet
<1>9. CASE Destroy \/ PowerLoss
  BY <1>9, ConstructQuiet DEF Destroy, PowerLoss
<1> QED
  BY <1>1, <1>2, <1>3, <1>4, <1>5, <1>6, <1>7, <1>8, <1>9 DEF Next, AppStep, TaskStep

LEMMA QuietInitially == TaskSpecInit => FullInv
BY TaskInitially
DEF FullInv, QuietInv, TaskSpecInit, ManagerInit, FreshAdapter, FreshDriver, Follows

LEMMA FullInvariant == Spec => []FullInv
<1>1. FullInv /\ [Next]_vars => FullInv'
  BY NextQuiet
<1> QED
  BY <1>1, QuietInitially, PTL DEF Spec

\* WifiManager.cpp:239-265: in kStopped the driver is off, no timer and no event is
\* left to wake the manager, and no portal is active, whatever has failed before.
THEOREM StoppedCorrect == Spec => []StoppedIsQuiet
<1>1. FullInv => StoppedIsQuiet
  <2> SUFFICES ASSUME FullInv, state = kStopped PROVE StoppedIsQuiet
    BY DEF StoppedIsQuiet
  <2>1. ~running /\ ~drv.started /\ ~portal.active
    BY FullGives DEF QuietInv
  <2>2. ~retryScheduler.armed /\ eventQueue = <<>>
    BY FullGives DEF ManagerInv, RetryTimerInv
  <2> QED
    BY <2>1, <2>2 DEF StoppedIsQuiet
<1> QED
  BY <1>1, FullInvariant, PTL

\* WifiManager.cpp:323-336: an active portal outlives kPortal only by an error.
THEOREM PortalErrorsCorrect == Spec => PortalOutlivesOnlyErrors
<1>1. FullInv /\ [Next]_vars =>
        [state = kPortal /\ portal.active /\ portal'.active => state' \in {kPortal, kError}]_vars
  BY NextQuiet DEF PortalStays
<1> QED
  BY <1>1, FullInvariant, PTL DEF Spec, PortalOutlivesOnlyErrors
==============================================================================

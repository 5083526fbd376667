------------------------- MODULE WifiLifecycle_proofs -------------------------
(***************************************************************************)
(* The manager and its task implement WifiLifecycle, for every             *)
(* configuration, queue length, set of failing calls and set of inputs:    *)
(* the initial states map to initial states, and every step to a step of   *)
(* the life cycle or to none.                                              *)
(***************************************************************************)
EXTENDS WifiManagerTask_proofs

USE DEF kInit, kConnecting, kWaitingToRetry, kConnected, kPortal, kStopped, kError

\* What the refinement needs besides TaskInv.  A manager runs exactly while it has
\* the task's queue, so no event is dispatched to it from outside the task; and a
\* connection has no failures behind it.
LinkInv ==
    /\ externalQueue <=> running
    /\ app = "creating" => task = "none"
    /\ sm.state = kConnected => sm.connectAttempts = 0

RefinementInv == TaskInv /\ LinkInv

------------------------------------------------------------------------------
\* What the handling of each event does to what the life cycle sees.
Stays == UNCHANGED <<state, sm, forceProvisioning>>

Forces ==
    /\ forceProvisioning' = TRUE
    /\ running  => state' \in {kPortal, kError} /\ sm'.state = kPortal
    /\ ~running => UNCHANGED <<state, sm>>

Provisions ==
    /\ forceProvisioning' = FALSE
    /\ running  => state' \in {kConnecting, kError} /\ sm'.connectAttempts = 0
    /\ ~running => UNCHANGED <<state, sm>>

Succeeds ==
    /\ running
    /\ state' = kConnected
    /\ sm'.connectAttempts = 0
    /\ UNCHANGED forceProvisioning

NoDelay == InitialReconnectDelayMs = 0 \/ MaxReconnectDelayMs = 0

Fails ==
    /\ running
    /\ sm'.state # kConnected
    /\ UNCHANGED forceProvisioning
    /\ \/ /\ MaxConnectAttempts = 0 \/ ~(NextCount(sm) < MaxConnectAttempts)
          /\ state' \in {kPortal, kError}
       \/ /\ NextCount(sm) < MaxConnectAttempts
          /\ sm'.connectAttempts = NextCount(sm)
          /\ NoDelay  => state' \in {kConnecting, kError}
          /\ ~NoDelay => state' = kWaitingToRetry

Retries ==
    /\ running
    /\ state = kWaitingToRetry
    /\ state' \in {kConnecting, kError}
    /\ sm'.state = kConnecting
    /\ sm'.connectAttempts = sm.connectAttempts
    /\ UNCHANGED forceProvisioning

------------------------------------------------------------------------------
LEMMA UnhandledGives ==
    ASSUME NEW face \in Faces, face.state = state, NEW timer, Unhandled(face, timer)
    PROVE  Stays
BY DEF Unhandled, Becomes, Stays

LEMMA ForcesGives ==
    ASSUME NEW face \in Faces, face.state = state, ProvisioningRequested(face)
    PROVE  Forces
<1>1. CASE running
  <2>1. PICK f \in SetState(face, kPortal, activeCredentials) : Becomes(f)
    BY <1>1 DEF ProvisioningRequested
  <2>2. state' \in {kPortal, kError}
    BY <2>1, SetStateType DEF WifiState, Becomes
  <2>3. forceProvisioning' = TRUE /\ sm'.state = kPortal
    BY <1>1 DEF ProvisioningRequested, OnProvisioningRequested, Fresh
  <2> QED
    BY <1>1, <2>2, <2>3 DEF Forces
<1>2. CASE ~running
  BY <1>2 DEF ProvisioningRequested, Becomes, Forces
<1> QED
  BY <1>1, <1>2

LEMMA ProvisionsGives ==
    ASSUME NEW face \in Faces, face.state = state, NEW timer, NEW credentials,
           CredentialsReceived(credentials, face, timer)
    PROVE  Stays \/ Provisions
<1>1. CASE Unhandled(face, timer)
  BY <1>1, UnhandledGives
<1>2. CASE /\ forceProvisioning' = FALSE
           /\ IF running
              THEN /\ sm' = OnCredentialsReceived
                   /\ \E f \in SetState(WithStatus(face, "none"), kConnecting, credentials) :
                         Becomes(f)
              ELSE /\ UNCHANGED sm
                   /\ Becomes(WithStatus(face, "none"))
  <2>1. WithStatus(face, "none") \in Faces /\ WithStatus(face, "none").state = state
    BY FaceType DEF WifiRuntimeStatus
  <2>2. CASE running
    <3>1. PICK f \in SetState(WithStatus(face, "none"), kConnecting, credentials) : Becomes(f)
      BY <1>2, <2>2
    <3>2. state' \in {kConnecting, kError}
      BY <2>1, <3>1, SetStateType DEF WifiState, Becomes
    <3>3. sm'.connectAttempts = 0
      BY <1>2, <2>2 DEF OnCredentialsReceived, Fresh
    <3> QED
      BY <1>2, <2>2, <3>2, <3>3 DEF Provisions
  <2>3. CASE ~running
    BY <1>2, <2>1, <2>3 DEF Provisions, Becomes
  <2> QED
    BY <2>2, <2>3
<1> QED
  BY <1>1, <1>2 DEF CredentialsReceived

LEMMA SucceedsGives ==
    ASSUME NEW face \in Faces, ConnectionSucceeded(face)
    PROVE  Succeeds
<1>1. PICK f \in SetState(WithStatus(face, "address"), kConnected, activeCredentials) :
         Becomes(f)
  BY DEF ConnectionSucceeded
<1>2. state' = kConnected
  BY <1>1, SetStateType, FaceType DEF WifiState, WifiRuntimeStatus, Becomes
<1> QED
  BY <1>2 DEF ConnectionSucceeded, OnConnectionSucceeded, Fresh, Succeeds

LEMMA RetriesGives ==
    ASSUME NEW face \in Faces, sm \in StateMachine, state = kWaitingToRetry,
           RetryTimerElapsed(face)
    PROVE  Retries
<1>1. PICK f \in SetState(face, kConnecting, activeCredentials) : Becomes(f)
  BY DEF RetryTimerElapsed
<1>2. state' \in {kConnecting, kError}
  BY <1>1, SetStateType DEF WifiState, Becomes
<1> QED
  BY <1>2, RetryType DEF RetryTimerElapsed, Retries

\* WifiManager.cpp:201-224: with a configured delay of zero, and only then, the retry
\* follows at once.
LEMMA FailsGives ==
    ASSUME NEW face \in Faces, sm \in StateMachine, ConnectionFailed(face)
    PROVE  Fails
<1> DEFINE failed == OnConnectionFailed(sm)
<1>1. /\ failed \in StateMachine
      /\ failed.state \in {kWaitingToRetry, kPortal}
  BY FailedType
<1>2. NextCount(sm) \in Nat
  BY DEF StateMachine, UInt8, NextCount
<1>3. /\ failed.state = kPortal =>
            MaxConnectAttempts = 0 \/ ~(NextCount(sm) < MaxConnectAttempts)
      /\ failed.state = kWaitingToRetry =>
            /\ failed.connectAttempts = NextCount(sm)
            /\ NextCount(sm) < MaxConnectAttempts
            /\ failed.reconnectDelayMs = CalculateReconnectDelayMs(NextCount(sm))
  BY FailureCounts
<1>4. CalculateReconnectDelayMs(NextCount(sm)) = 0 <=> NoDelay
  BY <1>2, DelayIsZero DEF NoDelay
<1> HIDE DEF failed
<1>5. PICK f \in SetState(WithStatus(face, "reason"), failed.state, activeCredentials) :
         IF f.state = kWaitingToRetry /\ failed.reconnectDelayMs = 0
         THEN /\ sm' = OnRetryTimerElapsed(failed)
              /\ retryScheduler' = Cancel
              /\ \E g \in SetState(f, kConnecting, activeCredentials) : Becomes(g)
         ELSE /\ sm' = failed
              /\ retryScheduler' = IF f.state = kWaitingToRetry
                                   THEN Arm(failed.reconnectDelayMs) ELSE Cancel
              /\ Becomes(f)
  BY DEF ConnectionFailed, failed
<1>6. /\ f \in Faces
      /\ f.state \in {failed.state, kError}
      /\ failed.state = kWaitingToRetry => f.state = kWaitingToRetry
  BY <1>1, <1>5, SetStateType, FaceType DEF WifiState, WifiRuntimeStatus
<1>7. running /\ UNCHANGED forceProvisioning
  BY DEF ConnectionFailed
<1>8. CASE failed.state = kPortal
  <2>1. sm' = failed /\ Becomes(f)
    BY <1>5, <1>6, <1>8
  <2>2. state' \in {kPortal, kError}
    BY <1>6, <1>8, <2>1 DEF Becomes
  <2>3. sm'.state # kConnected
    BY <1>8, <2>1
  <2> QED
    BY <1>3, <1>7, <1>8, <2>2, <2>3 DEF Fails
<1>9. CASE failed.state = kWaitingToRetry /\ NoDelay
  <2>1. f.state = kWaitingToRetry /\ failed.reconnectDelayMs = 0
    BY <1>3, <1>4, <1>6, <1>9
  <2>2. /\ sm' = OnRetryTimerElapsed(failed)
        /\ \E g \in SetState(f, kConnecting, activeCredentials) : Becomes(g)
    BY <1>5, <2>1
  <2>3. PICK g \in SetState(f, kConnecting, activeCredentials) : Becomes(g)
    BY <2>2
  <2>4. state' \in {kConnecting, kError}
    BY <1>6, <2>3, SetStateType DEF WifiState, Becomes
  <2>5. sm'.state = kConnecting /\ sm'.connectAttempts = NextCount(sm)
    BY <1>1, <1>3, <1>9, <2>2, RetryType
  <2> QED
    BY <1>3, <1>7, <1>9, <2>4, <2>5 DEF Fails
<1>10. CASE failed.state = kWaitingToRetry /\ ~NoDelay
  <2>1. failed.reconnectDelayMs # 0 /\ f.state = kWaitingToRetry
    BY <1>3, <1>4, <1>6, <1>10
  <2>2. sm' = failed /\ Becomes(f)
    BY <1>5, <2>1
  <2>3. state' = kWaitingToRetry
    BY <2>1, <2>2 DEF Becomes
  <2>4. sm'.state # kConnected /\ sm'.connectAttempts = NextCount(sm)
    BY <1>3, <1>10, <2>2
  <2> QED
    BY <1>3, <1>7, <1>10, <2>3, <2>4 DEF Fails
<1> QED
  BY <1>1, <1>8, <1>9, <1>10

\* DispatchEvent (WifiManager.cpp:158-237) as a whole.
LEMMA DispatchGives ==
    ASSUME sm \in StateMachine, NEW event, NEW face \in Faces, face.state = state,
           NEW timer, event.type = kRetryTimerElapsed => state = kWaitingToRetry,
           DispatchEvent(event, face, timer)
    PROVE  /\ UNCHANGED running
           /\ \/ event.type = kProvisioningRequested /\ Forces
              \/ event.type = kCredentialsReceived /\ (Stays \/ Provisions)
              \/ event.type = kConnectionSucceeded /\ Succeeds
              \/ event.type = kConnectionFailed /\ Fails
              \/ event.type = kRetryTimerElapsed /\ Retries
              \/ ~running /\ Stays
<1>1. CASE event.type = kProvisioningRequested /\ ProvisioningRequested(face)
  BY <1>1, ForcesGives DEF DispatchEvent
<1>2. CASE /\ event.type = kCredentialsReceived
           /\ CredentialsReceived(event.credentials, face, timer)
  BY <1>2, ProvisionsGives DEF DispatchEvent
<1>3. CASE event.type = kConnectionSucceeded /\ ConnectionSucceeded(face)
  BY <1>3, SucceedsGives DEF DispatchEvent
<1>4. CASE event.type = kConnectionFailed /\ ConnectionFailed(face)
  BY <1>4, FailsGives DEF DispatchEvent
<1>5. CASE event.type = kRetryTimerElapsed /\ RetryTimerElapsed(face)
  BY <1>5, RetriesGives DEF DispatchEvent
<1>6. CASE ~running /\ Unhandled(face, timer)
  BY <1>6, UnhandledGives DEF DispatchEvent
<1> QED
  BY <1>1, <1>2, <1>3, <1>4, <1>5, <1>6 DEF DispatchEvent

\* Through the manager's own queue (lines 139-156, 339-360): what elapses is a wait, and
\* every other event comes from outside the task.
LEMMA EnqueueGives ==
    ASSUME ManagerInv, NEW event, NEW face \in Faces, face.state = state, NEW timer,
           event.type = kRetryTimerElapsed => state = kWaitingToRetry,
           EnqueueAndProcess(event, face, timer)
    PROVE  /\ UNCHANGED running
           /\ \/ event.type = kRetryTimerElapsed /\ Retries
              \/ event.type # kRetryTimerElapsed /\ (Forces \/ Provisions \/ Succeeds \/ Fails)
              \/ Stays
<1> USE DEF kProvisioningRequested, kCredentialsReceived, kConnectionSucceeded,
            kConnectionFailed, kRetryTimerElapsed
<1>1. eventQueue = <<>> /\ sm \in StateMachine
  BY DEF ManagerInv, ManagerTypeOK
<1>2. Head(Append(eventQueue, event)) = event
  BY <1>1
<1>3. CASE DispatchEvent(Head(Append(eventQueue, event)), face, timer)
  <2>1. DispatchEvent(event, face, timer)
    BY <1>2, <1>3
  <2> QED
    BY <1>1, <2>1, DispatchGives
<1>4. CASE Unhandled(face, timer) /\ UNCHANGED running
  BY <1>4, UnhandledGives
<1> QED
  BY <1>3, <1>4 DEF EnqueueAndProcess

------------------------------------------------------------------------------
\* The steps, one after the other.
LifecycleStep == [Lifecycle!Next]_(Lifecycle!vars)

Report == IF task = "dispatch" THEN current.type ELSE "none"

\* Most steps of the threads are none of the life cycle.
LEMMA NothingHappens ==
    ASSUME Stays, UNCHANGED <<running, Report>>
    PROVE  LifecycleStep
BY DEF Stays, Report, LifecycleStep, Lifecycle!vars

\* What a step has to show of LinkInv when it is not the application's.
LEMMA LinkStays ==
    ASSUME LinkInv, UNCHANGED <<running, externalQueue, app>>,
           app = "creating" => UNCHANGED task,
           Stays \/ Forces \/ Provisions \/ Succeeds \/ Fails \/ Retries
    PROVE  LinkInv'
BY DEF LinkInv, Stays, Forces, Provisions, Succeeds, Fails, Retries

LEMMA InvGives ==
    ASSUME RefinementInv
    PROVE  /\ TaskInv /\ LinkInv /\ ManagerInv
           /\ Face \in Faces /\ Face.state = state
           /\ sm \in StateMachine
           /\ running \in BOOLEAN /\ forceProvisioning \in BOOLEAN
           /\ sm.connectAttempts \in 0..255 /\ MaxConnectAttempts \in 0..255
           /\ app = "idle" /\ ~taskRunning => ~running
           /\ app = "creating" \/ app = "stopping" => running
<1>1. ManagerInv
  BY TaskTypeGives DEF RefinementInv
<1>2. Face \in Faces /\ Face.state = state
  BY <1>1, FaceType DEF Face, ManagerInv, ManagerTypeOK
<1>3. /\ sm \in StateMachine
      /\ running \in BOOLEAN
      /\ forceProvisioning \in BOOLEAN
  BY <1>1 DEF ManagerInv, ManagerTypeOK
<1>4. sm.connectAttempts \in 0..255
  BY <1>3 DEF StateMachine, UInt8
<1>5. PhaseInv
  BY DEF RefinementInv, TaskInv
<1> QED
  BY <1>1, <1>2, <1>3, <1>4, <1>5, BackoffAssumption DEF RefinementInv, PhaseInv

------------------------------------------------------------------------------
\* The application's thread.

LEMMA InitRefines ==
    ASSUME RefinementInv, TaskInit
    PROVE  LinkInv' /\ LifecycleStep
<1>1. running = FALSE /\ running' = FALSE /\ forceProvisioning' = FALSE
  BY InvGives DEF TaskInit, Init
<1>2. PICK o \in AdapterInit(ad, drv) :
         LET face == WithStatus(WithOutcome(Face, o), "none") IN
         \E f \in IF o.result = ESP_OK
                  THEN SetState(face, kInit, EmptyCredentials) ELSE {face} : Becomes(f)
  BY DEF TaskInit, Init
<1> DEFINE face == WithStatus(WithOutcome(Face, o), "none")
<1>3. o \in Outcomes
  BY <1>2, InvGives, AdapterInitType DEF ManagerInv, ManagerTypeOK
<1>4. face \in Faces /\ face.state = state
  BY <1>3, InvGives, FaceType DEF WifiRuntimeStatus
<1>5. PICK f \in IF o.result = ESP_OK
                 THEN SetState(face, kInit, EmptyCredentials) ELSE {face} : Becomes(f)
  BY <1>2
<1> HIDE DEF face
<1>6. f.state \in {state, kInit}
  BY <1>4, <1>5, SetStateType DEF WifiState
<1>7. state' \in {state, kInit}
  BY <1>5, <1>6 DEF Becomes
<1>8. sm'.state = kInit /\ sm'.connectAttempts = 0
  BY DEF TaskInit, Init, Reset, Fresh
<1>9. LinkInv'
  BY <1>1, <1>8, InvGives DEF TaskInit, queueVars, taskVars, LinkInv
<1>10. Lifecycle!Configure
  BY <1>1, <1>7, <1>8 DEF TaskInit, taskVars, Lifecycle!Configure, Lifecycle!Enter
<1> QED
  BY <1>9, <1>10 DEF LifecycleStep, Lifecycle!Next

\* WifiManager.cpp:90-114.
LEMMA StartGives ==
    ASSUME ManagerInv, ~running, Start
    PROVE  /\ UNCHANGED forceProvisioning
           /\ \/ Stays /\ UNCHANGED running
              \/ /\ running'
                 /\ forceProvisioning
                 /\ state' \in {kPortal, kError}
                 /\ UNCHANGED sm
              \/ /\ running'
                 /\ ~forceProvisioning
                 /\ state' \in {kConnecting, kPortal, kError}
                 /\ sm'.connectAttempts = 0
<1>1. PICK o \in IF initialized THEN AdapterStart(ad, drv)
                 ELSE {Outcome(ESP_FAIL, ad, drv)} :
         LET face == WithOutcome(Face, o) IN
         \/ Becomes(face) /\ UNCHANGED <<sm, running>>
         \/ /\ forceProvisioning
            /\ running' = TRUE
            /\ \E f \in SetState(face, kPortal, activeCredentials) : Becomes(f)
            /\ UNCHANGED sm
         \/ /\ ~forceProvisioning
            /\ running' = TRUE
            /\ \E load \in LoadOutcomes(nvs) :
                 /\ sm' = OnStart(forceProvisioning, load.loaded)
                 /\ \E f \in SetState(face, sm'.state, load.credentials) : Becomes(f)
  BY DEF Start
<1> DEFINE face == WithOutcome(Face, o)
<1>2. o \in Outcomes
  BY <1>1, AdapterStartType, OutcomeType DEF ManagerInv, ManagerTypeOK
<1>3. Face \in Faces /\ Face.state = state
  BY FaceType DEF Face, ManagerInv, ManagerTypeOK
<1>4. face \in Faces /\ face.state = state
  BY <1>2, <1>3, FaceType
<1> HIDE DEF face
<1>5. UNCHANGED forceProvisioning
  BY DEF Start
<1>6. CASE Becomes(face) /\ UNCHANGED <<sm, running>>
  BY <1>4, <1>5, <1>6 DEF Becomes, Stays
<1>7. CASE /\ forceProvisioning
           /\ running' = TRUE
           /\ \E f \in SetState(face, kPortal, activeCredentials) : Becomes(f)
           /\ UNCHANGED sm
  <2>1. PICK f \in SetState(face, kPortal, activeCredentials) : Becomes(f)
    BY <1>7
  <2>2. state' \in {kPortal, kError}
    BY <1>4, <2>1, SetStateType DEF WifiState, Becomes
  <2> QED
    BY <1>5, <1>7, <2>2
<1>8. CASE /\ ~forceProvisioning
           /\ running' = TRUE
           /\ \E load \in LoadOutcomes(nvs) :
                /\ sm' = OnStart(forceProvisioning, load.loaded)
                /\ \E f \in SetState(face, sm'.state, load.credentials) : Becomes(f)
  <2>1. PICK load \in LoadOutcomes(nvs) :
           /\ sm' = OnStart(forceProvisioning, load.loaded)
           /\ \E f \in SetState(face, sm'.state, load.credentials) : Becomes(f)
    BY <1>8
  <2>2. sm'.state \in {kPortal, kConnecting} /\ sm'.connectAttempts = 0
    BY <2>1 DEF OnStart, Fresh
  <2>3. PICK f \in SetState(face, sm'.state, load.credentials) : Becomes(f)
    BY <2>1
  <2>4. sm'.state \in WifiState
    BY <2>2 DEF WifiState
  <2>5. f.state \in {sm'.state, kError}
    BY <1>4, <2>3, <2>4, SetStateType
  <2>6. state' \in {kConnecting, kPortal, kError}
    BY <2>2, <2>3, <2>5 DEF Becomes
  <2> QED
    BY <1>5, <1>8, <2>2, <2>6
<1> QED
  BY <1>1, <1>6, <1>7, <1>8 DEF face

LEMMA StartRefines ==
    ASSUME RefinementInv, TaskStart
    PROVE  LinkInv' /\ LifecycleStep
<1>1. ~running
  BY InvGives DEF TaskStart
<1>2. Start /\ UNCHANGED <<task, current>> /\ externalQueue' = running' /\ task = "none"
  BY DEF TaskStart
<1>3. running' \in BOOLEAN
  BY <1>1, <1>2, InvGives, StartStep DEF ManagerInv, ManagerTypeOK
<1>4. CASE Stays /\ UNCHANGED running
  <2>1. LinkInv'
    BY <1>1, <1>2, <1>4, InvGives DEF LinkInv, Stays
  <2>2. UNCHANGED Report
    BY <1>2 DEF Report
  <2> QED
    BY <1>4, <2>1, <2>2, NothingHappens
<1>5. CASE /\ running'
           /\ forceProvisioning
           /\ state' \in {kPortal, kError}
           /\ UNCHANGED <<sm, forceProvisioning>>
  <2>1. LinkInv'
    BY <1>2, <1>5, InvGives DEF LinkInv
  <2>2. Lifecycle!Begin
    BY <1>1, <1>2, <1>3, <1>5 DEF Lifecycle!Begin, Lifecycle!Enter
  <2> QED
    BY <2>1, <2>2 DEF LifecycleStep, Lifecycle!Next
<1>6. CASE /\ running'
           /\ ~forceProvisioning
           /\ state' \in {kConnecting, kPortal, kError}
           /\ sm'.connectAttempts = 0
           /\ UNCHANGED forceProvisioning
  <2>1. LinkInv'
    BY <1>2, <1>6 DEF LinkInv
  <2>2. Lifecycle!Begin
    BY <1>1, <1>2, <1>3, <1>6 DEF Lifecycle!Begin, Lifecycle!Enter
  <2> QED
    BY <2>1, <2>2 DEF LifecycleStep, Lifecycle!Next
<1> QED
  BY <1>1, <1>2, <1>4, <1>5, <1>6, InvGives, StartGives

LEMMA CreatedRefines ==
    ASSUME RefinementInv, TaskCreated \/ Stopping
    PROVE  LinkInv' /\ LifecycleStep
<1>1. Stays /\ UNCHANGED <<running, externalQueue>>
  BY DEF TaskCreated, Stopping, objectVars, faceVars, queueVars, Stays
<1>2. UNCHANGED Report
  BY InvGives DEF TaskCreated, Stopping, LinkInv, Report
<1>3. LinkInv'
  BY <1>1, InvGives DEF TaskCreated, Stopping, LinkInv, Stays
<1> QED
  BY <1>1, <1>2, <1>3, NothingHappens

\* WifiManager.cpp:239-265, from both of its callers.
LEMMA StopRefines ==
    ASSUME RefinementInv, TaskNotCreated \/ Stopped
    PROVE  LinkInv' /\ LifecycleStep
<1>1. running /\ Stop
  BY InvGives DEF TaskNotCreated, Stopped
<1>2. /\ running' = FALSE
      /\ state' \in {kStopped, kError}
      /\ sm'.state \in {kInit, kStopped}
      /\ UNCHANGED forceProvisioning
  BY <1>1 DEF Stop, OnStop, Reset, Fresh
<1>3. /\ externalQueue' = FALSE
      /\ app' = "idle"
      /\ UNCHANGED <<task, current>>
  BY DEF TaskNotCreated, Stopped
<1>4. LinkInv'
  BY <1>2, <1>3 DEF LinkInv
<1>5. Lifecycle!Halt
  BY <1>1, <1>2, <1>3 DEF Lifecycle!Halt, Lifecycle!Enter
<1> QED
  BY <1>4, <1>5 DEF LifecycleStep, Lifecycle!Next

LEMMA AppForcesRefines ==
    ASSUME RefinementInv, AppForcesProvisioning
    PROVE  LinkInv' /\ LifecycleStep
<1>1. Forces /\ UNCHANGED <<running, externalQueue, task, current, app>>
  BY InvGives, ForcesGives DEF AppForcesProvisioning, ForceProvisioning, queueVars, taskVars
<1>2. LinkInv'
  BY <1>1, InvGives, LinkStays
<1>3. CASE running
  <2>1. Lifecycle!Force
    BY <1>1, <1>3 DEF Forces, Lifecycle!Force, Lifecycle!Enter
  <2> QED
    BY <1>2, <2>1 DEF LifecycleStep, Lifecycle!Next
<1>4. CASE ~running
  <2>1. Lifecycle!Remember
    BY <1>1, <1>4 DEF Forces, Lifecycle!Remember
  <2> QED
    BY <1>2, <2>1 DEF LifecycleStep, Lifecycle!Next
<1> QED
  BY <1>2, <1>3, <1>4

LEMMA ConstructRefines ==
    ASSUME TaskConstruct
    PROVE  LinkInv' /\ LifecycleStep
<1>1. /\ running' = FALSE /\ externalQueue' = FALSE /\ forceProvisioning' = FALSE
      /\ state' = kInit
      /\ sm'.state = kInit
      /\ app' = "idle" /\ task' = "none"
  BY DEF TaskConstruct, Construct, Reset, Fresh
<1>2. LinkInv'
  BY <1>1 DEF LinkInv
<1>3. Lifecycle!Renew
  BY <1>1 DEF Lifecycle!Renew, Lifecycle!Enter
<1> QED
  BY <1>2, <1>3 DEF LifecycleStep, Lifecycle!Next

------------------------------------------------------------------------------
\* The task.

LEMMA ReceiveRefines ==
    ASSUME RefinementInv, Receive
    PROVE  LinkInv' /\ LifecycleStep
<1> USE DEF kProvisioningRequested, kCredentialsReceived, kConnectionSucceeded,
            kConnectionFailed, kRetryTimerElapsed
<1>1. Stays /\ UNCHANGED <<running, externalQueue, app>> /\ task = "loop"
  BY DEF Receive, objectVars, faceVars, Stays
<1>2. LinkInv'
  BY <1>1, InvGives, LinkStays DEF LinkInv
<1>3. CASE ~taskRunning
  <2>1. UNCHANGED Report
    BY <1>3 DEF Receive, Report
  <2> QED
    BY <1>1, <1>2, <2>1, NothingHappens
<1>4. CASE taskRunning
  <2>1. current' \in WifiManagerEvent /\ current'.type # kRetryTimerElapsed
    BY InvGives, TaskTypeGives, QueueType DEF Receive
  <2>2. current'.type \in Lifecycle!Reports
    BY <2>1 DEF WifiManagerEvent, WifiManagerEventType, Lifecycle!Reports
  <2>3. task' = "dispatch"
    BY <1>4 DEF Receive
  <2>4. Lifecycle!Take
    BY <1>1, <2>2, <2>3 DEF Stays, Lifecycle!Take
  <2> QED
    BY <1>2, <2>4 DEF LifecycleStep, Lifecycle!Next
<1> QED
  BY <1>3, <1>4

LEMMA QuietTaskRefines ==
    ASSUME RefinementInv, ReceiveTimesOut \/ LeaveLoop
    PROVE  LinkInv' /\ LifecycleStep
<1>1. Stays /\ UNCHANGED <<running, externalQueue, app>> /\ task = "loop"
  BY DEF ReceiveTimesOut, LeaveLoop, objectVars, faceVars, queueVars, Stays
<1>2. UNCHANGED Report
  BY DEF ReceiveTimesOut, LeaveLoop, Report
<1> QED
  BY <1>1, <1>2, InvGives, LinkStays, NothingHappens DEF LinkInv

\* A failure that is reported: the count goes on without a gap, and the attempts
\* end when it says so.  The counter does not wrap, because attempts are left.
LEMMA FailureRefines ==
    ASSUME RefinementInv, Fails, UNCHANGED running,
           task = "dispatch", current.type = kConnectionFailed, task' = "loop"
    PROVE  Lifecycle!Fail
<1> DEFINE n == NextCount(sm)
<1>1. running /\ UNCHANGED forceProvisioning
  BY DEF Fails
<1>2. n \in 0..255 /\ (sm.connectAttempts < 255 => n = sm.connectAttempts + 1)
  BY InvGives DEF NextCount
<1>3. state \in {kConnecting, kWaitingToRetry} =>
         sm.connectAttempts = 0 \/ sm.connectAttempts < MaxConnectAttempts
  BY InvGives DEF ManagerInv, AttemptsLeft
<1>4. state = kConnected => sm.connectAttempts = 0
  BY <1>1, InvGives DEF ManagerInv, ShadowState, LinkInv
<1>5. /\ state \in {kConnecting, kWaitingToRetry} => n = sm.connectAttempts + 1
      /\ state = kConnected => n = 1
  BY <1>2, <1>3, <1>4, InvGives
<1>6. n \in 0..MaxConnectAttempts => n \in Lifecycle!Counts
  BY <1>5 DEF Lifecycle!Counts, Lifecycle!Trying
<1>7. n >= MaxConnectAttempts => \E m \in Lifecycle!Counts : m >= MaxConnectAttempts
  <2>1. CASE state \in {kConnecting, kWaitingToRetry, kConnected}
    BY <1>5, <2>1 DEF Lifecycle!Counts, Lifecycle!Trying
  <2>2. CASE state \notin {kConnecting, kWaitingToRetry, kConnected}
    <3>1. Lifecycle!Counts = 0..MaxConnectAttempts
      BY <2>2 DEF Lifecycle!Counts, Lifecycle!Trying
    <3>2. MaxConnectAttempts \in 0..MaxConnectAttempts /\ MaxConnectAttempts >= MaxConnectAttempts
      BY BackoffAssumption
    <3> QED
      BY <3>1, <3>2
  <2> QED
    BY <2>1, <2>2
<1> DEFINE Handled == Lifecycle!Handled("kConnectionFailed")
<1>8. Handled
  BY DEF Lifecycle!Handled, kConnectionFailed
<1> HIDE DEF n, Handled
<1>9. CASE /\ MaxConnectAttempts = 0 \/ ~(n < MaxConnectAttempts)
           /\ state' \in {kPortal, kError}
  <2>1. n >= MaxConnectAttempts
    BY <1>2, <1>9, InvGives
  <2>2. Lifecycle!Enter({"kPortal", "kError"})
    BY <1>9 DEF Lifecycle!Enter
  <2> QED
    BY <1>1, <1>7, <1>8, <2>1, <2>2 DEF Lifecycle!Fail, Handled
<1>10. CASE /\ n < MaxConnectAttempts
            /\ sm'.connectAttempts = n
            /\ NoDelay  => state' \in {kConnecting, kError}
            /\ ~NoDelay => state' = kWaitingToRetry
  <2>1. n \in Lifecycle!Counts
    BY <1>2, <1>6, <1>10, InvGives
  <2>2. CASE NoDelay /\ state' = kError
    <3>1. Lifecycle!Enter({"kError"})
      BY <2>2 DEF Lifecycle!Enter
    <3> QED
      BY <1>1, <1>8, <1>10, <2>1, <2>2, <3>1 DEF Lifecycle!Fail, Handled, NoDelay
  <2>3. CASE ~(NoDelay /\ state' = kError)
    <3>1. Lifecycle!TryAgain(n)
      BY <1>10, <2>3 DEF Lifecycle!TryAgain, NoDelay
    <3> QED
      BY <1>1, <1>8, <2>1, <3>1 DEF Lifecycle!Fail, Handled
  <2> QED
    BY <2>2, <2>3
<1> QED
  BY <1>9, <1>10 DEF Fails, n

LEMMA DispatchRefines ==
    ASSUME RefinementInv, DispatchReceived
    PROVE  LinkInv' /\ LifecycleStep
<1> USE DEF kProvisioningRequested, kCredentialsReceived, kConnectionSucceeded,
            kConnectionFailed, kRetryTimerElapsed
<1>1. /\ task = "dispatch" /\ task' = "loop"
      /\ UNCHANGED <<externalQueue, app>>
      /\ DispatchEvent(current, Face, retryScheduler)
  BY DEF DispatchReceived, Dispatch, queueVars
<1>2. current.type # kRetryTimerElapsed
  BY InvGives, TaskTypeGives
<1>3. /\ UNCHANGED running
      /\ \/ current.type = kProvisioningRequested /\ Forces
         \/ current.type = kCredentialsReceived /\ (Stays \/ Provisions)
         \/ current.type = kConnectionSucceeded /\ Succeeds
         \/ current.type = kConnectionFailed /\ Fails
         \/ ~running /\ Stays
  BY <1>1, <1>2, InvGives, DispatchGives
<1>4. LinkInv'
  BY <1>1, <1>3, InvGives, LinkStays DEF LinkInv
<1>5. forceProvisioning \in BOOLEAN /\ running \in BOOLEAN
  BY InvGives
<1>6. CASE current.type = kProvisioningRequested /\ Forces /\ running
  <2>1. Lifecycle!Force
    BY <1>1, <1>3, <1>6 DEF Forces, Lifecycle!Force, Lifecycle!Enter, Lifecycle!Handled
  <2> QED
    BY <1>4, <2>1 DEF LifecycleStep, Lifecycle!Next
<1>7. CASE current.type = kCredentialsReceived /\ Provisions /\ running
  <2>1. Lifecycle!Provision
    BY <1>1, <1>3, <1>7
    DEF Provisions, Lifecycle!Provision, Lifecycle!Enter, Lifecycle!Handled
  <2> QED
    BY <1>4, <2>1 DEF LifecycleStep, Lifecycle!Next
<1>8. CASE current.type = kCredentialsReceived /\ Stays
  <2>1. Lifecycle!Remember
    BY <1>1, <1>3, <1>5, <1>8 DEF Stays, Lifecycle!Remember, Lifecycle!Handled
  <2> QED
    BY <1>4, <2>1 DEF LifecycleStep, Lifecycle!Next
<1>9. CASE ~running /\ (Forces \/ Provisions \/ Stays)
  <2>1. UNCHANGED <<state, sm>> /\ forceProvisioning' \in BOOLEAN
    BY <1>5, <1>9 DEF Forces, Provisions, Stays
  <2>2. Lifecycle!Remember
    BY <1>1, <1>3, <1>9, <2>1 DEF Lifecycle!Remember, Lifecycle!Handled
  <2> QED
    BY <1>4, <2>2 DEF LifecycleStep, Lifecycle!Next
<1>10. CASE current.type = kConnectionSucceeded /\ Succeeds
  <2>1. Lifecycle!Succeed
    BY <1>1, <1>3, <1>10
    DEF Succeeds, Lifecycle!Succeed, Lifecycle!Enter, Lifecycle!Handled
  <2> QED
    BY <1>4, <2>1 DEF LifecycleStep, Lifecycle!Next
<1>11. CASE current.type = kConnectionFailed /\ Fails
  <2>1. Lifecycle!Fail
    BY <1>1, <1>3, <1>11, FailureRefines
  <2> QED
    BY <1>4, <2>1 DEF LifecycleStep, Lifecycle!Next
<1> QED
  BY <1>3, <1>6, <1>7, <1>8, <1>9, <1>10, <1>11

\* WifiManager.cpp:139-156.
LEMMA TickRefines ==
    ASSUME RefinementInv, Tick
    PROVE  LinkInv' /\ LifecycleStep
<1> DEFINE timer == Advance(retryScheduler, TickMs)
<1>1. /\ task = "tick" /\ task' = "loop"
      /\ UNCHANGED <<externalQueue, app>>
      /\ AdvanceRetryTimer(TickMs)
  BY DEF Tick, queueVars
<1>2. UNCHANGED Report
  BY <1>1 DEF Report
<1>3. UNCHANGED running /\ (Stays \/ Retries)
  <2>1. CASE initialized /\ Elapses(retryScheduler, TickMs)
    <3>1. EnqueueAndProcess(PlainEvent(kRetryTimerElapsed), Face, timer)
      BY <1>1, <2>1 DEF AdvanceRetryTimer
    <3>2. state = kWaitingToRetry
      BY <2>1, InvGives DEF Elapses, ManagerInv, RetryTimerInv
    <3>3. PlainEvent(kRetryTimerElapsed).type = kRetryTimerElapsed
      BY DEF PlainEvent
    <3> QED
      BY <3>1, <3>2, <3>3, InvGives, EnqueueGives
  <2>2. CASE ~(initialized /\ Elapses(retryScheduler, TickMs))
    BY <1>1, <2>2 DEF AdvanceRetryTimer, faceVars, Stays
  <2> QED
    BY <2>1, <2>2
<1>4. LinkInv'
  BY <1>1, <1>3, InvGives, LinkStays DEF LinkInv
<1>5. CASE Stays
  BY <1>2, <1>3, <1>4, <1>5, NothingHappens
<1>6. CASE Retries
  <2>1. Lifecycle!Retry
    BY <1>1, <1>3, <1>6 DEF Retries, Lifecycle!Retry, Lifecycle!Enter
  <2> QED
    BY <1>4, <2>1 DEF LifecycleStep, Lifecycle!Next
<1> QED
  BY <1>3, <1>5, <1>6

------------------------------------------------------------------------------
\* The event loop, the HTTP server and the driver.

\* While the manager runs, an event is put into the queue; at rest, it changes at
\* most what a later start will do.
LEMMA DeliverRefines ==
    ASSUME RefinementInv, NEW event, event.type # kRetryTimerElapsed,
           NEW face \in Faces, face.state = state, Deliver(event, face),
           UNCHANGED <<externalQueue, task, current, app>>
    PROVE  LinkInv' /\ LifecycleStep
<1>1. UNCHANGED Report
  BY DEF Report
<1>2. CASE Unhandled(face, retryScheduler) /\ UNCHANGED running
  <2>1. Stays
    BY <1>2, UnhandledGives
  <2> QED
    BY <1>1, <1>2, <2>1, InvGives, LinkStays, NothingHappens
<1>3. CASE ~externalQueue /\ EnqueueAndProcess(event, face, retryScheduler)
  <2>1. ~running
    BY <1>3, InvGives DEF LinkInv
  <2>2. UNCHANGED running /\ (Forces \/ Provisions \/ Stays)
    BY <1>3, <2>1, InvGives, EnqueueGives DEF Succeeds, Fails
  <2>3. UNCHANGED <<state, sm>> /\ forceProvisioning' \in BOOLEAN
    BY <2>1, <2>2, InvGives DEF Forces, Provisions, Stays
  <2>4. Lifecycle!Remember
    BY <2>1, <2>2, <2>3 DEF Lifecycle!Remember
  <2>5. LinkInv'
    BY <2>2, InvGives, LinkStays
  <2> QED
    BY <2>4, <2>5 DEF LifecycleStep, Lifecycle!Next
<1> QED
  BY <1>2, <1>3 DEF Deliver

LEMMA HandleRefines ==
    ASSUME RefinementInv, HandleAdapterEvent
    PROVE  LinkInv' /\ LifecycleStep
<1> DEFINE event == Head(drv.events)
           rest  == [drv EXCEPT !.events = Tail(@)]
           face  == FaceOf(state, runtimeStatus, portal, AfterEvent(ad, event), rest)
<1>1. UNCHANGED <<externalQueue, task, current, app>>
  BY DEF HandleAdapterEvent, taskVars
<1>2. rest \in Driver
  <2>1. drv \in Driver /\ drv.events # <<>>
    BY InvGives DEF ManagerInv, ManagerTypeOK, HandleAdapterEvent
  <2>2. Tail(drv.events) \in Seq(DriverEvent)
    BY <2>1 DEF Driver
  <2> QED
    BY <2>1, <2>2 DEF Driver
<1>3. AfterEvent(ad, event) \in Adapter
  BY InvGives, AfterEventType DEF ManagerInv, ManagerTypeOK
<1> HIDE DEF rest
<1>4. face \in Faces /\ face.state = state
  BY <1>2, <1>3, InvGives, FaceType DEF ManagerInv, ManagerTypeOK
<1>5. CASE Deliver(EmittedEvent(event), face)
  <2> HIDE DEF face, event
  <2> QED
    BY <1>1, <1>4, <1>5, EventType, DeliverRefines
<1>6. CASE Becomes(face) /\ UNCHANGED <<sm, running, forceProvisioning>>
  <2>1. Stays
    BY <1>4, <1>6 DEF Becomes, Stays
  <2>2. UNCHANGED Report
    BY <1>1 DEF Report
  <2> QED
    BY <1>1, <1>6, <2>1, <2>2, InvGives, LinkStays, NothingHappens
<1> QED
  BY <1>5, <1>6 DEF HandleAdapterEvent, rest

LEMMA PostRefines ==
    ASSUME RefinementInv, PostConnect
    PROVE  LinkInv' /\ LifecycleStep
<1>1. PICK credentials \in Credentials :
         Deliver([type |-> kCredentialsReceived, credentials |-> credentials], Face)
  BY DEF PostConnect
<1> DEFINE event == [type |-> kCredentialsReceived, credentials |-> credentials]
<1>2. event.type # kRetryTimerElapsed /\ Deliver(event, Face)
  BY <1>1 DEF kCredentialsReceived, kRetryTimerElapsed
<1> HIDE DEF event
<1>3. UNCHANGED <<externalQueue, task, current, app>>
  BY DEF PostConnect, taskVars
<1> QED
  BY <1>2, <1>3, InvGives, DeliverRefines

LEMMA DriverRefines ==
    ASSUME RefinementInv, StationConnects \/ StationFails \/ StationIsLost
    PROVE  LinkInv' /\ LifecycleStep
<1>1. Stays /\ UNCHANGED <<running, externalQueue, task, current, app>>
  BY DEF StationConnects, StationFails, StationIsLost, DriverMoves, queueVars, taskVars, Stays
<1>2. UNCHANGED Report
  BY <1>1 DEF Report
<1> QED
  BY <1>1, <1>2, InvGives, LinkStays, NothingHappens

------------------------------------------------------------------------------
\* Every step keeps the invariant and is one of the life cycle, or none.
LEMMA NextRefines ==
    ASSUME RefinementInv, [Next]_vars
    PROVE  RefinementInv' /\ LifecycleStep
<1>1. TaskInv'
  BY NextStep DEF RefinementInv
<1>2. CASE UNCHANGED vars
  <2>1. Stays /\ UNCHANGED <<running, externalQueue, task, current, app>>
    BY <1>2 DEF vars, objectVars, faceVars, queueVars, taskVars, Stays
  <2>2. UNCHANGED Report
    BY <2>1 DEF Report
  <2>3. LinkInv' /\ LifecycleStep
    BY <2>1, <2>2, InvGives, LinkStays, NothingHappens
  <2> QED
    BY <1>1, <2>3 DEF RefinementInv
<1>3. CASE AppStep
  <2>1. LinkInv' /\ LifecycleStep
    BY <1>3, InitRefines, StartRefines, CreatedRefines, StopRefines, AppForcesRefines,
       ConstructRefines
    DEF AppStep, Destroy
  <2> QED
    BY <1>1, <2>1 DEF RefinementInv
<1>4. CASE TaskStep
  <2>1. LinkInv' /\ LifecycleStep
    BY <1>4, ReceiveRefines, QuietTaskRefines, DispatchRefines, TickRefines DEF TaskStep
  <2> QED
    BY <1>1, <2>1 DEF RefinementInv
<1>5. CASE \/ HandleAdapterEvent \/ PostConnect \/ PowerLoss
           \/ StationConnects \/ StationFails \/ StationIsLost
  <2>1. LinkInv' /\ LifecycleStep
    BY <1>5, HandleRefines, PostRefines, DriverRefines, ConstructRefines DEF PowerLoss
  <2> QED
    BY <1>1, <2>1 DEF RefinementInv
<1> QED
  BY <1>2, <1>3, <1>4, <1>5 DEF Next

LEMMA InitiallyRefines == TaskSpecInit => RefinementInv /\ Lifecycle!Init
<1> SUFFICES ASSUME TaskSpecInit PROVE RefinementInv /\ Lifecycle!Init
  OBVIOUS
<1>1. LinkInv
  BY DEF TaskSpecInit, ManagerInit, LinkInv, Reset, Fresh
<1>2. Lifecycle!Init
  BY DEF TaskSpecInit, ManagerInit, Lifecycle!Init
<1> QED
  BY <1>1, <1>2, TaskInitially DEF RefinementInv

\* WifiManager.cpp, WifiManagerTask.cpp: what WifiLifecycle promises holds of every
\* run of the threads, whatever fails and however long the queue is.
THEOREM LifecycleCorrect == Spec => ImplementsLifecycle
<1>1. RefinementInv /\ [Next]_vars => RefinementInv' /\ [Lifecycle!Next]_(Lifecycle!vars)
  BY NextRefines DEF LifecycleStep
<1> QED
  BY <1>1, InitiallyRefines, PTL DEF Spec, ImplementsLifecycle, Lifecycle!Spec
==============================================================================

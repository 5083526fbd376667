---------------------------- MODULE WifiManager ----------------------------
(***************************************************************************)
(* WifiManager.cpp: the object that owns the state machine, the retry      *)
(* timer, the stored credentials, the adapter and the captive portal.      *)
(* Each public operation and each event handler is an action that runs to  *)
(* its end; WifiManagerTask interleaves them.                              *)
(***************************************************************************)
EXTENDS WifiManagerStateMachine, WifiManagerEspIdfAdapter,
        WifiCredentialStore, WifiRetryScheduler

CONSTANTS
    EventQueueCapacity, \* WifiManagerEventQueue's kCapacity
    QueueCapacity       \* the length of the task's FreeRTOS queue

ASSUME CapacityAssumption ==
    /\ EventQueueCapacity \in Nat \ {0}
    /\ QueueCapacity \in Nat \ {0}

VARIABLES
    state,                 \* what GetState returns
    runtimeStatus,
    activeCredentials,
    retryScheduler,
    initialized,
    running,               \* the manager's running_, not the task's
    forceProvisioning,
    hasStoredCredentials,
    portal,                \* portalActive_ and the two servers behind it
    ad,                    \* espIdfAdapter_
    drv,                   \* the Wi-Fi driver
    nvs,                   \* the credentials in flash
    eventQueue,            \* the manager's own queue
    externalQueue,         \* externalQueue_ is not null
    queue,                 \* what the external queue holds
    lostEvent              \* history: a full queue has refused a driver event

\* What one call of SetState may change.
faceVars == <<state, runtimeStatus, portal, ad, drv>>

\* The manager and what it drives, without the queue the task attaches.
objectVars == <<sm, faceVars, activeCredentials, retryScheduler, initialized,
                running, forceProvisioning, hasStoredCredentials, nvs, eventQueue>>

queueVars == <<externalQueue, queue, lostEvent>>

------------------------------------------------------------------------------
\* The captive portal: portalActive_, CaptivePortalHttp's and CaptivePortalDns's
\* running_.  A server that runs already refuses to start again.
Portal == [active : BOOLEAN, http : BOOLEAN, dns : BOOLEAN]

NoPortal == [active |-> FALSE, http |-> FALSE, dns |-> FALSE]

CanStart(call) == IF MayFail(call) THEN BOOLEAN ELSE {TRUE}

\* A failure of the DNS server is only logged; one of the HTTP server stops it.
StartPortal(p) ==
    IF p.active THEN {p}
    ELSE {[active |-> ok /\ ~p.http,
           http   |-> ok \/ p.http,
           dns    |-> ok /\ ~p.http /\ (dnsOk \/ p.dns)]
          : ok \in CanStart("httpd_start"), dnsOk \in CanStart("dns_start")}

\* Mutant: the HTTP server is not stopped.
StopPortalLeavesServer(p) == {[active |-> FALSE, http |-> p.http, dns |-> FALSE]}

\* The results of the two Stops are ignored.
StopPortal(p) ==
    IF ~p.active THEN {p}
    ELSE {[active |-> FALSE, http |-> ~ok, dns |-> FALSE] : ok \in CanStart("httpd_stop")}

------------------------------------------------------------------------------
\* What SetState reads and writes, as one value, so that it can be applied twice
\* in one step.
Faces == [state : WifiState, runtimeStatus : WifiRuntimeStatus, portal : Portal,
          ad : Adapter, drv : Driver]

FaceOf(s, status, p, a, d) ==
    [state |-> s, runtimeStatus |-> status, portal |-> p, ad |-> a, drv |-> d]

Face == FaceOf(state, runtimeStatus, portal, ad, drv)

WithStatus(face, status) == FaceOf(face.state, status, face.portal, face.ad, face.drv)

WithOutcome(face, o) == FaceOf(face.state, face.runtimeStatus, face.portal, o.ad, o.drv)

Becomes(face) ==
    /\ state' = face.state
    /\ runtimeStatus' = face.runtimeStatus
    /\ portal' = face.portal
    /\ ad' = face.ad
    /\ drv' = face.drv

\* Mutant: the portal ends only with new credentials.
PortalEndsByConnecting(previous, face) ==
    {FaceOf(face.state, face.runtimeStatus, p, face.ad, face.drv) :
        p \in IF face.state = kPortal THEN StartPortal(face.portal)
              ELSE IF previous = kPortal /\ face.state = kConnecting
                   THEN StopPortal(face.portal)
              ELSE {face.portal}}

\* SetState after the adapter: the portal follows the state.
PortalFollows(previous, face) ==
    {FaceOf(face.state, face.runtimeStatus, p, face.ad, face.drv) :
        p \in IF face.state = kPortal THEN StartPortal(face.portal)
              ELSE IF previous = kPortal THEN StopPortal(face.portal)
              ELSE {face.portal}}

\* SetState(newState, true).  An adapter that cannot follow turns the state into
\* kError, and then the portal is left as it is.
SetState(face, newState, credentials) ==
    UNION {
        IF o.result # ESP_OK /\ newState # kError
        THEN {FaceOf(kError, "none", face.portal, o.ad, o.drv)}
        ELSE PortalFollows(face.state, FaceOf(newState, face.runtimeStatus,
                                              face.portal, o.ad, o.drv))
        : o \in ApplyState(face.ad, face.drv, newState, credentials)}

------------------------------------------------------------------------------
ManagerInit ==
    /\ sm = Reset
    /\ state = kInit
    /\ runtimeStatus = "none"
    /\ activeCredentials = EmptyCredentials
    /\ retryScheduler = Cancel
    /\ initialized = FALSE
    /\ running = FALSE
    /\ forceProvisioning = FALSE
    /\ hasStoredCredentials = FALSE
    /\ portal = NoPortal
    /\ ad = FreshAdapter
    /\ drv = FreshDriver
    /\ nvs \in {EmptyNvs} \cup [ssid : Ssid, pass : Password]
    /\ eventQueue = <<>>
    /\ externalQueue = FALSE
    /\ queue = <<>>
    /\ lostEvent = FALSE

\* A new object, as its constructor leaves it.
Construct ==
    /\ sm' = Reset
    /\ state' = kInit
    /\ runtimeStatus' = "none"
    /\ activeCredentials' = EmptyCredentials
    /\ retryScheduler' = Cancel
    /\ initialized' = FALSE
    /\ running' = FALSE
    /\ forceProvisioning' = FALSE
    /\ hasStoredCredentials' = FALSE
    /\ portal' = NoPortal
    /\ ad' = FreshAdapter
    /\ eventQueue' = <<>>
    /\ externalQueue' = FALSE
    /\ queue' = <<>>
    /\ lostEvent' = FALSE

\* Init.  Applying kInit never fails.
Init ==
    /\ running' = FALSE
    /\ forceProvisioning' = FALSE
    /\ hasStoredCredentials' = FALSE
    /\ activeCredentials' = EmptyCredentials
    /\ eventQueue' = <<>>
    /\ retryScheduler' = Cancel
    /\ sm' = Reset
    /\ \E o \in AdapterInit(ad, drv) :
         LET face == WithStatus(WithOutcome(Face, o), "none") IN
         /\ initialized' = (o.result = ESP_OK)
         /\ \E f \in IF o.result = ESP_OK
                     THEN SetState(face, kInit, EmptyCredentials) ELSE {face} :
               Becomes(f)
    /\ UNCHANGED nvs

\* Start.  A forced start leaves the state machine, the timer and the credentials
\* as they were.
Start ==
    /\ UNCHANGED <<initialized, forceProvisioning, nvs, eventQueue>>
    /\ \E o \in IF initialized THEN AdapterStart(ad, drv)
                ELSE {Outcome(ESP_FAIL, ad, drv)} :
         LET face == WithOutcome(Face, o) IN
         \/ /\ o.result # ESP_OK
            /\ Becomes(face)
            /\ UNCHANGED <<sm, running, activeCredentials, hasStoredCredentials,
                           retryScheduler>>
         \/ /\ o.result = ESP_OK
            /\ forceProvisioning
            /\ running' = TRUE
            /\ \E f \in SetState(face, kPortal, activeCredentials) : Becomes(f)
            /\ UNCHANGED <<sm, activeCredentials, hasStoredCredentials, retryScheduler>>
         \/ /\ o.result = ESP_OK
            /\ ~forceProvisioning
            /\ running' = TRUE
            /\ retryScheduler' = Cancel
            /\ \E load \in LoadOutcomes(nvs) :
                 /\ activeCredentials' = load.credentials
                 /\ hasStoredCredentials' = load.loaded
                 /\ sm' = OnStart(forceProvisioning, load.loaded)
                 /\ \E f \in SetState(face, sm'.state, load.credentials) : Becomes(f)

\* Stop.  The portal goes first; the state is set without the adapter.
Stop ==
    /\ initialized
    /\ running' = FALSE
    /\ eventQueue' = <<>>
    /\ retryScheduler' = Cancel
    /\ runtimeStatus' = "none"
    /\ portal' \in StopPortal(portal)
    /\ \E o \in AdapterStop(ad, drv) :
         /\ ad' = o.ad
         /\ drv' = o.drv
         /\ IF o.result = ESP_OK
            THEN /\ sm' = OnStop
                 /\ state' = kStopped
                 /\ hasStoredCredentials' = FALSE
            ELSE /\ sm' = Reset
                 /\ state' = kError
                 /\ UNCHANGED hasStoredCredentials
    /\ UNCHANGED <<initialized, activeCredentials, forceProvisioning, nvs>>

------------------------------------------------------------------------------
\* Mutant: what is not handled ends the wait.
UnhandledCancels(face, timer) ==
    /\ Becomes(face)
    /\ retryScheduler' = Cancel
    /\ UNCHANGED <<sm, activeCredentials, forceProvisioning, hasStoredCredentials>>

\* DispatchEvent: one action per event type, from a face and a timer as the
\* caller leaves them.  Its test of initialized_ is left to the callers: the
\* task exists only between the start and the end of an initialized manager, and
\* EnqueueAndProcess tests it.
Unhandled(face, timer) ==
    /\ Becomes(face)
    /\ retryScheduler' = timer
    /\ UNCHANGED <<sm, activeCredentials, forceProvisioning, hasStoredCredentials>>

\* A failed save leaves everything but the flash as it was.
CredentialsReceived(credentials, face, timer) ==
    \/ /\ ~HasSsid(credentials)
       /\ Unhandled(face, timer)
       /\ UNCHANGED nvs
    \/ /\ HasSsid(credentials)
       /\ \E save \in SaveOutcomes(nvs, credentials) :
            /\ nvs' = save.nvs
            /\ ~save.saved
            /\ Unhandled(face, timer)
    \/ /\ HasSsid(credentials)
       /\ \E save \in SaveOutcomes(nvs, credentials) : save.saved /\ nvs' = save.nvs
       /\ activeCredentials' = credentials
       /\ hasStoredCredentials' = TRUE
       /\ forceProvisioning' = FALSE
       /\ retryScheduler' = Cancel
       /\ IF running
          THEN /\ sm' = OnCredentialsReceived
               /\ \E f \in SetState(WithStatus(face, "none"), kConnecting, credentials) : Becomes(f)
          ELSE /\ UNCHANGED sm
               /\ Becomes(WithStatus(face, "none"))

\* Mutant: the state machine is not told.
ConnectionSucceededUntold(face) ==
    /\ running
    /\ retryScheduler' = Cancel
    /\ \E f \in SetState(WithStatus(face, "address"), kConnected, activeCredentials) : Becomes(f)
    /\ UNCHANGED <<sm, activeCredentials, forceProvisioning, hasStoredCredentials, nvs>>

\* Mutant: running_ is not looked at.
ConnectionSucceededAtRest(face) ==
    /\ retryScheduler' = Cancel
    /\ sm' = OnConnectionSucceeded
    /\ \E f \in SetState(WithStatus(face, "address"), kConnected, activeCredentials) : Becomes(f)
    /\ UNCHANGED <<activeCredentials, forceProvisioning, hasStoredCredentials, nvs>>

ConnectionSucceeded(face) ==
    /\ running
    /\ retryScheduler' = Cancel
    /\ sm' = OnConnectionSucceeded
    /\ \E f \in SetState(WithStatus(face, "address"), kConnected, activeCredentials) : Becomes(f)
    /\ UNCHANGED <<activeCredentials, forceProvisioning, hasStoredCredentials, nvs>>

\* A failure arms the timer, retries at once when there is no delay, or gives up.
ConnectionFailed(face) ==
    LET failed == OnConnectionFailed(sm) IN
    /\ running
    /\ \E f \in SetState(WithStatus(face, "reason"), failed.state, activeCredentials) :
         IF f.state = kWaitingToRetry /\ failed.reconnectDelayMs = 0
         THEN /\ sm' = OnRetryTimerElapsed(failed)
              /\ retryScheduler' = Cancel
              /\ \E g \in SetState(f, kConnecting, activeCredentials) : Becomes(g)
         ELSE /\ sm' = failed
              /\ retryScheduler' = IF f.state = kWaitingToRetry
                                   THEN Arm(failed.reconnectDelayMs) ELSE Cancel
              /\ Becomes(f)
    /\ UNCHANGED <<activeCredentials, forceProvisioning, hasStoredCredentials, nvs>>

RetryTimerElapsed(face) ==
    /\ running
    /\ retryScheduler' = Cancel
    /\ sm' = OnRetryTimerElapsed(sm)
    /\ \E f \in SetState(face, kConnecting, activeCredentials) : Becomes(f)
    /\ UNCHANGED <<activeCredentials, forceProvisioning, hasStoredCredentials, nvs>>

\* Mutant: the retry timer is not cancelled.
ProvisioningKeepsTimer(face) ==
    /\ forceProvisioning' = TRUE
    /\ IF running
       THEN /\ sm' = OnProvisioningRequested
            /\ \E f \in SetState(face, kPortal, activeCredentials) : Becomes(f)
       ELSE /\ UNCHANGED sm
            /\ Becomes(face)
    /\ UNCHANGED <<retryScheduler, activeCredentials, hasStoredCredentials, nvs>>

ProvisioningRequested(face) ==
    /\ forceProvisioning' = TRUE
    /\ retryScheduler' = Cancel
    /\ IF running
       THEN /\ sm' = OnProvisioningRequested
            /\ \E f \in SetState(face, kPortal, activeCredentials) :
                  Becomes(f)
       ELSE /\ UNCHANGED sm
            /\ Becomes(face)
    /\ UNCHANGED <<activeCredentials, hasStoredCredentials, nvs>>

DispatchEvent(event, face, timer) ==
    /\ UNCHANGED <<initialized, running>>
    /\ \/ /\ event.type = kProvisioningRequested
          /\ ProvisioningRequested(face)
       \/ /\ event.type = kCredentialsReceived
          /\ CredentialsReceived(event.credentials, face, timer)
       \/ /\ event.type = kConnectionSucceeded
          /\ ConnectionSucceeded(face)
       \/ /\ event.type = kConnectionFailed
          /\ ConnectionFailed(face)
       \/ /\ event.type = kRetryTimerElapsed
          /\ RetryTimerElapsed(face)
       \/ /\ event.type \in {kConnectionSucceeded, kConnectionFailed, kRetryTimerElapsed}
          /\ ~running
          /\ Unhandled(face, timer)
          /\ UNCHANGED nvs

\* The same from the task, and the application's own call.
Dispatch(event) == DispatchEvent(event, Face, retryScheduler) /\ UNCHANGED eventQueue

ForceProvisioning ==
    ProvisioningRequested(Face) /\ UNCHANGED <<initialized, running, eventQueue>>

------------------------------------------------------------------------------
\* EnqueueEvent, then ProcessNextEvent: what the queue's head says is dispatched.
EnqueueAndProcess(event, face, timer) ==
    LET pushed == Append(eventQueue, event) IN
    \/ /\ initialized
       /\ Len(eventQueue) < EventQueueCapacity
       /\ eventQueue' = Tail(pushed)
       /\ DispatchEvent(Head(pushed), face, timer)
    \/ /\ ~initialized \/ Len(eventQueue) = EventQueueCapacity
       /\ Unhandled(face, timer)
       /\ UNCHANGED <<initialized, running, nvs, eventQueue>>

AdvanceRetryTimer(elapsedMs) ==
    LET timer == Advance(retryScheduler, elapsedMs) IN
    IF initialized /\ Elapses(retryScheduler, elapsedMs)
    THEN EnqueueAndProcess(PlainEvent(kRetryTimerElapsed), Face, timer)
    ELSE /\ retryScheduler' = IF initialized THEN timer ELSE retryScheduler
         /\ UNCHANGED <<sm, faceVars, activeCredentials, initialized, running,
                        forceProvisioning, hasStoredCredentials, nvs, eventQueue>>

\* Mutant: the external queue takes everything.
DeliverUnbounded(event, face) ==
    \/ /\ externalQueue
       /\ queue' = Append(queue, event)
       /\ Unhandled(face, retryScheduler)
       /\ UNCHANGED <<initialized, running, nvs, eventQueue>>
    \/ /\ ~externalQueue
       /\ EnqueueAndProcess(event, face, retryScheduler)
       /\ UNCHANGED queue

\* OnAdapterEvent and OnPortalEvent are the same function: into the external
\* queue if there is one and it has room, otherwise through the manager's own.
Deliver(event, face) ==
    \/ /\ externalQueue
       /\ queue' = IF Len(queue) < QueueCapacity THEN Append(queue, event) ELSE queue
       /\ Unhandled(face, retryScheduler)
       /\ UNCHANGED <<initialized, running, nvs, eventQueue>>
    \/ /\ ~externalQueue
       /\ EnqueueAndProcess(event, face, retryScheduler)
       /\ UNCHANGED queue
------------------------------------------------------------------------------
\* Every variable of the object keeps its type.
ManagerTypeOK ==
    /\ sm \in StateMachine
    /\ state \in WifiState
    /\ runtimeStatus \in WifiRuntimeStatus
    /\ activeCredentials \in WifiCredentials
    /\ retryScheduler \in RetryScheduler
    /\ initialized \in BOOLEAN
    /\ running \in BOOLEAN
    /\ forceProvisioning \in BOOLEAN
    /\ hasStoredCredentials \in BOOLEAN
    /\ portal \in Portal
    /\ ad \in Adapter
    /\ drv \in Driver
    /\ nvs \in Nvs
    /\ eventQueue \in Seq(WifiManagerEvent)

\* WifiManager.cpp: whichever thread caused a transition, the retry timer is
\* armed exactly while the manager waits to retry.  So a timer never outlives
\* what it was for, and a manager that waits has something that will wake it.
RetryTimerInv == retryScheduler.armed <=> state = kWaitingToRetry

\* WifiManagerStateMachine.cpp:44-66: an attempt, or a wait for one, is always
\* within the configured number of attempts, however the failures of several
\* connections, sessions and credentials are interleaved.
AttemptsLeft ==
    state \in {kConnecting, kWaitingToRetry} =>
        sm.connectAttempts = 0 \/ sm.connectAttempts < MaxConnectAttempts

\* WifiManager.cpp keeps the state twice, in state_ and in the state machine.
\* While it runs they differ only after an error, or in a portal that was forced
\* before the start (lines 103-106), which the state machine is never told of.
ShadowState ==
    running => \/ state = sm.state
               \/ state = kError
               \/ state = kPortal /\ sm.state \in {kInit, kStopped}

\* WifiManager::Stop: in kStopped the driver is off, no timer and no event is left
\* to wake the manager, and no portal is active.
StoppedIsQuiet ==
    state = kStopped => /\ ~running
                        /\ ~drv.started
                        /\ ~retryScheduler.armed
                        /\ eventQueue = <<>>
                        /\ ~portal.active

\* WifiManager::SetState: without failing calls, both portal servers run in
\* kPortal and neither runs in any other state.
PortalFollowsState ==
    portal = IF state = kPortal THEN [active |-> TRUE, http |-> TRUE, dns |-> TRUE]
                                ELSE NoPortal

\* WifiManager.cpp:108-112, 174-180: while the manager says it has stored
\* credentials, those it connects with are those in flash, together.
StoredAreActive ==
    hasStoredCredentials =>
        nvs = [ssid |-> activeCredentials.ssid, pass |-> activeCredentials.password]
==============================================================================

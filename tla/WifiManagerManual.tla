-------------------------- MODULE WifiManagerManual --------------------------
(***************************************************************************)
(* The manager without its task (README.md:101, "manual event loop         *)
(* control"): there is no external queue, the application puts events into *)
(* the manager's own queue, takes them out and advances the retry timer,   *)
(* and each driver event is put into that queue by the event loop, which   *)
(* then dispatches the oldest event there is.  Handlers do not overlap,    *)
(* and the portal serves nobody.                                           *)
(***************************************************************************)
EXTENDS WifiManager

CONSTANTS
    Elapsed,            \* what the application passes to AdvanceRetryTimer
    MaxDriverEvents     \* bound: nothing adds to so many unhandled driver events

ASSUME ManualAssumption == Elapsed \subseteq Nat /\ MaxDriverEvents \in Nat \ {0}

VARIABLES
    ring,           \* eventQueue_ as it is stored; eventQueue is what it holds
    lostRetry       \* history: an elapsed timer found the queue full

vars == <<objectVars, queueVars, ring, lostRetry>>

Ring == INSTANCE WifiManagerEventQueue WITH
    kCapacity    <- EventQueueCapacity,
    Event        <- WifiManagerEvent,
    InitialEvent <- PlainEvent(kProvisioningRequested)

ManualSpecInit ==
    /\ ManagerInit
    /\ ring = Ring!NewQueue
    /\ lostRetry = FALSE

DriverHasRoom == Len(drv.events) < MaxDriverEvents

\* The events an application makes; WiFi events come from the driver.
ApplicationEvents ==
    {PlainEvent(kProvisioningRequested)}
    \cup {[type |-> kCredentialsReceived, credentials |-> c] : c \in Credentials}

RetryQueued == \E i \in 1..Len(eventQueue) : eventQueue[i].type = kRetryTimerElapsed

------------------------------------------------------------------------------
\* Bound: the application does not initialise or start a manager that runs.
ManualInit ==
    /\ ~running
    /\ Init
    /\ ring' = Ring!Clear(ring)
    /\ lostRetry' = FALSE
    /\ UNCHANGED queueVars

ManualStart ==
    /\ ~running
    /\ DriverHasRoom
    /\ Start
    /\ UNCHANGED <<queueVars, ring, lostRetry>>

ManualStop ==
    /\ DriverHasRoom
    /\ Stop
    /\ ring' = Ring!Clear(ring)
    /\ lostRetry' = FALSE
    /\ UNCHANGED queueVars

EnqueueEvent ==
    /\ initialized
    /\ \E event \in ApplicationEvents :
         /\ ring' = Ring!Push(ring, event)
         /\ eventQueue' = IF Len(eventQueue) < EventQueueCapacity
                          THEN Append(eventQueue, event) ELSE eventQueue
    /\ UNCHANGED <<sm, faceVars, activeCredentials, retryScheduler, initialized, running,
                   forceProvisioning, hasStoredCredentials, nvs, queueVars, lostRetry>>

ProcessNextEvent ==
    /\ initialized
    /\ eventQueue # <<>>
    /\ DriverHasRoom
    /\ DispatchEvent(Head(eventQueue), Face, retryScheduler)
    /\ eventQueue' = Tail(eventQueue)
    /\ ring' = Ring!Pop(ring)
    /\ UNCHANGED <<queueVars, lostRetry>>

\* The queue after EnqueueEvent and, if that took the event, ProcessNextEvent.
RingAfter(event) ==
    IF initialized /\ Ring!HasRoom(ring) THEN Ring!Pop(Ring!Push(ring, event)) ELSE ring

ManualAdvance ==
    /\ DriverHasRoom
    /\ \E elapsedMs \in Elapsed :
         LET elapses == initialized /\ Elapses(retryScheduler, elapsedMs) IN
         /\ AdvanceRetryTimer(elapsedMs)
         /\ ring' = IF elapses THEN RingAfter(PlainEvent(kRetryTimerElapsed)) ELSE ring
         /\ lostRetry' = (lostRetry \/ (elapses /\ ~Ring!HasRoom(ring)))
    /\ UNCHANGED queueVars

ManualForce ==
    /\ DriverHasRoom
    /\ ForceProvisioning
    /\ UNCHANGED <<queueVars, ring, lostRetry>>

------------------------------------------------------------------------------
HandleAdapterEvent ==
    /\ drv.events # <<>>
    /\ LET event == Head(drv.events)
           face  == FaceOf(state, runtimeStatus, portal, AfterEvent(ad, event),
                           [drv EXCEPT !.events = Tail(@)])
       IN  \/ /\ Emits(ad, event)
              /\ Deliver(EmittedEvent(event), face)
              /\ ring' = RingAfter(EmittedEvent(event))
           \/ /\ ~Emits(ad, event)
              /\ Unhandled(face, retryScheduler)
              /\ UNCHANGED <<initialized, running, nvs, eventQueue, queue, ring>>
    /\ UNCHANGED <<externalQueue, lostEvent, lostRetry>>

DriverMoves ==
    /\ DriverHasRoom
    /\ drv' \in LinkComesUp(drv) \cup ConnectFails(drv) \cup LinkIsLost(drv)
    /\ UNCHANGED <<sm, state, runtimeStatus, portal, ad, activeCredentials,
                   retryScheduler, initialized, running, forceProvisioning,
                   hasStoredCredentials, nvs, eventQueue, queueVars, ring, lostRetry>>

Next == ManualInit \/ ManualStart \/ ManualStop \/ EnqueueEvent \/ ProcessNextEvent
        \/ ManualAdvance \/ ManualForce \/ HandleAdapterEvent \/ DriverMoves

Spec == ManualSpecInit /\ [][Next]_vars

------------------------------------------------------------------------------
\* Every variable keeps its type.
ManualTypeOK ==
    /\ ManagerTypeOK
    /\ ring \in Ring!EventQueue
    /\ lostRetry \in BOOLEAN

\* WifiManagerEventQueue.hpp: through every wrap of its indices, every clearing and
\* every refusal, the ring holds the events of a bounded first-in first-out queue.
RingHoldsQueue == Ring!RingOK(ring) /\ Ring!Contents(ring) = eventQueue

\* WifiManager.cpp:139-156: a manager that waits has a timer, or the event of the
\* timer in its queue behind others, unless the queue was full when it elapsed.
WaitIsAccounted ==
    state = kWaitingToRetry => retryScheduler.armed \/ RetryQueued \/ lostRetry

\* WifiManager.cpp:191-233: an event left in the queue, also one of a timer that
\* elapsed before the stop, moves no manager at rest.
ManualRestingStays ==
    [][~running /\ state' # state => ManualInit \/ ManualStart \/ ManualStop]_vars
==============================================================================

----------------------- MODULE WifiManagerManual_proofs -----------------------
(***************************************************************************)
(* Without the task, for every capacity: the ring buffer behind the        *)
(* manager's queue holds the events of that queue, an event left in it     *)
(* moves no manager at rest, and a manager that waits has a timer or its   *)
(* event, or has lost it to a full queue.                                  *)
(***************************************************************************)
EXTENDS WifiManagerManual, WifiManager_proofs, SequenceTheorems

USE DEF kInit, kConnecting, kWaitingToRetry, kConnected, kPortal, kStopped, kError

------------------------------------------------------------------------------
(* The ring by itself. *)

\* What an index is once it has wrapped.
Wrapped(x) == IF x < EventQueueCapacity THEN x ELSE x - EventQueueCapacity

LEMMA Wraps ==
    ASSUME NEW x \in 0..(2 * EventQueueCapacity - 1)
    PROVE  /\ x % EventQueueCapacity = Wrapped(x)
           /\ x % EventQueueCapacity \in 0..(EventQueueCapacity - 1)
BY CapacityAssumption, SMT DEF Wrapped

\* An index and a count of slots: as far as an index ever gets before it wraps.
LEMMA SumsFit ==
    \A c \in Nat \ {0} : \A x \in 0..(c - 1), y \in 0..c : x + y \in 0..(2 * c - 1)
OBVIOUS

\* A ring that holds the events of a sequence.
Holds(r, q) ==
    /\ r \in Ring!EventQueue
    /\ q \in Seq(WifiManagerEvent)
    /\ Ring!RingOK(r)
    /\ Ring!Contents(r) = q

\* What a ring holds is as long as its size says, and slot by slot the sequence.
LEMMA HoldsSlots ==
    ASSUME NEW r, NEW q, Holds(r, q)
    PROVE  /\ Len(q) = r.size
           /\ r.size \in 0..EventQueueCapacity
           /\ r.head \in 0..(EventQueueCapacity - 1)
           /\ r.tail = (r.head + r.size) % EventQueueCapacity
           /\ r.tail \in 0..(EventQueueCapacity - 1)
           /\ \A i \in 1..r.size : q[i] = r.events[(r.head + i - 1) % EventQueueCapacity]
<1>1. /\ r.size \in 0..EventQueueCapacity
      /\ r.head \in 0..(EventQueueCapacity - 1)
      /\ r.tail \in 0..(EventQueueCapacity - 1)
  BY DEF Holds, Ring!EventQueue, Ring!Slots
<1>2. q = [i \in 1..r.size |-> r.events[(r.head + i - 1) % EventQueueCapacity]]
  BY DEF Holds, Ring!Contents
<1>3. DOMAIN q = 1..r.size
  BY <1>2
<1>4. Len(q) = r.size
  <2>1. Len(q) \in Nat /\ DOMAIN q = 1..Len(q)
    BY LenProperties DEF Holds
  <2> QED
    BY <2>1, <1>3, <1>1, CapacityAssumption
<1> QED
  BY <1>1, <1>2, <1>4 DEF Holds, Ring!RingOK

\* There is room in the ring exactly when there is room in the queue.
LEMMA RoomIsRoom ==
    ASSUME NEW r, NEW q, Holds(r, q)
    PROVE  /\ Ring!HasRoom(r) <=> Len(q) < EventQueueCapacity
           /\ ~Ring!HasRoom(r) <=> Len(q) = EventQueueCapacity
BY HoldsSlots, CapacityAssumption DEF Ring!HasRoom

\* A ring and a sequence that agree on every slot.
LEMMA SlotsHold ==
    ASSUME NEW r \in Ring!EventQueue, NEW q \in Seq(WifiManagerEvent),
           Ring!RingOK(r), Len(q) = r.size,
           \A i \in 1..r.size : q[i] = r.events[(r.head + i - 1) % EventQueueCapacity]
    PROVE  Holds(r, q)
<1> DEFINE c == [i \in 1..r.size |-> r.events[(r.head + i - 1) % EventQueueCapacity]]
<1>1. q = [i \in 1..Len(q) |-> q[i]]
  BY LenProperties, SeqDef
<1>2. q = c
  BY <1>1
<1> QED
  BY <1>2 DEF Holds, Ring!Contents

\* A new or a cleared ring holds nothing.
LEMMA ClearHolds ==
    ASSUME NEW r \in Ring!EventQueue
    PROVE  Holds(Ring!Clear(r), <<>>)
<1>1. Ring!Clear(r) \in Ring!EventQueue
  BY CapacityAssumption DEF Ring!Clear, Ring!EventQueue, Ring!Slots
<1>2. Ring!RingOK(Ring!Clear(r))
  BY Wraps, CapacityAssumption DEF Ring!RingOK, Ring!Clear
<1>3. /\ Ring!Clear(r).size = 0
      /\ <<>> \in Seq(WifiManagerEvent)
      /\ Len(<<>>) = 0
  BY DEF Ring!Clear
<1>4. \A i \in 1..Ring!Clear(r).size :
         <<>>[i] = Ring!Clear(r).events[(Ring!Clear(r).head + i - 1) % EventQueueCapacity]
  BY <1>3
<1> QED
  BY <1>1, <1>2, <1>3, <1>4, SlotsHold

\* Push appends, if there is room, whichever way the tail wraps.
LEMMA PushHolds ==
    ASSUME NEW r, NEW q, Holds(r, q), NEW e \in WifiManagerEvent
    PROVE  Holds(Ring!Push(r, e),
                 IF Len(q) < EventQueueCapacity THEN Append(q, e) ELSE q)
<1> DEFINE C == EventQueueCapacity
           p == Ring!Push(r, e)
<1>1. CASE ~Ring!HasRoom(r)
  BY <1>1, RoomIsRoom, HoldsSlots DEF Ring!Push
<1>2. CASE Ring!HasRoom(r)
  <2>1. /\ Len(q) < C
        /\ Len(q) = r.size
        /\ r.size \in 0..(C - 1)
        /\ r.head \in 0..(C - 1)
        /\ r.tail \in 0..(C - 1)
        /\ C \in Nat \ {0}
    BY <1>2, RoomIsRoom, HoldsSlots, CapacityAssumption
  <2>0. r.tail = Wrapped(r.head + r.size)
    <3>1. r.tail = (r.head + r.size) % C
      BY HoldsSlots
    <3>2. r.head + r.size \in 0..(2 * C - 1)
      BY <2>1
    <3>3. (r.head + r.size) % C = Wrapped(r.head + r.size)
      BY <3>2, Wraps, Zenon
    <3> QED
      BY <3>1, <3>3
  <2>2. /\ p.events = [r.events EXCEPT ![r.tail] = e]
        /\ p.head = r.head
        /\ p.tail = (r.tail + 1) % C
        /\ p.size = r.size + 1
    BY <1>2 DEF Ring!Push
  <2>3. r.events \in [0..(C - 1) -> WifiManagerEvent]
    BY DEF Holds, Ring!EventQueue, Ring!Slots
  <2>4. (r.tail + 1) % C \in 0..(C - 1)
    <3>1. r.tail + 1 \in 0..(2 * C - 1)
      BY <2>1
    <3> QED
      BY <3>1, Wraps, Zenon
  <2>5. p \in Ring!EventQueue
    <3>1. p = [events |-> p.events, head |-> p.head, tail |-> p.tail, size |-> p.size]
      BY <1>2 DEF Ring!Push
    <3> HIDE DEF p
    <3>2. p.events \in [0..(C - 1) -> WifiManagerEvent]
      BY <2>2, <2>3
    <3> QED
      BY <3>1, <3>2, <2>1, <2>2, <2>4 DEF Ring!EventQueue, Ring!Slots
  <2>6. Ring!RingOK(p)
    <3>1. (r.tail + 1) % C = (r.head + (r.size + 1)) % C
      <4>1. /\ r.tail + 1 \in 0..(2 * C - 1)
            /\ r.head + (r.size + 1) \in 0..(2 * C - 1)
        BY <2>1
      <4>2. (r.tail + 1) % C = Wrapped(r.tail + 1)
        BY <4>1, Wraps, Zenon
      <4>3. (r.head + (r.size + 1)) % C = Wrapped(r.head + (r.size + 1))
        BY <4>1, Wraps, Zenon
      <4>4. Wrapped(r.tail + 1) = Wrapped(r.head + (r.size + 1))
        BY <2>0, <2>1 DEF Wrapped
      <4> QED
        BY <4>2, <4>3, <4>4
    <3> QED
      BY <2>2, <3>1 DEF Ring!RingOK
  <2>7. /\ Append(q, e) \in Seq(WifiManagerEvent)
        /\ Len(Append(q, e)) = r.size + 1
        /\ \A i \in 1..(r.size + 1) : Append(q, e)[i] = IF i = r.size + 1 THEN e ELSE q[i]
    BY <2>1 DEF Holds
  <2>8. ASSUME NEW i \in 1..(r.size + 1)
        PROVE  Append(q, e)[i] = p.events[(p.head + i - 1) % C]
    <3>1. r.head + i - 1 \in 0..(2 * C - 1)
      BY <2>1
    <3>2. (r.head + i - 1) % C \in 0..(C - 1)
      BY <3>1, Wraps, Zenon
    <3>3. CASE i = r.size + 1
      <4>1. (r.head + i - 1) % C = r.tail
        <5>1. r.head + i - 1 = r.head + r.size
          BY <3>3, <2>1
        <5> QED
          BY <5>1, HoldsSlots
      <4>2. p.events[r.tail] = e
        BY <2>1, <2>2, <2>3
      <4>3. Append(q, e)[i] = e
        BY <3>3, <2>7
      <4> QED
        BY <4>1, <4>2, <4>3, <2>2
    <3>4. CASE i # r.size + 1
      <4>1. i \in 1..r.size
        BY <3>4, <2>1
      <4>2. (r.head + i - 1) % C # r.tail
        <5>1. (r.head + i - 1) % C = Wrapped(r.head + i - 1)
          BY <3>1, Wraps, Zenon
        <5>2. Wrapped(r.head + i - 1) # Wrapped(r.head + r.size)
          BY <4>1, <2>1 DEF Wrapped
        <5> QED
          BY <5>1, <5>2, <2>0
      <4>3. q[i] = r.events[(r.head + i - 1) % C]
        BY <4>1, HoldsSlots
      <4> QED
        BY <4>1, <4>2, <4>3, <3>2, <3>4, <2>2, <2>3, <2>7
    <3> QED
      BY <3>3, <3>4
  <2> QED
    BY <2>1, <2>2, <2>5, <2>6, <2>7, <2>8, SlotsHold
<1> QED
  BY <1>1, <1>2

\* Pop takes the oldest event, and leaves the others in their order.
LEMMA PopHolds ==
    ASSUME NEW r, NEW q, Holds(r, q), q # <<>>
    PROVE  Holds(Ring!Pop(r), Tail(q))
<1> DEFINE C == EventQueueCapacity
           p == Ring!Pop(r)
<1>1. /\ Len(q) = r.size
      /\ r.size \in 1..C
      /\ r.head \in 0..(C - 1)
      /\ r.tail \in 0..(C - 1)
      /\ C \in Nat \ {0}
  <2>1. Len(q) # 0
    BY EmptySeq DEF Holds
  <2> QED
    BY <2>1, HoldsSlots, CapacityAssumption
<1>2. /\ p.events = r.events
      /\ p.tail = r.tail
      /\ p.size = r.size - 1
      /\ p = [events |-> p.events, head |-> p.head, tail |-> p.tail, size |-> p.size]
  BY <1>1 DEF Ring!Pop
<1>3. p.head = (r.head + 1) % C
  BY <1>1 DEF Ring!Pop
<1> HIDE DEF p
<1>4. p.head = Wrapped(r.head + 1)
  <2>1. r.head + 1 \in 0..(2 * C - 1)
    BY <1>1
  <2>2. (r.head + 1) % C = Wrapped(r.head + 1)
    BY <2>1, Wraps, Zenon
  <2> QED
    BY <2>2, <1>3
<1>5. p.head \in 0..(C - 1)
  BY <1>1, <1>4 DEF Wrapped
<1>6. p \in Ring!EventQueue
  <2>1. r.events \in [0..(C - 1) -> WifiManagerEvent]
    BY DEF Holds, Ring!EventQueue, Ring!Slots
  <2> QED
    BY <2>1, <1>1, <1>2, <1>5 DEF Ring!EventQueue, Ring!Slots
<1>7. Ring!RingOK(p)
  <2>1. /\ r.head + r.size \in 0..(2 * C - 1)
        /\ p.head + p.size \in 0..(2 * C - 1)
    <3>1. r.size \in 0..C /\ p.size \in 0..C
      BY <1>1, <1>2
    <3> QED
      BY <3>1, <1>1, <1>5, SumsFit
  <2>2. (r.head + r.size) % C = Wrapped(r.head + r.size)
    BY <2>1, Wraps, Zenon
  <2>3. (p.head + p.size) % C = Wrapped(p.head + p.size)
    BY <2>1, Wraps, Zenon
  <2>4. (r.head + r.size) % C = (p.head + p.size) % C
    <3>1. Wrapped(r.head + r.size) = Wrapped(p.head + p.size)
      BY <1>1, <1>2, <1>4 DEF Wrapped
    <3> QED
      BY <2>2, <2>3, <3>1
  <2> QED
    BY <2>4, <1>2, HoldsSlots DEF Ring!RingOK
<1>8. /\ Tail(q) \in Seq(WifiManagerEvent)
      /\ Len(Tail(q)) = r.size - 1
      /\ \A i \in 1..(r.size - 1) : Tail(q)[i] = q[i + 1]
  <2>1. q \in Seq(WifiManagerEvent)
    BY DEF Holds
  <2> QED
    BY <2>1, <1>1, HeadTailProperties
<1>9. ASSUME NEW i \in 1..p.size
      PROVE  Tail(q)[i] = p.events[(p.head + i - 1) % C]
  <2>1. /\ i \in 1..(r.size - 1)
        /\ i + 1 \in 1..r.size
    BY <1>1, <1>2
  <2>2. q[i + 1] = r.events[(r.head + (i + 1) - 1) % C]
    BY <2>1, HoldsSlots
  <2>3. /\ r.head + (i + 1) - 1 \in 0..(2 * C - 1)
        /\ p.head + i - 1 \in 0..(2 * C - 1)
    <3>1. i \in 0..C /\ i - 1 \in 0..C
      BY <2>1, <1>1
    <3>2. r.head + (i + 1) - 1 = r.head + i /\ p.head + i - 1 = p.head + (i - 1)
      BY <3>1, <1>1, <1>5
    <3> QED
      BY <3>1, <3>2, <1>1, <1>5, SumsFit
  <2>4. (r.head + (i + 1) - 1) % C = Wrapped(r.head + (i + 1) - 1)
    BY <2>3, Wraps, Zenon
  <2>5. (p.head + i - 1) % C = Wrapped(p.head + i - 1)
    BY <2>3, Wraps, Zenon
  <2>6. (p.head + i - 1) % C = (r.head + (i + 1) - 1) % C
    <3>1. Wrapped(r.head + (i + 1) - 1) = Wrapped(p.head + i - 1)
      BY <2>1, <1>1, <1>4 DEF Wrapped
    <3> QED
      BY <2>4, <2>5, <3>1
  <2> QED
    BY <2>1, <2>2, <2>6, <1>2, <1>8
<1> QED
  BY <1>1, <1>2, <1>6, <1>7, <1>8, <1>9, SlotsHold DEF p

------------------------------------------------------------------------------
(* The ring beside the queue, in the manager. *)

LEMMA PlainEventType ==
    ASSUME NEW type \in WifiManagerEventType
    PROVE  PlainEvent(type) \in WifiManagerEvent
BY DEF PlainEvent, WifiManagerEvent

LEMMA EmittedEventType ==
    ASSUME NEW event
    PROVE  EmittedEvent(event) \in WifiManagerEvent
BY PlainEventType DEF EmittedEvent, WifiManagerEventType

\* The external queue exists only with the task, so every event passes the ring.
RingInv == Holds(ring, eventQueue) /\ ~externalQueue

LEMMA RingInit == ManualSpecInit => RingInv
<1> SUFFICES ASSUME ManualSpecInit PROVE RingInv
  OBVIOUS
<1>1. ring = Ring!NewQueue /\ eventQueue = <<>> /\ ~externalQueue
  BY DEF ManualSpecInit, ManagerInit
<1>2. PlainEvent(kProvisioningRequested) \in WifiManagerEvent
  BY PlainEventType DEF WifiManagerEventType
<1>3. Ring!NewQueue \in Ring!EventQueue
  BY <1>2, CapacityAssumption DEF Ring!NewQueue, Ring!EventQueue, Ring!Slots
<1>4. Ring!Clear(Ring!NewQueue) = Ring!NewQueue
  BY DEF Ring!Clear, Ring!NewQueue
<1>5. Holds(Ring!NewQueue, <<>>)
  BY <1>3, <1>4, ClearHolds
<1> QED
  BY <1>1, <1>5 DEF RingInv

\* EnqueueEvent and ProcessNextEvent together: what is dispatched leaves the ring
\* as it leaves the queue.
LEMMA EnqueueAndProcessHolds ==
    ASSUME NEW event \in WifiManagerEvent, NEW face, NEW timer, RingInv,
           EnqueueAndProcess(event, face, timer), ring' = RingAfter(event)
    PROVE  Holds(ring, eventQueue)'
<1>1. CASE initialized /\ Len(eventQueue) < EventQueueCapacity
  <2>1. Ring!HasRoom(ring)
    BY <1>1, RoomIsRoom DEF RingInv
  <2>2. eventQueue' = Tail(Append(eventQueue, event))
    <3>1. Len(eventQueue) # EventQueueCapacity
      BY <1>1, CapacityAssumption
    <3> QED
      BY <1>1, <3>1 DEF EnqueueAndProcess
  <2>3. ring' = Ring!Pop(Ring!Push(ring, event))
    BY <1>1, <2>1 DEF RingAfter
  <2>4. Holds(Ring!Push(ring, event), Append(eventQueue, event))
    BY <1>1, PushHolds DEF RingInv
  <2>5. Append(eventQueue, event) # <<>>
    <3>1. eventQueue \in Seq(WifiManagerEvent)
      BY DEF RingInv, Holds
    <3> QED
      BY <3>1, AppendProperties
  <2>6. Holds(Ring!Pop(Ring!Push(ring, event)), Tail(Append(eventQueue, event)))
    BY <2>4, <2>5, PopHolds
  <2> QED
    BY <2>2, <2>3, <2>6 DEF Holds
<1>2. CASE ~(initialized /\ Len(eventQueue) < EventQueueCapacity)
  <2>1. eventQueue' = eventQueue
    BY <1>2 DEF EnqueueAndProcess
  <2>2. ring' = ring
    BY <1>2, RoomIsRoom DEF RingAfter, RingInv
  <2> QED
    BY <2>1, <2>2 DEF RingInv, Holds
<1> QED
  BY <1>1, <1>2

\* The calls that clear the queue, and those that leave it alone.
LEMMA ClearedHolds ==
    ASSUME RingInv, ring' = Ring!Clear(ring), eventQueue' = <<>>
    PROVE  Holds(ring, eventQueue)'
<1>1. Holds(Ring!Clear(ring), <<>>)
  BY ClearHolds DEF RingInv, Holds
<1> QED
  BY <1>1 DEF Holds

LEMMA UntouchedHolds ==
    ASSUME RingInv, UNCHANGED <<ring, eventQueue>>
    PROVE  Holds(ring, eventQueue)'
BY DEF RingInv, Holds

LEMMA RingNext ==
    ASSUME RingInv, Next
    PROVE  Holds(ring, eventQueue)'
<1>1. CASE ManualInit
  BY <1>1, ClearedHolds DEF ManualInit, Init
<1>2. CASE ManualStart
  BY <1>2, UntouchedHolds DEF ManualStart, Start
<1>3. CASE ManualStop
  BY <1>3, ClearedHolds DEF ManualStop, Stop
<1>4. CASE EnqueueEvent
  <2>1. PICK event \in ApplicationEvents :
           /\ ring' = Ring!Push(ring, event)
           /\ eventQueue' = IF Len(eventQueue) < EventQueueCapacity
                            THEN Append(eventQueue, event) ELSE eventQueue
    BY <1>4 DEF EnqueueEvent
  <2>2. event \in WifiManagerEvent
    BY DEF ApplicationEvents, PlainEvent, WifiManagerEvent, WifiManagerEventType
  <2>3. Holds(Ring!Push(ring, event),
              IF Len(eventQueue) < EventQueueCapacity THEN Append(eventQueue, event)
              ELSE eventQueue)
    BY <2>2, PushHolds DEF RingInv
  <2> QED
    BY <2>1, <2>3 DEF Holds
<1>5. CASE ProcessNextEvent
  <2>1. /\ eventQueue # <<>>
        /\ eventQueue' = Tail(eventQueue)
        /\ ring' = Ring!Pop(ring)
    BY <1>5 DEF ProcessNextEvent
  <2>2. Holds(Ring!Pop(ring), Tail(eventQueue))
    BY <2>1, PopHolds DEF RingInv
  <2> QED
    BY <2>1, <2>2 DEF Holds
<1>6. CASE ManualAdvance
  <2>1. PICK elapsedMs \in Elapsed :
           /\ AdvanceRetryTimer(elapsedMs)
           /\ ring' = IF initialized /\ Elapses(retryScheduler, elapsedMs)
                      THEN RingAfter(PlainEvent(kRetryTimerElapsed)) ELSE ring
    BY <1>6 DEF ManualAdvance
  <2>2. CASE initialized /\ Elapses(retryScheduler, elapsedMs)
    <3>1. EnqueueAndProcess(PlainEvent(kRetryTimerElapsed), Face,
                            Advance(retryScheduler, elapsedMs))
      BY <2>1, <2>2 DEF AdvanceRetryTimer
    <3>2. PlainEvent(kRetryTimerElapsed) \in WifiManagerEvent
      BY PlainEventType DEF WifiManagerEventType
    <3> QED
      BY <2>1, <2>2, <3>1, <3>2, EnqueueAndProcessHolds
  <2>3. CASE ~(initialized /\ Elapses(retryScheduler, elapsedMs))
    BY <2>1, <2>3, UntouchedHolds DEF AdvanceRetryTimer
  <2> QED
    BY <2>2, <2>3
<1>7. CASE ManualForce
  BY <1>7, UntouchedHolds DEF ManualForce, ForceProvisioning
<1>8. CASE HandleAdapterEvent
  <2> DEFINE event == Head(drv.events)
             face  == FaceOf(state, runtimeStatus, portal, AfterEvent(ad, event),
                             [drv EXCEPT !.events = Tail(@)])
  <2>1. CASE Deliver(EmittedEvent(event), face) /\ ring' = RingAfter(EmittedEvent(event))
    <3>1. EnqueueAndProcess(EmittedEvent(event), face, retryScheduler)
      BY <2>1 DEF Deliver, RingInv
    <3> QED
      BY <2>1, <3>1, EmittedEventType, EnqueueAndProcessHolds
  <2>2. CASE UNCHANGED <<eventQueue, ring>>
    BY <2>2, UntouchedHolds
  <2> QED
    BY <1>8, <2>1, <2>2 DEF HandleAdapterEvent
<1>9. CASE DriverMoves
  BY <1>9, UntouchedHolds DEF DriverMoves
<1> QED
  BY <1>1, <1>2, <1>3, <1>4, <1>5, <1>6, <1>7, <1>8, <1>9 DEF Next

LEMMA RingStep == RingInv /\ [Next]_vars => RingInv'
<1> SUFFICES ASSUME RingInv, [Next]_vars PROVE RingInv'
  OBVIOUS
<1>1. externalQueue' = externalQueue
  BY DEF Next, ManualInit, ManualStart, ManualStop, EnqueueEvent, ProcessNextEvent,
         ManualAdvance, ManualForce, HandleAdapterEvent, DriverMoves, queueVars, vars
<1>2. Holds(ring, eventQueue)'
  <2>1. CASE Next
    BY <2>1, RingNext
  <2>2. CASE UNCHANGED vars
    BY <2>2, UntouchedHolds DEF vars, objectVars
  <2> QED
    BY <2>1, <2>2
<1> QED
  BY <1>1, <1>2 DEF RingInv

\* WifiManagerEventQueue.hpp: through every wrap of its indices, every clearing and
\* every refusal, the ring holds the events of a bounded first-in first-out queue,
\* for every capacity.
THEOREM RingCorrect == Spec => []RingHoldsQueue
<1>1. RingInv => RingHoldsQueue
  BY DEF RingInv, Holds, RingHoldsQueue
<1> QED
  BY RingInit, RingStep, <1>1, PTL DEF Spec

------------------------------------------------------------------------------
(* A manager at rest. *)

\* No event moves a manager that does not run: what may change the state is in
\* the branches of the handlers that ask for running_.
LEMMA DispatchAtRest ==
    ASSUME NEW event, NEW face, NEW timer, ~running, DispatchEvent(event, face, timer)
    PROVE  state' = face.state
<1>1. CASE ProvisioningRequested(face)
  BY <1>1 DEF ProvisioningRequested, Becomes
<1>2. CASE CredentialsReceived(event.credentials, face, timer)
  BY <1>2 DEF CredentialsReceived, Unhandled, Becomes, WithStatus, FaceOf
<1>3. CASE Unhandled(face, timer)
  BY <1>3 DEF Unhandled, Becomes
<1> QED
  BY <1>1, <1>2, <1>3 DEF DispatchEvent, ConnectionSucceeded, ConnectionFailed,
                          RetryTimerElapsed

LEMMA EnqueueAndProcessAtRest ==
    ASSUME NEW event, NEW face, NEW timer, ~running, EnqueueAndProcess(event, face, timer)
    PROVE  state' = face.state
BY DispatchAtRest DEF EnqueueAndProcess, Unhandled, Becomes

LEMMA ManualResting ==
    ASSUME Next, ~running, ~(ManualInit \/ ManualStart \/ ManualStop)
    PROVE  state' = state
<1>0. Face.state = state
  BY DEF Face, FaceOf
<1>1. CASE EnqueueEvent
  BY <1>1 DEF EnqueueEvent, faceVars
<1>2. CASE ProcessNextEvent
  BY <1>0, <1>2, DispatchAtRest DEF ProcessNextEvent
<1>3. CASE ManualAdvance
  BY <1>0, <1>3, EnqueueAndProcessAtRest DEF ManualAdvance, AdvanceRetryTimer, faceVars
<1>4. CASE ManualForce
  BY <1>0, <1>4 DEF ManualForce, ForceProvisioning, ProvisioningRequested, Becomes
<1>5. CASE HandleAdapterEvent
  <2> DEFINE event == Head(drv.events)
             face  == FaceOf(state, runtimeStatus, portal, AfterEvent(ad, event),
                             [drv EXCEPT !.events = Tail(@)])
  <2>1. face.state = state
    BY DEF FaceOf
  <2>2. \/ Deliver(EmittedEvent(event), face)
        \/ Unhandled(face, retryScheduler)
    BY <1>5 DEF HandleAdapterEvent
  <2> HIDE DEF face
  <2> QED
    BY <2>1, <2>2, EnqueueAndProcessAtRest DEF Deliver, Unhandled, Becomes
<1>6. CASE DriverMoves
  BY <1>6 DEF DriverMoves
<1> QED
  BY <1>1, <1>2, <1>3, <1>4, <1>5, <1>6 DEF Next

\* WifiManager.cpp:191-233: an event left in the queue, also one of a timer that
\* elapsed before the stop, moves no manager at rest.
THEOREM ManualRestingCorrect == Spec => ManualRestingStays
<1>1. [Next]_vars => [~running /\ state' # state => ManualInit \/ ManualStart \/ ManualStop]_vars
  BY ManualResting
<1> QED
  BY <1>1, PTL DEF Spec, ManualRestingStays
------------------------------------------------------------------------------
(* A wait, and what will end it. *)

\* Without the task a timer elapses before its event is dispatched, so a manager
\* may wait with no timer armed.  It never has one armed for nothing, and it waits
\* only while it runs: were that not so, a forced start would keep the timer.
WaitInv ==
    /\ ManagerTypeOK
    /\ retryScheduler.armed => state = kWaitingToRetry
    /\ state = kWaitingToRetry => running

HasRetry(q) == \E i \in 1..Len(q) : q[i].type = kRetryTimerElapsed

\* What a dispatch leaves waiting: either it armed the timer, or the event was
\* none of the timer's and passed an ongoing wait by.
WaitsOn(event, timer) ==
    state' = kWaitingToRetry =>
        \/ retryScheduler'.armed
        \/ /\ event.type # kRetryTimerElapsed
           /\ retryScheduler' = timer
           /\ state = kWaitingToRetry

\* WifiManager.cpp:311-337, with the types of what SetState touches.
LEMMA SetStateBecomes ==
    ASSUME NEW face \in Faces, NEW n \in WifiState, NEW credentials,
           NEW f \in SetState(face, n, credentials), Becomes(f)
    PROVE  /\ state' \in {n, kError}
           /\ <<runtimeStatus', portal', ad', drv'>> \in
                 WifiRuntimeStatus \X Portal \X Adapter \X Driver
BY SetStateType, BecomesType

LEMMA UnhandledWaits ==
    ASSUME WaitInv, NEW face \in Faces, face.state = state,
           NEW timer \in RetryScheduler, timer.armed => state = kWaitingToRetry,
           Unhandled(face, timer), nvs' \in Nvs,
           eventQueue' \in Seq(WifiManagerEvent),
           UNCHANGED <<initialized, running>>
    PROVE  WaitInv' /\ state' = state /\ retryScheduler' = timer
<1>1. /\ state' = state
      /\ <<runtimeStatus', portal', ad', drv'>> \in
            WifiRuntimeStatus \X Portal \X Adapter \X Driver
  BY BecomesType DEF Unhandled
<1>2. ManagerTypeOK'
  BY <1>1 DEF Unhandled, WaitInv, ManagerTypeOK
<1> QED
  BY <1>1, <1>2 DEF Unhandled, WaitInv

LEMMA SucceededWaits ==
    ASSUME WaitInv, NEW face \in Faces, ConnectionSucceeded(face),
           eventQueue' \in Seq(WifiManagerEvent),
           UNCHANGED <<initialized, running>>
    PROVE  WaitInv' /\ state' # kWaitingToRetry
<1>1. PICK f \in SetState(WithStatus(face, "address"), kConnected, activeCredentials) :
         Becomes(f)
  BY DEF ConnectionSucceeded
<1>2. WithStatus(face, "address") \in Faces
  BY FaceType DEF WifiRuntimeStatus
<1>3. /\ state' \in {kConnected, kError}
      /\ <<runtimeStatus', portal', ad', drv'>> \in
            WifiRuntimeStatus \X Portal \X Adapter \X Driver
  BY <1>1, <1>2, SetStateBecomes DEF WifiState
<1>4. sm' \in StateMachine
  BY FreshType DEF ConnectionSucceeded, OnConnectionSucceeded, WifiState
<1>5. ManagerTypeOK'
  BY <1>3, <1>4, SchedulerType DEF ConnectionSucceeded, WaitInv, ManagerTypeOK, WifiState
<1> QED
  BY <1>3, <1>5, SchedulerType DEF ConnectionSucceeded, WaitInv

LEMMA ProvisioningWaits ==
    ASSUME WaitInv, NEW face \in Faces, face.state = state, ProvisioningRequested(face),
           eventQueue' \in Seq(WifiManagerEvent),
           UNCHANGED <<initialized, running>>
    PROVE  WaitInv' /\ state' # kWaitingToRetry
<1>1. CASE running
  <2>1. PICK f \in SetState(face, kPortal, activeCredentials) : Becomes(f)
    BY <1>1 DEF ProvisioningRequested
  <2>2. /\ state' \in {kPortal, kError}
        /\ <<runtimeStatus', portal', ad', drv'>> \in
              WifiRuntimeStatus \X Portal \X Adapter \X Driver
    BY <2>1, SetStateBecomes DEF WifiState
  <2>3. sm' \in StateMachine
    BY <1>1, FreshType DEF ProvisioningRequested, OnProvisioningRequested, WifiState
  <2>4. ManagerTypeOK'
    BY <2>2, <2>3, SchedulerType DEF ProvisioningRequested, WaitInv, ManagerTypeOK, WifiState
  <2> QED
    BY <2>2, <2>4, SchedulerType DEF ProvisioningRequested, WaitInv
<1>2. CASE ~running
  <2>1. /\ state' = state
        /\ <<runtimeStatus', portal', ad', drv'>> \in
              WifiRuntimeStatus \X Portal \X Adapter \X Driver
    BY <1>2, BecomesType DEF ProvisioningRequested
  <2>2. ManagerTypeOK'
    BY <1>2, <2>1, SchedulerType DEF ProvisioningRequested, WaitInv, ManagerTypeOK
  <2> QED
    BY <1>2, <2>1, <2>2, SchedulerType DEF ProvisioningRequested, WaitInv
<1> QED
  BY <1>1, <1>2

LEMMA RetryWaits ==
    ASSUME WaitInv, NEW face \in Faces, RetryTimerElapsed(face),
           eventQueue' \in Seq(WifiManagerEvent),
           UNCHANGED <<initialized, running>>
    PROVE  WaitInv' /\ state' # kWaitingToRetry
<1>1. PICK f \in SetState(face, kConnecting, activeCredentials) : Becomes(f)
  BY DEF RetryTimerElapsed
<1>2. /\ state' \in {kConnecting, kError}
      /\ <<runtimeStatus', portal', ad', drv'>> \in
            WifiRuntimeStatus \X Portal \X Adapter \X Driver
  BY <1>1, SetStateBecomes DEF WifiState
<1>3. sm' \in StateMachine
  BY RetryType DEF RetryTimerElapsed, WaitInv, ManagerTypeOK
<1>4. ManagerTypeOK'
  BY <1>2, <1>3, SchedulerType DEF RetryTimerElapsed, WaitInv, ManagerTypeOK, WifiState
<1> QED
  BY <1>2, <1>4, SchedulerType DEF RetryTimerElapsed, WaitInv

\* WifiManager.cpp:201-224: a failure that leads to a wait arms the timer.
LEMMA FailedWaits ==
    ASSUME WaitInv, NEW face \in Faces, ConnectionFailed(face),
           eventQueue' \in Seq(WifiManagerEvent),
           UNCHANGED <<initialized, running>>
    PROVE  WaitInv' /\ (state' = kWaitingToRetry => retryScheduler'.armed)
<1> DEFINE failed == OnConnectionFailed(sm)
<1>1. /\ failed \in StateMachine
      /\ failed.state \in {kWaitingToRetry, kPortal}
  BY FailedType DEF WaitInv, ManagerTypeOK
<1> HIDE DEF failed
<1>2. PICK f \in SetState(WithStatus(face, "reason"), failed.state, activeCredentials) :
         IF f.state = kWaitingToRetry /\ failed.reconnectDelayMs = 0
         THEN /\ sm' = OnRetryTimerElapsed(failed)
              /\ retryScheduler' = Cancel
              /\ \E g \in SetState(f, kConnecting, activeCredentials) : Becomes(g)
         ELSE /\ sm' = failed
              /\ retryScheduler' = IF f.state = kWaitingToRetry
                                   THEN Arm(failed.reconnectDelayMs) ELSE Cancel
              /\ Becomes(f)
  BY DEF ConnectionFailed, failed
<1>3. /\ f \in Faces
      /\ f.state \in {failed.state, kError}
  BY <1>1, <1>2, SetStateType, FaceType DEF WifiState, WifiRuntimeStatus
<1>4. failed.reconnectDelayMs \in Nat
  BY <1>1, BackoffAssumption DEF StateMachine
<1>5. running
  BY DEF ConnectionFailed
<1>6. CASE f.state = kWaitingToRetry /\ failed.reconnectDelayMs = 0
  <2>1. PICK g \in SetState(f, kConnecting, activeCredentials) : Becomes(g)
    BY <1>2, <1>6
  <2>2. /\ state' \in {kConnecting, kError}
        /\ <<runtimeStatus', portal', ad', drv'>> \in
              WifiRuntimeStatus \X Portal \X Adapter \X Driver
    BY <1>3, <2>1, SetStateBecomes DEF WifiState
  <2>3. sm' \in StateMachine /\ retryScheduler' = Cancel
    BY <1>1, <1>2, <1>6, RetryType
  <2>4. ManagerTypeOK'
    BY <2>2, <2>3, SchedulerType DEF ConnectionFailed, WaitInv, ManagerTypeOK, WifiState
  <2> QED
    BY <2>2, <2>3, <2>4, SchedulerType DEF WaitInv
<1>7. CASE ~(f.state = kWaitingToRetry /\ failed.reconnectDelayMs = 0)
  <2>1. /\ sm' = failed
        /\ retryScheduler' = IF f.state = kWaitingToRetry
                             THEN Arm(failed.reconnectDelayMs) ELSE Cancel
        /\ Becomes(f)
    BY <1>2, <1>7
  <2>2. /\ state' = f.state
        /\ state' \in {failed.state, kError}
        /\ <<runtimeStatus', portal', ad', drv'>> \in
              WifiRuntimeStatus \X Portal \X Adapter \X Driver
    BY <1>3, <2>1, BecomesType
  <2>3. /\ retryScheduler' \in RetryScheduler
        /\ retryScheduler'.armed <=> state' = kWaitingToRetry
    BY <1>4, <1>7, <2>1, <2>2, SchedulerType
  <2>4. ManagerTypeOK'
    BY <1>1, <2>1, <2>2, <2>3 DEF ConnectionFailed, WaitInv, ManagerTypeOK, WifiState
  <2> QED
    BY <1>5, <2>3, <2>4 DEF WaitInv
<1> QED
  BY <1>6, <1>7

LEMMA CredentialsWait ==
    ASSUME WaitInv, NEW face \in Faces, face.state = state,
           NEW timer \in RetryScheduler, timer.armed => state = kWaitingToRetry,
           NEW credentials \in Credentials \cup {EmptyCredentials},
           CredentialsReceived(credentials, face, timer),
           eventQueue' \in Seq(WifiManagerEvent),
           UNCHANGED <<initialized, running>>
    PROVE  /\ WaitInv'
           /\ \/ state' # kWaitingToRetry
              \/ state' = state /\ retryScheduler' = timer
<1>1. HasSsid(credentials) => credentials \in Credentials
  <2>1. EmptyCredentials.ssid = ""
    BY DEF EmptyCredentials
  <2> QED
    BY <2>1 DEF HasSsid
<1>2. nvs \in Nvs
  BY DEF WaitInv, ManagerTypeOK
<1>3. CASE Unhandled(face, timer) /\ nvs' \in Nvs
  BY <1>3, UnhandledWaits
<1>4. CASE /\ HasSsid(credentials)
           /\ \E save \in SaveOutcomes(nvs, credentials) : save.saved /\ nvs' = save.nvs
           /\ activeCredentials' = credentials
           /\ hasStoredCredentials' = TRUE
           /\ forceProvisioning' = FALSE
           /\ retryScheduler' = Cancel
           /\ IF running
              THEN /\ sm' = OnCredentialsReceived
                   /\ \E f \in SetState(WithStatus(face, "none"), kConnecting, credentials) :
                         Becomes(f)
              ELSE /\ UNCHANGED sm
                   /\ Becomes(WithStatus(face, "none"))
  <2>1. nvs' \in Nvs /\ activeCredentials' \in WifiCredentials
    BY <1>1, <1>2, <1>4, SaveType DEF Credentials, WifiCredentials
  <2>2. WithStatus(face, "none") \in Faces /\ WithStatus(face, "none").state = state
    BY FaceType DEF WifiRuntimeStatus
  <2>3. CASE running
    <3>1. PICK f \in SetState(WithStatus(face, "none"), kConnecting, credentials) : Becomes(f)
      BY <1>4, <2>3
    <3>2. /\ state' \in {kConnecting, kError}
          /\ <<runtimeStatus', portal', ad', drv'>> \in
                WifiRuntimeStatus \X Portal \X Adapter \X Driver
      BY <2>2, <3>1, SetStateBecomes DEF WifiState
    <3>3. sm' \in StateMachine
      BY <1>4, <2>3, FreshType DEF OnCredentialsReceived, WifiState
    <3>4. ManagerTypeOK'
      BY <1>4, <2>1, <3>2, <3>3, SchedulerType DEF WaitInv, ManagerTypeOK, WifiState
    <3> QED
      BY <1>4, <3>2, <3>4, SchedulerType DEF WaitInv
  <2>4. CASE ~running
    <3>1. /\ state' = state
          /\ <<runtimeStatus', portal', ad', drv'>> \in
                WifiRuntimeStatus \X Portal \X Adapter \X Driver
      BY <1>4, <2>2, <2>4, BecomesType
    <3>2. ManagerTypeOK'
      BY <1>4, <2>1, <2>4, <3>1, SchedulerType DEF WaitInv, ManagerTypeOK
    <3> QED
      BY <1>4, <2>4, <3>1, <3>2, SchedulerType DEF WaitInv
  <2> QED
    BY <2>3, <2>4
<1>5. ASSUME HasSsid(credentials), NEW save \in SaveOutcomes(nvs, credentials)
      PROVE  save.nvs \in Nvs
  BY <1>1, <1>2, <1>5, SaveType
<1> QED
  BY <1>2, <1>3, <1>4, <1>5 DEF CredentialsReceived

\* WifiManager.cpp:158-237 as a whole.
LEMMA DispatchWaits ==
    ASSUME WaitInv, NEW event \in WifiManagerEvent,
           NEW face \in Faces, face.state = state,
           NEW timer \in RetryScheduler, timer.armed => state = kWaitingToRetry,
           DispatchEvent(event, face, timer), eventQueue' \in Seq(WifiManagerEvent)
    PROVE  WaitInv' /\ WaitsOn(event, timer)
<1>1. UNCHANGED <<initialized, running>>
  BY DEF DispatchEvent
<1>2. CASE event.type = kProvisioningRequested /\ ProvisioningRequested(face)
  BY <1>1, <1>2, ProvisioningWaits DEF WaitsOn
<1>3. CASE /\ event.type = kCredentialsReceived
           /\ CredentialsReceived(event.credentials, face, timer)
  <2>1. event.credentials \in Credentials \cup {EmptyCredentials}
    BY DEF WifiManagerEvent
  <2> QED
    BY <1>1, <1>3, <2>1, CredentialsWait
    DEF WaitsOn, kCredentialsReceived, kRetryTimerElapsed
<1>4. CASE event.type = kConnectionSucceeded /\ ConnectionSucceeded(face)
  BY <1>1, <1>4, SucceededWaits DEF WaitsOn
<1>5. CASE event.type = kConnectionFailed /\ ConnectionFailed(face)
  BY <1>1, <1>5, FailedWaits DEF WaitsOn
<1>6. CASE event.type = kRetryTimerElapsed /\ RetryTimerElapsed(face)
  BY <1>1, <1>6, RetryWaits DEF WaitsOn
<1>7. CASE ~running /\ Unhandled(face, timer) /\ UNCHANGED nvs
  <2>1. nvs' \in Nvs
    BY <1>7 DEF WaitInv, ManagerTypeOK
  <2>2. WaitInv' /\ state' = state
    BY <1>1, <1>7, <2>1, UnhandledWaits
  <2>3. state # kWaitingToRetry
    BY <1>7 DEF WaitInv
  <2> QED
    BY <2>2, <2>3 DEF WaitsOn
<1> QED
  BY <1>2, <1>3, <1>4, <1>5, <1>6, <1>7 DEF DispatchEvent

------------------------------------------------------------------------------
(* What ends a wait, in the manager's queue. *)

\* The oldest event leaves the queue, and takes the timer's event with it only if
\* it is that event.
LEMMA RetryStaysQueued ==
    ASSUME NEW q \in Seq(WifiManagerEvent), q # <<>>, HasRetry(q)
    PROVE  Head(q).type = kRetryTimerElapsed \/ HasRetry(Tail(q))
<1>1. PICK i \in 1..Len(q) : q[i].type = kRetryTimerElapsed
  BY DEF HasRetry
<1>2. /\ Len(q) \in Nat
      /\ Head(q) = q[1]
      /\ Len(Tail(q)) = Len(q) - 1
      /\ \A j \in 1..(Len(q) - 1) : Tail(q)[j] = q[j + 1]
  BY HeadTailProperties, LenProperties, EmptySeq
<1>3. CASE i = 1
  BY <1>1, <1>2, <1>3
<1>4. CASE i # 1
  <2>1. /\ i - 1 \in 1..(Len(q) - 1)
        /\ (i - 1) + 1 = i
    BY <1>1, <1>2, <1>4
  <2>2. Tail(q)[i - 1].type = kRetryTimerElapsed
    BY <1>1, <1>2, <2>1
  <2> QED
    BY <1>2, <2>1, <2>2 DEF HasRetry
<1> QED
  BY <1>3, <1>4

\* What is appended is in the queue, with all that was there.
LEMMA RetryAppended ==
    ASSUME NEW q \in Seq(WifiManagerEvent), NEW event \in WifiManagerEvent
    PROVE  /\ Append(q, event) \in Seq(WifiManagerEvent)
           /\ Append(q, event) # <<>>
           /\ HasRetry(q) => HasRetry(Append(q, event))
           /\ event.type = kRetryTimerElapsed => HasRetry(Append(q, event))
<1> DEFINE longer == Append(q, event)
<1>1. /\ Len(q) \in Nat
      /\ longer \in Seq(WifiManagerEvent)
      /\ Len(longer) = Len(q) + 1
      /\ longer[Len(q) + 1] = event
      /\ \A i \in 1..Len(q) : longer[i] = q[i]
      /\ longer # <<>>
  BY AppendProperties, LenProperties
<1> HIDE DEF longer
<1>2. HasRetry(q) => HasRetry(longer)
  <2>1. \A i \in 1..Len(q) : i \in 1..Len(longer)
    BY <1>1
  <2> QED
    BY <1>1, <2>1 DEF HasRetry
<1>3. event.type = kRetryTimerElapsed => HasRetry(longer)
  <2>1. Len(q) + 1 \in 1..Len(longer)
    BY <1>1
  <2> QED
    BY <1>1, <2>1 DEF HasRetry
<1> QED
  BY <1>1, <1>2, <1>3 DEF longer

\* The head of a queue is an event.
LEMMA HeadOfQueue ==
    ASSUME NEW q \in Seq(WifiManagerEvent), q # <<>>
    PROVE  Head(q) \in WifiManagerEvent /\ Tail(q) \in Seq(WifiManagerEvent)
BY HeadTailProperties

\* WaitIsAccounted is inductive beside WaitInv and the queue's capacity.
ManualInv ==
    /\ WaitInv
    /\ RingInv
    /\ lostRetry \in BOOLEAN
    /\ WaitIsAccounted

LEMMA AccountedByQueue == RetryQueued <=> HasRetry(eventQueue)
BY DEF RetryQueued, HasRetry

LEMMA AccountedByQueueNext == RetryQueued' <=> HasRetry(eventQueue')
BY DEF RetryQueued, HasRetry

LEMMA NoEvents == <<>> \in Seq(WifiManagerEvent)
OBVIOUS

\* WifiManager.cpp:62-88, 90-114, 239-265: no wait begins or survives in these.
LEMMA InitWaits ==
    ASSUME WaitInv, ~running, Init
    PROVE  WaitInv' /\ state' # kWaitingToRetry
<1>1. PICK o \in AdapterInit(ad, drv) :
         LET face == WithStatus(WithOutcome(Face, o), "none") IN
         /\ initialized' = (o.result = ESP_OK)
         /\ \E f \in IF o.result = ESP_OK
                     THEN SetState(face, kInit, EmptyCredentials) ELSE {face} :
               Becomes(f)
  BY DEF Init
<1> DEFINE face == WithStatus(WithOutcome(Face, o), "none")
<1>2. o \in Outcomes
  BY <1>1, AdapterInitType DEF WaitInv, ManagerTypeOK
<1>3. Face \in Faces /\ Face.state = state
  BY FaceType DEF Face, WaitInv, ManagerTypeOK
<1>4. face \in Faces /\ face.state = state
  BY <1>2, <1>3, FaceType DEF WifiRuntimeStatus
<1>5. PICK f \in IF o.result = ESP_OK
                 THEN SetState(face, kInit, EmptyCredentials) ELSE {face} :
         Becomes(f)
  BY <1>1
<1> HIDE DEF face
<1>6. f \in Faces /\ f.state \in {state, kInit}
  BY <1>4, <1>5, SetStateType DEF WifiState
<1>7. /\ state' \in {state, kInit}
      /\ <<runtimeStatus', portal', ad', drv'>> \in
            WifiRuntimeStatus \X Portal \X Adapter \X Driver
  BY <1>5, <1>6, BecomesType
<1>8. /\ initialized' \in BOOLEAN
      /\ sm' \in StateMachine
      /\ EmptyCredentials \in WifiCredentials
  BY <1>1, FreshType DEF Init, Reset, WifiState, EmptyCredentials, WifiCredentials
<1>9. ManagerTypeOK'
  BY <1>7, <1>8, NoEvents, SchedulerType DEF Init, WaitInv, ManagerTypeOK, WifiState
<1> QED
  BY <1>7, <1>9, SchedulerType DEF Init, WaitInv

LEMMA StartWaits ==
    ASSUME WaitInv, ~running, Start
    PROVE  WaitInv' /\ state' # kWaitingToRetry
<1>1. PICK o \in IF initialized THEN AdapterStart(ad, drv)
                 ELSE {Outcome(ESP_FAIL, ad, drv)} :
         LET face == WithOutcome(Face, o) IN
         \/ /\ o.result # ESP_OK
            /\ Becomes(face)
            /\ UNCHANGED <<sm, running, activeCredentials, hasStoredCredentials,
                           retryScheduler>>
         \/ /\ o.result = ESP_OK
            /\ forceProvisioning
            /\ running' = TRUE
            /\ \E f \in SetState(face, kPortal, activeCredentials) : Becomes(f)
            /\ UNCHANGED <<sm, activeCredentials, hasStoredCredentials, retryScheduler>>
         \/ /\ o.result = ESP_OK
            /\ ~forceProvisioning
            /\ running' = TRUE
            /\ retryScheduler' = Cancel
            /\ \E load \in LoadOutcomes(nvs) :
                 /\ activeCredentials' = load.credentials
                 /\ hasStoredCredentials' = load.loaded
                 /\ sm' = OnStart(forceProvisioning, load.loaded)
                 /\ \E f \in SetState(face, sm'.state, load.credentials) : Becomes(f)
  BY DEF Start
<1> DEFINE face == WithOutcome(Face, o)
<1>2. ad \in Adapter /\ drv \in Driver
  BY DEF WaitInv, ManagerTypeOK
<1>3. o \in Outcomes
  BY <1>1, <1>2, AdapterStartType, OutcomeType
<1>4. Face \in Faces /\ Face.state = state
  BY FaceType DEF Face, WaitInv, ManagerTypeOK
<1>5. face \in Faces /\ face.state = state
  BY <1>3, <1>4, FaceType
<1> HIDE DEF face
<1>6. /\ UNCHANGED <<initialized, forceProvisioning, nvs, eventQueue>>
      /\ ~retryScheduler.armed
      /\ state # kWaitingToRetry
  BY DEF Start, WaitInv
<1>7. CASE /\ Becomes(face)
           /\ UNCHANGED <<sm, running, activeCredentials, hasStoredCredentials,
                          retryScheduler>>
  <2>1. /\ state' = state
        /\ <<runtimeStatus', portal', ad', drv'>> \in
              WifiRuntimeStatus \X Portal \X Adapter \X Driver
    BY <1>5, <1>7, BecomesType
  <2>2. ManagerTypeOK'
    BY <1>6, <1>7, <2>1 DEF WaitInv, ManagerTypeOK
  <2> QED
    BY <1>6, <1>7, <2>1, <2>2 DEF WaitInv
<1>8. CASE /\ running' = TRUE
           /\ \E f \in SetState(face, kPortal, activeCredentials) : Becomes(f)
           /\ UNCHANGED <<sm, activeCredentials, hasStoredCredentials, retryScheduler>>
  <2>1. /\ state' \in {kPortal, kError}
        /\ <<runtimeStatus', portal', ad', drv'>> \in
              WifiRuntimeStatus \X Portal \X Adapter \X Driver
    BY <1>5, <1>8, SetStateBecomes DEF WifiState
  <2>2. ManagerTypeOK'
    BY <1>6, <1>8, <2>1 DEF WaitInv, ManagerTypeOK, WifiState
  <2> QED
    BY <1>6, <1>8, <2>1, <2>2 DEF WaitInv
<1>9. CASE /\ running' = TRUE
           /\ retryScheduler' = Cancel
           /\ \E load \in LoadOutcomes(nvs) :
                /\ activeCredentials' = load.credentials
                /\ hasStoredCredentials' = load.loaded
                /\ sm' = OnStart(forceProvisioning, load.loaded)
                /\ \E f \in SetState(face, sm'.state, load.credentials) : Becomes(f)
  <2>1. PICK load \in LoadOutcomes(nvs) :
           /\ activeCredentials' = load.credentials
           /\ hasStoredCredentials' = load.loaded
           /\ sm' = OnStart(forceProvisioning, load.loaded)
           /\ \E f \in SetState(face, sm'.state, load.credentials) : Becomes(f)
    BY <1>9
  <2>2. activeCredentials' \in WifiCredentials /\ hasStoredCredentials' \in BOOLEAN
    BY <2>1, LoadType DEF WaitInv, ManagerTypeOK
  <2>3. sm' \in StateMachine /\ sm'.state \in {kPortal, kConnecting}
    BY <2>1, FreshType DEF OnStart, Fresh, WifiState
  <2>4. PICK f \in SetState(face, sm'.state, load.credentials) : Becomes(f)
    BY <2>1
  <2>5. /\ state' \in {sm'.state, kError}
        /\ <<runtimeStatus', portal', ad', drv'>> \in
              WifiRuntimeStatus \X Portal \X Adapter \X Driver
    BY <1>5, <2>3, <2>4, SetStateBecomes DEF WifiState
  <2>6. ManagerTypeOK'
    BY <1>6, <1>9, <2>2, <2>3, <2>5, SchedulerType DEF WaitInv, ManagerTypeOK, WifiState
  <2> QED
    BY <1>9, <2>3, <2>5, <2>6, SchedulerType DEF WaitInv
<1> QED
  BY <1>1, <1>7, <1>8, <1>9 DEF face

LEMMA StopWaits ==
    ASSUME WaitInv, Stop
    PROVE  WaitInv' /\ state' # kWaitingToRetry
<1>1. PICK o \in AdapterStop(ad, drv) :
         /\ ad' = o.ad
         /\ drv' = o.drv
         /\ IF o.result = ESP_OK
            THEN /\ sm' = OnStop
                 /\ state' = kStopped
                 /\ hasStoredCredentials' = FALSE
            ELSE /\ sm' = Reset
                 /\ state' = kError
                 /\ UNCHANGED hasStoredCredentials
  BY DEF Stop
<1>2. portal' \in Portal
  BY PortalType DEF Stop, WaitInv, ManagerTypeOK
<1>3. ad' \in Adapter /\ drv' \in Driver
  BY <1>1, AdapterStopType DEF WaitInv, ManagerTypeOK, Outcomes
<1>4. /\ state' \in {kStopped, kError}
      /\ hasStoredCredentials' \in BOOLEAN
      /\ sm' \in StateMachine
  BY <1>1, FreshType DEF OnStop, Reset, WifiState, WaitInv, ManagerTypeOK
<1>5. ManagerTypeOK'
  BY <1>2, <1>3, <1>4, NoEvents, SchedulerType
  DEF Stop, WaitInv, ManagerTypeOK, WifiState, WifiRuntimeStatus
<1> QED
  BY <1>4, <1>5, SchedulerType DEF Stop, WaitInv

\* EnqueueEvent and ProcessNextEvent together.  What they dispatch is the oldest
\* event; the new one stays behind if there was another.
LEMMA EnqueueAndProcessWaits ==
    ASSUME WaitInv, NEW event \in WifiManagerEvent,
           NEW face \in Faces, face.state = state,
           NEW timer \in RetryScheduler, timer.armed => state = kWaitingToRetry,
           EnqueueAndProcess(event, face, timer)
    PROVE  /\ WaitInv'
           /\ state' = kWaitingToRetry =>
                 \/ retryScheduler'.armed
                 \/ /\ state = kWaitingToRetry
                    /\ retryScheduler' = timer
                    /\ HasRetry(eventQueue) => HasRetry(eventQueue')
                    /\ /\ event.type = kRetryTimerElapsed
                       /\ initialized
                       /\ Len(eventQueue) # EventQueueCapacity
                       => HasRetry(eventQueue')
<1> DEFINE pushed == Append(eventQueue, event)
<1>0. eventQueue \in Seq(WifiManagerEvent)
  BY DEF WaitInv, ManagerTypeOK
<1>1. /\ pushed \in Seq(WifiManagerEvent)
      /\ pushed # <<>>
      /\ HasRetry(eventQueue) => HasRetry(pushed)
      /\ event.type = kRetryTimerElapsed => HasRetry(pushed)
  BY <1>0, RetryAppended
<1>2. CASE /\ eventQueue' = Tail(pushed)
           /\ DispatchEvent(Head(pushed), face, timer)
  <2> HIDE DEF pushed
  <2>1. Head(pushed) \in WifiManagerEvent /\ eventQueue' \in Seq(WifiManagerEvent)
    BY <1>1, <1>2, HeadOfQueue
  <2>2. WaitInv' /\ WaitsOn(Head(pushed), timer)
    BY <1>2, <2>1, DispatchWaits
  <2>3. HasRetry(pushed) => Head(pushed).type = kRetryTimerElapsed \/ HasRetry(eventQueue')
    BY <1>1, <1>2, RetryStaysQueued
  <2> QED
    BY <1>1, <2>2, <2>3, Zenon DEF WaitsOn
<1>3. CASE /\ ~initialized \/ Len(eventQueue) = EventQueueCapacity
           /\ Unhandled(face, timer)
           /\ UNCHANGED <<initialized, running, nvs, eventQueue>>
  <2>1. nvs' \in Nvs /\ eventQueue' \in Seq(WifiManagerEvent)
    BY <1>3 DEF WaitInv, ManagerTypeOK
  <2>2. WaitInv' /\ state' = state /\ retryScheduler' = timer
    BY <1>3, <2>1, UnhandledWaits
  <2> QED
    BY <1>3, <2>2
<1> QED
  BY <1>2, <1>3 DEF EnqueueAndProcess

\* WifiManager.cpp:139-156: an elapsed timer leaves its event in the queue, unless
\* it dispatched that event or found the queue full.
LEMMA ManualAdvanceWaits ==
    ASSUME ManualInv, ManualAdvance
    PROVE  WaitInv' /\ lostRetry' \in BOOLEAN /\ WaitIsAccounted'
<1>1. PICK elapsedMs \in Elapsed :
         /\ AdvanceRetryTimer(elapsedMs)
         /\ lostRetry' = (lostRetry \/ (/\ initialized /\ Elapses(retryScheduler, elapsedMs)
                                        /\ ~Ring!HasRoom(ring)))
  BY DEF ManualAdvance
<1> DEFINE timer == Advance(retryScheduler, elapsedMs)
<1>2. /\ elapsedMs \in Nat
      /\ retryScheduler \in RetryScheduler
      /\ retryScheduler.armed => state = kWaitingToRetry
      /\ lostRetry \in BOOLEAN
      /\ WaitInv /\ RingInv
  BY ManualAssumption DEF ManualInv, WaitInv, ManagerTypeOK
<1>3. /\ timer \in RetryScheduler
      /\ ~Elapses(retryScheduler, elapsedMs) => (timer.armed <=> retryScheduler.armed)
  BY <1>2, AdvanceType
<1>4. lostRetry' \in BOOLEAN
  BY <1>1, <1>2
<1>5. CASE initialized /\ Elapses(retryScheduler, elapsedMs)
  <2>1. EnqueueAndProcess(PlainEvent(kRetryTimerElapsed), Face, timer)
    BY <1>1, <1>5 DEF AdvanceRetryTimer
  <2>2. /\ PlainEvent(kRetryTimerElapsed) \in WifiManagerEvent
        /\ PlainEvent(kRetryTimerElapsed).type = kRetryTimerElapsed
    BY PlainEventType DEF WifiManagerEventType, PlainEvent
  <2>3. Face \in Faces /\ Face.state = state
    BY <1>2, FaceType DEF Face, WaitInv, ManagerTypeOK
  <2>4. state = kWaitingToRetry
    BY <1>2, <1>5 DEF Elapses
  <2>5. Len(eventQueue) = EventQueueCapacity => lostRetry'
    <3>1. ~Ring!HasRoom(ring) <=> Len(eventQueue) = EventQueueCapacity
      BY <1>2, RoomIsRoom DEF RingInv
    <3> QED
      BY <1>1, <1>5, <3>1
  <2> HIDE DEF timer
  <2>6. /\ WaitInv'
        /\ state' = kWaitingToRetry =>
              retryScheduler'.armed \/ HasRetry(eventQueue') \/ lostRetry'
    BY <1>2, <1>3, <1>5, <2>1, <2>2, <2>3, <2>4, <2>5, EnqueueAndProcessWaits, Zenon
  <2> QED
    BY <1>4, <2>6, AccountedByQueueNext DEF WaitIsAccounted
<1>6. CASE ~(initialized /\ Elapses(retryScheduler, elapsedMs))
  <2>1. /\ retryScheduler' = IF initialized THEN timer ELSE retryScheduler
        /\ UNCHANGED <<sm, faceVars, activeCredentials, initialized, running,
                       forceProvisioning, hasStoredCredentials, nvs, eventQueue>>
    BY <1>1, <1>6 DEF AdvanceRetryTimer
  <2> HIDE DEF timer
  <2>2. /\ retryScheduler' \in RetryScheduler
        /\ retryScheduler'.armed <=> retryScheduler.armed
    BY <1>2, <1>3, <1>6, <2>1
  <2>3. ManagerTypeOK'
    BY <1>2, <2>1, <2>2 DEF faceVars, WaitInv, ManagerTypeOK
  <2>4. WaitInv'
    BY <1>2, <2>1, <2>2, <2>3 DEF faceVars, WaitInv
  <2>5. lostRetry' = lostRetry /\ (RetryQueued' <=> RetryQueued)
    BY <1>1, <1>2, <1>6, <2>1, AccountedByQueue, AccountedByQueueNext
  <2> QED
    BY <1>4, <2>1, <2>2, <2>4, <2>5 DEF faceVars, WaitIsAccounted, ManualInv
<1> QED
  BY <1>5, <1>6

\* WifiManager.cpp:39-60: a driver event, with the queue behind it.
LEMMA HandleAdapterEventWaits ==
    ASSUME ManualInv, HandleAdapterEvent
    PROVE  WaitInv' /\ lostRetry' \in BOOLEAN /\ WaitIsAccounted'
<1> DEFINE event == Head(drv.events)
           after == [drv EXCEPT !.events = Tail(@)]
           face  == FaceOf(state, runtimeStatus, portal, AfterEvent(ad, event), after)
<1>1. /\ drv.events # <<>>
      /\ \/ Deliver(EmittedEvent(event), face)
         \/ /\ Unhandled(face, retryScheduler)
            /\ UNCHANGED <<initialized, running, nvs, eventQueue>>
      /\ lostRetry' = lostRetry
  BY DEF HandleAdapterEvent
<1>2. /\ WaitInv
      /\ ad \in Adapter /\ drv \in Driver
      /\ state \in WifiState /\ runtimeStatus \in WifiRuntimeStatus /\ portal \in Portal
      /\ retryScheduler \in RetryScheduler
      /\ retryScheduler.armed => state = kWaitingToRetry
  BY DEF ManualInv, WaitInv, ManagerTypeOK
<1>3. after \in Driver
  <2>1. drv.events \in Seq(DriverEvent)
    BY <1>2 DEF Driver
  <2>2. Tail(drv.events) \in Seq(DriverEvent)
    BY <1>1, <2>1, HeadTailProperties
  <2> QED
    BY <1>2, <2>2 DEF Driver
<1>4. face \in Faces /\ face.state = state
  <2> HIDE DEF after
  <2> QED
    BY <1>2, <1>3, AfterEventType, FaceType
<1> HIDE DEF face
<1>5. EmittedEvent(event) \in WifiManagerEvent
  BY EmittedEventType
<1>6. CASE Deliver(EmittedEvent(event), face)
  <2>1. EnqueueAndProcess(EmittedEvent(event), face, retryScheduler)
    BY <1>6 DEF Deliver, ManualInv, RingInv
  <2>2. /\ WaitInv'
        /\ state' = kWaitingToRetry =>
              \/ retryScheduler'.armed
              \/ /\ state = kWaitingToRetry
                 /\ retryScheduler' = retryScheduler
                 /\ HasRetry(eventQueue) => HasRetry(eventQueue')
    BY <1>2, <1>4, <1>5, <2>1, EnqueueAndProcessWaits, Zenon
  <2> QED
    BY <1>1, <2>2, AccountedByQueue, AccountedByQueueNext DEF WaitIsAccounted, ManualInv
<1>7. CASE Unhandled(face, retryScheduler) /\ UNCHANGED <<initialized, running, nvs, eventQueue>>
  <2>1. nvs' \in Nvs /\ eventQueue' \in Seq(WifiManagerEvent)
    BY <1>2, <1>7 DEF WaitInv, ManagerTypeOK
  <2>2. WaitInv' /\ state' = state /\ retryScheduler' = retryScheduler
    BY <1>2, <1>4, <1>7, <2>1, UnhandledWaits
  <2> QED
    BY <1>1, <1>7, <2>2, AccountedByQueue, AccountedByQueueNext DEF WaitIsAccounted, ManualInv
<1> QED
  BY <1>1, <1>6, <1>7

LEMMA ManualStep ==
    ASSUME ManualInv, Next
    PROVE  WaitInv' /\ lostRetry' \in BOOLEAN /\ WaitIsAccounted'
<1>0. /\ WaitInv
      /\ lostRetry \in BOOLEAN
      /\ eventQueue \in Seq(WifiManagerEvent)
      /\ retryScheduler \in RetryScheduler
      /\ retryScheduler.armed => state = kWaitingToRetry
      /\ Face \in Faces /\ Face.state = state
  BY FaceType DEF Face, ManualInv, WaitInv, ManagerTypeOK
<1>1. CASE ManualInit
  BY <1>0, <1>1, InitWaits DEF ManualInit, WaitIsAccounted
<1>2. CASE ManualStart
  BY <1>0, <1>2, StartWaits DEF ManualStart, WaitIsAccounted
<1>3. CASE ManualStop
  BY <1>0, <1>3, StopWaits DEF ManualStop, WaitIsAccounted
<1>4. CASE EnqueueEvent
  <2>1. PICK event \in ApplicationEvents :
           eventQueue' = IF Len(eventQueue) < EventQueueCapacity
                         THEN Append(eventQueue, event) ELSE eventQueue
    BY <1>4 DEF EnqueueEvent
  <2>2. event \in WifiManagerEvent
    BY DEF ApplicationEvents, PlainEvent, WifiManagerEvent, WifiManagerEventType
  <2>3. /\ eventQueue' \in Seq(WifiManagerEvent)
        /\ HasRetry(eventQueue) => HasRetry(eventQueue')
    BY <1>0, <2>1, <2>2, RetryAppended
  <2>4. /\ UNCHANGED <<sm, faceVars, activeCredentials, retryScheduler, initialized, running,
                       forceProvisioning, hasStoredCredentials, nvs>>
        /\ lostRetry' = lostRetry
    BY <1>4 DEF EnqueueEvent
  <2>5. WaitInv'
    BY <1>0, <2>3, <2>4 DEF faceVars, WaitInv, ManagerTypeOK
  <2> QED
    BY <1>0, <2>3, <2>4, <2>5, AccountedByQueue, AccountedByQueueNext
    DEF faceVars, WaitIsAccounted, ManualInv
<1>5. CASE ProcessNextEvent
  <2>1. /\ eventQueue # <<>>
        /\ DispatchEvent(Head(eventQueue), Face, retryScheduler)
        /\ eventQueue' = Tail(eventQueue)
        /\ lostRetry' = lostRetry
    BY <1>5 DEF ProcessNextEvent
  <2>2. Head(eventQueue) \in WifiManagerEvent /\ eventQueue' \in Seq(WifiManagerEvent)
    BY <1>0, <2>1, HeadOfQueue
  <2>3. WaitInv' /\ WaitsOn(Head(eventQueue), retryScheduler)
    BY <1>0, <2>1, <2>2, DispatchWaits
  <2>4. HasRetry(eventQueue) =>
           Head(eventQueue).type = kRetryTimerElapsed \/ HasRetry(eventQueue')
    BY <1>0, <2>1, RetryStaysQueued
  <2> QED
    BY <1>0, <2>1, <2>3, <2>4, AccountedByQueue, AccountedByQueueNext, Zenon
    DEF WaitsOn, WaitIsAccounted, ManualInv
<1>6. CASE ManualAdvance
  BY <1>6, ManualAdvanceWaits
<1>7. CASE ManualForce
  <2>1. /\ ProvisioningRequested(Face)
        /\ UNCHANGED <<initialized, running, eventQueue, lostRetry>>
    BY <1>7 DEF ManualForce, ForceProvisioning
  <2>2. WaitInv' /\ state' # kWaitingToRetry
    BY <1>0, <2>1, ProvisioningWaits
  <2> QED
    BY <1>0, <2>1, <2>2 DEF WaitIsAccounted
<1>8. CASE HandleAdapterEvent
  BY <1>8, HandleAdapterEventWaits
<1>9. CASE DriverMoves
  <2>1. drv' \in Driver
    BY <1>0, <1>9, LinkMovesType DEF DriverMoves, WaitInv, ManagerTypeOK
  <2>2. WaitInv'
    BY <1>0, <1>9, <2>1 DEF DriverMoves, WaitInv, ManagerTypeOK
  <2> QED
    BY <1>0, <1>9, <2>2, AccountedByQueue, AccountedByQueueNext
    DEF DriverMoves, WaitIsAccounted, ManualInv
<1> QED
  BY <1>1, <1>2, <1>3, <1>4, <1>5, <1>6, <1>7, <1>8, <1>9 DEF Next

LEMMA ManualInvariant == Spec => []ManualInv
<1>1. ManualSpecInit => ManualInv
  <2> SUFFICES ASSUME ManualSpecInit PROVE ManualInv
    OBVIOUS
  <2>1. /\ FreshAdapter \in Adapter
        /\ FreshDriver \in Driver
        /\ NoPortal \in Portal
        /\ EmptyCredentials \in WifiCredentials
    BY DEF FreshAdapter, Adapter, FreshDriver, Driver, NoPortal, Portal,
           EmptyCredentials, WifiCredentials
  <2>2. nvs \in Nvs
    BY DEF ManualSpecInit, ManagerInit, EmptyNvs, Nvs
  <2>3. sm \in StateMachine
    BY FreshType DEF ManualSpecInit, ManagerInit, Reset, WifiState
  <2>4. ManagerTypeOK
    BY <2>1, <2>2, <2>3, NoEvents, SchedulerType
    DEF ManualSpecInit, ManagerInit, ManagerTypeOK, WifiState, WifiRuntimeStatus
  <2> QED
    BY <2>4, RingInit, SchedulerType
    DEF ManualSpecInit, ManagerInit, ManualInv, WaitInv, WaitIsAccounted
<1>2. ManualInv /\ [Next]_vars => ManualInv'
  <2> SUFFICES ASSUME ManualInv, [Next]_vars PROVE ManualInv'
    OBVIOUS
  <2>1. RingInv'
    BY RingStep DEF ManualInv
  <2>2. CASE Next
    BY <2>1, <2>2, ManualStep DEF ManualInv
  <2>3. CASE UNCHANGED vars
    <3>1. WaitInv'
      BY <2>3 DEF vars, objectVars, faceVars, ManualInv, WaitInv, ManagerTypeOK
    <3> QED
      BY <2>1, <2>3, <3>1, AccountedByQueue, AccountedByQueueNext
      DEF vars, objectVars, faceVars, ManualInv, WaitIsAccounted
  <2> QED
    BY <2>2, <2>3
<1> QED
  BY <1>1, <1>2, PTL DEF Spec

\* Every variable keeps its type without the task, for every capacity and
\* whatever the driver answers.
THEOREM ManualTypeCorrect == Spec => []ManualTypeOK
<1>1. ManualInv => ManualTypeOK
  BY DEF ManualInv, WaitInv, RingInv, Holds, ManualTypeOK
<1> QED
  BY <1>1, ManualInvariant, PTL

\* WifiManager.cpp:139-156: a manager that waits has a timer, or the event of the
\* timer in its queue behind others, unless the queue was full when it elapsed;
\* however the application mixes its events with those of the driver.
THEOREM WaitCorrect == Spec => []WaitIsAccounted
<1>1. ManualInv => WaitIsAccounted
  BY DEF ManualInv
<1> QED
  BY <1>1, ManualInvariant, PTL
==============================================================================

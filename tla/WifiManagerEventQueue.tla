------------------------ MODULE WifiManagerEventQueue ------------------------
(***************************************************************************)
(* WifiManagerEventQueue.hpp: a ring of kCapacity events.  The indices     *)
(* wrap around, and the slots keep what was taken from them.  The manager  *)
(* is modelled with the sequence that Contents reads from a ring.          *)
(***************************************************************************)
EXTENDS Naturals, Sequences

CONSTANTS
    kCapacity,
    Event,
    InitialEvent    \* what a slot holds before anything is pushed

Slots == 0..(kCapacity - 1)

EventQueue == [events : [Slots -> Event],
               head   : Slots,
               tail   : Slots,
               size   : 0..kCapacity]

NewQueue == [events |-> [i \in Slots |-> InitialEvent], head |-> 0, tail |-> 0, size |-> 0]

\* Mutant: a full queue takes one event more.
HasRoomWhenFull(ring) == ring.size <= kCapacity

\* Whether Push takes an event, and the object it leaves.
HasRoom(ring) == ring.size < kCapacity

\* Mutant: the tail wraps one slot late.
PushWrapsLate(ring, event) ==
    IF ~HasRoom(ring) THEN ring
    ELSE [ring EXCEPT !.events[ring.tail] = event,
                      !.tail = IF @ + 1 > kCapacity - 1 THEN kCapacity - 1 ELSE @ + 1,
                      !.size = @ + 1]

Push(ring, event) ==
    IF ~HasRoom(ring) THEN ring
    ELSE [events |-> [ring.events EXCEPT ![ring.tail] = event],
          head   |-> ring.head,
          tail   |-> (ring.tail + 1) % kCapacity,
          size   |-> ring.size + 1]

\* What Pop takes, and the object it leaves.
Front(ring) == ring.events[ring.head]

Pop(ring) ==
    IF ring.size = 0 THEN ring
    ELSE [events |-> ring.events,
          head   |-> (ring.head + 1) % kCapacity,
          tail   |-> ring.tail,
          size   |-> ring.size - 1]

\* The slots keep their events.
Clear(ring) == [events |-> ring.events, head |-> 0, tail |-> 0, size |-> 0]

------------------------------------------------------------------------------
\* The events a ring holds, oldest first.
Contents(ring) ==
    [i \in 1..ring.size |-> ring.events[(ring.head + i - 1) % kCapacity]]

\* The three indices agree.
RingOK(ring) == ring.tail = (ring.head + ring.size) % kCapacity
==============================================================================

-------------------- MODULE WifiManagerTaskThreads_proofs --------------------
(***************************************************************************)
(* Start, Stop, the task and a sink between their handlers, for any number *)
(* of sessions, of polls and of events in a queue.                         *)
(***************************************************************************)
EXTENDS WifiManagerTaskThreads, TLAPS

USE DEF null, App

\* A thread in Stop that has lowered the flag.
HasLowered(t) == pc[t] \in {"Stop:wake", "Stop:poll", "Stop:manager", "delete"}

\* Without overlapping calls, nobody deletes a queue before the manager forgot it.
PointerInv ==
    ~overlapped =>
        /\ externalQueue # null => externalQueue \in live
        /\ \A t \in Threads : pc[t] = "delete" => externalQueue = null
        /\ pc[App] = "Start:undo" => externalQueue = null

\* A task that no Start has overtaken is that of the last session, and its handle is
\* known or about to be stored.
TasksInv ==
    ~overtaken =>
        /\ \A n \in Sessions :
              Exists(n) => n = session /\ (taskHandle = n \/ pc[App] = "Start:handle")
        /\ pc[App] \in {"Start:manager", "Start:create", "Start:undo"} =>
              \A n \in Sessions : ~Exists(n)

\* The flag is raised only in a session whose queue is there and is that of its task.
FlagInv ==
    ~overtaken =>
        /\ pc[App] = "Start:manager" => queue \in live /\ ~running
        /\ running => queue \in live /\ pc[App] # "Start:undo"
        /\ \A t \in Threads : HasLowered(t) => ~running
        /\ \A n \in Sessions :
              running /\ pc[n] \notin {"none", "Run"} => taskQueue[n] = queue

ThreadInv ==
    /\ ThreadTypeOK
    /\ InStart => session # 0
    /\ PointerInv
    /\ TasksInv
    /\ FlagInv
    /\ HaltsAlone

------------------------------------------------------------------------------
LEMMA SentType ==
    ASSUME live \subseteq Sessions, count \in [Sessions -> 0..QueueCapacity], NEW q
    PROVE  Sent(q) \in [Sessions -> 0..QueueCapacity]
BY ThreadAssumption, SMT DEF Sent

LEMMA ThreadInitially == ThreadInit => ThreadInv
<1> SUFFICES ASSUME ThreadInit PROVE ThreadInv
  OBVIOUS
<1> USE ThreadAssumption DEF ThreadInit, Sessions, Threads
<1>1. ThreadTypeOK
  <2>1. pc \in [Threads -> Labels]
    BY DEF Labels
  <2>2. /\ count \in [Sessions -> 0..QueueCapacity]
        /\ taskQueue \in [Sessions -> Sessions \cup {null}]
        /\ polls \in [Threads -> 0..MaxPolls]
        /\ session \in 0..MaxSessions
    OBVIOUS
  <2>3. /\ {queue, externalQueue, taskHandle, sink} \subseteq Sessions \cup {null}
        /\ live \subseteq Sessions
    OBVIOUS
  <2>4. running \in BOOLEAN /\ overtaken \in BOOLEAN /\ overlapped \in BOOLEAN
    OBVIOUS
  <2> QED
    BY <2>1, <2>2, <2>3, <2>4 DEF ThreadTypeOK
<1>2. pc[App] = "idle" /\ \A t \in Threads : pc[t] \in {"idle", "none"}
  OBVIOUS
<1>3. \A n \in Sessions : ~Exists(n)
  BY DEF Exists
<1>4. PointerInv /\ TasksInv /\ FlagInv /\ HaltsAlone
  BY <1>2, <1>3 DEF PointerInv, TasksInv, FlagInv, HaltsAlone, HasLowered, Exists
<1> QED
  BY <1>1, <1>2, <1>4 DEF ThreadInv, InStart

------------------------------------------------------------------------------
LEMMA StartQueueStep == ThreadInv /\ StartQueue => ThreadInv'
<1> SUFFICES ASSUME ThreadInv, StartQueue PROVE ThreadInv'
  OBVIOUS
<1> USE ThreadAssumption DEF Sessions, Threads
<1>1. ThreadTypeOK'
  BY DEF ThreadInv, ThreadTypeOK, StartQueue, Goto, Labels, own, Overlaps, InStop
<1>2. PointerInv'
  BY <1>1 DEF ThreadInv, ThreadTypeOK, PointerInv, StartQueue, Goto, own, Overlaps, InStop
<1>3. ~overtaken' => \A n \in Sessions : ~Exists(n) /\ ~Exists(n)'
  BY DEF ThreadInv, ThreadTypeOK, StartQueue, Goto, Exists
<1>4. TasksInv'
  BY <1>3 DEF TasksInv
<1>5. FlagInv'
  BY <1>3 DEF ThreadInv, ThreadTypeOK, FlagInv, StartQueue, Goto, Exists, HasLowered
<1>6. HaltsAlone'
  BY <1>3 DEF HaltsAlone
<1>7. session' # 0
  BY DEF ThreadInv, ThreadTypeOK, StartQueue
<1> QED
  BY <1>1, <1>2, <1>4, <1>5, <1>6, <1>7 DEF ThreadInv

LEMMA AppStepStep == ThreadInv /\ AppStep => ThreadInv'
<1> SUFFICES ASSUME ThreadInv, AppStep PROVE ThreadInv'
  OBVIOUS
<1> USE ThreadAssumption DEF Sessions, Threads, queues, own, history
<1>1. session # 0 /\ session' # 0
  BY DEF ThreadInv, InStart, AppStep, StartManager, StartUndo, CreateTask, StoreHandle
<1>2. CASE StartManager
  <2>1. ThreadTypeOK'
    <3>1. running' \in BOOLEAN
      BY <1>2, Zenon DEF ThreadInv, ThreadTypeOK, StartManager
    <3>2. /\ {queue, externalQueue, taskHandle, sink}' \subseteq Sessions \cup {null}
          /\ pc' \in [Threads -> Labels]
      BY <1>2 DEF ThreadInv, ThreadTypeOK, StartManager, Goto, Labels
    <3> QED
      BY <1>2, <3>1, <3>2 DEF ThreadInv, ThreadTypeOK, StartManager
  <2>2. PointerInv'
    BY <1>2 DEF ThreadInv, ThreadTypeOK, PointerInv, StartManager, Goto
  <2>3. TasksInv' /\ HaltsAlone'
    BY <1>2 DEF ThreadInv, ThreadTypeOK, TasksInv, HaltsAlone, StartManager, Goto, Exists
  <2>4. FlagInv'
    <3>1. ~overtaken => \A n \in Sessions : ~Exists(n) /\ ~Exists(n)'
      BY <1>2 DEF ThreadInv, ThreadTypeOK, TasksInv, StartManager, Goto, Exists
    <3>2. pc'[App] \in {"Start:create", "Start:undo"}
      BY <1>2 DEF ThreadInv, ThreadTypeOK, StartManager, Goto
    <3>3. ~overtaken => \A t \in Threads : ~HasLowered(t)'
      BY <3>1, <3>2 DEF HasLowered, Exists
    <3>4. pc'[App] = "Start:undo" => running' = running
      BY <1>2 DEF ThreadInv, ThreadTypeOK, StartManager, Goto
    <3>5. ~overtaken /\ running => FALSE
      BY <1>2 DEF ThreadInv, FlagInv, StartManager
    <3>6. ~overtaken => queue \in live /\ queue' = queue /\ live' = live
      BY <1>2 DEF ThreadInv, FlagInv, StartManager
    <3> QED
      <4> SUFFICES ASSUME ~overtaken, ~overtaken' PROVE FlagInv'
        BY <1>2 DEF FlagInv, StartManager, history
      <4>1. pc'[App] # "Start:manager"
        BY <3>2
      <4>2. running' => queue' \in live' /\ pc'[App] # "Start:undo"
        BY <3>4, <3>5, <3>6
      <4>3. \A n \in Sessions : pc'[n] = "none"
        BY <3>1 DEF Exists
      <4> QED
        BY <3>3, <4>1, <4>2, <4>3 DEF FlagInv
  <2> QED
    BY <1>1, <2>1, <2>2, <2>3, <2>4 DEF ThreadInv
<1>3. CASE StartUndo
  <2>1. ThreadTypeOK'
    BY <1>3 DEF ThreadInv, ThreadTypeOK, StartUndo, Goto, Labels
  <2>2. PointerInv'
    BY <1>3 DEF ThreadInv, ThreadTypeOK, PointerInv, StartUndo, Goto
  <2>3. TasksInv' /\ HaltsAlone'
    BY <1>3 DEF ThreadInv, ThreadTypeOK, TasksInv, HaltsAlone, StartUndo, Goto, Exists
  <2>4. FlagInv'
    BY <1>3 DEF ThreadInv, ThreadTypeOK, TasksInv, FlagInv, StartUndo, Goto, Exists,
                HasLowered
  <2> QED
    BY <1>1, <2>1, <2>2, <2>3, <2>4 DEF ThreadInv
<1>4. CASE CreateTask
  <2>1. ThreadTypeOK'
    <3>1. pc' \in [Threads -> Labels]
      BY <1>1, <1>4 DEF ThreadInv, ThreadTypeOK, CreateTask, Goto, Labels
    <3>2. running' \in BOOLEAN
      BY <1>4, Zenon DEF ThreadInv, ThreadTypeOK, CreateTask
    <3> QED
      BY <1>4, <3>1, <3>2 DEF ThreadInv, ThreadTypeOK, CreateTask
  <2>2. PointerInv'
    BY <1>1, <1>4 DEF ThreadInv, ThreadTypeOK, PointerInv, CreateTask, Goto
  <2>3. TasksInv' /\ HaltsAlone'
    BY <1>1, <1>4 DEF ThreadInv, ThreadTypeOK, TasksInv, HaltsAlone, CreateTask, Goto, Exists
  <2>4. FlagInv'
    BY <1>1, <1>4 DEF ThreadInv, ThreadTypeOK, TasksInv, FlagInv, CreateTask, Goto, Exists,
                HasLowered
  <2> QED
    BY <1>1, <2>1, <2>2, <2>3, <2>4 DEF ThreadInv
<1>5. CASE StoreHandle
  <2>1. ThreadTypeOK'
    <3>1. pc' \in [Threads -> Labels]
      BY <1>5 DEF ThreadInv, ThreadTypeOK, StoreHandle, Goto, Labels
    <3>2. {queue, externalQueue, taskHandle, sink}' \subseteq Sessions \cup {null}
      BY <1>1, <1>5 DEF ThreadInv, ThreadTypeOK, StoreHandle
    <3> QED
      BY <1>5, <3>1, <3>2 DEF ThreadInv, ThreadTypeOK, StoreHandle
  <2>2. PointerInv'
    BY <1>5 DEF ThreadInv, ThreadTypeOK, PointerInv, StoreHandle, Goto
  <2>3. TasksInv' /\ HaltsAlone'
    BY <1>5 DEF ThreadInv, ThreadTypeOK, TasksInv, HaltsAlone, StoreHandle, Goto, Exists
  <2>4. FlagInv'
    BY <1>5 DEF ThreadInv, ThreadTypeOK, TasksInv, FlagInv, StoreHandle, Goto, Exists,
                HasLowered
  <2> QED
    BY <1>1, <2>1, <2>2, <2>3, <2>4 DEF ThreadInv
<1> QED
  BY <1>2, <1>3, <1>4, <1>5 DEF AppStep

------------------------------------------------------------------------------
LEMMA StopBeginsStep ==
    ASSUME NEW t \in Threads, ThreadInv, StopBegins(t)
    PROVE  ThreadInv'
<1> USE ThreadAssumption DEF Sessions, Threads, shared, queues, own, Goto
<1>1. CASE StopBegins(t)
  <2>1. ThreadTypeOK'
    BY <1>1 DEF ThreadInv, ThreadTypeOK, StopBegins, Labels
  <2>2. PointerInv'
    BY <1>1 DEF ThreadInv, ThreadTypeOK, PointerInv, StopBegins
  <2>3. TasksInv' /\ HaltsAlone'
    BY <1>1 DEF ThreadInv, ThreadTypeOK, TasksInv, HaltsAlone, StopBegins, Exists
  <2>4. FlagInv'
    BY <1>1 DEF ThreadInv, ThreadTypeOK, FlagInv, StopBegins, HasLowered
  <2> QED
    BY <2>1, <2>2, <2>3, <2>4, <1>1 DEF ThreadInv, ThreadTypeOK, InStart, StopBegins
<1> QED
  BY <1>1

LEMMA StopStepStep ==
    ASSUME NEW t \in Threads, ThreadInv, StopStep(t)
    PROVE  ThreadInv'
<1> USE ThreadAssumption DEF Sessions, Threads, shared, queues, own, history, Goto
<1>1. CASE StopFlag(t)
  <2>1. ThreadTypeOK'
    BY <1>1 DEF ThreadInv, ThreadTypeOK, StopFlag, Labels
  <2>2. PointerInv'
    BY <1>1 DEF ThreadInv, ThreadTypeOK, PointerInv, StopFlag
  <2>3. TasksInv' /\ HaltsAlone'
    BY <1>1 DEF ThreadInv, ThreadTypeOK, TasksInv, HaltsAlone, StopFlag, Exists
  <2>4. FlagInv'
    BY <1>1 DEF ThreadInv, ThreadTypeOK, FlagInv, StopFlag, HasLowered
  <2> QED
    BY <2>1, <2>2, <2>3, <2>4, <1>1 DEF ThreadInv, ThreadTypeOK, InStart, StopFlag
<1>2. CASE StopWake(t)
  <2>1. ThreadTypeOK'
    <3>1. count' \in [Sessions -> 0..QueueCapacity]
      BY <1>2, SentType DEF ThreadInv, ThreadTypeOK, StopWake
    <3>2. polls' \in [Threads -> 0..MaxPolls] /\ pc' \in [Threads -> Labels]
      BY <1>2 DEF ThreadInv, ThreadTypeOK, StopWake, Labels
    <3> QED
      BY <1>2, <3>1, <3>2 DEF ThreadInv, ThreadTypeOK, StopWake
  <2>2. PointerInv'
    BY <1>2 DEF ThreadInv, ThreadTypeOK, PointerInv, StopWake
  <2>3. TasksInv' /\ HaltsAlone'
    BY <1>2 DEF ThreadInv, ThreadTypeOK, TasksInv, HaltsAlone, StopWake, Exists
  <2>4. FlagInv'
    BY <1>2 DEF ThreadInv, ThreadTypeOK, FlagInv, StopWake, HasLowered
  <2> QED
    BY <2>1, <2>2, <2>3, <2>4, <1>2 DEF ThreadInv, ThreadTypeOK, InStart, StopWake
<1>3. CASE StopPoll(t)
  <2>1. ThreadTypeOK'
    <3>0. /\ pc \in [Threads -> Labels]
          /\ polls \in [Threads -> 0..MaxPolls]
      BY DEF ThreadInv, ThreadTypeOK
    <3>1. pc' \in [Threads -> Labels]
      <4>1. "Stop:manager" \in Labels
        BY DEF Labels
      <4>2. pc' = pc \/ pc' = [pc EXCEPT ![t] = "Stop:manager"]
        BY <1>3 DEF StopPoll, Goto
      <4> QED
        BY <3>0, <4>1, <4>2
    <3>2. polls' \in [Threads -> 0..MaxPolls]
      <4>1. \/ polls' = polls
            \/ polls[t] # MaxPolls /\ polls' = [polls EXCEPT ![t] = @ + 1]
        BY <1>3 DEF StopPoll
      <4>2. polls[t] \in 0..MaxPolls /\ MaxPolls \in Nat
        BY <3>0
      <4>3. polls[t] # MaxPolls => polls[t] + 1 \in 0..MaxPolls
        BY <4>2
      <4> QED
        BY <3>0, <4>1, <4>3
    <3> QED
      BY <1>3, <3>1, <3>2 DEF ThreadInv, ThreadTypeOK, StopPoll
  <2>2. PointerInv'
    BY <1>3 DEF ThreadInv, ThreadTypeOK, PointerInv, StopPoll
  <2>3. TasksInv' /\ HaltsAlone'
    <3>1. TasksInv'
      BY <1>3 DEF ThreadInv, ThreadTypeOK, TasksInv, StopPoll, Exists
    <3>2. HaltsAlone'
      <4>1. CASE t # App
        <5>1. pc'[App] = pc[App] /\ polls'[App] = polls[App]
          BY <1>3, <4>1 DEF ThreadInv, ThreadTypeOK, StopPoll
        <5>2. \A n \in Sessions : Exists(n)' => Exists(n)
          BY <1>3, <4>1 DEF ThreadInv, ThreadTypeOK, StopPoll, Exists
        <5> QED
          BY <1>3, <5>1, <5>2 DEF ThreadInv, HaltsAlone, StopPoll
      <4>2. CASE t = App /\ pc'[App] = "Stop:manager" /\ polls'[App] < MaxPolls
        <5>1. pc[App] = "Stop:poll"
          BY <1>3, <4>2 DEF StopPoll
        <5>2. taskHandle = null
          BY <1>3, <4>2, <5>1 DEF ThreadInv, ThreadTypeOK, StopPoll
        <5>3. ~overtaken => \A n \in Sessions : ~Exists(n)
          BY <5>1, <5>2 DEF ThreadInv, TasksInv
        <5>4. \A n \in Sessions : Exists(n)' => Exists(n)
          BY <1>3, <4>2 DEF ThreadInv, ThreadTypeOK, StopPoll, Exists
        <5> QED
          BY <1>3, <5>3, <5>4 DEF HaltsAlone, StopPoll
      <4> QED
        BY <4>1, <4>2 DEF HaltsAlone
    <3> QED
      BY <3>1, <3>2
  <2>4. FlagInv'
    BY <1>3 DEF ThreadInv, ThreadTypeOK, FlagInv, StopPoll, HasLowered
  <2> QED
    BY <2>1, <2>2, <2>3, <2>4, <1>3 DEF ThreadInv, ThreadTypeOK, InStart, StopPoll
<1>4. CASE StopManager(t)
  <2>1. ThreadTypeOK'
    BY <1>4 DEF ThreadInv, ThreadTypeOK, StopManager, Labels
  <2>2. PointerInv'
    BY <1>4 DEF ThreadInv, ThreadTypeOK, PointerInv, StopManager
  <2>3. TasksInv' /\ HaltsAlone'
    BY <1>4 DEF ThreadInv, ThreadTypeOK, TasksInv, HaltsAlone, StopManager, Exists
  <2>4. FlagInv'
    BY <1>4 DEF ThreadInv, ThreadTypeOK, FlagInv, StopManager, HasLowered
  <2> QED
    BY <2>1, <2>2, <2>3, <2>4, <1>4 DEF ThreadInv, ThreadTypeOK, InStart, StopManager
<1>5. CASE DeleteQueue(t)
  <2>1. ThreadTypeOK'
    BY <1>5 DEF ThreadInv, ThreadTypeOK, DeleteQueue, Labels
  <2>2. PointerInv'
    BY <1>5 DEF ThreadInv, ThreadTypeOK, PointerInv, DeleteQueue
  <2>3. TasksInv' /\ HaltsAlone'
    BY <1>5 DEF ThreadInv, ThreadTypeOK, TasksInv, HaltsAlone, DeleteQueue, Exists
  <2>4. FlagInv'
    <3>1. ~overtaken => ~running
      BY <1>5 DEF ThreadInv, FlagInv, DeleteQueue, HasLowered
    <3>2. ~overtaken => pc'[App] # "Start:manager"
      BY <1>5 DEF ThreadInv, ThreadTypeOK, TasksInv, DeleteQueue, Exists
    <3>3. running' = running /\ overtaken' = overtaken
      BY <1>5 DEF DeleteQueue
    <3> QED
      BY <3>1, <3>2, <3>3 DEF FlagInv
  <2> QED
    BY <2>1, <2>2, <2>3, <2>4, <1>5 DEF ThreadInv, ThreadTypeOK, InStart, DeleteQueue
<1> QED
  BY <1>1, <1>2, <1>3, <1>4, <1>5 DEF StopStep

------------------------------------------------------------------------------
LEMMA TaskStepStep ==
    ASSUME NEW n \in Sessions, ThreadInv, TaskStep(n)
    PROVE  ThreadInv'
<1> USE ThreadAssumption DEF Sessions, Threads, shared, queues, own, history, Goto
<1>1. CASE RunBegins(n)
  <2>1. ThreadTypeOK'
    BY <1>1 DEF ThreadInv, ThreadTypeOK, RunBegins, Labels
  <2>2. PointerInv'
    BY <1>1 DEF ThreadInv, ThreadTypeOK, PointerInv, RunBegins
  <2>3. TasksInv' /\ HaltsAlone'
    BY <1>1 DEF ThreadInv, ThreadTypeOK, TasksInv, HaltsAlone, RunBegins, Exists
  <2>4. FlagInv'
    BY <1>1 DEF ThreadInv, ThreadTypeOK, FlagInv, RunBegins, HasLowered
  <2> QED
    BY <2>1, <2>2, <2>3, <2>4, <1>1 DEF ThreadInv, ThreadTypeOK, InStart, RunBegins
<1>2. CASE LoopTest(n)
  <2>1. ThreadTypeOK'
    BY <1>2 DEF ThreadInv, ThreadTypeOK, LoopTest, Labels
  <2>2. PointerInv'
    BY <1>2 DEF ThreadInv, ThreadTypeOK, PointerInv, LoopTest
  <2>3. TasksInv' /\ HaltsAlone'
    BY <1>2 DEF ThreadInv, ThreadTypeOK, TasksInv, HaltsAlone, LoopTest, Exists
  <2>4. FlagInv'
    BY <1>2 DEF ThreadInv, ThreadTypeOK, FlagInv, LoopTest, HasLowered
  <2> QED
    BY <2>1, <2>2, <2>3, <2>4, <1>2 DEF ThreadInv, ThreadTypeOK, InStart, LoopTest
<1>3. CASE Receive(n)
  <2>1. ThreadTypeOK'
    <3>1. count' \in [Sessions -> 0..QueueCapacity]
      <4> DEFINE q == taskQueue[n]
      <4>1. CASE q \in live /\ count[q] > 0
        <5>1. q \in Sessions /\ count[q] - 1 \in 0..QueueCapacity
          <6>1. q \in Sessions /\ count[q] \in 0..QueueCapacity
            BY <4>1 DEF ThreadInv, ThreadTypeOK
          <6> HIDE DEF q
          <6> QED
            BY <4>1, <6>1
        <5>2. count' = [count EXCEPT ![q] = @ - 1]
          BY <1>3, <4>1 DEF Receive
        <5> QED
          BY <5>1, <5>2 DEF ThreadInv, ThreadTypeOK
      <4>2. CASE ~(q \in live /\ count[q] > 0)
        BY <1>3, <4>2 DEF ThreadInv, ThreadTypeOK, Receive
      <4> QED
        BY <4>1, <4>2
    <3>2. pc' \in [Threads -> Labels]
      BY <1>3 DEF ThreadInv, ThreadTypeOK, Receive, Labels
    <3> QED
      BY <1>3, <3>1, <3>2 DEF ThreadInv, ThreadTypeOK, Receive
  <2>2. PointerInv'
    BY <1>3 DEF ThreadInv, ThreadTypeOK, PointerInv, Receive
  <2>3. TasksInv' /\ HaltsAlone'
    BY <1>3 DEF ThreadInv, ThreadTypeOK, TasksInv, HaltsAlone, Receive, Exists
  <2>4. FlagInv'
    BY <1>3 DEF ThreadInv, ThreadTypeOK, FlagInv, Receive, HasLowered
  <2> QED
    BY <2>1, <2>2, <2>3, <2>4, <1>3 DEF ThreadInv, ThreadTypeOK, InStart, Receive
<1>4. CASE CheckFlag(n)
  <2>1. ThreadTypeOK'
    BY <1>4 DEF ThreadInv, ThreadTypeOK, CheckFlag, Labels
  <2>2. PointerInv'
    BY <1>4 DEF ThreadInv, ThreadTypeOK, PointerInv, CheckFlag
  <2>3. TasksInv' /\ HaltsAlone'
    BY <1>4 DEF ThreadInv, ThreadTypeOK, TasksInv, HaltsAlone, CheckFlag, Exists
  <2>4. FlagInv'
    BY <1>4 DEF ThreadInv, ThreadTypeOK, FlagInv, CheckFlag, HasLowered
  <2> QED
    BY <2>1, <2>2, <2>3, <2>4, <1>4 DEF ThreadInv, ThreadTypeOK, InStart, CheckFlag
<1>5. CASE Dispatched(n)
  <2>1. ThreadTypeOK'
    BY <1>5 DEF ThreadInv, ThreadTypeOK, Dispatched, Labels
  <2>2. PointerInv'
    BY <1>5 DEF ThreadInv, ThreadTypeOK, PointerInv, Dispatched
  <2>3. TasksInv' /\ HaltsAlone'
    BY <1>5 DEF ThreadInv, ThreadTypeOK, TasksInv, HaltsAlone, Dispatched, Exists
  <2>4. FlagInv'
    BY <1>5 DEF ThreadInv, ThreadTypeOK, FlagInv, Dispatched, HasLowered
  <2> QED
    BY <2>1, <2>2, <2>3, <2>4, <1>5 DEF ThreadInv, ThreadTypeOK, InStart, Dispatched
<1>6. CASE Leave(n)
  <2>1. ThreadTypeOK'
    BY <1>6 DEF ThreadInv, ThreadTypeOK, Leave, Labels
  <2>2. PointerInv'
    BY <1>6 DEF ThreadInv, ThreadTypeOK, PointerInv, Leave
  <2>3. TasksInv' /\ HaltsAlone'
    BY <1>6 DEF ThreadInv, ThreadTypeOK, TasksInv, HaltsAlone, Leave, Exists
  <2>4. FlagInv'
    BY <1>6 DEF ThreadInv, ThreadTypeOK, FlagInv, Leave, HasLowered
  <2> QED
    BY <2>1, <2>2, <2>3, <2>4, <1>6 DEF ThreadInv, ThreadTypeOK, InStart, Leave
<1> QED
  BY <1>1, <1>2, <1>3, <1>4, <1>5, <1>6 DEF TaskStep

LEMMA SinkStep ==
    ASSUME ThreadInv, SinkReads \/ SinkSends
    PROVE  ThreadInv'
<1> USE ThreadAssumption DEF Sessions, Threads, shared, queues, history
<1>1. CASE SinkReads
  <2>1. ThreadTypeOK'
    BY <1>1 DEF ThreadInv, ThreadTypeOK, SinkReads, Labels
  <2>2. PointerInv'
    BY <1>1 DEF ThreadInv, ThreadTypeOK, PointerInv, SinkReads
  <2>3. TasksInv' /\ HaltsAlone'
    BY <1>1 DEF ThreadInv, ThreadTypeOK, TasksInv, HaltsAlone, SinkReads, Exists
  <2>4. FlagInv'
    BY <1>1 DEF ThreadInv, ThreadTypeOK, FlagInv, SinkReads, HasLowered
  <2> QED
    BY <2>1, <2>2, <2>3, <2>4, <1>1 DEF ThreadInv, ThreadTypeOK, InStart, SinkReads
<1>2. CASE SinkSends
  <2>1. ThreadTypeOK'
    BY <1>2, SentType DEF ThreadInv, ThreadTypeOK, SinkSends, Labels
  <2>2. PointerInv'
    BY <1>2 DEF ThreadInv, ThreadTypeOK, PointerInv, SinkSends
  <2>3. TasksInv' /\ HaltsAlone'
    BY <1>2 DEF ThreadInv, ThreadTypeOK, TasksInv, HaltsAlone, SinkSends, Exists
  <2>4. FlagInv'
    BY <1>2 DEF ThreadInv, ThreadTypeOK, FlagInv, SinkSends, HasLowered
  <2> QED
    BY <2>1, <2>2, <2>3, <2>4, <1>2 DEF ThreadInv, ThreadTypeOK, InStart, SinkSends
<1> QED
  BY <1>1, <1>2

------------------------------------------------------------------------------
LEMMA ThreadNext == ThreadInv /\ [Next]_vars => ThreadInv'
<1> SUFFICES ASSUME ThreadInv, [Next]_vars PROVE ThreadInv'
  OBVIOUS
<1>1. CASE StartQueue
  BY <1>1, StartQueueStep
<1>2. CASE AppStep
  BY <1>2, AppStepStep
<1>3. CASE SinkReads \/ SinkSends
  BY <1>3, SinkStep
<1>4. ASSUME NEW t \in Threads, StopBegins(t) \/ StopStep(t) PROVE ThreadInv'
  BY <1>4, StopBeginsStep, StopStepStep
<1>5. ASSUME NEW n \in Sessions, TaskStep(n) PROVE ThreadInv'
  BY <1>5, TaskStepStep
<1>6. CASE UNCHANGED vars
  BY <1>6 DEF vars, shared, queues, own, history, ThreadInv, ThreadTypeOK, InStart,
              PointerInv, TasksInv, FlagInv, HaltsAlone, Exists, HasLowered
<1> QED
  BY <1>1, <1>2, <1>3, <1>4, <1>5, <1>6 DEF Next

\* The inductive invariant of the threads, for any number of sessions and polls.
THEOREM ThreadInvariant == Spec => []ThreadInv
BY ThreadInitially, ThreadNext, PTL DEF Spec

\* Every variable keeps its type, and each queue its length.
THEOREM ThreadTypeCorrect == Spec => []ThreadTypeOK
<1>1. ThreadInv => ThreadTypeOK
  BY DEF ThreadInv
<1> QED
  BY <1>1, ThreadInvariant, PTL

\* WifiManagerTask.cpp:47-56 and 108-113: as long as no call overlaps another, the
\* pointer the sinks read is never that of a deleted queue.
THEOREM ExternalQueueCorrect == Spec => []ExternalQueueIsLive
<1>1. ThreadInv => ExternalQueueIsLive
  BY DEF ThreadInv, PointerInv, ExternalQueueIsLive
<1> QED
  BY <1>1, ThreadInvariant, PTL

\* WifiManagerTask.cpp:149-154: a task that is to work waits on a queue that exists,
\* unless a Start has overtaken it.
THEOREM TaskQueueCorrect == Spec => []TaskQueueIsLive
<1>1. ThreadInv => TaskQueueIsLive
  BY Zenon DEF ThreadInv, FlagInv, TaskQueueIsLive
<1> QED
  BY <1>1, ThreadInvariant, PTL

\* WifiManagerTask.cpp:99-106: an application's Stop that found the handle cleared
\* halts a manager that no task works with any more.
THEOREM HaltsAloneCorrect == Spec => []HaltsAlone
<1>1. ThreadInv => HaltsAlone
  BY DEF ThreadInv
<1> QED
  BY <1>1, ThreadInvariant, PTL
==============================================================================

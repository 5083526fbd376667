----------------------- MODULE WifiManagerTaskThreads -----------------------
(***************************************************************************)
(* WifiManagerTask.cpp between the handlers of its manager: who may touch  *)
(* the queue, the flag and the task's handle, statement by statement.  The *)
(* application starts and stops, each start makes a task of its own, the   *)
(* state-changed callback may stop from inside the task, and the event     *)
(* loop reads externalQueue_ and sends to what it read.  The manager's own *)
(* calls only return here; WifiManagerTask has what they do.               *)
(***************************************************************************)
EXTENDS Naturals

CONSTANTS
    MaxSessions,        \* bound: so many calls of Start
    MaxPolls,           \* how often Stop looks at the handle (50 in the code)
    QueueCapacity,      \* kQueueCapacity
    CallbackStops       \* the callback may call Stop

ASSUME ThreadAssumption ==
    /\ MaxSessions \in Nat \ {0}
    /\ MaxPolls \in Nat \ {0}
    /\ QueueCapacity \in Nat \ {0}
    /\ CallbackStops \in BOOLEAN

VARIABLES
    running,        \* running_
    queue,          \* queue_: the session whose queue it is, or null
    externalQueue,  \* the manager's externalQueue_, likewise
    taskHandle,     \* taskHandle_: the session whose task it is, or null
    live,           \* the queues created and not deleted
    count,          \* how many events each queue holds
    pc,             \* where each thread is
    taskQueue,      \* each task's local copy of queue_
    polls,          \* how often each thread in Stop has looked at the handle
    sink,           \* what the event loop has read from externalQueue_, or null
    session,        \* how many calls of Start there have been
    overtaken,      \* history: a Start did not find the task before it gone
    overlapped      \* history: a call began while another thread was in one

shared  == <<running, queue, externalQueue, taskHandle>>
queues  == <<live, count>>
own     == <<taskQueue, polls, sink>>
history == <<session, overtaken, overlapped>>

vars == <<shared, queues, pc, own, history>>

null == 0
App  == 0

Sessions == 1..MaxSessions
Threads  == {App} \cup Sessions

Labels == {"none", "idle",
           "Start:manager", "Start:create", "Start:handle", "Start:undo",
           "Stop:flag", "Stop:wake", "Stop:poll", "Stop:manager", "delete",
           "Run", "loop", "receive", "check", "dispatch", "leave"}

InStop(t) == pc[t] \in {"Stop:flag", "Stop:wake", "Stop:poll", "Stop:manager", "delete"}

InStart == pc[App] \in {"Start:manager", "Start:create", "Start:handle", "Start:undo"}

\* A call on thread t begins while another thread is in one.
Overlaps(t) == (t # App /\ InStart) \/ \E u \in Threads \ {t} : InStop(u)

Exists(n) == pc[n] # "none"

Goto(t, label) == pc' = [pc EXCEPT ![t] = label]

ThreadInit ==
    /\ running = FALSE
    /\ queue = null
    /\ externalQueue = null
    /\ taskHandle = null
    /\ live = {}
    /\ count = [n \in Sessions |-> 0]
    /\ pc = [t \in Threads |-> IF t = App THEN "idle" ELSE "none"]
    /\ taskQueue = [n \in Sessions |-> null]
    /\ polls = [t \in Threads |-> 0]
    /\ sink = null
    /\ session = 0
    /\ overtaken = FALSE
    /\ overlapped = FALSE

\* Mutant: the queue has no end.
SentUnbounded(q) == IF q \in live THEN [count EXCEPT ![q] = @ + 1] ELSE count

\* xQueueSendToBack without a wait.  On a deleted queue it does anything; nothing is
\* claimed of it here.
Sent(q) == IF q \in live /\ count[q] < QueueCapacity
           THEN [count EXCEPT ![q] = @ + 1] ELSE count

------------------------------------------------------------------------------
\* Start: the queue is created, and the manager may send to it.
StartQueue ==
    /\ pc[App] = "idle"
    /\ ~running
    /\ session < MaxSessions
    /\ session' = session + 1
    /\ live' = live \cup {session'}
    /\ queue' = session'
    /\ externalQueue' = session'
    /\ overtaken' = (overtaken \/ \E n \in Sessions : Exists(n))
    /\ overlapped' = (overlapped \/ Overlaps(App))
    /\ Goto(App, "Start:manager")
    /\ UNCHANGED <<running, taskHandle, count, own>>

\* The manager starts, or it does not and the queue goes.
StartManager ==
    /\ pc[App] = "Start:manager"
    /\ \/ running' = TRUE /\ Goto(App, "Start:create") /\ UNCHANGED externalQueue
       \/ externalQueue' = null /\ Goto(App, "Start:undo") /\ UNCHANGED running
    /\ UNCHANGED <<queue, taskHandle, queues, own, history>>

StartUndo ==
    /\ pc[App] = "Start:undo"
    /\ live' = live \ {session}
    /\ queue' = null
    /\ Goto(App, "idle")
    /\ UNCHANGED <<running, externalQueue, taskHandle, count, own, history>>

\* Without a task the manager stops again and the queue goes, as in Stop.
CreateTask ==
    /\ pc[App] = "Start:create"
    /\ \/ /\ pc' = [pc EXCEPT ![App] = "Start:handle", ![session] = "Run"]
          /\ UNCHANGED running
       \/ /\ running' = FALSE
          /\ Goto(App, "Stop:manager")
    /\ UNCHANGED <<queue, externalQueue, taskHandle, queues, own, history>>

StoreHandle ==
    /\ pc[App] = "Start:handle"
    /\ taskHandle' = session
    /\ Goto(App, "idle")
    /\ UNCHANGED <<running, queue, externalQueue, queues, own, history>>

------------------------------------------------------------------------------
\* Stop, on the application's thread or, from the callback, on a task's.
StopBegins(t) ==
    /\ \/ t = App /\ pc[t] = "idle"
       \/ t # App /\ pc[t] = "dispatch" /\ CallbackStops
    /\ running
    /\ overlapped' = (overlapped \/ Overlaps(t))
    /\ Goto(t, "Stop:flag")
    /\ UNCHANGED <<shared, queues, own, session, overtaken>>

\* Mutant: the task is not told.
StopKeepsFlag(t) ==
    /\ pc[t] = "Stop:flag"
    /\ Goto(t, "Stop:wake")
    /\ UNCHANGED <<shared, queues, own, history>>

StopFlag(t) ==
    /\ pc[t] = "Stop:flag"
    /\ running' = FALSE
    /\ Goto(t, "Stop:wake")
    /\ UNCHANGED <<queue, externalQueue, taskHandle, queues, own, history>>

StopWake(t) ==
    /\ pc[t] = "Stop:wake"
    /\ count' = IF queue # null THEN Sent(queue) ELSE count
    /\ polls' = [polls EXCEPT ![t] = 0]
    /\ Goto(t, "Stop:poll")
    /\ UNCHANGED <<shared, live, taskQueue, sink, history>>

\* Mutant: nothing is waited for.
StopDoesNotWait(t) ==
    /\ pc[t] = "Stop:poll"
    /\ Goto(t, "Stop:manager")
    /\ UNCHANGED <<shared, queues, own, history>>

\* Mutant: the wait has no bound.
StopWaitsForEver(t) ==
    /\ pc[t] = "Stop:poll"
    /\ taskHandle = null
    /\ Goto(t, "Stop:manager")
    /\ UNCHANGED <<shared, queues, own, history>>

StopPoll(t) ==
    /\ pc[t] = "Stop:poll"
    /\ IF taskHandle = null \/ polls[t] = MaxPolls
       THEN Goto(t, "Stop:manager") /\ UNCHANGED polls
       ELSE polls' = [polls EXCEPT ![t] = @ + 1] /\ UNCHANGED pc
    /\ UNCHANGED <<shared, queues, taskQueue, sink, history>>

\* Mutant: the manager keeps the queue it is about to lose.
StopKeepsExternalQueue(t) ==
    /\ pc[t] = "Stop:manager"
    /\ Goto(t, "delete")
    /\ UNCHANGED <<shared, queues, own, history>>

\* The manager stops and forgets the queue.
StopManager(t) ==
    /\ pc[t] = "Stop:manager"
    /\ externalQueue' = null
    /\ Goto(t, "delete")
    /\ UNCHANGED <<running, queue, taskHandle, queues, own, history>>

\* The end of Stop.  One step: a second delete of the same queue is not told apart.
DeleteQueue(t) ==
    /\ pc[t] = "delete"
    /\ live' = live \ {queue}
    /\ queue' = null
    /\ Goto(t, IF t = App THEN "idle" ELSE "loop")
    /\ UNCHANGED <<running, externalQueue, taskHandle, count, own, history>>

StopStep(t) == StopFlag(t) \/ StopWake(t) \/ StopPoll(t) \/ StopManager(t) \/ DeleteQueue(t)

------------------------------------------------------------------------------
\* The task of session n.
RunBegins(n) ==
    /\ pc[n] = "Run"
    /\ taskQueue' = [taskQueue EXCEPT ![n] = queue]
    /\ Goto(n, "loop")
    /\ UNCHANGED <<shared, queues, polls, sink, history>>

LoopTest(n) ==
    /\ pc[n] = "loop"
    /\ Goto(n, IF running THEN "receive" ELSE "leave")
    /\ UNCHANGED <<shared, queues, own, history>>

\* xQueueReceive returns with an event or after a tick.
Receive(n) ==
    /\ pc[n] = "receive"
    /\ LET q == taskQueue[n] IN
       count' = IF q \in live /\ count[q] > 0 THEN [count EXCEPT ![q] = @ - 1] ELSE count
    /\ Goto(n, "check")
    /\ UNCHANGED <<shared, live, own, history>>

CheckFlag(n) ==
    /\ pc[n] = "check"
    /\ Goto(n, IF running THEN "dispatch" ELSE "leave")
    /\ UNCHANGED <<shared, queues, own, history>>

\* An event is dispatched, or the retry timer advanced.
Dispatched(n) ==
    /\ pc[n] = "dispatch"
    /\ Goto(n, "loop")
    /\ UNCHANGED <<shared, queues, own, history>>

Leave(n) ==
    /\ pc[n] = "leave"
    /\ taskHandle' = null
    /\ Goto(n, "none")
    /\ UNCHANGED <<running, queue, externalQueue, queues, own, history>>

TaskStep(n) == RunBegins(n) \/ LoopTest(n) \/ Receive(n) \/ CheckFlag(n) \/ Dispatched(n)
               \/ Leave(n)

------------------------------------------------------------------------------
\* A sink on the event loop or the HTTP server's thread.
SinkReads ==
    /\ sink = null
    /\ externalQueue # null
    /\ sink' = externalQueue
    /\ UNCHANGED <<shared, queues, taskQueue, polls, history, pc>>

SinkSends ==
    /\ sink # null
    /\ count' = Sent(sink)
    /\ sink' = null
    /\ UNCHANGED <<shared, live, taskQueue, polls, history, pc>>

AppStep == StartManager \/ StartUndo \/ CreateTask \/ StoreHandle

Next ==
    \/ StartQueue
    \/ AppStep
    \/ SinkReads
    \/ SinkSends
    \/ \E t \in Threads : StopBegins(t) \/ StopStep(t)
    \/ \E n \in Sessions : TaskStep(n)

\* Every thread that can run does; nobody has to call anything.
Spec ==
    /\ ThreadInit
    /\ [][Next]_vars
    /\ WF_vars(AppStep)
    /\ WF_vars(SinkSends)
    /\ \A t \in Threads : WF_vars(StopStep(t))
    /\ \A n \in Sessions : WF_vars(TaskStep(n))

------------------------------------------------------------------------------
\* Every variable keeps its type.
ThreadTypeOK ==
    /\ running \in BOOLEAN
    /\ {queue, externalQueue, taskHandle, sink} \subseteq Sessions \cup {null}
    /\ live \subseteq Sessions
    /\ count \in [Sessions -> 0..QueueCapacity]
    /\ pc \in [Threads -> Labels]
    /\ taskQueue \in [Sessions -> Sessions \cup {null}]
    /\ polls \in [Threads -> 0..MaxPolls]
    /\ session \in 0..MaxSessions
    /\ overtaken \in BOOLEAN
    /\ overlapped \in BOOLEAN

\* WifiManagerTask.cpp:47-56 and 108-113: as long as no call overlaps another, the
\* pointer that a sink may read at any moment is never that of a deleted queue, also
\* when a Stop gave up on the task or came from the task's own callback.
ExternalQueueIsLive == ~overlapped /\ externalQueue # null => externalQueue \in live

\* WifiManagerTask.cpp:149-154: a task that is to work waits on a queue that exists,
\* unless a Start has overtaken it.
TaskQueueIsLive ==
    \A n \in Sessions :
        pc[n] = "receive" /\ running /\ ~overtaken => taskQueue[n] \in live

\* WifiManagerTask.cpp:99-106: an application's Stop that found the handle cleared
\* halts a manager that no task works with any more.
HaltsAlone ==
    pc[App] = "Stop:manager" /\ polls[App] < MaxPolls /\ ~overtaken =>
        \A n \in Sessions : ~Exists(n)

\* WifiManagerTask.cpp:99-106: Stop returns, whatever the task does and whichever
\* thread it is called on.
StopReturns == \A t \in Threads : InStop(t) ~> ~InStop(t)
==============================================================================

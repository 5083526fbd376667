------------------------ MODULE CaptivePortal_proofs ------------------------
(***************************************************************************)
(* The portal's two servers for any set of descriptors and any number of   *)
(* starts and polls.  The invariant says whose the DNS server's socket is  *)
(* at every place of its start, its stop and its task.                     *)
(***************************************************************************)
EXTENDS CaptivePortal, TLAPS

\* What the numbers of starts rely on, also after a Stop gave up.
StartsInv ==
    /\ pc = "socket" => starts < MaxStarts
    /\ pc \in {"bind", "setsockopt", "xTaskCreate", "handle"} => starts # 0

\* The task of the last start is at one of these places and no other task is left.
TaskAt(places) ==
    /\ starts \in Starts /\ dnsTask[starts] \in places
    /\ \A n \in Starts : n # starts => dnsTask[n] = "none"

NoTask == \A n \in Starts : dnsTask[n] = "none"

\* The DNS server has its socket and no other.
HasSocket(b) ==
    /\ socket \in Fd /\ owner[socket] = "dns"
    /\ \A fd \in Fd : owner[fd] = "dns" => fd = socket
    /\ bound = b

NoSocket ==
    /\ \A fd \in Fd : owner[fd] # "dns"
    /\ bound = {}

\* Nothing of the DNS server is there.
DnsClear == ~running /\ taskHandle = null /\ NoTask /\ socket = none /\ NoSocket

\* Start has opened a socket for a task that is not there yet.
DnsOpened(b) == ~running /\ taskHandle = null /\ NoTask /\ HasSocket(b)

\* The task serves.
DnsServes(handle) ==
    /\ running /\ taskHandle = handle
    /\ TaskAt({"loop", "recvfrom"}) /\ HasSocket({socket})

\* The flag is down: the task still has the socket, or has closed it, or is gone.
DnsEnds ==
    /\ ~running
    /\ \/ /\ taskHandle = starts
          /\ \/ TaskAt({"loop", "recvfrom", "close"}) /\ HasSocket({socket})
             \/ TaskAt({"forget"}) /\ NoSocket
             \/ TaskAt({"leave"}) /\ socket = none /\ NoSocket
       \/ DnsClear

\* As long as no Stop gave up on its task: what each place of the manager's task finds.
SocketInv ==
    ~gaveUp =>
        /\ pc = "idle" => /\ portalActive => http
                          /\ running => portalActive
                          /\ DnsClear \/ DnsServes(starts)
        /\ pc = "httpd_stop" => portalActive /\ (DnsClear \/ DnsServes(starts))
        /\ pc = "socket" => DnsClear /\ ~portalActive
        /\ pc = "bind" => DnsOpened({}) /\ ~portalActive
        /\ pc \in {"setsockopt", "xTaskCreate"} => DnsOpened({socket}) /\ ~portalActive
        /\ pc = "handle" => DnsServes(null) /\ ~portalActive
        /\ pc = "httpd_start" => (DnsClear \/ DnsServes(starts)) /\ ~portalActive
        /\ pc = "flag" => DnsServes(starts)
        /\ pc = "poll" => DnsEnds
        /\ pc \in {"close", "clear"} => DnsClear

PortalInv == PortalTypeOK /\ StartsInv /\ SocketInv

------------------------------------------------------------------------------
LEMMA PortalInitially == PortalInit => PortalInv
<1> SUFFICES ASSUME PortalInit PROVE PortalInv
  OBVIOUS
<1> USE PortalAssumption DEF PortalInit, Starts
<1>1. PortalTypeOK
  <2>1. dnsTask \in [Starts -> TaskPlace]
    BY DEF TaskPlace
  <2>2. owner \in [Fd -> {"free", "dns", "other"}]
    OBVIOUS
  <2>3. {portalActive, http, running, gaveUp} \subseteq BOOLEAN
    BY Zenon
  <2> QED
    BY <2>1, <2>2, <2>3 DEF PortalTypeOK, null
<1>2. StartsInv
  BY DEF StartsInv
<1>3. SocketInv
  BY DEF SocketInv, DnsClear, NoTask, NoSocket
<1> QED
  BY <1>1, <1>2, <1>3 DEF PortalInv

\* One descriptor changes hands.
LEMMA OwnerType ==
    ASSUME PortalTypeOK, NEW fd, NEW who \in {"free", "dns", "other"}
    PROVE  [owner EXCEPT ![fd] = who] \in [Fd -> {"free", "dns", "other"}]
BY DEF PortalTypeOK

LEMMA CloseType ==
    ASSUME PortalTypeOK, NEW fd, Close(fd)
    PROVE  owner' \in [Fd -> {"free", "dns", "other"}] /\ bound' \subseteq Fd
BY OwnerType DEF Close, PortalTypeOK

LEMMA TaskType ==
    ASSUME PortalTypeOK, NEW n, NEW place \in TaskPlace
    PROVE  [dnsTask EXCEPT ![n] = place] \in [Starts -> TaskPlace]
BY DEF PortalTypeOK

LEMMA TypeStep == PortalInv /\ [Next]_vars => PortalTypeOK' /\ StartsInv'
<1> SUFFICES ASSUME PortalTypeOK, StartsInv, [Next]_vars
             PROVE  PortalTypeOK' /\ StartsInv'
  BY DEF PortalInv
<1> USE PortalAssumption
<1> USE DEF PortalTypeOK, StartsInv, dnsVars, sockets, httpVars, history, Starts, DnsStart,
            DnsStop, null
<1>1. CASE StartPortal
  BY <1>1 DEF StartPortal, TakesEvent
<1>2. CASE StopPortal
  BY <1>2 DEF StopPortal, TakesEvent
<1>3. CASE DnsSocket
  BY <1>3, OwnerType DEF DnsSocket
<1>4. CASE DnsBind
  BY <1>4, CloseType DEF DnsBind, DnsPrepares
<1>5. CASE DnsSetTimeout
  BY <1>5, CloseType DEF DnsSetTimeout, DnsPrepares
<1>6. CASE DnsCreateTask
  BY <1>6, CloseType, TaskType DEF DnsCreateTask, TaskPlace
<1>7. CASE DnsStoreHandle
  BY <1>7 DEF DnsStoreHandle
<1>8. CASE HttpStart
  BY <1>8 DEF HttpStart
<1>9. CASE HttpStop
  BY <1>9 DEF HttpStop
<1>10. CASE DnsStopFlag
  <2>1. running' \in BOOLEAN
    BY <1>10, Zenon DEF DnsStopFlag
  <2>2. polls' \in 0..MaxPolls
    BY <1>10 DEF DnsStopFlag
  <2> QED
    BY <1>10, <2>1, <2>2 DEF DnsStopFlag
<1>11. CASE DnsStopPoll
  <2>1. gaveUp' \in BOOLEAN
    BY <1>11, Zenon DEF DnsStopPoll
  <2>2. polls' \in 0..MaxPolls
    BY <1>11 DEF DnsStopPoll
  <2> QED
    BY <1>11, <2>1, <2>2 DEF DnsStopPoll
<1>12. CASE DnsStopClose
  BY <1>12, CloseType DEF DnsStopClose
<1>13. CASE DnsStopClear
  BY <1>13 DEF DnsStopClear
<1>14. ASSUME NEW n \in Starts, DnsTask(n) PROVE PortalTypeOK' /\ StartsInv'
  BY <1>14, CloseType, TaskType
  DEF DnsTask, DnsTaskAt, DnsTaskTest, DnsTaskReceives, DnsTaskCloses, DnsTaskForgets,
      DnsTaskLeaves, TaskPlace
<1>15. CASE Request \/ Post
  BY <1>15 DEF Request, Post
<1>16. CASE OthersOpen \/ OthersClose
  BY <1>16, OwnerType DEF OthersOpen, OthersClose
<1>17. CASE UNCHANGED vars
  BY <1>17 DEF vars
<1> QED
  BY <1>1, <1>2, <1>3, <1>4, <1>5, <1>6, <1>7, <1>8, <1>9, <1>10, <1>11, <1>12, <1>13,
     <1>14, <1>15, <1>16, <1>17 DEF Next, ManagerStep

------------------------------------------------------------------------------
\* Every close of the DNS server's is of its own socket, or of none.
LEMMA CloseOwn ==
    ASSUME PortalTypeOK, HasSocket({socket}) \/ HasSocket({}), Close(socket)
    PROVE  /\ NoSocket'
           /\ \A fd \in Fd : owner[fd] = "other" => owner'[fd] = "other"
BY PortalAssumption DEF PortalTypeOK, HasSocket, NoSocket, Close

LEMMA CloseNone ==
    ASSUME PortalTypeOK, socket = none, Close(socket)
    PROVE  UNCHANGED sockets
BY PortalAssumption DEF PortalTypeOK, Close, sockets

LEMMA SocketStep == PortalInv /\ [Next]_vars => SocketInv'
<1> SUFFICES ASSUME PortalTypeOK, StartsInv, SocketInv, [Next]_vars, ~gaveUp'
             PROVE  SocketInv'
  BY DEF PortalInv, SocketInv
<1> USE PortalAssumption
<1> USE DEF dnsVars, sockets, httpVars, history, null
<1>1. CASE StartPortal
  BY <1>1 DEF StartPortal, SocketInv, DnsClear, DnsServes, NoTask, NoSocket, HasSocket, TaskAt
<1>2. CASE StopPortal
  BY <1>2 DEF StopPortal, SocketInv, DnsClear, DnsServes, NoTask, NoSocket, HasSocket, TaskAt
<1>3. CASE DnsSocket
  BY <1>3 DEF DnsSocket, SocketInv, DnsClear, DnsOpened, NoTask, NoSocket, HasSocket,
              PortalTypeOK
<1>4. CASE DnsBind
  BY <1>4, CloseOwn DEF DnsBind, DnsPrepares, SocketInv, DnsClear, DnsOpened, NoTask,
                        NoSocket, HasSocket
<1>5. CASE DnsSetTimeout
  BY <1>5, CloseOwn DEF DnsSetTimeout, DnsPrepares, SocketInv, DnsClear, DnsOpened, NoTask,
                        NoSocket, HasSocket
<1>6. CASE DnsCreateTask
  BY <1>6, CloseOwn DEF DnsCreateTask, SocketInv, DnsClear, DnsOpened, DnsServes, NoTask,
                        NoSocket, HasSocket, TaskAt, PortalTypeOK, StartsInv, Starts
<1>7. CASE DnsStoreHandle
  BY <1>7 DEF DnsStoreHandle, SocketInv, DnsServes, HasSocket, TaskAt
<1>8. CASE HttpStart
  BY <1>8 DEF HttpStart, SocketInv, DnsClear, DnsServes, NoTask, NoSocket, HasSocket, TaskAt
<1>9. CASE HttpStop
  BY <1>9 DEF HttpStop, SocketInv, DnsClear, DnsServes, NoTask, NoSocket, HasSocket, TaskAt
<1>10. CASE DnsStopFlag
  BY <1>10 DEF DnsStopFlag, SocketInv, DnsServes, DnsEnds, HasSocket, TaskAt
<1>11. CASE DnsStopPoll
  <2>1. pc = "poll" /\ ~gaveUp
    BY <1>11, Zenon DEF DnsStopPoll
  <2>2. DnsEnds
    BY <2>1 DEF SocketInv
  <2>3. pc' = "close" => taskHandle = null
    BY <1>11, <2>1, Zenon DEF DnsStopPoll
  <2>4. taskHandle = null => DnsClear
    BY <2>2 DEF DnsEnds, TaskAt, Starts
  <2>5. DnsEnds' = DnsEnds /\ DnsClear' = DnsClear
    BY <1>11 DEF DnsStopPoll, DnsEnds, DnsClear, NoTask, NoSocket, HasSocket, TaskAt
  <2>6. pc' \in {"poll", "close"}
    BY <1>11, <2>1 DEF DnsStopPoll
  <2> QED
    BY <2>2, <2>3, <2>4, <2>5, <2>6 DEF SocketInv
<1>12. CASE DnsStopClose
  BY <1>12, CloseNone DEF DnsStopClose, SocketInv, DnsClear, NoTask, NoSocket
<1>13. CASE DnsStopClear
  BY <1>13 DEF DnsStopClear, SocketInv, DnsClear, NoTask, NoSocket
<1>14. ASSUME NEW n \in Starts, DnsTask(n) PROVE SocketInv'
  <2>1. dnsTask[n] # "none"
    BY <1>14 DEF DnsTask, DnsTaskAt, DnsTaskTest, DnsTaskReceives, DnsTaskCloses,
                 DnsTaskForgets, DnsTaskLeaves
  <2>2. ~DnsClear /\ ~DnsOpened({}) /\ ~DnsOpened({socket})
    BY <2>1 DEF DnsClear, DnsOpened, NoTask
  <2>3. CASE DnsTaskTest(n)
    BY <2>2, <2>3 DEF DnsTaskTest, DnsTaskAt, SocketInv, DnsServes, DnsEnds, HasSocket,
         NoSocket, TaskAt, PortalTypeOK
  <2>4. CASE DnsTaskReceives(n)
    BY <2>2, <2>4 DEF DnsTaskReceives, DnsTaskAt, SocketInv, DnsServes, DnsEnds, HasSocket,
         NoSocket, TaskAt, PortalTypeOK
  <2>5. CASE DnsTaskCloses(n)
    BY <2>2, <2>5, CloseOwn DEF DnsTaskCloses, DnsTaskAt, SocketInv, DnsServes, DnsEnds,
         TaskAt, PortalTypeOK
  <2>6. CASE DnsTaskForgets(n)
    BY <2>2, <2>6 DEF DnsTaskForgets, DnsTaskAt, SocketInv, DnsServes, DnsEnds, NoSocket,
         TaskAt, PortalTypeOK
  <2>7. CASE DnsTaskLeaves(n)
    BY <2>2, <2>7 DEF DnsTaskLeaves, DnsTaskAt, SocketInv, DnsServes, DnsEnds, NoSocket,
         DnsClear, NoTask, TaskAt, PortalTypeOK
  <2> QED
    BY <1>14, <2>3, <2>4, <2>5, <2>6, <2>7 DEF DnsTask
<1>15. CASE Request \/ Post
  BY <1>15 DEF Request, Post, SocketInv, DnsClear, DnsOpened, DnsServes, DnsEnds, NoTask,
               NoSocket, HasSocket, TaskAt
<1>16. CASE OthersOpen \/ OthersClose
  BY <1>16 DEF OthersOpen, OthersClose, SocketInv, DnsClear, DnsOpened, DnsServes, DnsEnds,
               NoTask, NoSocket, HasSocket, TaskAt, PortalTypeOK
<1>17. CASE UNCHANGED vars
  BY <1>17 DEF vars, SocketInv, DnsClear, DnsOpened, DnsServes, DnsEnds, NoTask,
               NoSocket, HasSocket, TaskAt
<1> QED
  BY <1>1, <1>2, <1>3, <1>4, <1>5, <1>6, <1>7, <1>8, <1>9, <1>10, <1>11, <1>12, <1>13,
     <1>14, <1>15, <1>16, <1>17 DEF Next, ManagerStep

LEMMA PortalInvariant == PortalSpec => []PortalInv
<1>1. PortalInv /\ [Next]_vars => PortalInv'
  BY TypeStep, SocketStep DEF PortalInv
<1> QED
  BY <1>1, PortalInitially, PTL DEF PortalSpec

------------------------------------------------------------------------------
\* Every variable keeps its type, for any number of starts, of polls and of places in
\* the queue.
THEOREM PortalTypeCorrect == PortalSpec => []PortalTypeOK
<1>1. PortalInv => PortalTypeOK
  BY DEF PortalInv
<1> QED
  BY <1>1, PortalInvariant, PTL

\* WifiManager.cpp:376-388 and 399-401: between two calls nothing of a portal that is
\* not active is left, unless a Stop gave up on its task or a server would not stop.
THEOREM PortalIsWholeCorrect == PortalSpec => []PortalIsWhole
<1>1. PortalInv => PortalIsWhole
  BY DEF PortalInv, SocketInv, PortalIsWhole, DnsClear, DnsServes, NoTask, NoSocket,
         HasSocket
<1> QED
  BY <1>1, PortalInvariant, PTL

\* CaptivePortalDns.cpp:103-105 and 144: a close of the DNS server's is never of a socket
\* that somebody else has opened, unless a Stop gave up on its task.
THEOREM OthersCorrect == PortalSpec => OthersStayOpen
<1>1. ASSUME PortalInv, [Next]_vars, ~gaveUp, NEW fd \in Fd, owner[fd] = "other",
             owner'[fd] = "free"
      PROVE  OthersClose
  <2>1. PortalTypeOK /\ SocketInv
    BY <1>1 DEF PortalInv
  <2>2. ~UNCHANGED owner
    BY <1>1
  <2>3. CASE DnsSocket \/ OthersOpen
    BY <1>1, <2>1, <2>3 DEF DnsSocket, OthersOpen, PortalTypeOK
  <2>4. CASE DnsBind \/ DnsSetTimeout \/ DnsCreateTask
    BY <1>1, <2>1, <2>2, <2>4, CloseOwn
    DEF DnsBind, DnsSetTimeout, DnsPrepares, DnsCreateTask, SocketInv, DnsOpened, sockets
  <2>5. CASE DnsStopClose
    BY <1>1, <2>1, <2>2, <2>5, CloseNone DEF DnsStopClose, SocketInv, DnsClear, sockets
  <2>6. ASSUME NEW n \in Starts, DnsTaskCloses(n) PROVE FALSE
    <3>1. dnsTask[n] = "close" /\ Close(socket)
      BY <2>6 DEF DnsTaskCloses, DnsTaskAt
    <3>2. HasSocket({socket})
      BY <1>1, <2>1, <3>1 DEF SocketInv, DnsClear, DnsOpened, DnsServes, DnsEnds, NoTask,
           TaskAt, PortalTypeOK, DnsStart, DnsStop
    <3> QED
      BY <1>1, <2>1, <3>1, <3>2, CloseOwn
  <2> QED
    BY <1>1, <2>2, <2>3, <2>4, <2>5, <2>6
    DEF Next, ManagerStep, DnsTask, StartPortal, StopPortal, DnsStoreHandle, HttpStart,
        HttpStop, DnsStopFlag, DnsStopPoll, DnsStopClear, DnsTaskTest, DnsTaskReceives,
        DnsTaskForgets, DnsTaskLeaves, Request, Post, vars, sockets, dnsVars, httpVars, history
<1>2. PortalInv /\ [Next]_vars
        => [~gaveUp => \A fd \in Fd :
              owner[fd] = "other" /\ owner'[fd] = "free" => OthersClose]_vars
  BY <1>1
<1> QED
  BY <1>2, PortalInvariant, PTL DEF PortalSpec, OthersStayOpen
==============================================================================

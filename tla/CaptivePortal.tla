---------------------------- MODULE CaptivePortal ----------------------------
(***************************************************************************)
(* The portal's two servers, statement by statement where threads meet:    *)
(* StartPortal and StopPortal of WifiManager.cpp on the manager's task,    *)
(* CaptivePortalDns.cpp with the task each start makes, the HTTP server's  *)
(* thread with a request under way, and other code that opens and closes   *)
(* sockets of its own.  WifiManager has both calls as one step.            *)
(***************************************************************************)
EXTENDS Naturals

CONSTANTS
    Fd,             \* the descriptors there are
    MaxStarts,      \* bound: so many calls of CaptivePortalDns::Start
    MaxPolls,       \* kStopTimeoutMs / kStopPollIntervalMs
    QueueCapacity   \* the length of the manager's task queue

null == 0
none == "none"

ASSUME PortalAssumption ==
    /\ none \notin Fd
    /\ MaxStarts \in Nat
    /\ MaxPolls \in Nat
    /\ QueueCapacity \in Nat \ {0}

VARIABLES
    portalActive,   \* portalActive_
    http,           \* CaptivePortalHttp's running_: there is a server
    running,        \* CaptivePortalDns's running_
    socket,         \* socket_, or none for -1
    taskHandle,     \* taskHandle_: the start whose task it is, or null
    pc,             \* where the manager's task is
    polls,          \* how often Stop has looked at the handle
    dnsTask,        \* where the task of each start is
    handler,        \* the request the HTTP server's thread works on
    pending,        \* events in the manager's task queue
    owner,          \* who has opened each descriptor
    bound,          \* the descriptors bound to port 53
    starts,         \* how many starts there have been
    gaveUp          \* history: a Stop did not see its task end

dnsVars  == <<running, socket, taskHandle>>
sockets  == <<owner, bound>>
httpVars == <<http, handler, pending>>
history  == <<starts, gaveUp>>
vars == <<portalActive, dnsVars, sockets, httpVars, pc, polls, dnsTask, history>>

Starts == 1..MaxStarts

\* Where a call is: what it does next.
DnsStart  == {"socket", "bind", "setsockopt", "xTaskCreate", "handle"}
DnsStop   == {"flag", "poll", "close", "clear"}
InStop    == pc \in {"httpd_stop"} \cup DnsStop
TaskPlace == {"none", "loop", "recvfrom", "close", "forget", "leave"}

PortalInit ==
    /\ portalActive = FALSE
    /\ http = FALSE
    /\ running = FALSE
    /\ socket = none
    /\ taskHandle = null
    /\ pc = "idle"
    /\ polls = 0
    /\ dnsTask = [n \in Starts |-> "none"]
    /\ handler = "idle"
    /\ pending = 0
    /\ owner = [fd \in Fd |-> "free"]
    /\ bound = {}
    /\ starts = 0
    /\ gaveUp = FALSE

\* close(), of a descriptor that may have become somebody else's.
Close(fd) ==
    /\ owner' = IF fd = none THEN owner ELSE [owner EXCEPT ![fd] = "free"]
    /\ bound' = bound \ {fd}

------------------------------------------------------------------------------
\* An event or a tick makes the manager start or stop the portal.
TakesEvent == pending' \in {pending, pending - 1} \cap Nat

StartPortal ==
    /\ pc = "idle" /\ ~portalActive
    /\ starts < MaxStarts
    /\ TakesEvent
    /\ pc' = IF running THEN "httpd_start" ELSE "socket"
    /\ UNCHANGED <<portalActive, dnsVars, sockets, http, handler, polls, dnsTask, history>>

StopPortal ==
    /\ pc = "idle" /\ portalActive
    /\ TakesEvent
    /\ pc' = IF http THEN "httpd_stop" ELSE "flag"
    /\ UNCHANGED <<portalActive, dnsVars, sockets, http, handler, polls, dnsTask, history>>

------------------------------------------------------------------------------
\* CaptivePortalDns::Start.
DnsSocket ==
    /\ pc = "socket"
    /\ starts' = starts + 1
    /\ \/ \E fd \in {f \in Fd : owner[f] = "free"} :
             /\ socket' = fd
             /\ owner' = [owner EXCEPT ![fd] = "dns"]
             /\ pc' = "bind"
       \/ socket' = none /\ pc' = "httpd_start" /\ UNCHANGED owner
    /\ UNCHANGED <<portalActive, running, taskHandle, bound, httpVars, polls, dnsTask, gaveUp>>

\* bind() and setsockopt() may fail; the port must be free.  Whoever fails closes.
DnsPrepares(here, next, fits) ==
    /\ pc = here
    /\ \/ /\ socket # none
          /\ fits
          /\ bound' = bound \cup {socket}
          /\ pc' = next
          /\ UNCHANGED <<socket, owner>>
       \/ /\ Close(socket)
          /\ socket' = none
          /\ pc' = "httpd_start"
    /\ UNCHANGED <<portalActive, running, taskHandle, httpVars, polls, dnsTask, history>>

DnsBind       == DnsPrepares("bind", "setsockopt", bound = {})
DnsSetTimeout == DnsPrepares("setsockopt", "xTaskCreate", TRUE)

\* running_ is set first: the task may run before its handle is stored.
DnsCreateTask ==
    /\ pc = "xTaskCreate"
    /\ \/ /\ running' = TRUE
          /\ dnsTask' = [dnsTask EXCEPT ![starts] = "loop"]
          /\ pc' = "handle"
          /\ UNCHANGED <<socket, sockets>>
       \/ /\ Close(socket)
          /\ socket' = none
          /\ pc' = "httpd_start"
          /\ UNCHANGED <<running, dnsTask>>
    /\ UNCHANGED <<portalActive, taskHandle, httpVars, polls, history>>

DnsStoreHandle ==
    /\ pc = "handle"
    /\ taskHandle' = starts
    /\ pc' = "httpd_start"
    /\ UNCHANGED <<portalActive, running, socket, sockets, httpVars, polls, dnsTask, history>>

\* CaptivePortalHttp::Start.  A server that runs already, or does not start, stops
\* the other one.
HttpStart ==
    /\ pc = "httpd_start"
    /\ \/ ~http /\ http' = TRUE /\ portalActive' = TRUE /\ pc' = "idle"
       \/ /\ pc' = IF running THEN "flag" ELSE "idle"
          /\ UNCHANGED <<http, portalActive>>
    /\ UNCHANGED <<dnsVars, sockets, handler, pending, polls, dnsTask, history>>

------------------------------------------------------------------------------
\* CaptivePortalHttp::Stop: httpd_stop waits for the server's thread.
HttpStop ==
    /\ pc = "httpd_stop"
    /\ handler = "idle"
    /\ http' \in BOOLEAN
    /\ pc' = IF running THEN "flag" ELSE "idle"
    /\ portalActive' = running
    /\ UNCHANGED <<dnsVars, sockets, handler, pending, polls, dnsTask, history>>

\* CaptivePortalDns::Stop.
DnsStopFlag ==
    /\ pc = "flag"
    /\ running' = FALSE
    /\ polls' = 0
    /\ pc' = "poll"
    /\ UNCHANGED <<portalActive, socket, taskHandle, sockets, httpVars, dnsTask, history>>

\* Mutant: the task is not waited for.
DnsStopDoesNotWait ==
    /\ pc = "poll"
    /\ pc' = "close"
    /\ UNCHANGED <<portalActive, dnsVars, sockets, httpVars, polls, dnsTask, history>>

DnsStopPoll ==
    /\ pc = "poll"
    /\ IF taskHandle = null \/ polls = MaxPolls
       THEN /\ pc' = "close"
            /\ gaveUp' = (gaveUp \/ taskHandle # null)
            /\ UNCHANGED polls
       ELSE polls' = polls + 1 /\ UNCHANGED <<pc, gaveUp>>
    /\ UNCHANGED <<portalActive, dnsVars, sockets, httpVars, dnsTask, starts>>

DnsStopClose ==
    /\ pc = "close"
    /\ Close(socket)
    /\ socket' = none
    /\ pc' = "clear"
    /\ UNCHANGED <<portalActive, running, taskHandle, httpVars, polls, dnsTask, history>>

DnsStopClear ==
    /\ pc = "clear"
    /\ taskHandle' = null
    /\ portalActive' = FALSE
    /\ pc' = "idle"
    /\ UNCHANGED <<running, socket, sockets, httpVars, polls, dnsTask, history>>

ManagerStep == DnsSocket \/ DnsBind \/ DnsSetTimeout \/ DnsCreateTask \/ DnsStoreHandle
               \/ HttpStart \/ HttpStop \/ DnsStopFlag \/ DnsStopPoll \/ DnsStopClose
               \/ DnsStopClear

------------------------------------------------------------------------------
\* DnsTask of start n.  recvfrom returns after half a second at the latest; the
\* answer changes nothing here.
DnsTaskAt(n, here, next) ==
    /\ dnsTask[n] = here
    /\ dnsTask' = [dnsTask EXCEPT ![n] = next]
    /\ UNCHANGED <<portalActive, running, httpVars, pc, polls, history>>

DnsTaskTest(n) ==
    /\ DnsTaskAt(n, "loop", IF running THEN "recvfrom" ELSE "close")
    /\ UNCHANGED <<socket, taskHandle, sockets>>

DnsTaskReceives(n) ==
    /\ DnsTaskAt(n, "recvfrom", "loop")
    /\ UNCHANGED <<socket, taskHandle, sockets>>

DnsTaskCloses(n) ==
    /\ DnsTaskAt(n, "close", "forget")
    /\ Close(socket)
    /\ UNCHANGED <<socket, taskHandle>>

\* Mutant: the socket's number stays.
DnsTaskRemembers(n) ==
    /\ DnsTaskAt(n, "forget", "leave")
    /\ UNCHANGED <<socket, taskHandle, sockets>>

DnsTaskForgets(n) ==
    /\ DnsTaskAt(n, "forget", "leave")
    /\ socket' = none
    /\ UNCHANGED <<taskHandle, sockets>>

DnsTaskLeaves(n) ==
    /\ DnsTaskAt(n, "leave", "none")
    /\ taskHandle' = null
    /\ UNCHANGED <<socket, sockets>>

DnsTask(n) == DnsTaskTest(n) \/ DnsTaskReceives(n) \/ DnsTaskCloses(n)
              \/ DnsTaskForgets(n) \/ DnsTaskLeaves(n)

------------------------------------------------------------------------------
\* The HTTP server's thread.  Asked to stop, it serves no further request.
Request ==
    /\ http /\ pc # "httpd_stop"
    /\ handler = "idle"
    /\ handler' = "posting"
    /\ UNCHANGED <<portalActive, dnsVars, sockets, http, pending, pc, polls, dnsTask, history>>

\* Mutant: the handler waits for room in the queue.
PostWaits ==
    /\ handler = "posting"
    /\ pending < QueueCapacity
    /\ pending' = pending + 1
    /\ handler' = "idle"
    /\ UNCHANGED <<portalActive, dnsVars, sockets, http, pc, polls, dnsTask, history>>

\* Mutant: the queue has no end.
PostUnbounded ==
    /\ handler = "posting"
    /\ pending' \in {pending, pending + 1}
    /\ handler' = "idle"
    /\ UNCHANGED <<portalActive, dnsVars, sockets, http, pc, polls, dnsTask, history>>

\* OnPortalEvent: an event is sent, or refused when the queue is full.
Post ==
    /\ handler = "posting"
    /\ pending' \in {pending, pending + 1} \cap 0..QueueCapacity
    /\ handler' = "idle"
    /\ UNCHANGED <<portalActive, dnsVars, sockets, http, pc, polls, dnsTask, history>>

OthersOpen ==
    /\ \E fd \in {f \in Fd : owner[f] = "free"} : owner' = [owner EXCEPT ![fd] = "other"]
    /\ UNCHANGED <<portalActive, dnsVars, bound, httpVars, pc, polls, dnsTask, history>>

OthersClose ==
    /\ \E fd \in {f \in Fd : owner[f] = "other"} : owner' = [owner EXCEPT ![fd] = "free"]
    /\ UNCHANGED <<portalActive, dnsVars, bound, httpVars, pc, polls, dnsTask, history>>

Next ==
    \/ StartPortal
    \/ StopPortal
    \/ ManagerStep
    \/ Request
    \/ Post
    \/ OthersOpen
    \/ OthersClose
    \/ \E n \in Starts : DnsTask(n)

\* Every thread that can run does; nobody has to ask for anything.
PortalSpec ==
    /\ PortalInit
    /\ [][Next]_vars
    /\ WF_vars(ManagerStep)
    /\ WF_vars(Post)
    /\ \A n \in Starts : WF_vars(DnsTask(n))

------------------------------------------------------------------------------
\* Every variable keeps its type.
PortalTypeOK ==
    /\ {portalActive, http, running, gaveUp} \subseteq BOOLEAN
    /\ socket \in Fd \cup {none}
    /\ taskHandle \in Starts \cup {null}
    /\ pc \in {"idle", "httpd_start", "httpd_stop"} \cup DnsStart \cup DnsStop
    /\ polls \in 0..MaxPolls
    /\ dnsTask \in [Starts -> TaskPlace]
    /\ handler \in {"idle", "posting"}
    /\ pending \in 0..QueueCapacity
    /\ owner \in [Fd -> {"free", "dns", "other"}]
    /\ bound \subseteq Fd
    /\ starts \in 0..MaxStarts

\* CaptivePortalDns.cpp:103-105 and 144: a socket that somebody else has opened, with
\* a number the DNS server has used before, is never closed by the DNS server, as long
\* as no Stop has given up on its task.
OthersStayOpen ==
    [][~gaveUp => \A fd \in Fd :
          owner[fd] = "other" /\ owner'[fd] = "free" => OthersClose]_vars

\* WifiManager.cpp:376-388 and 399-401: between two calls nothing of a portal that
\* is not active is left: no task, no socket, no handle, so that the next start finds
\* its port free; and an active portal has its server.  A Stop that gave up on its
\* task, and a server that would not stop, are excepted.
PortalIsWhole ==
    pc = "idle" /\ ~gaveUp =>
        /\ portalActive => http
        /\ running => portalActive /\ socket \in bound /\ owner[socket] = "dns"
        /\ ~running => /\ \A n \in Starts : dnsTask[n] = "none"
                       /\ socket = none /\ taskHandle = null /\ bound = {}
                       /\ \A fd \in Fd : owner[fd] # "dns"

\* WifiManager.cpp:359 and 399: the portal's stop returns, whatever request the HTTP
\* server's thread has under way and however full the queue is that only the stopping
\* task empties.
StopPortalReturns == InStop ~> pc = "idle"
==============================================================================

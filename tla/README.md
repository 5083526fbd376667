# A TLA+ model of ESP32-WiFiManager

This directory holds TLA+ modules that model the Wi-Fi manager component in
this repository, TLC configurations that model-check them on small instances,
and theorems about them that the TLA+ proof system checks for every value of
their constants. Paths below are relative to the repository's root.

## 1. The system

The component keeps an ESP32 connected to a Wi-Fi network, and opens a
provisioning portal (a SoftAP with a DNS and an HTTP server) when it has no
network to connect to.

| Component | State | Operations |
|---|---|---|
| connection state machine, `src/WifiManagerStateMachine.cpp` | state, failed attempts (`uint8_t`), reconnect delay | `Reset`, `OnStart`, `OnProvisioningRequested`, `OnCredentialsReceived`, `OnConnectionSucceeded`, `OnConnectionFailed`, `OnRetryTimerElapsed`, `OnStop` |
| retry scheduler, `WifiRetryScheduler.hpp` | armed, remaining delay | `Arm`, `Cancel`, `Advance` |
| event queue, `WifiManagerEventQueue.hpp` | ring of 8 events | `Push`, `Pop`, `Clear` |
| credential store, `src/WifiCredentialStore.cpp` | two NVS keys | `Load`, `Save`, `Clear` (never called) |
| ESP-IDF adapter, `src/WifiManagerEspIdfAdapter.cpp` | initialized, started, driver started, SoftAP interface, suppression flag | `Init`, `Start`, `ApplyState`, `Stop`, `Deinit`, `EventHandler` |
| manager, `src/WifiManager.cpp` | reported state, status, credentials, flags, `portalActive_`, and the components above | `Init`, `Start`, `Stop`, `ForceProvisioning`, `EnqueueEvent`, `ProcessNextEvent`, `AdvanceRetryTimer`, the two event sinks, the destructor |
| task, `src/WifiManagerTask.cpp` | `running_`, FreeRTOS queue, task handle | `Init`, `Start`, `Stop`, `ForceProvisioning`, the loop, the destructor |
| HTTP server, `src/CaptivePortalHttp.cpp` | running, server handle | `Start`, `Stop`, four URI handlers |
| DNS server, `src/CaptivePortalDns.cpp` | running, socket, task handle | `Start`, `Stop`, its task, the packet parser |
| scan service, `src/WifiScanService.cpp` | none | one blocking scan |

**Interaction.** Six threads meet. The *application* calls `Init`, `Start`, `Stop`
and `ForceProvisioning`, which run the manager's code on its own thread. The
*manager task* waits up to 100 ms for an event, dispatches it, or advances the
retry timer if none came. The *event loop* runs `EventHandler` for driver events
and puts them into the task's queue without waiting; nobody looks at a refusal.
The *HTTP server's thread* puts posted credentials into the same queue. The *DNS
task* answers queries until its flag goes down, and closes its socket. The
*driver* connects, fails, loses links and posts events in its own time. There is no
lock: `state_` and the `running_` flags are atomics, and everything else relies on
handlers not overlapping. Without the manager task ("manual event loop control",
README.md:101) the application dispatches and advances the timer itself.

**What is hard.** Events are dispatched in a state other than the one they were
sent in: a failure in a portal that was forced meanwhile, a success after the link
is gone, anything after a stop. The adapter suppresses the disconnections it asks
for with one flag that the event loop lowers. Any ESP-IDF call may fail in the
middle of a transition. The queue may be full. Both `Stop`s wait a second at most,
and then take away what another task may be using. The power may go between two
writes to flash. `PROJECT.json` lists each hazard at its line, with the
properties that would catch it.

**What makes each component correct.**

- State machine: bounded attempts; exponential backoff under a cap.
- Timer: armed exactly while the manager waits to retry; every wait ends.
- Manager: the state it reports and the one it computes with agree; at rest,
  nothing moves it; in `kStopped` everything is off; the portal runs in `kPortal`
  and nowhere else; credentials in use are those in flash.
- Adapter: a connecting manager is always going to hear how it ended;
  `kConnected` means a link and `kPortal` an access point.
- Task: `Stop` returns; no one follows a pointer to a deleted queue.
- Portal: nothing is left behind that would keep the next one from starting, and
  no descriptor is closed that belongs to somebody else.
- Requests: what was typed is what arrives; answers stay in their buffers.

## 2. The modules

| Module | Models | Extends, instantiates |
|---|---|---|
| `WifiManagerTypes` | states, events, credentials | |
| `WifiManagerStateMachine` | the state machine; `SMSpec` calls it in any order | Types |
| `WifiRetryScheduler` | the countdown | |
| `EspIdf` | the driver and its calls, as the code uses them (external) | |
| `WifiCredentialStore` | `Load` and `Save` over the two keys, and a save cut short | `EspIdf` |
| `WifiManagerEspIdfAdapter` | the adapter over the driver | `EspIdf` |
| `WifiManager` | the manager: one action per operation | all the above |
| `WifiManagerTask` | the task, the application, the event loop, the HTTP server, the driver, destruction and loss of power, interleaved: `Spec` | `WifiManager`; `WifiLifecycle` |
| `WifiLifecycle` | the abstract specification: what a user may rely on | |
| `WifiManagerEventQueue` | the ring buffer with its indices and stale slots | |
| `WifiManagerManual` | the manager without its task | `WifiManager`; the ring |
| `WifiManagerTaskThreads` | `Start`, `Stop`, the loop and a sink, statement by statement | |
| `CaptivePortal` | `StartPortal`, `StopPortal`, the DNS server and its task, the HTTP server's thread, foreign sockets, statement by statement | |
| `PortalRequests` | the form, its decoding, the list of networks, the DNS answer | |
| `WifiManager_proofs` | theorems: the state machine; lemmas: the adapter, every operation of the manager | `WifiManager`, TLAPS |
| `WifiManagerTask_proofs` | theorems: manager and task, whatever fails; flash; what a stop leaves | `WifiManagerTask`, `WifiManager_proofs` |
| `WifiManagerCalm_proofs` | theorems: manager and task while the driver's and the portal's calls succeed | `WifiManagerTask_proofs` |
| `WifiLifecycle_proofs` | theorem: the refinement | `WifiManagerTask_proofs` |
| `WifiManagerManual_proofs` | theorems: the ring, the manager without its task | `WifiManagerManual`, `WifiManager_proofs` |
| `WifiManagerTaskThreads_proofs`, `CaptivePortal_proofs`, `PortalRequests_proofs` | theorems about the module they are named after | it, TLAPS |

*Components as operators.* The state machine, the timer, the ring, the adapter and
the store are objects the manager owns and calls, so each operation of theirs is an
operator: it maps the object to the object after the call or, where a call
beneath it may fail, to the set of possible outcomes (`[result, ad, drv]` for
the adapter). `Then` is the code's `if (result != ESP_OK) return result;`.

*The manager's variables* are the fields of `WifiManager`: `state`,
`runtimeStatus`, `activeCredentials`, `retryScheduler`, `initialized`, `running`,
`forceProvisioning`, `hasStoredCredentials`, `sm` (the state machine object),
`ad` (the adapter), `eventQueue`; `portal` is `portalActive_` with the two servers'
`running_`. `drv` and `nvs` are what lies below. `SetState` works on a *face*, the
record of what it reads and writes, because one handler may call it twice (a
failure with no delay) or after other changes.

*The task's variables* are `running_` (`taskRunning`), the queue, where the task is
(`"loop"`, `"dispatch"`, `"tick"`, `"none"`), the event it holds, and where the
application's thread is. `lostEvent` is a history variable: a full queue has
refused a driver event in this session.

*Three granularities.* In `WifiManagerTask` one step is one handler: everything
between two points where the code waits (`xQueueReceive`, `vTaskDelay`, the return to
the caller or the event loop). `Start` is split at the creation of the task, `Stop`
at its wait, and a receive from its dispatch, so that any other thread may run in
between. `WifiManagerTaskThreads` and `CaptivePortal` take one step per access to
what threads share, and say nothing of the manager's states. `PortalRequests` is
sequential: one behaviour is one request, because the handlers keep nothing.

*The life cycle.* `WifiLifecycle` knows five things: whether the manager is active,
its reported state, the failures in a row behind the present attempt, whether
provisioning was asked for, and the event that is about to be handled. It draws the
diagram of README.md:22-41 with the edges the code adds (`kError`, a restart, a
success that is reported late, a retry without a wait). `WifiManagerTask` implements
it under the mapping at the end of that module. The diagram's edge from `Connected`
straight to `Connecting` (line 30) is in the code one of `kWaitingToRetry`, unless
the delay is zero; the abstract `Fail` draws it that way.

### Abstractions

- *Handlers of the manager are atomic.* Two threads inside `SetState` at once, or
  inside `ApplyState` and `EventHandler`, are not modelled.
- In `WifiManagerTask`, a `Stop` that gives up waiting (`StopMayTimeOut`) does so while
  the task is inside a handler: 50 polls of 20 ms outlast a receive of 100 ms. The
  `Start` after it comes when that task is gone. `WifiManagerTaskThreads` has neither
  restriction.
- `Destroy` waits until no HTTP server is left that would not stop: what such a server
  does with a deleted object is undefined.
- `PowerLoss` keeps the flash: what was there, or what a save had committed by then
  (`InterruptedSaves`). Everything else starts anew.
- In `WifiManagerManual` the application does not initialise or start a manager that
  runs, and the portal serves nobody: a form posted without a task would run
  `httpd_stop` on the server's own thread.
- In `WifiManagerTaskThreads` the manager's `Start` and `Stop` only return; the only
  call the state-changed callback makes is `Stop`. A send to a deleted queue does
  nothing, and nothing is claimed of it.
- In `CaptivePortal` one descriptor has one owner; `close` of a free descriptor does
  nothing.
- In `PortalRequests` a character of a network's name is the length of its escape, a
  field's name is one symbol, and the buffers of the form are shorter than the code's.
- A call that creates the queue and fails returns before anything changes, and is
  left out. `ESP_ERR_INVALID_STATE` is taken for success exactly where the code
  does so; elsewhere it is one of the errors of `ESP_FAIL`.
- `esp_wifi_disconnect` without a link may answer either way, and connecting
  while connecting may be refused or ignored: the code relies on neither.
- An event's runtime status follows from its type, so it is left out.
- `case kCredentialsReceived` in `DispatchEvent` declares `credentialStore`
  (line 174) without braces, and the later `case` labels jump past it, which
  compilers reject or accept only as an extension. The model gives it the scope it
  was meant to have; it changes no state.
- The loops of `CalculateReconnectDelayMs`, `JsonEscapeString` and `UrlDecode` are
  recursive functions, over the doublings and over the positions. The last test of
  the delay is written `delay \in 0..Max`, which for natural numbers is the code's
  comparison with the maximum and also gives the proof the type of the result.
  Backoff with 64-bit arithmetic cannot overflow: the product is compared with a
  32-bit maximum after each doubling.

## 3. What is checked

| Run | Question | Distinct states |
|---|---|---|
| `state_machine` | the state machine under any sequence of calls; all 256 values of the counter | 517 |
| `calls` | every call of the application, destruction and power loss included, repeated forms with two passwords, `Stop` giving up, flash that cannot be opened; no failing driver calls; safety, and the end of every wait | 233 000 |
| `faults` | every ESP-IDF and NVS call may fail each time; a queue of length one; a retry delay of zero | 392 000 |
| `undisturbed` | provisioning as the example does it: no stop, no forced portal; two networks, flash that fails at any call, power loss; safety and liveness | 1 520 |
| `manual` | the manager without its task, with a failing connect or portal | 582 000 |
| `threads` | `Start`, `Stop`, the task and a sink statement by statement, over two sessions | 257 000 |
| `portal` | three starts of the portal with every call failing, two descriptors | 513 000 |
| `requests` | every form of three and two awkward characters, whole or cut; every list; every packet walk | 201 000 |

**Safety of the manager.** `RetryTimerInv` (armed if and only if
`kWaitingToRetry`), `AttemptsLeft` and `ShadowState` (the two copies of the state) are
checked in `calls`, `StoppedIsQuiet` and `RestingStays` in `faults`; the theorems of
section 4 give all five for every set of failing calls. `PortalFollowsState` and
`StoredAreActive` need calls that succeed: an HTTP server that will not stop,
or a save that fails between its two keys, breaks them, and the code makes no attempt
to repair either. With faults what remains is `PortalOutlivesOnlyErrors`: an active
portal outlives `kPortal` only when the adapter failed. `PasswordFollowsName` (checked
in `undisturbed`, where saves fail and the power goes between the two keys) says what
either may leave in flash: a complete pair stays complete, and a password is written
only beside the name it came with. `ConnectingIsWatched` says that the suppression
flag never swallows the outcome of an attempt: whenever the manager is connecting, the attempt is under way, or its outcome is posted, queued or
in the task's hand, or a full queue has dropped it (`lostEvent`), which the code
allows. It holds in `calls` only, too: after a `Stop` whose `esp_wifi_disconnect`
failed, the driver keeps its link, and the next session asks it to connect again,
which it may ignore without an event.

**Refinement.** `ImplementsLifecycle` is checked in `calls` and in `faults`: with any
failing calls, with a delay and without, attempts are counted without a gap, a wait
that runs out starts the attempt it was for, and nothing moves a manager at rest.

**What holds only undisturbed.** `ConnectedHasLink`, `PortalHasSoftAp` and
`PortalLeftAsDrawn` hold when nobody stops the manager, forces the portal or
posts a form twice, and each fails otherwise. Two of those failures are findings.
`ConnectingSettles`, with a driver that answers, is checked there, too: trying ends.

**Every wait ends.** The timer advances only when the queue stays empty for a tick.
`WaitingEnds` is checked in `calls`, where events do come between: a form that came
with a forced portal and cannot be saved is handled in `kWaitingToRetry`, takes a tick's
place and leaves the wait as it was; a late answer of the driver is handled there, too,
and ends it. Each wait meets finitely many of them. An endless stream would starve the
timer, since `Advance` is then never called; in this code only an HTTP server that
would not stop, and whose forms can never be saved, could send one (let `httpd_stop`
fail as well, and TLC shows it).

**Without the task.** `RingHoldsQueue` runs the ring beside the sequence the manager
is modelled with. `ManualRestingStays` says that a stale event moves no manager at
rest, and `WaitIsAccounted` that a manager that waits has its timer, or the timer's
event in its queue, unless the queue was full when the timer elapsed
(WifiManager.cpp:151 drops the event after `Advance` has cancelled the timer): that
one wait never ends.

**Threads.** `ExternalQueueIsLive`, `TaskQueueIsLive` and `HaltsAlone` say what the
order of the statements in `Start` and `Stop` achieves. Two history variables name
the cases in which it achieves nothing: `overlapped` (a `Stop` on the task, from the
callback, while the application starts or stops) and `overtaken` (a `Start` while the
task of a `Stop` that gave up is still there). `StopReturns` needs no exception.

**Portal.** `PortalIsWhole`, `OthersStayOpen` and `StopPortalReturns` hold whatever
call fails, with `gaveUp` (a `Stop` that did not see its task end) as the exception of
the first two: the task then closes, or forgets, a socket that is not its own.

**Requests.** `PostedIsReceived` is the round trip from the page's encoding through
`FindFormField` and `UrlDecode`; `EventIsUsable` also covers a body that was received in
part, which the handler takes for whole (line 184). `ScanAnswerFits` and `DnsAnswerFits`
bound the buffers. Three edges of the code that no document contradicts: a list that
ends on the last byte leaves its terminator no room, an object that does not fit
leaves a comma at the end of the list, and the DNS header counts answers that found
no room.

**Findings.** Four runs expect a violation, each of something a document or the page
of the repository says:

- `portal_exit`: a connection event that was under way when the portal was forced
  is dispatched in `kPortal` and leaves it (README.md:31 draws new credentials as
  the way from there to a connection).
- `softap_after_restart`: stopped in the portal and started again, the manager is in
  `kPortal` with no access point, because `apNetif_` outlives the mode
  (README.md:9, `examples/basic/main/main.cpp:35`).
- `connect_timeout`: an attempt the driver does not answer never ends, because
  nothing reads `connectTimeoutMs` (README.md:92).
- `page_answer`: the page tests a field `success` (`resources/portal.html:186`) that no
  answer of the handler has (`CaptivePortalHttp.cpp:237`), so accepted credentials are
  shown as refused.

**Mutants.** The modules define operators marked "Mutant", each a plausible bug in
the operator that follows it. Putting one in place of its operator makes the
property that `PROJECT.json` pairs it with fail.

### Bounds

| Bound | Where | Why it is enough |
|---|---|---|
| queue of 1 or 2, ring of 3 (8 each in the code) | `QueueCapacity`, `EventQueueCapacity` | reaches empty, partly full, full and refused; the ring wraps at every offset |
| `MaxDriverEvents` = 2 | `DriverHasRoom` guards the actions of the application and the driver that may post; in `WifiManagerTask` the task's handlers do not wait for it, and go at most one past it | two unhandled events give every order of leave, fail and address |
| 2 or 3 attempts | `MaxConnectAttempts` | first, middle and last attempt differ; `state_machine` runs the counter through its wrap |
| delay of 0, 1 or 2 ticks | `TickMs`, delays | no wait, one that elapses at once, and one that first counts down |
| 1 or 2 names, 1 or 2 passwords | `Ssid`, `Password` | a change of either key, and both, can be told from none |
| `MaxSessions` = 2, `MaxPolls` = 2 | `WifiManagerTaskThreads` | a second session meets what the first left; a wait that succeeds late or gives up |
| `MaxStarts` = 3, `MaxPolls` = 2, two descriptors | `CaptivePortal` | a third start after two stops; a number that is reused, and one that is not |
| `MaxName` = 3, `MaxPass` = 2, buffers of 3, body of 16 | `PortalRequests` | forms longer than the buffers and than the body; `%`, `&` and two digits make every confusion of escapes |
| packets of 12, 17, 100, 232 and 512 bytes, 0, 1, 2 or 44 questions, labels of 1, 63 or 255 | `PortalRequests` | no question, one that just fits, one cut short, answers that fill the buffer |

In `manual`, `EventQueueCapacity` binds; with the task it never does: the theorem
`TaskInvariant` shows the manager's own queue empty between handlers.

Deadlock is checked in every run of the manager. It is off in `threads` and `portal`,
where everything ends after the last permitted start, and in `requests` and
`page_answer`, whose behaviours end with their request.

### Fairness

`CodeFairness` gives weak fairness to the task's steps (the task is ready or waits
with a timeout), to the event loop's handler, to the end of `Stop`'s wait and to the
creation of the task: the FreeRTOS scheduler runs each thread that can run, and all
waits are bounded. Nothing obliges the application, a user or the network to
act. `FairSpec` (in `calls` and `connect_timeout`) assumes no more. `AnsweredSpec` adds that the driver answers an attempt, which ESP-IDF does for
an access point that is absent or refuses; `ConnectingSettles` needs it, in `undisturbed`,
and `connect_timeout` shows what is lost without it. `WifiManagerTaskThreads` and `CaptivePortal` are
fair, in the same sense, to each thread: to the calls once begun, the tasks, the
sink's send and the handler of a request. Only weak fairness is used.

## 4. What is proved

Every invariant and every action property that a passing run checks is also a
theorem, and so is the refinement. All hold for every value of the constants that the
named assumptions allow (capacities, sessions and tick positive, attempts in a byte,
natural delays, polls and sizes, the empty string no network name, "nothing stored" no
name and no password, "no socket" no descriptor, DNS queries of 12 to 512 bytes).
Unless the table says otherwise they hold for every set of failing calls and every
set of inputs.

| Theorem | States | Only while |
|---|---|---|
| `SMTypeCorrect`, `BackoffCorrect`, `ExponentialCorrect`, `LateFailuresCorrect` | the state machine: `SMTypeOK`, `BackoffNeverShrinks`, `BackoffIsExponential`, `LateFailuresStayInPortal` | |
| `TaskInvariant`, `TypeCorrect`, `RetryTimerCorrect`, `AttemptsCorrect`, `ShadowStateCorrect`, `RestingCorrect` | the safety of the manager and its task | |
| `StoppedCorrect`, `PortalErrorsCorrect` | `StoppedIsQuiet`, `PortalOutlivesOnlyErrors` | |
| `PasswordCorrect` | `PasswordFollowsName` | |
| `StoredCorrect` | `StoredAreActive` | flash takes what is written |
| `LifecycleCorrect` | `Spec => ImplementsLifecycle` | |
| `PortalFollowsCorrect`, `WatchedCorrect` | `PortalFollowsState`, `ConnectingIsWatched` | `Obeys` |
| `SoftApCorrect` | `PortalHasSoftAp` | `Obeys`; tasks are created; no `Stop` |
| `ConnectedCorrect`, `LeftAsDrawnCorrect` | `ConnectedHasLink`, `PortalLeftAsDrawn` | `Obeys`, `Undisturbed` |
| `RingCorrect`, `ManualTypeCorrect`, `ManualRestingCorrect`, `WaitCorrect` | `RingHoldsQueue`, `ManualTypeOK`, `ManualRestingStays`, `WaitIsAccounted` | |
| `ThreadInvariant`, `ThreadTypeCorrect`, `ExternalQueueCorrect`, `TaskQueueCorrect`, `HaltsAloneCorrect` | the thread model | |
| `PortalTypeCorrect`, `PortalIsWholeCorrect`, `OthersCorrect` | `PortalTypeOK`, `PortalIsWhole`, `OthersStayOpen` | |
| `EscapeFits`, `DecodeFits`, `DecodeUndoesEncode` | the escaping of a name and the decoding of a value, for every text and size | |
| `EventCorrect`, `PostedCorrect`, `ScanCorrect`, `DnsCorrect` | `EventIsUsable`, `PostedIsReceived`, `ScanAnswerFits`, `DnsAnswerFits` | |

The hypotheses of the third column are assumptions of the theorem, and each is met
by a run. `Obeys` says that no call of the driver, of the network interface or of the
two servers reports an error of its own; initialisation, flash and, for the first two
theorems, the creation of a task may still fail, and the driver may still say that it
is not connected, or refuse or ignore a connect during another. `Undisturbed` adds
that tasks are created, that nobody calls `Stop` or `ForceProvisioning`, and that no
form is posted twice; power may be lost and the network may do what it likes. Section 3
names, for each property, something that breaks it without its hypothesis. `Obeys` is
not minimal: not every call it names has to succeed for each of the five properties.

**The manager's inductive invariant** is

    TaskInv == TypeOK /\ ManagerInv /\ PhaseInv /\ queue \in Queues
               /\ current.type # kRetryTimerElapsed

None of the properties is inductive alone.

- `RetryTimerInv` needs `RestInv` (part of `ManagerInv`): a forced start leaves the
  timer alone, and only because a manager at rest is never in `kWaitingToRetry` is
  the timer known to be off.
- `AttemptsLeft` needs `ShadowState`, since a retry takes the attempts from the state
  machine and the state from the manager, and it needs to know that an elapsed
  timer comes only from `AdvanceRetryTimer`, where the timer was armed: hence
  `Queues` and the conjunct on `current`.
- `PhaseInv` ties the manager's `running_` to the task's and to where the
  application is, so that `Start` and `Init` find a manager at rest.

**The argument** goes upwards. `WifiManager_proofs` shows first that each driver call
and each adapter operation yields outcomes of the right type, whatever fails; then
that `SetState` yields a face that is in the new state or in `kError`
(`SetStateType`), and from this that each operation keeps `ManagerInv`.
`WifiManagerTask_proofs` adds the queue and the phases, one lemma per action, combined
in `NextStep`.

**A stop.** `Stop` skips `esp_wifi_stop` when `wifiStarted_` is false, so that the driver is
off in `kStopped` needs `QuietInv`: `wifiStarted_` is never raised over a driver that is
off, and while the manager runs the two agree and the state is not `kStopped`. At rest
they need not agree: after a `Deinit` that failed, a new adapter takes a running driver
for one that is off, until the first start.

**Flash.** `NextFlash` sorts the steps: each leaves flash and the manager's copy alone,
saves, loads, forgets the copy, or loses the power. `PasswordFollowsName` then follows
from what a save cut short can leave, `StoredAreActive` from what a whole one does.

**While the calls succeed**, `WifiManagerCalm_proofs` adds three invariants, each on top
of the one before.

- `CalmInv` is `TaskInv` and `QuietInv` with `BaseInv` (both servers run in `kPortal` and
  nowhere else, the adapter and the driver agree on what has started, no link at
  rest) and `RadioInv`. The last is what `ConnectingIsWatched` needs: a connect over a
  link that is up is ignored, so it has to be known that a link that is up is one the
  manager knows of or will be told of (`UpKnown`), which turns on the order of what the
  driver has posted, what is queued and what the task has in hand. Here it shows that
  the suppression flag only ever swallows a disconnection that was asked for.
- `SoftApInv`: while the manager runs, the SoftAP interface exists exactly in the mode
  that has one.
- `FlowInv` puts these three places into one sequence, the `Pipe`, oldest event first.
  With nobody to interrupt, a connection tells of itself in order, so each state and
  each state of the link allows few pipes (`FlowOf`): in `kPortal` none, or new
  credentials; in `kConnected` none, or the loss. `PortalLeftAsDrawn` and
  `ConnectedHasLink` can be read off it.

**The refinement** is proved step by step from `RefinementInv`: `TaskInv` with three
links (the external queue is attached exactly while the manager runs, no task exists
while one is being created, and a connected state machine counts no failure). Every
action of `WifiManagerTask` is one of the life cycle's, or none.

**Threads.** `ThreadInv` has three parts. While no call overlaps another, whoever is
about to delete a queue has had the manager forget it (`PointerInv`). While no `Start`
has overtaken a task, there is one task at most, that of the last session, whose
handle is stored or about to be (`TasksInv`), and the flag is up only over a queue that
exists and is the one the task waits on (`FlagInv`).

**Without the task.** `Holds(r, q)` relates a ring to a sequence: the indices agree and slot
`(head + i - 1) % capacity` holds `q[i]`. `PushHolds`, `PopHolds` and `ClearHolds` prove
the three operations against it for every capacity; every operation of the manager is
made of those. `ManualRestingCorrect` needs no invariant: every branch of the handlers
that reaches `SetState` asks for `running_`. For `WaitIsAccounted` the equivalence of
`RetryTimerInv` is too strong, as a timer elapses before its event is dispatched:
`WaitInv` keeps one direction of it, and adds that only a manager that runs waits.

**Portal.** `SocketInv` says, for every place of the manager's task, what the DNS server
is then: clear, opened, serving or ending (`DnsClear`, `DnsOpened`, `DnsServes`,
`DnsEnds`), each of which fixes its flag, its handle, where its task is and whose the
descriptor in `socket_` is. It holds until a `Stop` gives up; the type and `StartsInv`
hold after that, too.

**Requests.** `PostedIsReceived` is three facts. A flattened sequence has its parts where
the sum of the earlier lengths says (`FlattenPlaces`), so the form has its two fields
where `FindFormField` looks, and no `=` or `&` inside a value. `UrlDecode` undoes the
encoding, by going back from the end of the text. And the buffers cut both alike. For
the list and the DNS answer, `ScanInv` and `DnsInv` bound the position before each turn.

**Induction.** The provers cannot take a theorem about an operator, so an induction is
one over a set of numbers, from the least element of every set of naturals
(`LeastNatural`, `LeastOf`): the least turn of the loop at which the claim fails. The
same argument shows that each of the recursive functions exists.

**Only model-checked.** Liveness: `WaitingEnds`, `ConnectingSettles`, `StopReturns` and
`StopPortalReturns`. The proof system handles neither `ENABLED` nor fairness here.

## 5. What is not modelled

- Two handlers of the manager at once: `ForceProvisioning` on the application's thread
  inside a transition of the task, and the moment between `esp_wifi_disconnect` and
  the suppression flag (`WifiManagerEspIdfAdapter.cpp:139`). Splitting them means
  splitting `SetState` over the whole adapter, with a data race on every field it
  touches; the outcome is undefined and no document says what it should be.
- A send to a queue that was deleted after the sink read the pointer
  (`WifiManager.cpp:46`), and the callback's calls other than `Stop`.
- A form posted to a manager without a task: `httpd_stop` on the server's own thread.
- `WifiCredentialStore::Clear`, which nothing calls; `HandleGetRoot` and
  `HandleGetGenerate204`, which send a constant.
- The page's layout and its rendering of the list of networks; the example's loop,
  which only reads; the unit tests.

## 6. Plan

The plan of the first version of this project is carried out, except its split of the
manager's handlers between threads (section 5). What would come next, in this order:

1. `ConnectingIsWatched` under weaker hypotheses: which single failing call breaks it is
   known (`esp_wifi_disconnect` in a `Stop`), and the others may be allowed to fail.
2. `LateFailuresStayInPortal` and the backoff stated of the manager that owns the state
   machine, through the refinement.
3. A property of the name that `Load` leaves in `activeCredentials_` when its password
   cannot be read (`WifiCredentialStore.cpp:36`), over a start that is forced.
4. A model of two overlapping handlers, once the code says what protects them.

## 7. Running

    tlc -config MCCalls.cfg WifiManagerTask
    tlc -config MCThreads.cfg WifiManagerTaskThreads
    tlapm WifiLifecycle_proofs.tla

Each configuration is for the module its `SPECIFICATION` is defined in; `PROJECT.json`
lists the pairs.

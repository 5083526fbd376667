---------------------- MODULE WifiManagerEspIdfAdapter ----------------------
(***************************************************************************)
(* WifiManagerEspIdfAdapter.cpp: makes the driver follow the connection    *)
(* state.  Every operation returns the set of its outcomes: a result, and  *)
(* the adapter and the driver it leaves.                                   *)
(***************************************************************************)
EXTENDS EspIdf, WifiManagerTypes

\* apNetif: apNetif_ is not null (the adapter owns whatever it created).
\* suppress: suppressDisconnectEvent_.
Adapter == [initialized : BOOLEAN,
            started     : BOOLEAN,
            wifiStarted : BOOLEAN,
            apNetif     : BOOLEAN,
            suppress    : BOOLEAN]

FreshAdapter == [initialized |-> FALSE, started |-> FALSE, wifiStarted |-> FALSE,
                 apNetif |-> FALSE, suppress |-> FALSE]

Outcomes == [result : Results, ad : Adapter, drv : Driver]

Outcome(result, ad, drv) == [result |-> result, ad |-> ad, drv |-> drv]

\* The outcomes of a driver call that leaves the adapter alone.
Calls(ad, replies) == {Outcome(r.result, ad, r.drv) : r \in replies}

\* Goes on with Next where the outcome is ESP_OK, and returns it otherwise.
Then(outcomes, Next(_, _)) ==
    UNION {IF o.result = ESP_OK THEN Next(o.ad, o.drv) ELSE {o} : o \in outcomes}

------------------------------------------------------------------------------
StartWifi(ad, drv) ==
    Then(Calls(ad, esp_wifi_start(drv)),
         LAMBDA a, d : {Outcome(ESP_OK, [a EXCEPT !.wifiStarted = TRUE], d)})

StopWifi(ad, drv) ==
    Then(Calls(ad, esp_wifi_stop(drv)),
         LAMBDA a, d : {Outcome(ESP_OK, [a EXCEPT !.wifiStarted = FALSE], d)})

EnsureWifiStarted(ad, drv) ==
    Then(Calls(ad, esp_wifi_set_mode(drv, "STA")),
         LAMBDA a, d : IF a.wifiStarted THEN {Outcome(ESP_OK, a, d)}
                                        ELSE StartWifi(a, d))

\* The interface object is created between two driver calls, so a failure of the
\* second leaves it behind.
CreateSoftAp(ad, drv) ==
    Calls([ad EXCEPT !.apNetif = TRUE], Replies("esp_wifi_set_config", drv, drv))
    \cup (IF MayFail("esp_netif_create") THEN {Outcome(ESP_FAIL, ad, drv)} ELSE {})

\* Mutant: the mode is left as it is.
StartSoftApWithoutMode(ad, drv) ==
    IF ad.apNetif THEN {Outcome(ESP_OK, ad, drv)} ELSE CreateSoftAp(ad, drv)

StartSoftAp(ad, drv) ==
    IF ad.apNetif THEN {Outcome(ESP_OK, ad, drv)}
    ELSE Then(Calls(ad, esp_wifi_set_mode(drv, "APSTA")), CreateSoftAp)

StopSoftAp(ad, drv) ==
    IF ~ad.apNetif THEN {Outcome(ESP_OK, ad, drv)}
    ELSE Then(Calls(ad, esp_wifi_set_mode(drv, "STA")),
              LAMBDA a, d : {Outcome(ESP_OK, [a EXCEPT !.apNetif = FALSE], d)})

Configure(ad, drv) ==
    Then(Calls(ad, esp_wifi_set_sta_config(drv)),
         LAMBDA a, d : Calls(a, esp_wifi_connect(d)))

ConnectStation(ad, drv, credentials) ==
    IF ~HasSsid(credentials) THEN {Outcome(ESP_FAIL, ad, drv)}
    ELSE Then(EnsureWifiStarted(ad, drv), Configure)

\* Leaving the network on purpose: the disconnection is to be suppressed if the
\* driver accepted the call.  The flag is written after the call returned.
LeaveNetwork(ad, drv) ==
    {Outcome(IF r.result = ESP_FAIL THEN ESP_FAIL ELSE ESP_OK,
             [ad EXCEPT !.suppress = (r.result = ESP_OK)],
             r.drv) : r \in esp_wifi_disconnect(drv)}

------------------------------------------------------------------------------
AdapterStart(ad, drv) ==
    IF ~ad.initialized THEN {Outcome(ESP_FAIL, ad, drv)}
    ELSE EnsureWifiStarted([initialized |-> TRUE,
                            started     |-> TRUE,
                            wifiStarted |-> ad.wifiStarted,
                            apNetif     |-> ad.apNetif,
                            suppress    |-> FALSE], drv)

ApplyConnecting(ad, drv, credentials) ==
    Then(StopSoftAp(ad, drv), LAMBDA a, d : ConnectStation(a, d, credentials))

ApplyPortal(ad, drv) ==
    Then(IF ad.wifiStarted THEN LeaveNetwork(ad, drv) ELSE EnsureWifiStarted(ad, drv),
         StartSoftAp)

\* The manager never gets here: it stops the adapter instead.
ApplyStopped(ad, drv) ==
    Then(StopSoftAp(ad, drv),
         LAMBDA a, d : IF ~a.wifiStarted THEN {Outcome(ESP_OK, a, d)}
                       ELSE Then(LeaveNetwork(a, d), StopWifi))

ApplyState(ad, drv, state, credentials) ==
    IF ~ad.initialized \/ ~ad.started THEN {Outcome(ESP_OK, ad, drv)}
    ELSE CASE state = kConnecting -> ApplyConnecting(ad, drv, credentials)
           [] state = kPortal     -> ApplyPortal(ad, drv)
           [] state = kStopped    -> ApplyStopped(ad, drv)
           [] OTHER               -> {Outcome(ESP_OK, ad, drv)}

\* Mutant: the result of esp_wifi_stop is ignored.
AdapterStopIgnoresResult(ad, drv) ==
    LET a == [ad EXCEPT !.started = FALSE] IN
    IF ~a.wifiStarted THEN {Outcome(ESP_OK, a, drv)}
    ELSE UNION {{Outcome(ESP_OK, [a EXCEPT !.wifiStarted = FALSE], s.drv)
                 : s \in esp_wifi_stop(r.drv)} : r \in esp_wifi_disconnect(drv)}

\* The flag is raised before the call, and lowered only if there was no link.
AdapterStop(ad, drv) ==
    LET a == [ad EXCEPT !.started = FALSE] IN
    IF ~a.wifiStarted THEN {Outcome(ESP_OK, a, drv)}
    ELSE UNION {
        LET b == [a EXCEPT !.suppress = (r.result # ESP_ERR_WIFI_NOT_CONNECT)] IN
        IF r.result = ESP_FAIL THEN {Outcome(ESP_FAIL, b, r.drv)}
        ELSE StopWifi(b, r.drv)
        : r \in esp_wifi_disconnect(drv)}

\* A second Init only replaces the configuration.  A first one that fails undoes
\* what it did; nothing is started at that point.
AdapterInit(ad, drv) ==
    IF ad.initialized THEN {Outcome(ESP_OK, ad, drv)}
    ELSE {Outcome(ESP_OK, [ad EXCEPT !.initialized = TRUE], drv)}
         \cup (IF MayFail("esp_wifi_init") THEN {Outcome(ESP_FAIL, ad, drv)} ELSE {})

\* Deinit, with which the object ends.  A driver that would not stop is left as it
\* is, with the two objects that belong to it.
AdapterDeinit(ad, drv) ==
    {IF o.result = ESP_OK
     THEN Outcome(ESP_OK, FreshAdapter,
                  [started |-> FALSE, mode |-> "STA", link |-> "down",
                   events |-> o.drv.events])
     ELSE Outcome(o.result,
                  [FreshAdapter EXCEPT !.wifiStarted = o.ad.wifiStarted,
                                       !.apNetif = o.ad.apNetif], o.drv)
     : o \in AdapterStop(ad, drv)}

------------------------------------------------------------------------------
\* Mutant: the reason of the disconnection is not looked at.
EmitsNoDisconnection(ad, event) ==
    ad.initialized /\ ~(event \in {"leave", "fail"} /\ ad.suppress)

\* EventHandler: whether the manager is told of a driver event, and the event.  It
\* is registered from Init to Deinit.
Emits(ad, event) == ad.initialized /\ ~(event = "leave" /\ ad.suppress)

EmittedEvent(event) ==
    PlainEvent(IF event = "gotip" THEN kConnectionSucceeded ELSE kConnectionFailed)

\* Any disconnection lowers the flag.
AfterEvent(ad, event) ==
    IF event = "gotip" \/ ~ad.initialized THEN ad ELSE [ad EXCEPT !.suppress = FALSE]
==============================================================================

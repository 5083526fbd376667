------------------------ MODULE WifiManagerCalm_proofs ------------------------
(***************************************************************************)
(* What the manager promises while the driver's and the portal's calls     *)
(* succeed: the two servers run exactly in kPortal, a manager that is      *)
(* connecting is watched by an attempt or by its outcome, and, if nobody   *)
(* stops it, the portal can be reached; if nobody disturbs it at all, it   *)
(* is connected only with a link, and leaves the portal only as it should. *)
(* For every configuration, queue length and set of inputs, with failing   *)
(* flash, tasks and Wi-Fi initialisation.                                  *)
(***************************************************************************)
EXTENDS WifiManagerTask_proofs, SequenceTheorems

USE DEF kInit, kConnecting, kWaitingToRetry, kConnected, kPortal, kStopped, kError

\* The calls by which the adapter drives the radio and the manager its portal.
DriverCalls == {"esp_wifi_start", "esp_wifi_stop", "esp_wifi_set_mode",
                "esp_wifi_set_config", "esp_wifi_connect", "esp_wifi_disconnect",
                "esp_netif_create", "httpd_start", "httpd_stop", "dns_start"}

\* None of them reports an error of its own.  The driver may still say that it is not
\* connected, or refuse what it is asked for during an association.
Obeys == \A call \in DriverCalls : ~MayFail(call)

------------------------------------------------------------------------------
\* The driver's calls.

\* Two drivers with the same link and the same events; and all but those two.
SameLink(d, e) == e.link = d.link /\ e.events = d.events
SameRadio(d, e) == e.started = d.started /\ e.mode = d.mode

LEMMA ObeyingReplies ==
    ASSUME Obeys, NEW call \in DriverCalls, NEW d, NEW e, NEW r \in Replies(call, d, e)
    PROVE  r.result = ESP_OK /\ r.drv = e
BY DEF Obeys, Replies

LEMMA SetModeCalm ==
    ASSUME Obeys, NEW d \in Driver, NEW mode, NEW r \in esp_wifi_set_mode(d, mode)
    PROVE  /\ r.result = ESP_OK
           /\ SameLink(d, r.drv)
           /\ r.drv.started = d.started
           /\ r.drv.mode = mode
<1>1. r.result = ESP_OK /\ r.drv = [d EXCEPT !.mode = mode]
  BY ObeyingReplies DEF esp_wifi_set_mode, DriverCalls
<1>2. /\ [d EXCEPT !.mode = mode].link = d.link
      /\ [d EXCEPT !.mode = mode].events = d.events
      /\ [d EXCEPT !.mode = mode].started = d.started
      /\ [d EXCEPT !.mode = mode].mode = mode
  BY DEF Driver
<1> QED
  BY <1>1, <1>2 DEF SameLink

LEMMA StartCalm ==
    ASSUME Obeys, NEW d \in Driver, NEW r \in esp_wifi_start(d)
    PROVE  /\ r.result = ESP_OK
           /\ SameLink(d, r.drv)
           /\ r.drv.started
           /\ r.drv.mode = d.mode
<1>1. r.result = ESP_OK /\ r.drv = [d EXCEPT !.started = TRUE]
  BY ObeyingReplies DEF esp_wifi_start, DriverCalls
<1>2. /\ [d EXCEPT !.started = TRUE].link = d.link
      /\ [d EXCEPT !.started = TRUE].events = d.events
      /\ [d EXCEPT !.started = TRUE].started = TRUE
      /\ [d EXCEPT !.started = TRUE].mode = d.mode
  BY DEF Driver
<1> QED
  BY <1>1, <1>2 DEF SameLink

LEMMA StopCalm ==
    ASSUME Obeys, NEW d \in Driver, NEW r \in esp_wifi_stop(d)
    PROVE  r.result = ESP_OK /\ r.drv.link = "down" /\ r.drv.events = d.events
BY ObeyingReplies DEF esp_wifi_stop, DriverCalls

\* A disconnection ends the link and may announce itself.
LEMMA DisconnectCalm ==
    ASSUME Obeys, NEW d \in Driver, NEW r \in esp_wifi_disconnect(d)
    PROVE  /\ r.result # ESP_FAIL
           /\ r.drv.link = "down"
           /\ SameRadio(d, r.drv)
           /\ d.link = "down" => r.drv.events = d.events
<1>1. CASE d.link # "down"
  <2>1. r.result = ESP_OK /\ r.drv = Posted(d, "down", "leave")
    BY <1>1, ObeyingReplies DEF esp_wifi_disconnect, DriverCalls
  <2> QED
    BY <1>1, <2>1 DEF Posted, SameRadio, ESP_OK, ESP_FAIL
<1>2. CASE d.link = "down"
  <2>1. r.drv = d /\ r.result \in {ESP_OK, ESP_ERR_WIFI_NOT_CONNECT}
    BY <1>2, ObeyingReplies DEF esp_wifi_disconnect, DriverCalls
  <2> QED
    BY <1>2, <2>1 DEF SameRadio, ESP_OK, ESP_FAIL, ESP_ERR_WIFI_NOT_CONNECT
<1> QED
  BY <1>1, <1>2

LEMMA ConfigCalm ==
    ASSUME Obeys, NEW d \in Driver, NEW r \in esp_wifi_set_sta_config(d)
    PROVE  /\ r.drv = d
           /\ d.link # "connecting" => r.result = ESP_OK
BY ObeyingReplies DEF esp_wifi_set_sta_config, DriverCalls

LEMMA ConnectCalm ==
    ASSUME Obeys, NEW d \in Driver, NEW r \in esp_wifi_connect(d)
    PROVE  /\ r.drv.events = d.events
           /\ SameRadio(d, r.drv)
           /\ IF d.link = "down" THEN r.result = ESP_OK /\ r.drv.link = "connecting"
              ELSE r.drv.link = d.link
<1>1. CASE d.link = "down"
  <2>1. r.result = ESP_OK /\ r.drv = [d EXCEPT !.link = "connecting"]
    BY <1>1, ObeyingReplies DEF esp_wifi_connect, DriverCalls
  <2>2. /\ [d EXCEPT !.link = "connecting"].link = "connecting"
        /\ [d EXCEPT !.link = "connecting"].events = d.events
        /\ [d EXCEPT !.link = "connecting"].started = d.started
        /\ [d EXCEPT !.link = "connecting"].mode = d.mode
    BY DEF Driver
  <2> QED
    BY <1>1, <2>1, <2>2 DEF SameRadio
<1>2. CASE d.link # "down"
  <2>1. r.drv = d
    BY <1>2 DEF esp_wifi_connect
  <2> QED
    BY <1>2, <2>1 DEF SameRadio
<1> QED
  BY <1>1, <1>2

------------------------------------------------------------------------------
\* The adapter's operations.

\* An adapter that has been started, and its driver with it.
Alive(a, d) == a.initialized /\ a.started /\ a.wifiStarted /\ d.started

\* The interface of the SoftAP is there exactly when its mode is.
SoftApAgrees(a, d) == a.apNetif <=> d.mode = "APSTA"

\* Two adapters with the same life.
SameLife(a, b) == b.initialized = a.initialized /\ b.started = a.started

LEMMA EnsureCalm ==
    ASSUME Obeys, NEW a \in Adapter, NEW d \in Driver, NEW o \in EnsureWifiStarted(a, d)
    PROVE  /\ o.result = ESP_OK
           /\ SameLife(a, o.ad)
           /\ o.ad.apNetif = a.apNetif
           /\ o.ad.wifiStarted
           /\ SameLink(d, o.drv)
           /\ o.drv.mode = "STA"
           /\ Follows(a, d) => o.drv.started
<1>1. PICK p \in Calls(a, esp_wifi_set_mode(d, "STA")) :
         o \in IF p.result = ESP_OK
               THEN IF p.ad.wifiStarted THEN {Outcome(ESP_OK, p.ad, p.drv)}
                                        ELSE StartWifi(p.ad, p.drv)
               ELSE {p}
  BY DEF EnsureWifiStarted, Then
<1>2. /\ p.result = ESP_OK /\ p.ad = a /\ p.drv \in Driver
      /\ SameLink(d, p.drv) /\ p.drv.started = d.started /\ p.drv.mode = "STA"
  <2>1. PICK r \in esp_wifi_set_mode(d, "STA") : p = Outcome(r.result, a, r.drv)
    BY DEF Calls
  <2> QED
    BY <2>1, OutcomeFields, SetModeCalm, SetModeType DEF DriverReplies
<1>3. CASE a.wifiStarted
  <2>1. o.result = ESP_OK /\ o.ad = a /\ o.drv = p.drv
    BY <1>1, <1>2, <1>3, OutcomeFields
  <2> QED
    BY <1>2, <1>3, <2>1 DEF SameLife, Follows
<1>4. CASE ~a.wifiStarted
  <2> DEFINE On(q) == Outcome(ESP_OK, [q.ad EXCEPT !.wifiStarted = TRUE], q.drv)
  <2>1. PICK q \in Calls(a, esp_wifi_start(p.drv)) :
           o \in IF q.result = ESP_OK THEN {On(q)} ELSE {q}
    BY <1>1, <1>2, <1>4 DEF StartWifi, Then
  <2>2. PICK r \in esp_wifi_start(p.drv) : q = Outcome(r.result, a, r.drv)
    BY <2>1 DEF Calls
  <2>3. /\ q.result = ESP_OK /\ q.ad = a
        /\ SameLink(p.drv, q.drv) /\ q.drv.started /\ q.drv.mode = "STA"
    BY <1>2, <2>2, OutcomeFields, StartCalm
  <2>4. o.result = ESP_OK /\ o.ad = [a EXCEPT !.wifiStarted = TRUE] /\ o.drv = q.drv
    BY <2>1, <2>3, OutcomeFields
  <2>5. /\ [a EXCEPT !.wifiStarted = TRUE].initialized = a.initialized
        /\ [a EXCEPT !.wifiStarted = TRUE].started = a.started
        /\ [a EXCEPT !.wifiStarted = TRUE].apNetif = a.apNetif
        /\ [a EXCEPT !.wifiStarted = TRUE].wifiStarted = TRUE
    BY DEF Adapter
  <2> QED
    BY <1>2, <2>3, <2>4, <2>5 DEF SameLife, SameLink
<1> QED
  BY <1>3, <1>4

LEMMA StopSoftApCalm ==
    ASSUME Obeys, NEW a \in Adapter, NEW d \in Driver, NEW o \in StopSoftAp(a, d)
    PROVE  /\ o.result = ESP_OK
           /\ SameLife(a, o.ad) /\ o.ad.wifiStarted = a.wifiStarted
           /\ ~o.ad.apNetif
           /\ SameLink(d, o.drv) /\ o.drv.started = d.started
           /\ SoftApAgrees(a, d) => SoftApAgrees(o.ad, o.drv)
<1>1. CASE ~a.apNetif
  <2>0. StopSoftAp(a, d) = {Outcome(ESP_OK, a, d)}
    BY <1>1, Zenon DEF StopSoftAp
  <2>1. o.result = ESP_OK /\ o.ad = a /\ o.drv = d
    BY <2>0, OutcomeFields
  <2> QED
    BY <1>1, <2>1 DEF SameLife, SameLink
<1>2. CASE a.apNetif
  <2> DEFINE Off(p) == Outcome(ESP_OK, [p.ad EXCEPT !.apNetif = FALSE], p.drv)
  <2>1. PICK p \in Calls(a, esp_wifi_set_mode(d, "STA")) :
           o \in IF p.result = ESP_OK THEN {Off(p)} ELSE {p}
    BY <1>2 DEF StopSoftAp, Then
  <2>2. PICK r \in esp_wifi_set_mode(d, "STA") : p = Outcome(r.result, a, r.drv)
    BY <2>1 DEF Calls
  <2>3. /\ p.result = ESP_OK /\ p.ad = a
        /\ SameLink(d, p.drv) /\ p.drv.started = d.started /\ p.drv.mode = "STA"
    BY <2>2, OutcomeFields, SetModeCalm
  <2>4. o.result = ESP_OK /\ o.ad = [a EXCEPT !.apNetif = FALSE] /\ o.drv = p.drv
    BY <2>1, <2>3, OutcomeFields
  <2>5. /\ [a EXCEPT !.apNetif = FALSE].initialized = a.initialized
        /\ [a EXCEPT !.apNetif = FALSE].started = a.started
        /\ [a EXCEPT !.apNetif = FALSE].wifiStarted = a.wifiStarted
        /\ [a EXCEPT !.apNetif = FALSE].apNetif = FALSE
    BY DEF Adapter
  <2> QED
    BY <2>3, <2>4, <2>5 DEF SameLife, SoftApAgrees
<1> QED
  BY <1>1, <1>2

LEMMA StartSoftApCalm ==
    ASSUME Obeys, NEW a \in Adapter, NEW d \in Driver, NEW o \in StartSoftAp(a, d)
    PROVE  /\ o.result = ESP_OK
           /\ SameLife(a, o.ad) /\ o.ad.wifiStarted = a.wifiStarted
           /\ o.ad.apNetif
           /\ SameLink(d, o.drv) /\ o.drv.started = d.started
           /\ SoftApAgrees(a, d) => SoftApAgrees(o.ad, o.drv)
<1>1. CASE a.apNetif
  <2>1. o.result = ESP_OK /\ o.ad = a /\ o.drv = d
    BY <1>1, OutcomeFields DEF StartSoftAp
  <2> QED
    BY <1>1, <2>1 DEF SameLife, SameLink
<1>2. CASE ~a.apNetif
  <2>1. PICK p \in Calls(a, esp_wifi_set_mode(d, "APSTA")) :
           o \in IF p.result = ESP_OK THEN CreateSoftAp(p.ad, p.drv) ELSE {p}
    BY <1>2 DEF StartSoftAp, Then
  <2>2. PICK r \in esp_wifi_set_mode(d, "APSTA") : p = Outcome(r.result, a, r.drv)
    BY <2>1 DEF Calls
  <2>3. /\ p.result = ESP_OK /\ p.ad = a
        /\ SameLink(d, p.drv) /\ p.drv.started = d.started /\ p.drv.mode = "APSTA"
    BY <2>2, OutcomeFields, SetModeCalm
  <2> DEFINE with == [a EXCEPT !.apNetif = TRUE]
  <2>4. o \in Calls(with, Replies("esp_wifi_set_config", p.drv, p.drv))
    BY <2>1, <2>3 DEF CreateSoftAp, Obeys, DriverCalls
  <2>5. /\ with.initialized = a.initialized
        /\ with.started = a.started
        /\ with.wifiStarted = a.wifiStarted
        /\ with.apNetif = TRUE
    BY DEF Adapter
  <2> HIDE DEF with
  <2>6. PICK q \in Replies("esp_wifi_set_config", p.drv, p.drv) :
           o = Outcome(q.result, with, q.drv)
    BY <2>4 DEF Calls
  <2>7. o.result = ESP_OK /\ o.ad = with /\ o.drv = p.drv
    BY <2>6, OutcomeFields, ObeyingReplies DEF DriverCalls
  <2> QED
    BY <2>3, <2>5, <2>7 DEF SameLife, SoftApAgrees
<1> QED
  BY <1>1, <1>2

LEMMA LeaveCalm ==
    ASSUME Obeys, NEW a \in Adapter, NEW d \in Driver, NEW o \in LeaveNetwork(a, d)
    PROVE  /\ o.result = ESP_OK
           /\ SameLife(a, o.ad)
           /\ o.ad.wifiStarted = a.wifiStarted /\ o.ad.apNetif = a.apNetif
           /\ o.drv.link = "down" /\ SameRadio(d, o.drv)
           /\ d.link = "down" => o.drv.events = d.events
<1>1. PICK r \in esp_wifi_disconnect(d) :
         o = Outcome(IF r.result = ESP_FAIL THEN ESP_FAIL ELSE ESP_OK,
                     [a EXCEPT !.suppress = (r.result = ESP_OK)], r.drv)
  BY DEF LeaveNetwork
<1> DEFINE flagged == [a EXCEPT !.suppress = (r.result = ESP_OK)]
<1>2. /\ flagged.initialized = a.initialized /\ flagged.started = a.started
      /\ flagged.wifiStarted = a.wifiStarted /\ flagged.apNetif = a.apNetif
  BY DEF Adapter
<1>3. o.ad = flagged /\ o.drv = r.drv /\ o.result = ESP_OK
  BY <1>1, OutcomeFields, DisconnectCalm
<1> QED
  BY <1>2, <1>3, DisconnectCalm DEF SameLife

LEMMA ConfigureCalm ==
    ASSUME Obeys, NEW a \in Adapter, NEW d \in Driver, NEW o \in Configure(a, d)
    PROVE  /\ o.ad = a
           /\ o.drv.events = d.events /\ SameRadio(d, o.drv)
           /\ IF d.link = "down" THEN o.result = ESP_OK /\ o.drv.link = "connecting"
              ELSE o.drv.link = d.link
<1>1. PICK p \in Calls(a, esp_wifi_set_sta_config(d)) :
         o \in IF p.result = ESP_OK THEN Calls(p.ad, esp_wifi_connect(p.drv)) ELSE {p}
  BY DEF Configure, Then
<1>2. PICK r \in esp_wifi_set_sta_config(d) : p = Outcome(r.result, a, r.drv)
  BY DEF Calls
<1>3. p.ad = a /\ p.drv = d /\ (d.link # "connecting" => p.result = ESP_OK)
  BY <1>2, OutcomeFields, ConfigCalm
<1>4. CASE p.result = ESP_OK
  <2>1. PICK c \in esp_wifi_connect(d) : o = Outcome(c.result, a, c.drv)
    BY <1>1, <1>3, <1>4 DEF Calls
  <2> QED
    BY <2>1, OutcomeFields, ConnectCalm
<1>5. CASE p.result # ESP_OK
  BY <1>1, <1>3, <1>5 DEF SameRadio
<1> QED
  BY <1>4, <1>5

------------------------------------------------------------------------------
\* WifiManagerEspIdfAdapter.cpp:117-184, state by state.

LEMMA ConnectingCalm ==
    ASSUME Obeys, NEW a \in Adapter, NEW d \in Driver, Alive(a, d), NEW c,
           NEW o \in ApplyConnecting(a, d, c)
    PROVE  /\ Alive(o.ad, o.drv)
           /\ o.drv.events = d.events
           /\ SoftApAgrees(a, d) => SoftApAgrees(o.ad, o.drv)
           /\ o.result = ESP_OK => o.drv.link # "down"
           /\ HasSsid(c) /\ d.link = "down" => o.result = ESP_OK
           /\ o.drv.link = "up" => d.link = "up"
           /\ d.link = "down" =>
                 o.drv.link = IF o.result = ESP_OK THEN "connecting" ELSE "down"
<1>1. PICK p \in StopSoftAp(a, d) :
         o \in IF p.result = ESP_OK THEN ConnectStation(p.ad, p.drv, c) ELSE {p}
  BY DEF ApplyConnecting, Then
<1>2. /\ p.result = ESP_OK
      /\ SameLife(a, p.ad) /\ p.ad.wifiStarted = a.wifiStarted
      /\ ~p.ad.apNetif
      /\ SameLink(d, p.drv) /\ p.drv.started = d.started
      /\ SoftApAgrees(a, d) => SoftApAgrees(p.ad, p.drv)
      /\ p.ad \in Adapter /\ p.drv \in Driver
  BY <1>1, StopSoftApCalm, StopSoftApType DEF Outcomes
<1>3. Alive(p.ad, p.drv)
  BY <1>2 DEF Alive, SameLife
<1>4. CASE ~HasSsid(c)
  <2>1. o.result = ESP_FAIL /\ o.ad = p.ad /\ o.drv = p.drv
    BY <1>1, <1>2, <1>4, OutcomeFields DEF ConnectStation
  <2> QED
    BY <1>2, <1>3, <1>4, <2>1 DEF SameLink, ESP_OK, ESP_FAIL
<1>5. CASE HasSsid(c)
  <2>1. PICK q \in EnsureWifiStarted(p.ad, p.drv) :
           o \in IF q.result = ESP_OK THEN Configure(q.ad, q.drv) ELSE {q}
    BY <1>1, <1>2, <1>5 DEF ConnectStation, Then
  <2>2. /\ q.result = ESP_OK
        /\ SameLife(p.ad, q.ad)
        /\ q.ad.apNetif = p.ad.apNetif
        /\ q.ad.wifiStarted
        /\ SameLink(p.drv, q.drv)
        /\ q.drv.mode = "STA"
        /\ q.drv.started
        /\ q.ad \in Adapter /\ q.drv \in Driver
    BY <1>2, <1>3, <2>1, EnsureCalm, EnsureWifiStartedType DEF Outcomes, Alive, Follows
  <2>3. /\ o.ad = q.ad
        /\ o.drv.events = q.drv.events /\ SameRadio(q.drv, o.drv)
        /\ IF q.drv.link = "down" THEN o.result = ESP_OK /\ o.drv.link = "connecting"
           ELSE o.drv.link = q.drv.link
    BY <2>1, <2>2, ConfigureCalm
  <2>4. Alive(o.ad, o.drv)
    BY <1>3, <2>2, <2>3 DEF Alive, SameLife, SameRadio
  <2>5. SoftApAgrees(o.ad, o.drv)
    BY <1>2, <2>2, <2>3 DEF SoftApAgrees, SameRadio
  <2>6. q.drv.link = d.link /\ o.drv.events = d.events
    BY <1>2, <2>2, <2>3 DEF SameLink
  <2> QED
    BY <2>3, <2>4, <2>5, <2>6
<1> QED
  BY <1>4, <1>5

LEMMA PortalCalm ==
    ASSUME Obeys, NEW a \in Adapter, NEW d \in Driver, Alive(a, d),
           NEW o \in ApplyPortal(a, d)
    PROVE  /\ o.result = ESP_OK
           /\ Alive(o.ad, o.drv)
           /\ o.drv.link = "down"
           /\ SoftApAgrees(a, d) => SoftApAgrees(o.ad, o.drv)
           /\ o.ad.apNetif
           /\ d.link = "down" => o.drv.events = d.events
<1>1. PICK p \in LeaveNetwork(a, d) :
         o \in IF p.result = ESP_OK THEN StartSoftAp(p.ad, p.drv) ELSE {p}
  BY DEF ApplyPortal, Then, Alive
<1>2. /\ p.result = ESP_OK
      /\ SameLife(a, p.ad)
      /\ p.ad.wifiStarted = a.wifiStarted /\ p.ad.apNetif = a.apNetif
      /\ p.drv.link = "down" /\ SameRadio(d, p.drv)
      /\ d.link = "down" => p.drv.events = d.events
      /\ p.ad \in Adapter /\ p.drv \in Driver
  BY <1>1, LeaveCalm, LeaveNetworkType DEF Outcomes
<1>3. Alive(p.ad, p.drv)
  BY <1>2 DEF Alive, SameLife, SameRadio
<1>4. SoftApAgrees(a, d) => SoftApAgrees(p.ad, p.drv)
  BY <1>2 DEF SoftApAgrees, SameRadio
<1>5. /\ o.result = ESP_OK
      /\ SameLife(p.ad, o.ad) /\ o.ad.wifiStarted = p.ad.wifiStarted
      /\ o.ad.apNetif
      /\ SameLink(p.drv, o.drv) /\ o.drv.started = p.drv.started
      /\ SoftApAgrees(p.ad, p.drv) => SoftApAgrees(o.ad, o.drv)
  BY <1>1, <1>2, StartSoftApCalm
<1>6. Alive(o.ad, o.drv)
  BY <1>3, <1>5 DEF Alive, SameLife
<1> QED
  BY <1>2, <1>4, <1>5, <1>6 DEF SameLink

LEMMA OtherCalm ==
    ASSUME NEW a \in Adapter, NEW d \in Driver, NEW s, s \notin {kConnecting, kPortal, kStopped},
           NEW c, NEW o \in ApplyState(a, d, s, c)
    PROVE  o.result = ESP_OK /\ o.ad = a /\ o.drv = d
BY OutcomeFields DEF ApplyState

\* A start makes adapter and driver alive, whatever was known of each other before.
LEMMA AdapterStartCalm ==
    ASSUME Obeys, NEW a \in Adapter, NEW d \in Driver, Follows(a, d),
           NEW o \in AdapterStart(a, d)
    PROVE  IF a.initialized
           THEN /\ o.result = ESP_OK
                /\ Alive(o.ad, o.drv)
                /\ SameLink(d, o.drv)
                /\ o.drv.mode = "STA" /\ o.ad.apNetif = a.apNetif
           ELSE o.result # ESP_OK /\ o.ad = a /\ o.drv = d
<1> DEFINE b == [initialized |-> TRUE, started |-> TRUE, wifiStarted |-> a.wifiStarted,
                 apNetif |-> a.apNetif, suppress |-> FALSE]
<1>1. /\ b \in Adapter /\ b.wifiStarted = a.wifiStarted /\ b.apNetif = a.apNetif
      /\ b.initialized = TRUE /\ b.started = TRUE
  BY DEF Adapter
<1>2. Follows(b, d)
  BY <1>1 DEF Follows
<1> HIDE DEF b
<1>3. CASE ~a.initialized
  BY <1>3, OutcomeFields DEF AdapterStart, ESP_OK, ESP_FAIL
<1>4. CASE a.initialized
  <2>1. o \in EnsureWifiStarted(b, d)
    BY <1>4 DEF AdapterStart, b
  <2>2. /\ o.result = ESP_OK
        /\ SameLife(b, o.ad)
        /\ o.ad.apNetif = b.apNetif
        /\ o.ad.wifiStarted
        /\ SameLink(d, o.drv)
        /\ o.drv.mode = "STA"
        /\ o.drv.started
    BY <1>1, <1>2, <2>1, EnsureCalm
  <2> QED
    BY <1>1, <1>4, <2>2 DEF Alive, SameLife
<1> QED
  BY <1>3, <1>4

\* Lines 186-218: a stop leaves no link behind, if the adapter knew of its driver or
\* there was none.
LEMMA AdapterStopCalm ==
    ASSUME Obeys, NEW a \in Adapter, NEW d \in Driver, a.wifiStarted \/ d.link = "down",
           NEW o \in AdapterStop(a, d)
    PROVE  /\ o.drv.link = "down" /\ o.ad.apNetif = a.apNetif
           /\ d.link = "down" => o.drv.events = d.events
<1> DEFINE b == [a EXCEPT !.started = FALSE]
           Flagged(r) == [b EXCEPT !.suppress = (r.result # ESP_ERR_WIFI_NOT_CONNECT)]
<1>1. b \in Adapter /\ b.wifiStarted = a.wifiStarted /\ b.apNetif = a.apNetif
  BY DEF Adapter
<1>2. CASE ~b.wifiStarted /\ o = Outcome(ESP_OK, b, d)
  <2>1. o.ad = b /\ o.drv = d
    BY <1>2, OutcomeFields
  <2> HIDE DEF b
  <2> QED
    BY <1>1, <1>2, <2>1
<1>3. CASE \E r \in esp_wifi_disconnect(d) :
              o \in IF r.result = ESP_FAIL THEN {Outcome(ESP_FAIL, Flagged(r), r.drv)}
                    ELSE StopWifi(Flagged(r), r.drv)
  <2>1. PICK r \in esp_wifi_disconnect(d) :
           o \in IF r.result = ESP_FAIL THEN {Outcome(ESP_FAIL, Flagged(r), r.drv)}
                 ELSE StopWifi(Flagged(r), r.drv)
    BY <1>3
  <2>2. Flagged(r) \in Adapter /\ Flagged(r).apNetif = a.apNetif
    BY <1>1 DEF Adapter
  <2>3. /\ r.drv \in Driver /\ r.result # ESP_FAIL
        /\ d.link = "down" => r.drv.events = d.events
    BY DisconnectCalm, DisconnectType DEF DriverReplies
  <2> HIDE DEF b, Flagged
  <2> DEFINE flagged == Flagged(r)
             Off(p) == Outcome(ESP_OK, [p.ad EXCEPT !.wifiStarted = FALSE], p.drv)
  <2>4. PICK p \in Calls(flagged, esp_wifi_stop(r.drv)) :
           o \in IF p.result = ESP_OK THEN {Off(p)} ELSE {p}
    BY <2>1, <2>3 DEF StopWifi, Then
  <2> HIDE DEF flagged
  <2>5. PICK s \in esp_wifi_stop(r.drv) : p = Outcome(s.result, flagged, s.drv)
    BY <2>4 DEF Calls
  <2>6. /\ p.result = ESP_OK /\ p.ad = flagged
        /\ p.drv.link = "down" /\ p.drv.events = r.drv.events
    BY <2>3, <2>5, OutcomeFields, StopCalm
  <2>7. o.ad = [flagged EXCEPT !.wifiStarted = FALSE] /\ o.drv = p.drv
    BY <2>4, <2>6, OutcomeFields
  <2>8. [flagged EXCEPT !.wifiStarted = FALSE].apNetif = a.apNetif
    BY <2>2 DEF flagged, Adapter
  <2> QED
    BY <2>3, <2>6, <2>7, <2>8
<1> QED
  BY <1>2, <1>3 DEF AdapterStop

LEMMA AdapterDeinitCalm ==
    ASSUME Obeys, NEW a \in Adapter, NEW d \in Driver, d.link = "down",
           NEW o \in AdapterDeinit(a, d)
    PROVE  o.drv.link = "down" /\ o.drv.events = d.events
<1> DEFINE Off(s) == Outcome(ESP_OK, FreshAdapter,
                             [started |-> FALSE, mode |-> "STA", link |-> "down",
                              events |-> s.drv.events])
           Left(s) == Outcome(s.result,
                              [FreshAdapter EXCEPT !.wifiStarted = s.ad.wifiStarted,
                                                   !.apNetif = s.ad.apNetif], s.drv)
<1>1. PICK s \in AdapterStop(a, d) : o = IF s.result = ESP_OK THEN Off(s) ELSE Left(s)
  BY DEF AdapterDeinit
<1>2. s.drv.link = "down" /\ s.drv.events = d.events
  BY <1>1, AdapterStopCalm
<1>3. /\ Off(s).drv.link = "down" /\ Off(s).drv.events = s.drv.events
      /\ Left(s).drv = s.drv
  BY OutcomeFields
<1> HIDE DEF Off, Left
<1> QED
  BY <1>1, <1>2, <1>3

------------------------------------------------------------------------------
\* The manager's operations.

\* The portal that belongs to a state.
Serving == [active |-> TRUE, http |-> TRUE, dns |-> TRUE]
Served(s) == IF s = kPortal THEN Serving ELSE NoPortal

\* A face of a manager that runs.
CalmFace(face) ==
    /\ face \in Faces
    /\ face.portal = Served(face.state)
    /\ Alive(face.ad, face.drv)
    /\ face.state = kPortal => face.drv.link = "down"

SoftApFace(face) ==
    /\ SoftApAgrees(face.ad, face.drv)
    /\ face.state = kPortal => face.ad.apNetif

LEMMA PortalCalls ==
    ASSUME Obeys
    PROVE  /\ StartPortal(NoPortal) = {Serving}
           /\ StartPortal(Serving) = {Serving}
           /\ StopPortal(Serving) = {NoPortal}
           /\ StopPortal(NoPortal) = {NoPortal}
<1>1. /\ CanStart("httpd_start") = {TRUE}
      /\ CanStart("httpd_stop") = {TRUE}
      /\ CanStart("dns_start") = {TRUE}
  BY DEF CanStart, Obeys, DriverCalls
<1>2. /\ NoPortal.active = FALSE /\ NoPortal.http = FALSE /\ NoPortal.dns = FALSE
      /\ Serving.active = TRUE
  BY DEF NoPortal, Serving
<1>3. StartPortal(NoPortal) = {Serving}
  <2> DEFINE After(ok, dnsOk) == [active |-> ok /\ ~NoPortal.http,
                                  http   |-> ok \/ NoPortal.http,
                                  dns    |-> ok /\ ~NoPortal.http /\ (dnsOk \/ NoPortal.dns)]
  <2>1. StartPortal(NoPortal) = IF NoPortal.active THEN {NoPortal}
                                ELSE {After(ok, dnsOk) : ok \in CanStart("httpd_start"),
                                                         dnsOk \in CanStart("dns_start")}
    BY DEF StartPortal
  <2>2. After(TRUE, TRUE) = Serving
    BY <1>2 DEF Serving
  <2> HIDE DEF After
  <2>3. ~NoPortal.active
    BY <1>2
  <2>4. \A p : p \in StartPortal(NoPortal) <=>
                  \E ok \in CanStart("httpd_start"), dnsOk \in CanStart("dns_start") :
                     p = After(ok, dnsOk)
    BY <2>1, <2>3
  <2>5. \A p : p \in StartPortal(NoPortal) <=> p = After(TRUE, TRUE)
    BY <1>1, <2>4
  <2> QED
    BY <2>2, <2>5
<1>4. StartPortal(Serving) = {Serving}
  BY <1>2 DEF StartPortal
<1>5. StopPortal(Serving) = {NoPortal}
  BY <1>1, <1>2 DEF StopPortal, NoPortal
<1>6. StopPortal(NoPortal) = {NoPortal}
  BY <1>2 DEF StopPortal
<1> QED
  BY <1>3, <1>4, <1>5, <1>6

\* From a driver without a link, a state that follows it: only kConnecting asks for one.
Dialled(d, s, e) ==
    e.events = d.events /\ e.link = IF s = kConnecting THEN "connecting" ELSE "down"

\* What SetState makes of a face, when nothing fails: it ends where it was asked to,
\* unless a connection was asked of a driver that is busy or of a name that is empty.
LEMMA SetStateCalm ==
    ASSUME Obeys, NEW face, CalmFace(face), NEW n \in WifiState \ {kStopped, kError}, NEW c,
           face.state = kPortal /\ n = kConnecting => HasSsid(c),
           NEW f \in SetState(face, n, c)
    PROVE  /\ CalmFace(f)
           /\ f.state \in {n, kError}
           /\ n # kConnecting => f.state = n
           /\ n = kPortal => f.drv.link = "down"
           /\ f.state = kConnecting => f.drv.link # "down"
           /\ f.drv.link = "up" => face.drv.link = "up" /\ f.drv.events = face.drv.events
           /\ n \notin {kConnecting, kPortal} => f.drv = face.drv
           /\ face.drv.link = "down" => Dialled(face.drv, f.state, f.drv)
           /\ SoftApFace(face) => SoftApFace(f)
<1> DEFINE Failed(o) == FaceOf(kError, "none", face.portal, o.ad, o.drv)
           Applied(o) == FaceOf(n, face.runtimeStatus, face.portal, o.ad, o.drv)
<1>1. PICK o \in ApplyState(face.ad, face.drv, n, c) :
         f \in IF o.result # ESP_OK /\ n # kError THEN {Failed(o)}
               ELSE PortalFollows(face.state, Applied(o))
  BY DEF SetState
<1>2. face.ad \in Adapter /\ face.drv \in Driver /\ face.portal = Served(face.state)
  BY DEF Faces, CalmFace
<1>3. Alive(face.ad, face.drv)
  BY DEF CalmFace
<1>4. f \in Faces /\ f.state \in {n, kError}
  BY SetStateType DEF CalmFace
<1>5. /\ Failed(o).state = kError /\ Failed(o).portal = face.portal
      /\ Failed(o).ad = o.ad /\ Failed(o).drv = o.drv
      /\ Applied(o).state = n /\ Applied(o).portal = face.portal
      /\ Applied(o).ad = o.ad /\ Applied(o).drv = o.drv
  BY DEF FaceOf
<1> HIDE DEF Failed, Applied
<1>6. o.result # ESP_OK => /\ f.state = kError /\ f.portal = face.portal
                           /\ f.ad = o.ad /\ f.drv = o.drv
  BY <1>1, <1>5
<1>7. ASSUME o.result = ESP_OK
      PROVE  f.state = n /\ f.portal = Served(n) /\ f.ad = o.ad /\ f.drv = o.drv
  <2>1. PICK q \in IF n = kPortal THEN StartPortal(face.portal)
                   ELSE IF face.state = kPortal THEN StopPortal(face.portal)
                   ELSE {face.portal} :
           f.state = n /\ f.portal = q /\ f.ad = o.ad /\ f.drv = o.drv
    BY <1>1, <1>5, <1>7 DEF PortalFollows, FaceOf
  <2>2. q = Served(n)
    BY <1>2, <2>1, PortalCalls DEF Served
  <2> QED
    BY <2>1, <2>2
<1>8. CASE n = kConnecting
  <2>1. o \in ApplyConnecting(face.ad, face.drv, c)
    BY <1>1, <1>3, <1>8 DEF ApplyState, Alive
  <2>2. /\ Alive(o.ad, o.drv)
        /\ o.drv.events = face.drv.events
        /\ SoftApAgrees(face.ad, face.drv) => SoftApAgrees(o.ad, o.drv)
        /\ o.result = ESP_OK => o.drv.link # "down"
        /\ HasSsid(c) /\ face.drv.link = "down" => o.result = ESP_OK
        /\ o.drv.link = "up" => face.drv.link = "up"
        /\ face.drv.link = "down" =>
              o.drv.link = IF o.result = ESP_OK THEN "connecting" ELSE "down"
    BY <1>2, <1>3, <2>1, ConnectingCalm
  <2>3. CASE o.result = ESP_OK
    BY <1>4, <1>7, <1>8, <2>2, <2>3 DEF CalmFace, SoftApFace, Dialled
  <2>4. CASE o.result # ESP_OK
    <3>1. face.state # kPortal
      BY <1>8, <2>2, <2>4 DEF CalmFace
    <3>2. f.portal = Served(kError)
      BY <1>2, <1>6, <2>4, <3>1 DEF Served
    <3> QED
      BY <1>4, <1>6, <1>8, <2>2, <2>4, <3>2 DEF CalmFace, SoftApFace, Dialled
  <2> QED
    BY <2>3, <2>4
<1>9. CASE n = kPortal
  <2>1. o \in ApplyPortal(face.ad, face.drv)
    BY <1>1, <1>3, <1>9 DEF ApplyState, Alive
  <2>2. /\ o.result = ESP_OK
        /\ Alive(o.ad, o.drv)
        /\ o.drv.link = "down"
        /\ SoftApAgrees(face.ad, face.drv) => SoftApAgrees(o.ad, o.drv)
        /\ o.ad.apNetif
        /\ face.drv.link = "down" => o.drv.events = face.drv.events
    BY <1>2, <1>3, <2>1, PortalCalm
  <2> QED
    BY <1>4, <1>7, <1>9, <2>2 DEF CalmFace, SoftApFace, Dialled
<1>10. CASE n \notin {kConnecting, kPortal}
  <2>1. o.result = ESP_OK /\ o.ad = face.ad /\ o.drv = face.drv
    BY <1>1, <1>2, <1>10, OtherCalm
  <2> QED
    BY <1>3, <1>4, <1>7, <1>10, <2>1 DEF CalmFace, SoftApFace, Dialled
<1> QED
  BY <1>8, <1>9, <1>10

LEMMA StatusCalm ==
    ASSUME NEW face, CalmFace(face), NEW status \in WifiRuntimeStatus
    PROVE  /\ CalmFace(WithStatus(face, status))
           /\ WithStatus(face, status).state = face.state
           /\ WithStatus(face, status).drv = face.drv
           /\ SoftApFace(face) => SoftApFace(WithStatus(face, status))
<1>1. /\ WithStatus(face, status) \in Faces
      /\ WithStatus(face, status).state = face.state
  BY FaceType DEF CalmFace
<1>2. /\ WithStatus(face, status).portal = face.portal
      /\ WithStatus(face, status).ad = face.ad
      /\ WithStatus(face, status).drv = face.drv
  BY DEF WithStatus, FaceOf
<1> QED
  BY <1>1, <1>2 DEF CalmFace, SoftApFace

\* The manager itself, as a face.
Calm == CalmFace(Face)
SoftApCalm == SoftApFace(Face)

LEMMA FaceFields ==
    /\ Face.state = state /\ Face.portal = portal /\ Face.ad = ad /\ Face.drv = drv
    /\ Face.runtimeStatus = runtimeStatus
    /\ Face'.state = state' /\ Face'.portal = portal' /\ Face'.ad = ad' /\ Face'.drv = drv'
    /\ Face'.runtimeStatus = runtimeStatus'
BY DEF Face, FaceOf

LEMMA BecomesCalm ==
    ASSUME NEW f \in Faces, Becomes(f)
    PROVE  /\ CalmFace(f) => Calm'
           /\ SoftApFace(f) => SoftApCalm'
<1>1. Face' \in Faces
  BY FaceType DEF Becomes, Faces, Face
<1> QED
  BY <1>1, FaceFields DEF Becomes, Calm, SoftApCalm, CalmFace, SoftApFace

\* What an event may do to a manager that runs.
CalmMoves(event) ==
    /\ Calm'
    /\ SoftApCalm => SoftApCalm'
    /\ drv'.link = "up" => drv.link = "up" /\ drv'.events = drv.events
    /\ event.type = kConnectionSucceeded => state' = kConnected /\ UNCHANGED drv
    /\ event.type = kProvisioningRequested => state' = kPortal
    /\ event.type = kCredentialsReceived => state' \in {state, kConnecting, kError}
    /\ event.type # kConnectionSucceeded /\ drv.link = "down" =>
          \/ state' # kConnected /\ Dialled(drv, state', drv')
          \/ event.type = kCredentialsReceived /\ UNCHANGED <<state, drv>>
    /\ state' = kConnecting =>
          drv'.link # "down" \/ (event.type = kCredentialsReceived /\ UNCHANGED <<state, drv>>)

LEMMA UnhandledCalm ==
    ASSUME Calm, NEW status \in WifiRuntimeStatus, Becomes(WithStatus(Face, status)) \/ Becomes(Face)
    PROVE  /\ Calm'
           /\ SoftApCalm => SoftApCalm'
           /\ UNCHANGED <<state, drv>>
<1>1. /\ CalmFace(Face) /\ CalmFace(WithStatus(Face, status))
      /\ WithStatus(Face, status).state = state /\ WithStatus(Face, status).drv = drv
      /\ SoftApCalm => SoftApFace(WithStatus(Face, status)) /\ SoftApFace(Face)
  BY StatusCalm, FaceFields DEF Calm, SoftApCalm
<1>2. Face \in Faces /\ WithStatus(Face, status) \in Faces
  BY <1>1 DEF CalmFace
<1> QED
  BY <1>1, <1>2, BecomesCalm, FaceFields DEF Becomes

LEMMA ProvisioningCalm ==
    ASSUME Obeys, Calm, running, ProvisioningRequested(Face)
    PROVE  /\ Calm' /\ (SoftApCalm => SoftApCalm') /\ state' = kPortal /\ drv'.link = "down"
           /\ drv.link = "down" => Dialled(drv, state', drv')
<1>1. PICK f \in SetState(Face, kPortal, activeCredentials) : Becomes(f)
  BY DEF ProvisioningRequested
<1>2. /\ CalmFace(f) /\ f.state = kPortal /\ f.drv.link = "down"
      /\ drv.link = "down" => Dialled(drv, f.state, f.drv)
      /\ SoftApCalm => SoftApFace(f)
  BY <1>1, SetStateCalm, FaceFields DEF Calm, SoftApCalm, WifiState
<1> QED
  BY <1>1, <1>2, BecomesCalm DEF CalmFace, Becomes

\* One attempt to connect, from a face that shows the manager.
LEMMA AttemptCalm ==
    ASSUME Obeys, NEW face, CalmFace(face), face.drv = drv, SoftApCalm => SoftApFace(face),
           NEW c, face.state = kPortal => HasSsid(c),
           NEW f \in SetState(face, kConnecting, c), Becomes(f)
    PROVE  /\ Calm'
           /\ SoftApCalm => SoftApCalm'
           /\ drv'.link = "up" => drv.link = "up" /\ drv'.events = drv.events
           /\ state' = kConnecting => drv'.link # "down"
           /\ state' \in {kConnecting, kError}
           /\ drv.link = "down" => Dialled(drv, state', drv')
<1>1. /\ CalmFace(f)
      /\ f.state \in {kConnecting, kError}
      /\ face.drv.link = "down" => Dialled(face.drv, f.state, f.drv)
      /\ f.state = kConnecting => f.drv.link # "down"
      /\ f.drv.link = "up" => face.drv.link = "up" /\ f.drv.events = face.drv.events
      /\ SoftApFace(face) => SoftApFace(f)
  BY SetStateCalm DEF WifiState
<1> QED
  BY <1>1, BecomesCalm DEF CalmFace, Becomes

LEMMA CredentialsCalm ==
    ASSUME Obeys, Calm, running, NEW timer, NEW c, CredentialsReceived(c, Face, timer)
    PROVE  /\ Calm'
           /\ SoftApCalm => SoftApCalm'
           /\ drv'.link = "up" => drv.link = "up" /\ drv'.events = drv.events
           /\ state' = kConnecting => drv'.link # "down" \/ UNCHANGED <<state, drv>>
           /\ state' \in {state, kConnecting, kError}
           /\ drv.link = "down" => \/ UNCHANGED <<state, drv>>
                                   \/ state' # kConnected /\ Dialled(drv, state', drv')
<1>0. "none" \in WifiRuntimeStatus
  BY DEF WifiRuntimeStatus
<1>1. CASE Unhandled(Face, timer)
  <2>1. Becomes(Face)
    BY <1>1 DEF Unhandled
  <2> QED
    BY <1>0, <2>1, UnhandledCalm
<1>2. CASE /\ HasSsid(c)
           /\ \E f \in SetState(WithStatus(Face, "none"), kConnecting, c) : Becomes(f)
  <2>1. PICK f \in SetState(WithStatus(Face, "none"), kConnecting, c) : Becomes(f)
    BY <1>2
  <2> DEFINE face == WithStatus(Face, "none")
  <2>2. CalmFace(face) /\ face.drv = drv /\ (SoftApCalm => SoftApFace(face))
    BY <1>0, StatusCalm, FaceFields DEF Calm, SoftApCalm
  <2>3. f \in SetState(face, kConnecting, c)
    BY <2>1
  <2> HIDE DEF face
  <2> QED
    BY <1>2, <2>1, <2>2, <2>3, AttemptCalm
<1> QED
  BY <1>1, <1>2 DEF CredentialsReceived

LEMMA SucceededCalm ==
    ASSUME Obeys, Calm, ConnectionSucceeded(Face)
    PROVE  Calm' /\ (SoftApCalm => SoftApCalm') /\ state' = kConnected /\ UNCHANGED drv
<1> DEFINE face == WithStatus(Face, "address")
<1>1. PICK f \in SetState(face, kConnected, activeCredentials) : Becomes(f)
  BY DEF ConnectionSucceeded
<1>2. CalmFace(face) /\ face.drv = drv /\ (SoftApCalm => SoftApFace(face))
  BY StatusCalm, FaceFields DEF Calm, SoftApCalm, WifiRuntimeStatus
<1> HIDE DEF face
<1>3. kConnected \in WifiState \ {kStopped, kError} /\ kConnected \notin {kConnecting, kPortal}
  BY DEF WifiState
<1>4. /\ CalmFace(f) /\ f.state = kConnected /\ f.drv = face.drv
      /\ SoftApFace(face) => SoftApFace(f)
  BY <1>1, <1>2, <1>3, SetStateCalm
<1> QED
  BY <1>1, <1>2, <1>4, BecomesCalm DEF CalmFace, Becomes

\* WifiManager.cpp:201-224: the wait, the portal, or the next attempt at once.
LEMMA FailedCalm ==
    ASSUME Obeys, Calm, sm \in StateMachine, ConnectionFailed(Face)
    PROVE  /\ Calm'
           /\ SoftApCalm => SoftApCalm'
           /\ drv'.link = "up" => drv.link = "up" /\ drv'.events = drv.events
           /\ state' = kConnecting => drv'.link # "down"
           /\ drv.link = "down" => state' # kConnected /\ Dialled(drv, state', drv')
<1> DEFINE failed == OnConnectionFailed(sm)
           seen == WithStatus(Face, "reason")
<1>1. failed.state \in {kWaitingToRetry, kPortal}
  BY FailedType
<1>2. CalmFace(seen) /\ seen.drv = drv /\ (SoftApCalm => SoftApFace(seen))
  BY StatusCalm, FaceFields DEF Calm, SoftApCalm, WifiRuntimeStatus
<1>3. PICK f \in SetState(seen, failed.state, activeCredentials) :
         IF f.state = kWaitingToRetry /\ failed.reconnectDelayMs = 0
         THEN \E g \in SetState(f, kConnecting, activeCredentials) : Becomes(g)
         ELSE Becomes(f)
  BY DEF ConnectionFailed
<1> HIDE DEF failed, seen
<1>4. /\ CalmFace(f) /\ f.state = failed.state
      /\ failed.state = kPortal => f.drv.link = "down"
      /\ failed.state # kPortal => f.drv = drv
      /\ drv.link = "down" => Dialled(drv, f.state, f.drv)
      /\ SoftApCalm => SoftApFace(f)
  <2>1. /\ failed.state \in WifiState \ {kStopped, kError}
        /\ failed.state # kConnecting
    BY <1>1 DEF WifiState
  <2> QED
    BY <1>1, <1>2, <1>3, <2>1, SetStateCalm
<1>5. CASE Becomes(f)
  BY <1>1, <1>4, <1>5, BecomesCalm DEF CalmFace, Becomes
<1>6. CASE /\ f.state = kWaitingToRetry
           /\ \E g \in SetState(f, kConnecting, activeCredentials) : Becomes(g)
  <2>1. PICK g \in SetState(f, kConnecting, activeCredentials) : Becomes(g)
    BY <1>6
  <2>2. f.drv = drv /\ f.state # kPortal
    BY <1>4, <1>6
  <2> QED
    BY <1>4, <2>1, <2>2, AttemptCalm
<1> QED
  BY <1>3, <1>5, <1>6

\* DispatchEvent, from the manager as it is.  An elapsed timer finds no portal.
LEMMA DispatchCalm ==
    ASSUME Obeys, Calm, running, sm \in StateMachine, NEW event, NEW timer,
           event.type = kRetryTimerElapsed => state # kPortal,
           DispatchEvent(event, Face, timer)
    PROVE  CalmMoves(event)
<1> USE DEF kProvisioningRequested, kCredentialsReceived, kConnectionSucceeded,
            kConnectionFailed, kRetryTimerElapsed
<1>1. CASE event.type = kProvisioningRequested /\ ProvisioningRequested(Face)
  BY <1>1, ProvisioningCalm DEF CalmMoves
<1>2. CASE /\ event.type = kCredentialsReceived
           /\ CredentialsReceived(event.credentials, Face, timer)
  BY <1>2, CredentialsCalm DEF CalmMoves
<1>3. CASE event.type = kConnectionSucceeded /\ ConnectionSucceeded(Face)
  BY <1>3, SucceededCalm DEF CalmMoves
<1>4. CASE event.type = kConnectionFailed /\ ConnectionFailed(Face)
  BY <1>4, FailedCalm DEF CalmMoves
<1>5. CASE event.type = kRetryTimerElapsed /\ RetryTimerElapsed(Face)
  <2>1. PICK f \in SetState(Face, kConnecting, activeCredentials) : Becomes(f)
    BY <1>5 DEF RetryTimerElapsed
  <2>2. Face.state # kPortal /\ Face.drv = drv
    BY <1>5, FaceFields
  <2> QED
    BY <1>5, <2>1, <2>2, AttemptCalm DEF CalmMoves, Calm, SoftApCalm
<1> QED
  BY <1>1, <1>2, <1>3, <1>4, <1>5 DEF DispatchEvent

\* At rest an event moves nothing but what the caller has moved.
Rests(face) ==
    /\ UNCHANGED running
    /\ state' = face.state /\ portal' = face.portal /\ ad' = face.ad /\ drv' = face.drv

LEMMA DispatchRests ==
    ASSUME ~running, NEW face, NEW event, NEW timer, DispatchEvent(event, face, timer)
    PROVE  Rests(face)
<1>1. \A status : /\ WithStatus(face, status).state = face.state
                  /\ WithStatus(face, status).portal = face.portal
                  /\ WithStatus(face, status).ad = face.ad
                  /\ WithStatus(face, status).drv = face.drv
  BY DEF WithStatus, FaceOf
<1>2. Becomes(face) \/ Becomes(WithStatus(face, "none"))
  BY DEF DispatchEvent, ProvisioningRequested, CredentialsReceived, ConnectionSucceeded,
         ConnectionFailed, RetryTimerElapsed, Unhandled
<1>3. UNCHANGED running
  BY DEF DispatchEvent
<1> QED
  BY <1>1, <1>2, <1>3 DEF Rests, Becomes

LEMMA DeliverRests ==
    ASSUME ~running, NEW face, NEW event, NEW timer,
           Deliver(event, face) \/ EnqueueAndProcess(event, face, timer)
    PROVE  Rests(face)
<1>1. \A t : Unhandled(face, t) /\ UNCHANGED running => Rests(face)
  BY DEF Rests, Unhandled, Becomes
<1>2. \A e, t : DispatchEvent(e, face, t) => Rests(face)
  BY DispatchRests
<1> QED
  BY <1>1, <1>2 DEF Deliver, EnqueueAndProcess

------------------------------------------------------------------------------
\* Queues.

\* Something of G is in the queue and nothing of B behind it; nothing of B is in it.
Settles(q, G, B) == \E i \in 1..Len(q) : q[i] \in G /\ \A j \in (i + 1)..Len(q) : q[j] \notin B
Clear(q, B) == \A i \in 1..Len(q) : q[i] \notin B

LEMMA AppendSettles ==
    ASSUME NEW S, NEW q \in Seq(S), NEW e \in S, NEW G, NEW B
    PROVE  /\ e \in G => Settles(Append(q, e), G, B)
           /\ e \notin B /\ Settles(q, G, B) => Settles(Append(q, e), G, B)
           /\ e \notin B /\ Clear(q, B) => Clear(Append(q, e), B)
<1> DEFINE r == Append(q, e)
<1>1. /\ Len(q) \in Nat /\ Len(r) = Len(q) + 1
      /\ \A i \in 1..Len(q) : r[i] = q[i]
      /\ r[Len(q) + 1] = e
  BY AppendProperties, LenProperties
<1>2. \A i \in 1..Len(r) : i \in 1..Len(q) \/ i = Len(q) + 1
  BY <1>1
<1> HIDE DEF r
<1>3. e \in G => Settles(r, G, B)
  <2>1. Len(q) + 1 \in 1..Len(r) /\ \A j \in (Len(q) + 1 + 1)..Len(r) : FALSE
    BY <1>1
  <2> QED
    BY <1>1, <2>1 DEF Settles
<1>4. ASSUME e \notin B, Settles(q, G, B)
      PROVE  Settles(r, G, B)
  <2>1. PICK i \in 1..Len(q) : q[i] \in G /\ \A j \in (i + 1)..Len(q) : q[j] \notin B
    BY <1>4 DEF Settles
  <2>2. i \in 1..Len(r) /\ r[i] \in G
    BY <1>1, <2>1
  <2>3. ASSUME NEW j \in (i + 1)..Len(r) PROVE r[j] \notin B
    <3>1. j \in (i + 1)..Len(q) \/ j = Len(q) + 1
      BY <1>1, <2>3
    <3>2. j \in (i + 1)..Len(q) => j \in 1..Len(q)
      OBVIOUS
    <3> QED
      BY <1>1, <1>4, <2>1, <3>1, <3>2
  <2> QED
    BY <2>2, <2>3 DEF Settles
<1>5. e \notin B /\ Clear(q, B) => Clear(r, B)
  BY <1>1, <1>2 DEF Clear
<1> QED
  BY <1>3, <1>4, <1>5 DEF r

LEMMA TailSettles ==
    ASSUME NEW S, NEW q \in Seq(S), q # <<>>, NEW G, NEW B
    PROVE  /\ Settles(q, G, B) => \/ Settles(Tail(q), G, B)
                                  \/ Head(q) \in G /\ Clear(Tail(q), B)
           /\ Clear(q, B) => Clear(Tail(q), B) /\ Head(q) \notin B
           /\ Head(q) \in S /\ Tail(q) \in Seq(S)
<1> DEFINE r == Tail(q)
<1>1. /\ Len(q) \in Nat \ {0} /\ r \in Seq(S) /\ Len(r) = Len(q) - 1
      /\ \A i \in 1..Len(r) : r[i] = q[i + 1]
      /\ Head(q) = q[1] /\ Head(q) \in S
  BY HeadTailProperties, EmptySeq, LenProperties
<1>2. \A i \in 1..Len(r) : i + 1 \in 1..Len(q)
  BY <1>1
<1> HIDE DEF r
<1>3. ASSUME Settles(q, G, B)
      PROVE  Settles(r, G, B) \/ (Head(q) \in G /\ Clear(r, B))
  <2>1. PICK i \in 1..Len(q) : q[i] \in G /\ \A j \in (i + 1)..Len(q) : q[j] \notin B
    BY <1>3 DEF Settles
  <2>2. CASE i = 1
    <3>1. \A k \in 1..Len(r) : k + 1 \in (i + 1)..Len(q)
      BY <1>1, <2>2
    <3> QED
      BY <1>1, <2>1, <2>2, <3>1 DEF Clear
  <2>3. CASE i # 1
    <3>1. PICK k \in 1..Len(r) : k + 1 = i
      <4>1. i - 1 \in 1..Len(r) /\ (i - 1) + 1 = i
        BY <1>1, <2>3
      <4> QED
        BY <4>1
    <3>2. \A j \in (k + 1)..Len(r) : j + 1 \in (i + 1)..Len(q) /\ j \in 1..Len(r)
      BY <1>1, <3>1
    <3>3. \A j \in (k + 1)..Len(r) : r[j] \notin B
      BY <1>1, <2>1, <3>2
    <3>4. r[k] \in G
      BY <1>1, <2>1, <3>1
    <3>5. Settles(r, G, B)
      BY <3>3, <3>4 DEF Settles
    <3> QED
      BY <3>5
  <2> QED
    BY <2>2, <2>3
<1>4. ASSUME Clear(q, B)
      PROVE  Clear(r, B) /\ Head(q) \notin B
  <2>1. Clear(r, B)
    BY <1>1, <1>2, <1>4 DEF Clear
  <2>2. 1 \in 1..Len(q)
    BY <1>1
  <2> QED
    BY <1>1, <1>4, <2>1, <2>2 DEF Clear
<1> QED
  BY <1>1, <1>3, <1>4 DEF r

\* What settles a queue is in it.
LEMMA SettledHolds ==
    ASSUME NEW q, NEW G, NEW B, NEW H, G \subseteq H, Settles(q, G, B)
    PROVE  Settles(q, H, {})
BY DEF Settles

LEMMA EmptyUnsettled ==
    ASSUME NEW G, NEW B
    PROVE  ~Settles(<<>>, G, B) /\ Clear(<<>>, B)
BY EmptySeq DEF Settles, Clear

------------------------------------------------------------------------------
\* The events on their way.

EventsOf(types) == {e \in WifiManagerEvent : e.type \in types}

Good      == EventsOf({kConnectionSucceeded})
Upsetting == EventsOf({kConnectionFailed, kCredentialsReceived})
Answers   == EventsOf({kConnectionFailed, kConnectionSucceeded})

Ends == {"fail", "leave"}
News == {"fail", "gotip"}

\* WifiManagerEspIdfAdapter.cpp: a link that is up, and of whose end nothing is on its
\* way, is known to the manager, or will be.
UpKnown ==
    \/ lostEvent
    \/ Settles(drv.events, {"gotip"}, Ends)
    \/ /\ Clear(drv.events, Ends)
       /\ \/ Settles(queue, Good, Upsetting)
          \/ /\ Clear(queue, Upsetting)
             /\ \/ InHand(kConnectionSucceeded)
                \/ /\ ~InHand(kConnectionFailed) /\ ~InHand(kCredentialsReceived)
                   /\ state = kConnected

Watched == drv.link = "connecting" \/ OutcomePending \/ lostEvent

RadioInv ==
    taskRunning => /\ drv.link = "up" => UpKnown
                   /\ state = kConnecting => Watched

LEMMA PendingMeans ==
    ASSUME queue \in Seq(WifiManagerEvent)
    PROVE  OutcomePending <=> \/ Settles(drv.events, News, {})
                              \/ Settles(queue, Answers, {})
                              \/ InHand(kConnectionFailed) \/ InHand(kConnectionSucceeded)
<1>1. \A i \in 1..Len(queue) : queue[i] \in WifiManagerEvent
  OBVIOUS
<1>2. Settles(queue, Answers, {}) <=>
        \E type \in {kConnectionFailed, kConnectionSucceeded} : InQueue(type)
  BY <1>1 DEF Settles, Answers, EventsOf, InQueue
<1>3. Settles(drv.events, News, {}) <=>
        \E i \in 1..Len(drv.events) : drv.events[i] \in {"fail", "gotip"}
  BY DEF Settles, News
<1> QED
  BY <1>2, <1>3 DEF OutcomePending

LEMMA PendingMeansNext ==
    ASSUME queue' \in Seq(WifiManagerEvent)
    PROVE  OutcomePending' <=> \/ Settles(drv'.events, News, {})
                               \/ Settles(queue', Answers, {})
                               \/ InHand(kConnectionFailed)' \/ InHand(kConnectionSucceeded)'
<1>1. \A i \in 1..Len(queue') : queue'[i] \in WifiManagerEvent
  OBVIOUS
<1>2. Settles(queue', Answers, {}) <=>
        \E type \in {kConnectionFailed, kConnectionSucceeded} : InQueue(type)'
  BY <1>1 DEF Settles, Answers, EventsOf, InQueue
<1>3. Settles(drv'.events, News, {}) <=>
        \E i \in 1..Len(drv'.events) : drv'.events[i] \in {"fail", "gotip"}
  BY DEF Settles, News
<1> QED
  BY <1>2, <1>3 DEF OutcomePending

\* A link that is known to be up has announced itself, unless the manager already says
\* so or has the announcement in hand.
LEMMA UpIsPending ==
    ASSUME queue \in Seq(WifiManagerEvent), UpKnown
    PROVE  \/ lostEvent
           \/ Settles(drv.events, News, {})
           \/ Settles(queue, Answers, {})
           \/ InHand(kConnectionSucceeded)
           \/ ~InHand(kConnectionFailed) /\ ~InHand(kCredentialsReceived) /\ state = kConnected
<1>1. {"gotip"} \subseteq News /\ Good \subseteq Answers
  BY DEF News, Good, Answers, EventsOf
<1> QED
  BY <1>1, SettledHolds DEF UpKnown

------------------------------------------------------------------------------
\* The invariant.

\* The manager: its portal, its adapter while it runs, and its link while it does not.
BaseInv ==
    /\ portal = Served(state)
    /\ running => Calm /\ externalQueue
    /\ ~running => drv.link = "down"
    /\ app = "creating" => task = "none"

CalmInv == FullInv /\ BaseInv /\ RadioInv

\* Without stops the SoftAP of a manager that runs is in step with its state.
SoftApInv ==
    /\ app # "stopping"
    /\ IF running THEN SoftApCalm ELSE ~ad.apNetif

\* What a step has to show.
StaysCalm == BaseInv' /\ RadioInv'
SoftApStays == SoftApInv => SoftApInv'

LEMMA CalmGives ==
    ASSUME CalmInv
    PROVE  /\ FullInv /\ TaskInv /\ ManagerInv
           /\ BaseInv /\ RadioInv
           /\ sm \in StateMachine
           /\ ad \in Adapter /\ drv \in Driver /\ Face \in Faces
           /\ state \in WifiState
           /\ queue \in Seq(WifiManagerEvent)
           /\ drv.events \in Seq(DriverEvent)
           /\ eventQueue = <<>>
           /\ current \in WifiManagerEvent /\ current.type # kRetryTimerElapsed
           /\ running \in BOOLEAN
           /\ taskRunning => running
           /\ app = "idle" /\ ~taskRunning => ~running
           /\ app = "creating" \/ app = "stopping" => running
           /\ app = "stopping" => ~taskRunning
           /\ ~running => state # kPortal /\ portal = NoPortal
           /\ Follows(ad, drv)
           /\ state = kPortal => drv.link = "down"
           /\ running => ad.initialized
<1>1. FullInv /\ TaskInv /\ ManagerInv /\ BaseInv /\ RadioInv /\ PhaseInv /\ QuietInv
  BY FullGives DEF CalmInv, FullInv, TaskInv
<1>2. /\ sm \in StateMachine
      /\ ad \in Adapter /\ drv \in Driver /\ Face \in Faces
      /\ running \in BOOLEAN
      /\ ~running => state # kPortal
  BY <1>1, FullGives DEF Shows
<1>3. state \in WifiState /\ eventQueue = <<>>
  BY <1>1 DEF ManagerInv, ManagerTypeOK
<1>4. queue \in Seq(WifiManagerEvent)
  BY <1>1, TaskTypeGives DEF Queues
<1>5. drv.events \in Seq(DriverEvent)
  BY <1>2 DEF Driver
<1>6. ~running => portal = NoPortal
  BY <1>1, <1>2 DEF BaseInv, Served
<1>7. /\ state = kPortal => drv.link = "down"
      /\ running => ad.initialized
  BY <1>1, <1>2, FaceFields DEF BaseInv, Calm, CalmFace, Alive
<1> QED
  BY <1>1, <1>2, <1>3, <1>4, <1>5, <1>6, <1>7, TaskTypeGives DEF PhaseInv, QuietInv

\* The base of a running manager, and of one at rest.
LEMMA RunningBase ==
    ASSUME Calm', running', externalQueue', app' = "creating" => task' = "none"
    PROVE  BaseInv'
BY FaceFields DEF BaseInv, Calm, CalmFace

LEMMA RestingBase ==
    ASSUME ~running', portal' = NoPortal, state' # kPortal, drv'.link = "down",
           app' = "creating" => task' = "none"
    PROVE  BaseInv'
BY DEF BaseInv, Served

\* The two ways in which the radio's part holds of itself.
LEMMA RadioOfStopped ==
    ASSUME ~taskRunning'
    PROVE  RadioInv'
BY DEF RadioInv

LEMMA RadioDown ==
    ASSUME drv'.link # "up", state' = kConnecting => Watched'
    PROVE  RadioInv'
BY DEF RadioInv

\* Steps outside a dispatch that touch neither radio, queue nor state.
LEMMA RadioKept ==
    ASSUME CalmInv, UNCHANGED <<state, drv, queue, lostEvent>>, taskRunning' => taskRunning,
           task # "dispatch", task' # "dispatch"
    PROVE  RadioInv'
<1>1. \A type : ~InHand(type)
  BY DEF InHand
<1>2. \A type : ~InHand(type)'
  BY DEF InHand
<1>3. UpKnown => UpKnown'
  BY <1>1, <1>2 DEF UpKnown
<1>4. Watched => Watched'
  BY <1>1, <1>2, CalmGives, PendingMeans, PendingMeansNext DEF Watched
<1> QED
  BY <1>3, <1>4, CalmGives DEF RadioInv

LEMMA ManagerUnchanged ==
    ASSUME UNCHANGED <<state, runtimeStatus, portal, ad, drv>>
    PROVE  (Calm => Calm') /\ (SoftApCalm => SoftApCalm')
BY DEF Calm, SoftApCalm, Face

------------------------------------------------------------------------------
\* The application's thread.

\* A state that asks nothing of the adapter, at rest.
LEMMA SetStateRests ==
    ASSUME NEW face \in Faces, face.state # kPortal,
           NEW c, NEW f \in SetState(face, kInit, c)
    PROVE  f.state = kInit /\ f.portal = face.portal /\ f.ad = face.ad /\ f.drv = face.drv
<1> DEFINE Applied(o) == FaceOf(kInit, face.runtimeStatus, face.portal, o.ad, o.drv)
           Failed(o)  == FaceOf(kError, "none", face.portal, o.ad, o.drv)
<1>1. PICK o \in ApplyState(face.ad, face.drv, kInit, c) :
         f \in IF o.result # ESP_OK /\ kInit # kError THEN {Failed(o)}
               ELSE PortalFollows(face.state, Applied(o))
  BY DEF SetState
<1>2. o.result = ESP_OK /\ o.ad = face.ad /\ o.drv = face.drv
  BY <1>1, OtherCalm DEF Faces
<1>3. /\ Applied(o).state = kInit /\ Applied(o).portal = face.portal
      /\ Applied(o).ad = o.ad /\ Applied(o).drv = o.drv
  BY DEF FaceOf
<1> HIDE DEF Applied, Failed
<1>4. f \in PortalFollows(face.state, Applied(o))
  BY <1>1, <1>2
<1> QED
  BY <1>2, <1>3, <1>4 DEF PortalFollows, FaceOf

LEMMA InitCalm ==
    ASSUME CalmInv, TaskInit
    PROVE  StaysCalm /\ SoftApStays /\ UNCHANGED drv /\ state' \in {state, kInit}
<1>1. ~running /\ ~running' /\ Init
  BY CalmGives DEF TaskInit, Init
<1>2. PICK o \in AdapterInit(ad, drv) :
         LET face == WithStatus(WithOutcome(Face, o), "none") IN
         \E f \in IF o.result = ESP_OK
                  THEN SetState(face, kInit, EmptyCredentials) ELSE {face} : Becomes(f)
  BY <1>1 DEF Init
<1> DEFINE face == WithStatus(WithOutcome(Face, o), "none")
<1>3. PICK f \in IF o.result = ESP_OK
                 THEN SetState(face, kInit, EmptyCredentials) ELSE {face} : Becomes(f)
  BY <1>2
<1>4. o.ad.apNetif = ad.apNetif /\ o.drv = drv /\ o \in Outcomes
  <2>1. [ad EXCEPT !.initialized = TRUE].apNetif = ad.apNetif
    BY CalmGives DEF Adapter
  <2>2. o.ad \in {ad, [ad EXCEPT !.initialized = TRUE]} /\ o.drv = drv
    BY OutcomeFields DEF AdapterInit
  <2>3. o \in Outcomes
    BY CalmGives, AdapterInitType
  <2> QED
    BY <2>1, <2>2, <2>3
<1>5. /\ face \in Faces /\ face.state = state /\ face.portal = portal
      /\ face.ad = o.ad /\ face.drv = o.drv
  <2>1. face.state = state /\ face.portal = portal /\ face.ad = o.ad /\ face.drv = o.drv
    BY DEF WithStatus, WithOutcome, FaceOf, Face
  <2>2. face \in Faces
    BY <1>4, CalmGives, FaceType DEF WifiRuntimeStatus
  <2> QED
    BY <2>1, <2>2
<1> HIDE DEF face
<1>6. /\ f.state \in {state, kInit} /\ f.portal = portal
      /\ f.ad = o.ad /\ f.drv = drv
  BY <1>1, <1>3, <1>4, <1>5, CalmGives, SetStateRests
<1>7. /\ state' # kPortal /\ portal' = NoPortal /\ drv'.link = "down"
      /\ ad'.apNetif = ad.apNetif
      /\ UNCHANGED drv /\ state' \in {state, kInit}
  BY <1>1, <1>3, <1>4, <1>6, CalmGives DEF Becomes, BaseInv
<1>8. UNCHANGED <<taskRunning, task, app>> /\ ~taskRunning
  BY DEF TaskInit, taskVars
<1>9. BaseInv'
  BY <1>1, <1>7, <1>8, CalmGives, RestingBase DEF BaseInv
<1> QED
  BY <1>1, <1>7, <1>8, <1>9, RadioOfStopped DEF StaysCalm, SoftApStays, SoftApInv

\* A start leaves a link down or connecting.
LEMMA StartStaysCalm ==
    ASSUME Obeys, CalmInv, TaskStart
    PROVE  /\ StaysCalm /\ SoftApStays
           /\ \/ ~running' /\ UNCHANGED <<state, drv>>
              \/ state' # kConnected /\ Dialled(drv, state', drv')
<1>1. /\ ~running /\ Start /\ drv.link = "down" /\ app' # "stopping"
      /\ externalQueue' = running' /\ taskRunning' = running'
      /\ task' = "none"
  BY CalmGives DEF TaskStart, BaseInv
<1>2. PICK o \in IF initialized THEN AdapterStart(ad, drv)
                 ELSE {Outcome(ESP_FAIL, ad, drv)} :
         LET face == WithOutcome(Face, o) IN
         \/ o.result # ESP_OK /\ Becomes(face) /\ UNCHANGED running
         \/ /\ o.result = ESP_OK
            /\ running' = TRUE
            /\ \E n, c : /\ n \in {kConnecting, kPortal}
                         /\ \E f \in SetState(face, n, c) : Becomes(f)
  <2>1. \A load : OnStart(forceProvisioning, load).state \in {kConnecting, kPortal}
    BY DEF OnStart, Fresh
  <2> QED
    BY <1>1, <2>1 DEF Start
<1> DEFINE face == WithOutcome(Face, o)
<1>3. o \in Outcomes
  BY <1>2, CalmGives, AdapterStartType, OutcomeType
<1>4. IF o.result = ESP_OK
      THEN /\ Alive(o.ad, o.drv) /\ SameLink(drv, o.drv)
           /\ o.drv.mode = "STA" /\ o.ad.apNetif = ad.apNetif
      ELSE o.ad = ad /\ o.drv = drv
  <2>1. CASE o = Outcome(ESP_FAIL, ad, drv)
    BY <2>1, OutcomeFields DEF ESP_OK, ESP_FAIL
  <2>2. CASE o \in AdapterStart(ad, drv)
    BY <2>2, CalmGives, AdapterStartCalm
  <2> QED
    BY <1>2, <2>1, <2>2
<1>5. /\ face \in Faces /\ face.state = state
      /\ face.portal = portal /\ face.ad = o.ad /\ face.drv = o.drv
  <2>1. face.portal = portal /\ face.ad = o.ad /\ face.drv = o.drv
    BY DEF WithOutcome, FaceOf, Face
  <2>2. face \in Faces /\ face.state = state
    BY <1>3, CalmGives, FaceType, FaceFields
  <2> QED
    BY <2>1, <2>2
<1> HIDE DEF face
<1>6. CASE o.result # ESP_OK /\ Becomes(face) /\ UNCHANGED running
  <2>1. UNCHANGED <<state, portal, ad, drv>>
    BY <1>4, <1>5, <1>6 DEF Becomes
  <2>2. BaseInv'
    BY <1>1, <1>6, <2>1, CalmGives, RestingBase
  <2> QED
    BY <1>1, <1>6, <2>1, <2>2, RadioOfStopped DEF StaysCalm, SoftApStays, SoftApInv
<1>7. CASE /\ o.result = ESP_OK
           /\ running' = TRUE
           /\ \E n, c : /\ n \in {kConnecting, kPortal}
                        /\ \E f \in SetState(face, n, c) : Becomes(f)
  <2>1. PICK n, c : n \in {kConnecting, kPortal} /\ \E f \in SetState(face, n, c) : Becomes(f)
    BY <1>7
  <2>2. PICK f \in SetState(face, n, c) : Becomes(f)
    BY <2>1
  <2>3. CalmFace(face) /\ face.state # kPortal /\ face.drv.link = "down"
    BY <1>1, <1>4, <1>5, <1>7, CalmGives DEF CalmFace, Served, SameLink
  <2>4. /\ CalmFace(f)
        /\ f.state \in {n, kError}
        /\ n = kPortal => f.drv.link = "down"
        /\ f.state = kConnecting => f.drv.link # "down"
        /\ f.drv.link # "up"
        /\ Dialled(face.drv, f.state, f.drv)
        /\ SoftApFace(face) => SoftApFace(f)
    BY <2>1, <2>2, <2>3, SetStateCalm DEF WifiState
  <2>5. Calm' /\ (SoftApFace(f) => SoftApCalm')
    BY <2>2, <2>4, BecomesCalm DEF CalmFace
  <2>6. BaseInv'
    BY <1>1, <1>7, <2>5, RunningBase
  <2>7. RadioInv'
    <3>1. drv'.link \in {"down", "connecting", "up"}
      <4>1. Face' \in Faces
        BY <2>5 DEF Calm, CalmFace
      <4> QED
        BY <4>1, FaceFields DEF Faces, Driver
    <3> QED
      BY <2>2, <2>4, <3>1, RadioDown DEF Becomes, Watched
  <2>8. SoftApStays
    <3>1. SoftApInv => SoftApFace(face)
      BY <1>1, <1>4, <1>5, <1>7, <2>3 DEF SoftApInv, SoftApFace, SoftApAgrees
    <3> QED
      BY <1>1, <1>7, <2>4, <2>5, <3>1 DEF SoftApStays, SoftApInv
  <2>9. state' # kConnected /\ Dialled(drv, state', drv')
    <3>1. state' = f.state /\ drv' = f.drv /\ f.state # kConnected
      BY <2>1, <2>2, <2>4 DEF Becomes
    <3>2. SameLink(drv, face.drv)
      BY <1>4, <1>5, <1>7
    <3> QED
      BY <2>4, <3>1, <3>2 DEF Dialled, SameLink
  <2> QED
    BY <2>6, <2>7, <2>8, <2>9 DEF StaysCalm
<1> QED
  BY <1>2, <1>6, <1>7 DEF face

LEMMA StopStaysCalm ==
    ASSUME Obeys, CalmInv, TaskNotCreated \/ Stopped
    PROVE  StaysCalm
<1>1. running /\ Stop /\ ~taskRunning' /\ app' = "idle"
  BY CalmGives DEF TaskNotCreated, Stopped
<1>2. PICK o \in AdapterStop(ad, drv) : drv' = o.drv /\ state' \in {kStopped, kError}
  BY <1>1 DEF Stop
<1>3. Calm /\ ad.wifiStarted
  BY <1>1, CalmGives, FaceFields DEF BaseInv, Calm, CalmFace, Alive
<1>4. drv'.link = "down"
  BY <1>2, <1>3, CalmGives, AdapterStopCalm
<1>5. portal' = NoPortal
  <2>1. portal' \in StopPortal(portal) /\ portal = Served(state)
    BY <1>1, CalmGives DEF Stop, BaseInv
  <2> QED
    BY <2>1, PortalCalls DEF Served
<1>6. ~running'
  BY <1>1 DEF Stop
<1>7. BaseInv'
  BY <1>1, <1>2, <1>4, <1>5, <1>6, RestingBase
<1> QED
  BY <1>1, <1>7, RadioOfStopped DEF StaysCalm

LEMMA ForceStaysCalm ==
    ASSUME Obeys, CalmInv, AppForcesProvisioning
    PROVE  StaysCalm /\ SoftApStays
<1>1. /\ ProvisioningRequested(Face) /\ UNCHANGED running
      /\ UNCHANGED <<externalQueue, queue, lostEvent, taskRunning, task, current, app>>
  BY DEF AppForcesProvisioning, ForceProvisioning, queueVars, taskVars
<1>2. CASE running
  <2>1. Calm /\ externalQueue
    BY <1>2, CalmGives DEF BaseInv
  <2>2. Calm' /\ (SoftApCalm => SoftApCalm') /\ state' = kPortal /\ drv'.link = "down"
    BY <1>1, <1>2, <2>1, ProvisioningCalm
  <2>3. BaseInv'
    BY <1>1, <1>2, <2>1, <2>2, CalmGives, RunningBase DEF BaseInv
  <2>4. RadioInv'
    BY <2>2, RadioDown
  <2> QED
    BY <1>1, <1>2, <2>2, <2>3, <2>4 DEF StaysCalm, SoftApStays, SoftApInv
<1>3. CASE ~running
  <2>1. UNCHANGED <<state, runtimeStatus, portal, ad, drv>>
    BY <1>1, <1>3, FaceFields DEF ProvisioningRequested, Becomes
  <2>2. BaseInv'
    BY <1>1, <1>3, <2>1, CalmGives, RestingBase DEF BaseInv
  <2>3. ~taskRunning'
    BY <1>1, <1>3, CalmGives
  <2> QED
    BY <1>1, <1>3, <2>1, <2>2, <2>3, RadioOfStopped DEF StaysCalm, SoftApStays, SoftApInv
<1> QED
  BY <1>2, <1>3

\* The end of an object, and the loss of power.
LEMMA ConstructStaysCalm ==
    ASSUME TaskConstruct, drv'.link = "down"
    PROVE  StaysCalm /\ SoftApStays
<1>1. /\ ~running' /\ portal' = NoPortal /\ state' # kPortal
      /\ app' = "idle" /\ ~taskRunning' /\ ad' = FreshAdapter
  BY DEF TaskConstruct, Construct
<1>2. BaseInv'
  BY <1>1, RestingBase
<1> QED
  BY <1>1, <1>2, RadioOfStopped DEF StaysCalm, SoftApStays, SoftApInv, FreshAdapter

LEMMA DestroyStaysCalm ==
    ASSUME Obeys, CalmInv, Destroy
    PROVE  /\ StaysCalm /\ SoftApStays
           /\ drv'.link = "down" /\ drv'.events = drv.events
<1>1. PICK stopped \in AdapterStop(ad, drv) :
         \E o \in AdapterDeinit(stopped.ad, stopped.drv) : drv' = o.drv
  BY DEF Destroy
<1>2. drv.link = "down"
  BY CalmGives DEF Destroy, BaseInv
<1>3. /\ stopped.ad \in Adapter /\ stopped.drv \in Driver
      /\ stopped.drv.link = "down" /\ stopped.drv.events = drv.events
  BY <1>2, CalmGives, AdapterStopCalm, AdapterStopType DEF Outcomes
<1>4. drv'.link = "down" /\ drv'.events = drv.events
  BY <1>1, <1>3, AdapterDeinitCalm
<1> QED
  BY <1>4, ConstructStaysCalm DEF Destroy

LEMMA PowerLossStaysCalm ==
    ASSUME PowerLoss
    PROVE  StaysCalm /\ SoftApStays
BY ConstructStaysCalm DEF PowerLoss, FreshDriver

------------------------------------------------------------------------------
\* The task.

\* What the task takes from the queue it has in hand.
LEMMA ReceiveRadio ==
    ASSUME CalmInv, Receive
    PROVE  RadioInv'
<1> SUFFICES ASSUME taskRunning
             PROVE  RadioInv'
  BY RadioOfStopped DEF Receive
<1>1. /\ task = "loop" /\ task' = "dispatch"
      /\ queue # <<>> /\ queue' = Tail(queue) /\ current' = Head(queue)
      /\ UNCHANGED <<state, drv, lostEvent, taskRunning>>
  BY DEF Receive, objectVars, faceVars
<1>2. /\ \A type : ~InHand(type)
      /\ \A type : InHand(type)' <=> Head(queue).type = type
  BY <1>1 DEF InHand
<1>3. /\ Settles(queue, Good, Upsetting) => \/ Settles(Tail(queue), Good, Upsetting)
                                            \/ /\ Head(queue) \in Good
                                               /\ Clear(Tail(queue), Upsetting)
      /\ Clear(queue, Upsetting) => Clear(Tail(queue), Upsetting) /\ Head(queue) \notin Upsetting
      /\ Settles(queue, Answers, {}) => Settles(Tail(queue), Answers, {}) \/ Head(queue) \in Answers
      /\ Head(queue) \in WifiManagerEvent /\ Tail(queue) \in Seq(WifiManagerEvent)
  BY <1>1, CalmGives, TailSettles
<1>4. /\ Head(queue) \in Good <=> InHand(kConnectionSucceeded)'
      /\ Head(queue) \in Upsetting
            <=> InHand(kConnectionFailed)' \/ InHand(kCredentialsReceived)'
      /\ Head(queue) \in Answers
            <=> InHand(kConnectionFailed)' \/ InHand(kConnectionSucceeded)'
  BY <1>2, <1>3 DEF Good, Upsetting, Answers, EventsOf
<1>5. UpKnown => UpKnown'
  BY <1>1, <1>2, <1>3, <1>4 DEF UpKnown
<1>6. Watched => Watched'
  BY <1>1, <1>2, <1>3, <1>4, CalmGives, PendingMeans, PendingMeansNext DEF Watched
<1> QED
  BY <1>1, <1>5, <1>6, CalmGives DEF RadioInv

LEMMA LoopStaysCalm ==
    ASSUME CalmInv, TaskCreated \/ Stopping \/ Receive \/ ReceiveTimesOut \/ LeaveLoop
    PROVE  StaysCalm
<1>1. /\ UNCHANGED <<state, runtimeStatus, portal, ad, drv, running, externalQueue, lostEvent>>
      /\ app' # "creating" \/ (app' = app /\ task = "loop")
  BY DEF TaskCreated, Stopping, Receive, ReceiveTimesOut, LeaveLoop, objectVars, faceVars,
         queueVars
<1>2. BaseInv'
  <2>1. Calm => Calm'
    BY <1>1, ManagerUnchanged
  <2>2. app' # "creating"
    BY <1>1, CalmGives DEF BaseInv
  <2> QED
    BY <1>1, <2>1, <2>2, CalmGives DEF BaseInv
<1>3. RadioInv'
  <2>1. CASE Receive
    BY <2>1, ReceiveRadio
  <2>2. CASE Stopping
    BY <2>2, RadioOfStopped DEF Stopping
  <2>3. CASE TaskCreated
    <3>1. task = "none"
      BY <2>3, CalmGives DEF TaskCreated, BaseInv
    <3> QED
      BY <1>1, <2>3, <3>1, RadioKept DEF TaskCreated, queueVars
  <2>4. CASE ReceiveTimesOut \/ LeaveLoop
    BY <1>1, <2>4, RadioKept DEF ReceiveTimesOut, LeaveLoop, queueVars
  <2> QED
    BY <2>1, <2>2, <2>3, <2>4
<1> QED
  BY <1>2, <1>3 DEF StaysCalm

LEMMA LoopSoftAp ==
    ASSUME CalmInv, TaskCreated \/ Receive \/ ReceiveTimesOut \/ LeaveLoop
    PROVE  SoftApStays
<1>1. /\ UNCHANGED <<state, runtimeStatus, portal, ad, drv, running>>
      /\ app' = "idle" \/ app' = app
  BY DEF TaskCreated, Receive, ReceiveTimesOut, LeaveLoop, objectVars, faceVars
<1> QED
  BY <1>1, ManagerUnchanged DEF SoftApStays, SoftApInv

\* After a handler of the task: it has nothing in hand, and the queue is as it was.
LEMMA HandlerRadio ==
    ASSUME CalmInv, taskRunning, NEW event, CalmMoves(event),
           UNCHANGED <<queue, lostEvent>>, task' = "loop",
           \/ task = "tick" /\ event.type = kRetryTimerElapsed /\ state # kConnected
           \/ task = "dispatch" /\ event = current
    PROVE  RadioInv'
<1> USE DEF kProvisioningRequested, kCredentialsReceived, kConnectionSucceeded,
            kConnectionFailed, kRetryTimerElapsed
<1>1. \A type : ~InHand(type)'
  BY DEF InHand
<1>2. \A type : InHand(type) => event.type = type
  BY DEF InHand
<1>3. task = "dispatch" => (\A type : InHand(type) <=> current.type = type)
  BY DEF InHand
<1>4. drv'.link # "down" => drv'.link \in {"connecting", "up"}
  <2>1. Face' \in Faces
    BY DEF CalmMoves, Calm, CalmFace
  <2> QED
    BY <2>1, FaceFields DEF Faces, Driver
<1>5. state' = kPortal => drv'.link = "down"
  BY FaceFields DEF CalmMoves, Calm, CalmFace
<1>6. current.type \in WifiManagerEventType
  BY CalmGives DEF WifiManagerEvent
<1>7. ASSUME drv'.link = "up"
      PROVE  UpKnown'
  <2>1. UpKnown /\ drv'.events = drv.events
    BY <1>7, CalmGives DEF RadioInv, CalmMoves
  <2>2. /\ InHand(kConnectionSucceeded) => state' = kConnected
        /\ state = kConnected /\ ~InHand(kConnectionFailed) /\ ~InHand(kCredentialsReceived)
             => state' = kConnected
    <3>1. InHand(kConnectionSucceeded) => state' = kConnected
      BY <1>2 DEF CalmMoves
    <3>2. ASSUME state = kConnected, ~InHand(kConnectionFailed), ~InHand(kCredentialsReceived)
          PROVE  state' = kConnected
      <4>1. task = "dispatch" /\ event = current
        BY <3>2
      <4>2. current.type \in {kProvisioningRequested, kConnectionSucceeded}
        BY <1>3, <1>6, <3>2, <4>1, CalmGives DEF WifiManagerEventType
      <4> QED
        BY <1>5, <1>7, <4>1, <4>2 DEF CalmMoves
    <3> QED
      BY <3>1, <3>2
  <2> QED
    BY <1>1, <2>1, <2>2 DEF UpKnown
<1>8. ASSUME state' = kConnecting
      PROVE  Watched'
  <2>1. CASE drv'.link = "connecting"
    BY <2>1 DEF Watched
  <2>2. CASE drv'.link = "up"
    <3>1. UpKnown /\ drv'.events = drv.events
      BY <2>2, CalmGives DEF RadioInv, CalmMoves
    <3>2. ~InHand(kConnectionSucceeded)
      BY <1>2, <1>8 DEF CalmMoves
    <3>3. \/ lostEvent
          \/ Settles(drv.events, News, {})
          \/ Settles(queue, Answers, {})
      <4>1. ASSUME state = kConnected, ~InHand(kConnectionFailed), ~InHand(kCredentialsReceived)
            PROVE  FALSE
        <5>1. task = "dispatch" /\ event = current
          BY <4>1
        <5>2. current.type \in {kProvisioningRequested, kConnectionSucceeded}
          BY <1>3, <1>6, <4>1, <5>1, CalmGives DEF WifiManagerEventType
        <5> QED
          BY <1>8, <5>1, <5>2 DEF CalmMoves
      <4> QED
        BY <3>1, <3>2, <4>1, CalmGives, UpIsPending
    <3> QED
      BY <3>1, <3>3, CalmGives, PendingMeansNext DEF Watched
  <2>3. CASE drv'.link = "down"
    <3>1. event.type = kCredentialsReceived /\ UNCHANGED <<state, drv>>
      BY <1>8, <2>3 DEF CalmMoves
    <3>2. ~InHand(kConnectionFailed) /\ ~InHand(kConnectionSucceeded)
      BY <1>2, <3>1
    <3>3. Watched
      BY <1>8, <3>1, CalmGives DEF RadioInv
    <3> QED
      BY <3>1, <3>2, <3>3, CalmGives, PendingMeans, PendingMeansNext DEF Watched
  <2> QED
    BY <1>4, <2>1, <2>2, <2>3
<1> QED
  BY <1>7, <1>8 DEF RadioInv

LEMMA DispatchStaysCalm ==
    ASSUME Obeys, CalmInv, DispatchReceived
    PROVE  StaysCalm /\ SoftApStays /\ (running => CalmMoves(current))
<1>1. /\ task = "dispatch" /\ task' = "loop"
      /\ DispatchEvent(current, Face, retryScheduler)
      /\ UNCHANGED <<running, externalQueue, queue, lostEvent, taskRunning, app>>
  BY DEF DispatchReceived, Dispatch, DispatchEvent, queueVars
<1>2. app' # "creating"
  BY <1>1, CalmGives DEF BaseInv
<1>3. CASE running
  <2>1. Calm /\ externalQueue
    BY <1>3, CalmGives DEF BaseInv
  <2>2. CalmMoves(current)
    BY <1>1, <1>3, <2>1, CalmGives, DispatchCalm
  <2>3. BaseInv'
    BY <1>1, <1>2, <1>3, <2>1, <2>2, RunningBase DEF CalmMoves
  <2>4. RadioInv'
    BY <1>1, <2>2, HandlerRadio, RadioOfStopped
  <2>5. SoftApStays
    BY <1>1, <1>3, <2>2 DEF CalmMoves, SoftApStays, SoftApInv
  <2> QED
    BY <2>2, <2>3, <2>4, <2>5 DEF StaysCalm
<1>4. CASE ~running
  <2>1. state' = state /\ portal' = portal /\ ad' = ad /\ drv' = drv
    BY <1>1, <1>4, DispatchRests, FaceFields DEF Rests
  <2>2. BaseInv'
    BY <1>1, <1>2, <1>4, <2>1, CalmGives, RestingBase DEF BaseInv
  <2>3. ~taskRunning'
    BY <1>1, <1>4, CalmGives
  <2> QED
    BY <1>1, <1>4, <2>1, <2>2, <2>3, RadioOfStopped DEF StaysCalm, SoftApStays, SoftApInv
<1> QED
  BY <1>3, <1>4

LEMMA TickStaysCalm ==
    ASSUME Obeys, CalmInv, Tick
    PROVE  /\ StaysCalm /\ SoftApStays
           /\ \/ UNCHANGED <<state, drv>>
              \/ state = kWaitingToRetry /\ CalmMoves(PlainEvent(kRetryTimerElapsed))
<1> DEFINE timer == Advance(retryScheduler, TickMs)
           event == PlainEvent(kRetryTimerElapsed)
<1>1. /\ task = "tick" /\ task' = "loop"
      /\ UNCHANGED <<externalQueue, queue, lostEvent, taskRunning, app>>
      /\ app' # "creating"
  BY CalmGives DEF Tick, queueVars, BaseInv
<1>2. \/ /\ EnqueueAndProcess(event, Face, timer)
         /\ Elapses(retryScheduler, TickMs)
      \/ UNCHANGED <<state, runtimeStatus, portal, ad, drv, running>>
  BY DEF Tick, AdvanceRetryTimer, faceVars
<1>3. event.type = kRetryTimerElapsed
  BY DEF PlainEvent
<1> HIDE DEF timer, event
<1>4. CASE UNCHANGED <<state, runtimeStatus, portal, ad, drv, running>>
  <2>1. (Calm => Calm') /\ (SoftApCalm => SoftApCalm')
    BY <1>4, ManagerUnchanged
  <2>2. BaseInv'
    BY <1>1, <1>4, <2>1, CalmGives DEF BaseInv
  <2>3. RadioInv'
    BY <1>1, <1>4, RadioKept
  <2> QED
    BY <1>1, <1>4, <2>1, <2>2, <2>3 DEF StaysCalm, SoftApStays, SoftApInv
<1>5. CASE /\ EnqueueAndProcess(event, Face, timer)
           /\ Elapses(retryScheduler, TickMs)
           /\ running
  <2>1. state = kWaitingToRetry
    BY <1>5, CalmGives DEF Elapses, ManagerInv, RetryTimerInv
  <2>2. Calm /\ externalQueue
    BY <1>5, CalmGives DEF BaseInv
  <2>3. \/ DispatchEvent(event, Face, timer)
        \/ Unhandled(Face, timer) /\ UNCHANGED running
    <3>1. Head(Append(eventQueue, event)) = event
      BY CalmGives
    <3> QED
      BY <1>5, <3>1 DEF EnqueueAndProcess
  <2>4. CASE DispatchEvent(event, Face, timer)
    <3>1. CalmMoves(event) /\ UNCHANGED running
      BY <1>3, <1>5, <2>1, <2>2, <2>4, CalmGives, DispatchCalm DEF DispatchEvent
    <3>2. BaseInv'
      BY <1>1, <1>5, <2>2, <3>1, RunningBase DEF CalmMoves
    <3>3. RadioInv'
      BY <1>1, <1>3, <2>1, <3>1, HandlerRadio, RadioOfStopped
    <3>4. StaysCalm /\ SoftApStays
      BY <1>1, <1>5, <3>1, <3>2, <3>3 DEF StaysCalm, CalmMoves, SoftApStays, SoftApInv
    <3> QED
      BY <2>1, <3>1, <3>4 DEF event
  <2>5. CASE Unhandled(Face, timer) /\ UNCHANGED running
    BY <1>4, <2>5, FaceFields DEF Unhandled, Becomes
  <2> QED
    BY <2>3, <2>4, <2>5
<1>6. CASE EnqueueAndProcess(event, Face, timer) /\ ~running
  <2>1. state' = state /\ portal' = portal /\ ad' = ad /\ drv' = drv /\ ~running'
    BY <1>6, DeliverRests, FaceFields DEF Rests
  <2>2. BaseInv'
    BY <1>1, <1>6, <2>1, CalmGives, RestingBase DEF BaseInv
  <2>3. ~taskRunning'
    BY <1>1, <1>6, CalmGives
  <2> QED
    BY <1>1, <1>6, <2>1, <2>2, <2>3, RadioOfStopped DEF StaysCalm, SoftApStays, SoftApInv
<1> QED
  BY <1>2, <1>4, <1>5, <1>6

------------------------------------------------------------------------------
\* The event loop, the HTTP server and the driver.

\* An event of the driver becomes one of the queue's, unless the queue is full.
LEMMA HandleRadio ==
    ASSUME CalmInv, taskRunning, NEW event, event = Head(drv.events), drv.events # <<>>,
           drv'.link = drv.link, drv'.events = Tail(drv.events),
           UNCHANGED <<state, task, current>>, lostEvent => lostEvent',
           \/ event = "leave" /\ UNCHANGED queue
           \/ lostEvent'
           \/ queue' = Append(queue, EmittedEvent(event))
    PROVE  RadioInv'
<1>1. event \in DriverEvent /\ Tail(drv.events) \in Seq(DriverEvent)
  BY CalmGives, TailSettles
<1>2. /\ Settles(drv.events, {"gotip"}, Ends) => \/ Settles(Tail(drv.events), {"gotip"}, Ends)
                                                 \/ /\ event \in {"gotip"}
                                                    /\ Clear(Tail(drv.events), Ends)
      /\ Clear(drv.events, Ends) => Clear(Tail(drv.events), Ends) /\ event \notin Ends
      /\ Settles(drv.events, News, {}) => Settles(Tail(drv.events), News, {}) \/ event \in News
  BY CalmGives, TailSettles
<1>3. \A type : InHand(type)' <=> InHand(type)
  BY DEF InHand
<1> DEFINE told == EmittedEvent(event)
<1>4. /\ told \in WifiManagerEvent
      /\ told \in Answers
      /\ event = "gotip" => told \in Good /\ told \notin Upsetting
  <2>1. told \in WifiManagerEvent
    BY EventType
  <2>2. /\ event = "gotip" => told.type = kConnectionSucceeded
        /\ told.type \in {kConnectionFailed, kConnectionSucceeded}
    BY DEF EmittedEvent, PlainEvent
  <2> HIDE DEF told
  <2> QED
    BY <2>1, <2>2 DEF Answers, Good, Upsetting, EventsOf, kCredentialsReceived,
                      kConnectionSucceeded, kConnectionFailed
<1> HIDE DEF told
<1>5. /\ Settles(Append(queue, told), Answers, {})
      /\ event = "gotip" => Settles(Append(queue, told), Good, Upsetting)
      /\ Append(queue, told) \in Seq(WifiManagerEvent)
  BY <1>4, CalmGives, AppendSettles, AppendProperties
<1>6. queue' = queue \/ lostEvent' \/ queue' = Append(queue, told)
  BY DEF told
<1>7. UpKnown => UpKnown'
  <2>1. CASE lostEvent'
    BY <2>1 DEF UpKnown
  <2>2. CASE ~lostEvent' /\ event = "gotip"
    <3>1. queue' = Append(queue, told)
      BY <2>2 DEF told
    <3> QED
      BY <1>2, <1>5, <2>2, <3>1 DEF UpKnown, Ends
  <2>3. CASE ~lostEvent' /\ event # "gotip"
    <3>1. event \in Ends
      BY <1>1, <2>3 DEF Ends, DriverEvent
    <3> QED
      BY <1>2, <2>3, <3>1 DEF UpKnown
  <2> QED
    BY <2>1, <2>2, <2>3
<1>8. Watched => Watched'
  <2>1. CASE lostEvent'
    BY <2>1 DEF Watched
  <2>2. CASE ~lostEvent' /\ queue' = Append(queue, told)
    BY <1>5, <2>2, PendingMeansNext DEF Watched
  <2>3. CASE ~lostEvent' /\ event = "leave" /\ UNCHANGED queue
    <3>1. event \notin News
      BY <2>3 DEF News
    <3> QED
      BY <1>2, <1>3, <2>3, <3>1, CalmGives, PendingMeans, PendingMeansNext DEF Watched
  <2> QED
    BY <2>1, <2>2, <2>3 DEF told
<1> QED
  BY <1>7, <1>8, CalmGives DEF RadioInv

LEMMA HandleStaysCalm ==
    ASSUME CalmInv, HandleAdapterEvent
    PROVE  StaysCalm /\ SoftApStays
<1> DEFINE event == Head(drv.events)
           rest  == [drv EXCEPT !.events = Tail(@)]
           after == AfterEvent(ad, event)
           face  == FaceOf(state, runtimeStatus, portal, after, rest)
<1>1. /\ rest \in Driver /\ rest.link = drv.link /\ rest.events = Tail(drv.events)
      /\ rest.started = drv.started /\ rest.mode = drv.mode
  <2>1. drv \in Driver /\ drv.events # <<>>
    BY CalmGives DEF HandleAdapterEvent
  <2>2. Tail(drv.events) \in Seq(DriverEvent)
    BY <2>1, CalmGives, TailSettles
  <2> QED
    BY <2>1, <2>2 DEF Driver
<1>2. /\ after \in Adapter /\ SameLife(ad, after)
      /\ after.wifiStarted = ad.wifiStarted /\ after.apNetif = ad.apNetif
  <2>1. /\ [ad EXCEPT !.suppress = FALSE].initialized = ad.initialized
        /\ [ad EXCEPT !.suppress = FALSE].started = ad.started
        /\ [ad EXCEPT !.suppress = FALSE].wifiStarted = ad.wifiStarted
        /\ [ad EXCEPT !.suppress = FALSE].apNetif = ad.apNetif
    BY CalmGives DEF Adapter
  <2> QED
    BY <2>1, CalmGives, AfterEventType DEF AfterEvent, SameLife
<1>3. /\ face.state = state /\ face.portal = portal /\ face.ad = after /\ face.drv = rest
      /\ face.runtimeStatus = runtimeStatus
  BY DEF FaceOf
<1> HIDE DEF rest, after
<1>4. /\ UNCHANGED <<externalQueue, taskRunning, task, current, app>>
      /\ \/ /\ Emits(ad, event)
            /\ Deliver(EmittedEvent(event), face)
            /\ lostEvent' = (lostEvent \/ (externalQueue /\ Len(queue) = QueueCapacity))
         \/ /\ ~Emits(ad, event)
            /\ Becomes(face)
            /\ UNCHANGED <<running, queue, lostEvent>>
      /\ drv.events # <<>>
  BY DEF HandleAdapterEvent, taskVars, rest, after
<1> HIDE DEF face
<1>5. CASE running
  <2>1. Calm /\ externalQueue
    BY <1>5, CalmGives DEF BaseInv
  <2>2. Becomes(face) /\ UNCHANGED running
    BY <1>4, <2>1 DEF Deliver, Unhandled
  <2>3. CalmFace(face) /\ (SoftApCalm => SoftApFace(face))
    <3>1. face \in Faces
      BY <1>1, <1>2, CalmGives, FaceFields DEF face, Face, Faces, FaceOf
    <3> QED
      BY <1>1, <1>2, <1>3, <2>1, <3>1, FaceFields
      DEF Calm, SoftApCalm, CalmFace, SoftApFace, Alive, SoftApAgrees, SameLife
  <2>4. Calm' /\ (SoftApCalm => SoftApCalm')
    BY <2>2, <2>3, BecomesCalm DEF CalmFace
  <2>5. BaseInv'
    BY <1>4, <1>5, <2>1, <2>2, <2>4, CalmGives, RunningBase DEF BaseInv
  <2>6. ASSUME taskRunning PROVE RadioInv'
    <3>1. /\ lostEvent => lostEvent'
          /\ \/ event = "leave" /\ UNCHANGED queue
             \/ lostEvent'
             \/ queue' = Append(queue, EmittedEvent(event))
      <4>1. CASE ~Emits(ad, event)
        <5>1. ad.initialized
          BY <1>5, CalmGives
        <5>2. event = "leave"
          BY <4>1, <5>1 DEF Emits
        <5>3. UNCHANGED <<queue, lostEvent>>
          BY <1>4, <4>1
        <5> QED
          BY <5>2, <5>3
      <4>2. CASE Emits(ad, event)
        <5>1. /\ queue' = IF Len(queue) < QueueCapacity
                          THEN Append(queue, EmittedEvent(event)) ELSE queue
              /\ lostEvent' = (lostEvent \/ Len(queue) = QueueCapacity)
          BY <1>4, <2>1, <4>2 DEF Deliver
        <5>2. Len(queue) <= QueueCapacity /\ Len(queue) \in Nat /\ QueueCapacity \in Nat
          BY CalmGives, CapacityAssumption, TaskTypeGives DEF Queues
        <5>3. CASE Len(queue) < QueueCapacity
          <6>1. lostEvent => lostEvent'
            BY <5>1
          <6>2. queue' = Append(queue, EmittedEvent(event))
            BY <5>1, <5>3
          <6> QED
            BY <6>1, <6>2
        <5>4. CASE Len(queue) = QueueCapacity
          <6>1. lostEvent'
            BY <5>1, <5>4
          <6> QED
            BY <6>1
        <5> QED
          BY <5>2, <5>3, <5>4
      <4> QED
        BY <4>1, <4>2
    <3>2. state' = state /\ drv'.link = drv.link /\ drv'.events = Tail(drv.events)
      BY <1>1, <1>3, <2>2 DEF Becomes
    <3> QED
      BY <1>4, <2>6, <3>1, <3>2, HandleRadio
  <2>7. RadioInv'
    BY <1>4, <2>6, RadioOfStopped
  <2> QED
    BY <1>4, <1>5, <2>2, <2>4, <2>5, <2>7 DEF StaysCalm, SoftApStays, SoftApInv
<1>6. CASE ~running
  <2>1. Rests(face)
    BY <1>4, <1>6, DeliverRests DEF Rests, Becomes
  <2>2. /\ state' = state /\ portal' = portal /\ ad'.apNetif = ad.apNetif
        /\ drv'.link = drv.link /\ ~running'
    BY <1>1, <1>2, <1>3, <1>6, <2>1 DEF Rests
  <2>3. BaseInv'
    BY <1>4, <1>6, <2>2, CalmGives, RestingBase DEF BaseInv
  <2>4. ~taskRunning'
    BY <1>4, <1>6, CalmGives
  <2> QED
    BY <1>4, <1>6, <2>2, <2>3, <2>4, RadioOfStopped DEF StaysCalm, SoftApStays, SoftApInv
<1> QED
  BY <1>5, <1>6

\* A form comes in only by a portal that is up, and that has no link to lose.
LEMMA PostStaysCalm ==
    ASSUME CalmInv, PostConnect
    PROVE  /\ StaysCalm /\ SoftApStays
           /\ running /\ externalQueue /\ state = kPortal
           /\ UNCHANGED <<state, drv>>
<1>1. PICK credentials \in Credentials :
         Deliver([type |-> kCredentialsReceived, credentials |-> credentials], Face)
  BY DEF PostConnect
<1>2. running /\ state = kPortal
  <2>1. portal = NoPortal => ~portal.http
    BY DEF NoPortal
  <2>2. portal = Served(state)
    BY CalmGives DEF BaseInv
  <2> QED
    BY <2>1, <2>2, CalmGives DEF PostConnect, Served
<1>3. Calm /\ externalQueue /\ drv.link = "down"
  BY <1>2, CalmGives DEF BaseInv
<1>4. /\ UNCHANGED <<state, runtimeStatus, portal, ad, drv, running>>
      /\ UNCHANGED <<externalQueue, app, task>>
  BY <1>1, <1>3, FaceFields DEF PostConnect, taskVars, Deliver, Unhandled, Becomes
<1>5. Calm' /\ (SoftApCalm => SoftApCalm')
  BY <1>3, <1>4, ManagerUnchanged
<1>6. BaseInv'
  BY <1>2, <1>3, <1>4, <1>5, CalmGives, RunningBase DEF BaseInv
<1>7. RadioInv'
  BY <1>2, <1>3, <1>4, RadioDown
<1> QED
  BY <1>2, <1>3, <1>4, <1>5, <1>6, <1>7 DEF StaysCalm, SoftApStays, SoftApInv

\* Every change of the link announces itself.
LEMMA DriverStaysCalm ==
    ASSUME CalmInv, StationConnects \/ StationFails \/ StationIsLost
    PROVE  StaysCalm /\ SoftApStays
<1>1. /\ UNCHANGED <<state, runtimeStatus, portal, ad, running, externalQueue, queue, lostEvent,
                     taskRunning, task, current, app>>
      /\ drv' \in LinkComesUp(drv) \cup ConnectFails(drv) \cup LinkIsLost(drv)
  BY DEF StationConnects, StationFails, StationIsLost, DriverMoves, queueVars, taskVars
<1>2. \/ drv' = Posted(drv, "up", "gotip") /\ drv.link = "connecting"
      \/ drv' = Posted(drv, "down", "fail") /\ drv.link # "down"
  BY <1>1 DEF LinkComesUp, ConnectFails, LinkIsLost
<1>3. running /\ state # kPortal /\ Calm /\ externalQueue
  BY <1>2, CalmGives DEF BaseInv
<1>4. /\ drv' \in Driver /\ drv'.started = drv.started /\ drv'.mode = drv.mode
      /\ \/ drv'.link = "up" /\ drv'.events = Append(drv.events, "gotip")
         \/ drv'.link = "down" /\ drv'.events = Append(drv.events, "fail")
  BY <1>1, <1>2, CalmGives, LinkMovesType DEF Posted
<1>5. Calm' /\ (SoftApCalm => SoftApCalm')
  <2>1. Face' \in Faces
    BY <1>1, <1>4, CalmGives DEF Face, Faces, FaceOf
  <2> QED
    BY <1>1, <1>3, <1>4, <2>1, FaceFields
    DEF Calm, SoftApCalm, CalmFace, SoftApFace, Alive, SoftApAgrees
<1>6. BaseInv'
  BY <1>1, <1>3, <1>5, CalmGives, RunningBase DEF BaseInv
<1>7. /\ Settles(drv'.events, News, {})
      /\ drv'.link = "up" => Settles(drv'.events, {"gotip"}, Ends)
  <2>1. drv.events \in Seq(DriverEvent)
    BY CalmGives
  <2>2. "gotip" \in DriverEvent /\ "fail" \in DriverEvent /\ "gotip" \in News /\ "fail" \in News
    BY DEF News, DriverEvent
  <2>3. /\ Settles(Append(drv.events, "gotip"), News, {})
        /\ Settles(Append(drv.events, "fail"), News, {})
        /\ Settles(Append(drv.events, "gotip"), {"gotip"}, Ends)
    BY <2>1, <2>2, AppendSettles
  <2> QED
    BY <1>4, <2>3
<1>8. RadioInv'
  BY <1>1, <1>7, CalmGives, PendingMeansNext DEF RadioInv, UpKnown, Watched
<1> QED
  BY <1>1, <1>3, <1>5, <1>6, <1>8 DEF StaysCalm, SoftApStays, SoftApInv

------------------------------------------------------------------------------
LEMMA CalmInitially == TaskSpecInit => CalmInv /\ SoftApInv
BY QuietInitially
DEF CalmInv, BaseInv, RadioInv, SoftApInv, TaskSpecInit, ManagerInit, Served, FreshDriver,
    FreshAdapter

\* Every step keeps the invariant; and the part about the SoftAP, unless the manager is
\* being stopped.
LEMMA NextCalm ==
    ASSUME Obeys, CalmInv, [Next]_vars
    PROVE  /\ CalmInv'
           /\ SoftApStays \/ TaskNotCreated \/ Stopping \/ Stopped
<1> SUFFICES /\ StaysCalm
             /\ SoftApStays \/ TaskNotCreated \/ Stopping \/ Stopped
  BY NextQuiet, CalmGives DEF CalmInv, StaysCalm
<1>1. CASE TaskInit
  BY <1>1, InitCalm
<1>2. CASE TaskStart
  BY <1>2, StartStaysCalm
<1>3. CASE TaskCreated \/ Stopping \/ Receive \/ ReceiveTimesOut \/ LeaveLoop
  BY <1>3, LoopStaysCalm, LoopSoftAp
<1>4. CASE TaskNotCreated \/ Stopped
  BY <1>4, StopStaysCalm
<1>5. CASE AppForcesProvisioning
  BY <1>5, ForceStaysCalm
<1>6. CASE Destroy
  BY <1>6, DestroyStaysCalm
<1>7. CASE DispatchReceived
  BY <1>7, DispatchStaysCalm
<1>8. CASE Tick
  BY <1>8, TickStaysCalm
<1>9. CASE HandleAdapterEvent
  BY <1>9, HandleStaysCalm
<1>10. CASE PostConnect
  BY <1>10, PostStaysCalm
<1>11. CASE StationConnects \/ StationFails \/ StationIsLost
  BY <1>11, DriverStaysCalm
<1>12. CASE PowerLoss
  BY <1>12, PowerLossStaysCalm
<1>13. CASE UNCHANGED vars
  <2>1. UNCHANGED <<state, runtimeStatus, portal, ad, drv, running, externalQueue, queue,
                    lostEvent, taskRunning, task, current, app>>
    BY <1>13 DEF vars, objectVars, faceVars, queueVars, taskVars
  <2>2. (Calm => Calm') /\ (SoftApCalm => SoftApCalm')
    BY <2>1, ManagerUnchanged
  <2>3. BaseInv'
    BY <2>1, <2>2, CalmGives DEF BaseInv
  <2>4. RadioInv'
    BY <2>1, CalmGives
    DEF RadioInv, UpKnown, Watched, OutcomePending, InQueue, InHand
  <2> QED
    BY <2>1, <2>2, <2>3, <2>4 DEF StaysCalm, SoftApStays, SoftApInv
<1> QED
  BY <1>1, <1>2, <1>3, <1>4, <1>5, <1>6, <1>7, <1>8, <1>9, <1>10, <1>11, <1>12, <1>13
  DEF Next, AppStep, TaskStep

LEMMA CalmInvariant ==
    ASSUME Obeys
    PROVE  Spec => []CalmInv
<1>1. CalmInv /\ [Next]_vars => CalmInv'
  BY NextCalm
<1>2. TaskSpecInit => CalmInv
  BY CalmInitially
<1> QED
  BY <1>1, <1>2, PTL DEF Spec

\* WifiManager.cpp:332-336, 362-408: while no call of the driver and no server fails,
\* both portal servers run in kPortal and neither runs in any other state, however
\* starts, stops, events and losses of power interleave.
THEOREM PortalFollowsCorrect ==
    ASSUME Obeys
    PROVE  Spec => []PortalFollowsState
<1>1. CalmInv => PortalFollowsState
  BY CalmGives DEF BaseInv, Served, Serving, PortalFollowsState
<1> QED
  BY <1>1, CalmInvariant, PTL

\* WifiManagerEspIdfAdapter.cpp:130-184, 283-324: while no call of the driver fails, a
\* manager that is connecting has an attempt under way or its outcome on its way, or a
\* full queue has dropped it.  No disconnection that was asked for, however late it is
\* told of, swallows the one that was not.
THEOREM WatchedCorrect ==
    ASSUME Obeys
    PROVE  Spec => []ConnectingIsWatched
<1>1. CalmInv => ConnectingIsWatched
  BY CalmGives DEF RadioInv, Watched, ConnectingIsWatched
<1> QED
  BY <1>1, CalmInvariant, PTL

\* main.cpp:35, README.md:9: while no call of the driver fails and nobody stops the
\* manager, the SoftAP is up in kPortal.  A stop breaks this: the next start leaves the
\* interface without its mode (WifiManagerEspIdfAdapter.cpp:96-105, 357-359).
THEOREM SoftApCorrect ==
    ASSUME Obeys, ~MayFail("xTaskCreate"), "Stop" \notin Inputs
    PROVE  Spec => []PortalHasSoftAp
<1>1. CalmInv /\ SoftApInv => PortalHasSoftAp
  <2> SUFFICES ASSUME CalmInv, SoftApInv, taskRunning, state = kPortal
               PROVE  SoftApUp(drv)
    BY DEF PortalHasSoftAp
  <2>1. Calm /\ SoftApCalm
    BY CalmGives DEF BaseInv, SoftApInv
  <2> QED
    BY <2>1, FaceFields DEF Calm, CalmFace, SoftApCalm, SoftApFace, SoftApAgrees, Alive, SoftApUp
<1>2. CalmInv /\ SoftApInv /\ [Next]_vars => CalmInv' /\ SoftApInv'
  <2> SUFFICES ASSUME CalmInv, SoftApInv, [Next]_vars PROVE CalmInv' /\ SoftApInv'
    OBVIOUS
  <2>1. ~TaskNotCreated /\ ~Stopping /\ ~Stopped
    BY DEF TaskNotCreated, Stopping, Stopped, SoftApInv
  <2> QED
    BY <2>1, NextCalm DEF SoftApStays
<1> QED
  BY <1>1, <1>2, CalmInitially, PTL DEF Spec

------------------------------------------------------------------------------
\* What a driver event will be to the manager.  A disconnection that was asked for is
\* nothing it ever waits for.
Told(event) == IF event = "leave" THEN NoEvent ELSE EmittedEvent(event)
AllTold(events) == [i \in 1..Len(events) |-> Told(events[i])]

\* The events on their way, oldest first: the one in the task's hand, the queue's, and
\* what the driver has posted.
Flowing(hand, q, events) == hand \o (q \o AllTold(events))
Hand == IF task = "dispatch" THEN <<current>> ELSE <<>>
Pipe == Flowing(Hand, queue, drv.events)

Joined == PlainEvent(kConnectionSucceeded)
Lost == PlainEvent(kConnectionFailed)

\* With nothing to interrupt it, a connection tells of itself in order: the address,
\* then the loss.  (A queue that is full may have lost the loss.)
FlowOf(s, link, lost, pipe) ==
    \/ /\ s = kConnecting
       /\ \/ pipe = <<>> /\ link = "connecting"
          \/ pipe = <<Joined>> /\ (link = "up" \/ (link = "down" /\ lost))
          \/ pipe \in {<<Lost>>, <<Joined, Lost>>} /\ link = "down"
    \/ /\ s = kConnected
       /\ \/ pipe = <<>> /\ (link = "up" \/ (link = "down" /\ lost))
          \/ pipe = <<Lost>> /\ link = "down"
    \/ /\ s = kPortal
       /\ link = "down"
       /\ \/ pipe = <<>>
          \/ Len(pipe) = 1 /\ pipe[1].type = kCredentialsReceived
    \/ /\ s \notin {kConnecting, kConnected, kPortal}
       /\ link = "down"
       /\ pipe = <<>>

FlowInv == FlowOf(state, drv.link, lostEvent, Pipe)

------------------------------------------------------------------------------
LEMMA HeadFirst ==
    ASSUME NEW S, NEW q \in Seq(S), q # <<>>
    PROVE  q = <<Head(q)>> \o Tail(q) /\ Head(q) \in S /\ Tail(q) \in Seq(S)
<1>1. /\ Head(q) \in S /\ Tail(q) \in Seq(S) /\ Len(Tail(q)) = Len(q) - 1
      /\ \A i \in 1..Len(Tail(q)) : Tail(q)[i] = q[i + 1]
      /\ Len(q) \in Nat \ {0} /\ Head(q) = q[1]
  BY HeadTailProperties, EmptySeq, LenProperties
<1> DEFINE one == <<Head(q)>>
           rest == Tail(q)
<1>2. one \in Seq(S) /\ Len(one) = 1 /\ one[1] = q[1]
  BY <1>1
<1> HIDE DEF one, rest
<1>3. /\ one \o rest \in Seq(S) /\ Len(one \o rest) = Len(one) + Len(rest)
      /\ \A i \in 1..(Len(one) + Len(rest)) :
            (one \o rest)[i] = IF i <= Len(one) THEN one[i] ELSE rest[i - Len(one)]
  BY <1>1, <1>2, ConcatProperties DEF rest
<1>4. Len(one \o rest) = Len(q)
  BY <1>1, <1>2, <1>3 DEF rest
<1>5. ASSUME NEW i \in 1..Len(q) PROVE q[i] = (one \o rest)[i]
  <2>1. CASE i = 1
    BY <1>1, <1>2, <1>3, <2>1 DEF rest
  <2>2. CASE i # 1
    <3>1. PICK k \in 1..Len(rest) : k + 1 = i
      <4>1. i - 1 \in 1..Len(rest) /\ (i - 1) + 1 = i
        BY <1>1, <2>2 DEF rest
      <4> QED
        BY <4>1
    <3>2. (one \o rest)[i] = rest[k]
      BY <1>1, <1>2, <1>3, <3>1 DEF rest
    <3>3. q[i] = rest[k]
      BY <1>1, <3>1 DEF rest
    <3> QED
      BY <3>2, <3>3
  <2> QED
    BY <2>1, <2>2
<1>6. q = one \o rest
  BY <1>3, <1>4, <1>5, SeqEqual
<1> QED
  BY <1>1, <1>6 DEF one, rest

LEMMA FirstThen ==
    ASSUME NEW S, NEW x \in S, NEW r \in Seq(S)
    PROVE  LET p == <<x>> \o r IN
           /\ p \in Seq(S) /\ p # <<>> /\ p[1] = x
           /\ Len(p) = Len(r) + 1
           /\ \A i \in 1..Len(r) : p[i + 1] = r[i]
<1> DEFINE one == <<x>>
<1>1. one \in Seq(S) /\ Len(one) = 1 /\ one[1] = x
  OBVIOUS
<1> HIDE DEF one
<1>2. /\ one \o r \in Seq(S) /\ Len(one \o r) = 1 + Len(r)
      /\ \A i \in 1..(1 + Len(r)) : (one \o r)[i] = IF i <= 1 THEN one[i] ELSE r[i - 1]
  <2>1. /\ one \o r \in Seq(S) /\ Len(one \o r) = Len(one) + Len(r)
        /\ \A i \in 1..(Len(one) + Len(r)) :
              (one \o r)[i] = IF i <= Len(one) THEN one[i] ELSE r[i - Len(one)]
    BY <1>1, ConcatProperties
  <2> QED
    BY <1>1, <2>1
<1>3. Len(r) \in Nat
  BY LenProperties
<1>4. one \o r # <<>>
  BY <1>2, <1>3, EmptySeq
<1>5. \A i \in 1..Len(r) : (one \o r)[i + 1] = r[i]
  <2> TAKE i \in 1..Len(r)
  <2>1. i + 1 \in 1..(1 + Len(r)) /\ ~(i + 1 <= 1) /\ (i + 1) - 1 = i
    BY <1>3
  <2> QED
    BY <1>2, <2>1
<1>6. (one \o r)[1] = x
  BY <1>1, <1>2, <1>3
<1> QED
  BY <1>2, <1>3, <1>4, <1>5, <1>6 DEF one

\* The moves of an event along the pipe.
LEMMA PipeMoves ==
    ASSUME NEW S, NEW h \in Seq(S), NEW q \in Seq(S), NEW t \in Seq(S), NEW x \in S
    PROVE  /\ h \o (q \o Append(t, x)) = Append(h \o (q \o t), x)
           /\ <<>> \o (q \o t) = q \o t
           /\ h \o (q \o t) \in Seq(S)
           /\ Len(h \o (q \o t)) = Len(h) + (Len(q) + Len(t))
<1> DEFINE one == <<x>>
<1>1. one \in Seq(S)
  OBVIOUS
<1>2. /\ Append(t, x) = t \o one
      /\ \A s \in Seq(S) : Append(s, x) = s \o one
  BY AppendIsConcat
<1> HIDE DEF one
<1>3. q \o t \in Seq(S) /\ h \o (q \o t) \in Seq(S)
  BY ConcatProperties
<1>4. h \o (q \o (t \o one)) = (h \o (q \o t)) \o one
  <2>1. \A r \in Seq(S) : (h \o r) \o one = h \o (r \o one)
    BY <1>1, ConcatAssociative, SMTT(30)
  <2>2. (q \o t) \o one = q \o (t \o one)
    BY <1>1, ConcatAssociative
  <2> QED
    BY <1>3, <2>1, <2>2
<1>5. <<>> \o (q \o t) = q \o t
  BY <1>3, ConcatEmptySeq
<1>6. Len(h \o (q \o t)) = Len(h) + (Len(q) + Len(t))
  BY <1>3, ConcatProperties
<1>7. Append(h \o (q \o t), x) = (h \o (q \o t)) \o one
  BY <1>2, <1>3
<1> QED
  BY <1>2, <1>3, <1>4, <1>5, <1>6, <1>7 DEF one

LEMMA FirstIsQueued ==
    ASSUME NEW S, NEW q \in Seq(S), NEW t \in Seq(S), NEW x \in S
    PROVE  q \o (<<x>> \o t) = Append(q, x) \o t
<1> DEFINE one == <<x>>
<1>1. one \in Seq(S)
  OBVIOUS
<1>2. Append(q, x) = q \o one
  BY AppendIsConcat
<1> HIDE DEF one
<1>3. q \o (one \o t) = (q \o one) \o t
  BY <1>1, ConcatAssociative
<1> QED
  BY <1>2, <1>3 DEF one

LEMMA FirstOfBoth ==
    ASSUME NEW S, NEW x \in S, NEW r \in Seq(S), NEW t \in Seq(S)
    PROVE  (<<x>> \o r) \o t = <<x>> \o (r \o t)
<1> DEFINE one == <<x>>
<1>1. one \in Seq(S)
  OBVIOUS
<1> HIDE DEF one
<1>2. (one \o r) \o t = one \o (r \o t)
  BY <1>1, ConcatAssociative
<1> QED
  BY <1>2 DEF one

LEMMA ToldType ==
    ASSUME NEW e \in DriverEvent
    PROVE  /\ Told(e) \in WifiManagerEvent
           /\ e = "gotip" => Told(e) = Joined
           /\ e = "fail" => Told(e) = Lost
           /\ e = "leave" => Told(e).type = kProvisioningRequested
           /\ Told(e).type # kCredentialsReceived
<1>1. PlainEvent(kProvisioningRequested) \in WifiManagerEvent
  BY DEF PlainEvent, WifiManagerEvent, WifiManagerEventType
<1>2. EmittedEvent(e) \in WifiManagerEvent
  BY EventType
<1>3. \A type : PlainEvent(type).type = type
  BY DEF PlainEvent
<1>4. kProvisioningRequested # kCredentialsReceived /\ kConnectionSucceeded # kCredentialsReceived
      /\ kConnectionFailed # kCredentialsReceived
  BY DEF kProvisioningRequested, kCredentialsReceived, kConnectionSucceeded, kConnectionFailed
<1> QED
  BY <1>1, <1>2, <1>3, <1>4 DEF Told, NoEvent, EmittedEvent, Joined, Lost

LEMMA AllToldType ==
    ASSUME NEW es \in Seq(DriverEvent)
    PROVE  /\ AllTold(es) \in Seq(WifiManagerEvent)
           /\ Len(AllTold(es)) = Len(es)
           /\ \A i \in 1..Len(es) : AllTold(es)[i] = Told(es[i])
<1>1. Len(es) \in Nat /\ \A i \in 1..Len(es) : es[i] \in DriverEvent
  BY LenProperties
<1>2. \A i \in 1..Len(es) : Told(es[i]) \in WifiManagerEvent
  BY <1>1, ToldType
<1>3. AllTold(es) \in [1..Len(es) -> WifiManagerEvent]
  BY <1>2 DEF AllTold
<1>4. AllTold(es) \in Seq(WifiManagerEvent)
  BY <1>1, <1>3 DEF Seq
<1>5. Len(AllTold(es)) = Len(es)
  BY <1>1, <1>3, <1>4, LenProperties
<1> QED
  BY <1>4, <1>5 DEF AllTold

LEMMA AllToldMoves ==
    ASSUME NEW es \in Seq(DriverEvent), NEW e \in DriverEvent
    PROVE  /\ AllTold(Append(es, e)) = Append(AllTold(es), Told(e))
           /\ AllTold(<<>>) = <<>>
           /\ es # <<>> => /\ AllTold(es) = <<Told(Head(es))>> \o AllTold(Tail(es))
                           /\ Head(es) \in DriverEvent /\ Tail(es) \in Seq(DriverEvent)
<1>1. AllTold(Append(es, e)) = Append(AllTold(es), Told(e))
  <2> DEFINE fs == Append(es, e)
             a == AllTold(fs)
             b == Append(AllTold(es), Told(e))
  <2>1. /\ fs \in Seq(DriverEvent) /\ Len(fs) = Len(es) + 1
        /\ \A i \in 1..Len(es) : fs[i] = es[i]
        /\ fs[Len(es) + 1] = e
    BY AppendProperties
  <2> HIDE DEF fs
  <2>2. a \in Seq(WifiManagerEvent) /\ Len(a) = Len(fs) /\ \A i \in 1..Len(fs) : a[i] = Told(fs[i])
    BY <2>1, AllToldType
  <2>3. /\ AllTold(es) \in Seq(WifiManagerEvent) /\ Len(AllTold(es)) = Len(es)
        /\ \A i \in 1..Len(es) : AllTold(es)[i] = Told(es[i])
    BY AllToldType
  <2>4. /\ b \in Seq(WifiManagerEvent) /\ Len(b) = Len(es) + 1
        /\ \A i \in 1..Len(es) : b[i] = Told(es[i])
        /\ b[Len(es) + 1] = Told(e)
    BY <2>3, ToldType, AppendProperties
  <2> HIDE DEF a, b
  <2>5. Len(es) \in Nat
    BY LenProperties
  <2>6. \A i \in 1..Len(a) : a[i] = b[i]
    BY <2>1, <2>2, <2>4, <2>5
  <2>7. a = b
    BY <2>1, <2>2, <2>4, <2>6, SeqEqual
  <2> QED
    BY <2>7 DEF a, b, fs
<1>2. AllTold(<<>>) = <<>>
  <2>1. <<>> \in Seq(DriverEvent) /\ Len(<<>>) = 0
    BY EmptySeq
  <2>2. AllTold(<<>>) \in Seq(WifiManagerEvent) /\ Len(AllTold(<<>>)) = 0
    BY <2>1, AllToldType
  <2> QED
    BY <2>2, EmptySeq
<1>3. ASSUME es # <<>>
      PROVE  /\ AllTold(es) = <<Told(Head(es))>> \o AllTold(Tail(es))
             /\ Head(es) \in DriverEvent /\ Tail(es) \in Seq(DriverEvent)
  <2>1. /\ Head(es) \in DriverEvent /\ Tail(es) \in Seq(DriverEvent)
        /\ Len(Tail(es)) = Len(es) - 1 /\ Len(es) \in Nat \ {0}
        /\ \A i \in 1..Len(Tail(es)) : Tail(es)[i] = es[i + 1]
        /\ Head(es) = es[1]
    BY <1>3, HeadTailProperties, EmptySeq, LenProperties
  <2> DEFINE a == AllTold(es)
             r == AllTold(Tail(es))
             x == Told(Head(es))
             b == <<x>> \o r
  <2>2. a \in Seq(WifiManagerEvent) /\ Len(a) = Len(es) /\ \A i \in 1..Len(es) : a[i] = Told(es[i])
    BY AllToldType
  <2>3. /\ r \in Seq(WifiManagerEvent) /\ Len(r) = Len(es) - 1
        /\ \A i \in 1..Len(r) : r[i] = Told(es[i + 1])
    BY <2>1, AllToldType
  <2>4. x \in WifiManagerEvent /\ x = Told(es[1])
    BY <2>1, ToldType
  <2> HIDE DEF a, r, x
  <2>5. /\ b \in Seq(WifiManagerEvent) /\ b[1] = x /\ Len(b) = Len(r) + 1
        /\ \A i \in 1..Len(r) : b[i + 1] = r[i]
    BY <2>3, <2>4, FirstThen
  <2> HIDE DEF b
  <2>6. ASSUME NEW i \in 1..Len(a) PROVE a[i] = b[i]
    <3>1. CASE i = 1
      BY <2>1, <2>2, <2>4, <2>5, <3>1
    <3>2. CASE i # 1
      <4>1. PICK k \in 1..Len(r) : k + 1 = i
        <5>1. i - 1 \in 1..Len(r) /\ (i - 1) + 1 = i
          BY <2>1, <2>2, <2>3, <3>2
        <5> QED
          BY <5>1
      <4> QED
        BY <2>2, <2>3, <2>5, <4>1
    <3> QED
      BY <3>1, <3>2
  <2>7. a = b
    BY <2>1, <2>2, <2>3, <2>5, <2>6, SeqEqual
  <2> QED
    BY <2>1, <2>7 DEF a, b, r, x
<1> QED
  BY <1>1, <1>2, <1>3

\* What a sequence holds.
Held(q) == {q[i] : i \in 1..Len(q)}

LEMMA ConcatHolds ==
    ASSUME NEW S, NEW s \in Seq(S), NEW t \in Seq(S)
    PROVE  Held(s \o t) = Held(s) \cup Held(t)
<1> DEFINE both == s \o t
<1>1. /\ Len(s) \in Nat /\ Len(t) \in Nat /\ Len(both) = Len(s) + Len(t)
      /\ \A j \in 1..(Len(s) + Len(t)) :
            both[j] = IF j <= Len(s) THEN s[j] ELSE t[j - Len(s)]
  BY ConcatProperties, LenProperties
<1> HIDE DEF both
<1>2. ASSUME NEW i \in 1..Len(s) PROVE s[i] \in Held(both)
  <2>1. i \in 1..Len(both) /\ both[i] = s[i]
    BY <1>1
  <2> QED
    BY <2>1 DEF Held
<1>3. ASSUME NEW i \in 1..Len(t) PROVE t[i] \in Held(both)
  <2>1. /\ Len(s) + i \in 1..(Len(s) + Len(t))
        /\ ~(Len(s) + i <= Len(s)) /\ (Len(s) + i) - Len(s) = i
    BY <1>1
  <2>2. both[Len(s) + i] = t[i] /\ Len(s) + i \in 1..Len(both)
    BY <1>1, <2>1
  <2> QED
    BY <2>2 DEF Held
<1>4. ASSUME NEW j \in 1..Len(both)
      PROVE  both[j] \in Held(s) \cup Held(t)
  <2>1. CASE j <= Len(s)
    <3>1. j \in 1..Len(s) /\ both[j] = s[j]
      BY <1>1, <2>1
    <3> QED
      BY <3>1 DEF Held
  <2>2. CASE ~(j <= Len(s))
    <3>1. j - Len(s) \in 1..Len(t) /\ both[j] = t[j - Len(s)]
      BY <1>1, <2>2
    <3> QED
      BY <3>1 DEF Held
  <2> QED
    BY <2>1, <2>2
<1>5. Held(both) \subseteq Held(s) \cup Held(t)
  BY <1>4 DEF Held
<1>6. Held(s) \subseteq Held(both) /\ Held(t) \subseteq Held(both)
  BY <1>2, <1>3 DEF Held
<1> QED
  BY <1>5, <1>6 DEF both

LEMMA EmptyIsLenZero ==
    ASSUME NEW S, NEW q \in Seq(S)
    PROVE  Len(q) \in Nat /\ (q = <<>> <=> Len(q) = 0)
BY EmptySeq, LenProperties

------------------------------------------------------------------------------
\* What FlowOf says of a pipe.

LEMMA JoinedLost ==
    /\ Joined \in WifiManagerEvent /\ Joined.type = kConnectionSucceeded
    /\ Lost \in WifiManagerEvent /\ Lost.type = kConnectionFailed
    /\ Joined # Lost
    /\ kConnectionSucceeded # kConnectionFailed
    /\ kCredentialsReceived \notin {kConnectionSucceeded, kConnectionFailed}
    /\ kProvisioningRequested \notin {kConnectionSucceeded, kConnectionFailed, kCredentialsReceived}
<1>1. /\ Joined.type = kConnectionSucceeded
      /\ Lost.type = kConnectionFailed
  BY DEF Joined, Lost, PlainEvent
<1>2. /\ kConnectionSucceeded # kConnectionFailed
      /\ kCredentialsReceived \notin {kConnectionSucceeded, kConnectionFailed}
      /\ kProvisioningRequested \notin {kConnectionSucceeded, kConnectionFailed,
                                        kCredentialsReceived}
  BY DEF kProvisioningRequested, kCredentialsReceived, kConnectionSucceeded, kConnectionFailed
<1>3. Joined \in WifiManagerEvent /\ Lost \in WifiManagerEvent
  BY DEF Joined, Lost, PlainEvent, WifiManagerEvent, WifiManagerEventType
<1> QED
  BY <1>1, <1>2, <1>3

LEMMA FlowShape ==
    ASSUME NEW s, NEW link, NEW lost, NEW p, FlowOf(s, link, lost, p)
    PROVE  /\ p \in {<<>>, <<Joined>>, <<Lost>>, <<Joined, Lost>>} \/ Len(p) = 1
           /\ Len(p) \in 0..2
           /\ \A e \in Held(p) : e.type # kProvisioningRequested
<1>1. CASE p = <<>>
  BY <1>1 DEF Held
<1>2. CASE p = <<Joined>>
  BY <1>2, JoinedLost DEF Held
<1>3. CASE p = <<Lost>>
  BY <1>3, JoinedLost DEF Held
<1>4. CASE p = <<Joined, Lost>>
  <2>1. Len(p) = 2 /\ p[1] = Joined /\ p[2] = Lost
    BY <1>4
  <2>2. \A i \in 1..2 : i = 1 \/ i = 2
    OBVIOUS
  <2>3. \A e \in Held(p) : e \in {Joined, Lost}
    BY <2>1, <2>2 DEF Held
  <2> QED
    BY <1>4, <2>1, <2>3, JoinedLost
<1>5. CASE Len(p) = 1 /\ p[1].type = kCredentialsReceived
  <2>1. \A i \in 1..1 : i = 1
    OBVIOUS
  <2>2. \A e \in Held(p) : e = p[1]
    BY <1>5, <2>1 DEF Held
  <2> QED
    BY <1>5, <2>2, JoinedLost
<1> QED
  BY <1>1, <1>2, <1>3, <1>4, <1>5 DEF FlowOf

\* The first event is out: what it was, and what is left.
LEMMA FlowHead ==
    ASSUME NEW s, NEW link, NEW lost,
           NEW c \in WifiManagerEvent, NEW r \in Seq(WifiManagerEvent),
           FlowOf(s, link, lost, <<c>> \o r)
    PROVE  \/ /\ s = kConnecting /\ c = Joined
              /\ \/ r = <<>> /\ (link = "up" \/ (link = "down" /\ lost))
                 \/ r = <<Lost>> /\ link = "down"
           \/ c = Lost /\ r = <<>> /\ link = "down" /\ s \in {kConnecting, kConnected}
           \/ c.type = kCredentialsReceived /\ r = <<>> /\ link = "down" /\ s = kPortal
<1> DEFINE p == <<c>> \o r
<1>1. /\ p \in Seq(WifiManagerEvent) /\ p # <<>> /\ p[1] = c
      /\ Len(p) = Len(r) + 1
      /\ \A i \in 1..Len(r) : p[i + 1] = r[i]
  BY FirstThen
<1>2. FlowOf(s, link, lost, p)
  OBVIOUS
<1> HIDE DEF p
<1>3. Len(r) \in Nat /\ (r = <<>> <=> Len(r) = 0)
  BY EmptyIsLenZero
<1>4. CASE p = <<Joined>>
  <2>1. c = Joined /\ r = <<>>
    BY <1>1, <1>3, <1>4
  <2> QED
    BY <1>1, <1>2, <1>4, <2>1, JoinedLost DEF FlowOf
<1>5. CASE p = <<Lost>>
  <2>1. c = Lost /\ r = <<>>
    BY <1>1, <1>3, <1>5
  <2> QED
    BY <1>1, <1>2, <1>5, <2>1, JoinedLost DEF FlowOf
<1>6. CASE p = <<Joined, Lost>>
  <2>1. Len(p) = 2 /\ p[1] = Joined /\ p[2] = Lost
    BY <1>6
  <2>2. c = Joined /\ Len(r) = 1 /\ r[1] = Lost
    BY <1>1, <1>3, <2>1
  <2>3. r = <<Lost>>
    <3>1. <<Lost>> \in Seq(WifiManagerEvent) /\ Len(<<Lost>>) = 1 /\ <<Lost>>[1] = Lost
      BY JoinedLost
    <3> QED
      BY <2>2, <3>1, SeqEqual
  <2>4. s = kConnecting /\ link = "down"
    BY <1>1, <1>2, <1>6, <2>1, JoinedLost DEF FlowOf
  <2> QED
    BY <2>2, <2>3, <2>4
<1>7. CASE s = kPortal /\ link = "down" /\ Len(p) = 1 /\ p[1].type = kCredentialsReceived
  BY <1>1, <1>3, <1>7
<1> QED
  BY <1>1, <1>2, <1>4, <1>5, <1>6, <1>7 DEF FlowOf

LEMMA SecondAppended ==
    ASSUME NEW S, NEW x \in S, NEW y \in S
    PROVE  Append(<<x>>, y) = <<x, y>>
<1> DEFINE one == <<x>>
           two == <<x, y>>
           both == Append(one, y)
<1>1. one \in Seq(S) /\ Len(one) = 1 /\ one[1] = x
  OBVIOUS
<1>2. two \in Seq(S) /\ Len(two) = 2 /\ two[1] = x /\ two[2] = y
  OBVIOUS
<1> HIDE DEF one, two
<1>3. both \in Seq(S) /\ Len(both) = Len(one) + 1
  BY <1>1, AppendProperties
<1>4. \A i \in 1..Len(one) : both[i] = one[i]
  BY <1>1, AppendProperties
<1>5. both[Len(one) + 1] = y
  BY <1>1, AppendProperties
<1> HIDE DEF both
<1>6. Len(both) = 2 /\ both[1] = x /\ both[2] = y
  BY <1>1, <1>3, <1>4, <1>5
<1>7. \A i \in 1..Len(both) : both[i] = two[i]
  <2>1. \A i \in 1..2 : i = 1 \/ i = 2
    OBVIOUS
  <2> QED
    BY <1>2, <1>6, <2>1
<1>8. both = two
  BY <1>2, <1>3, <1>6, <1>7, SeqEqual
<1> QED
  BY <1>8 DEF both, one, two

\* A driver that moves adds to the pipe.
LEMMA FlowPosts ==
    ASSUME NEW s, NEW lost, NEW p \in Seq(WifiManagerEvent)
    PROVE  /\ FlowOf(s, "connecting", lost, p) =>
                 /\ FlowOf(s, "up", lost, Append(p, Joined))
                 /\ FlowOf(s, "down", lost, Append(p, Lost))
           /\ FlowOf(s, "up", lost, p) => FlowOf(s, "down", lost, Append(p, Lost))
<1>1. ASSUME NEW x \in WifiManagerEvent
      PROVE  Append(<<>>, x) = <<x>>
  OBVIOUS
<1>2. Append(<<Joined>>, Lost) = <<Joined, Lost>>
  BY JoinedLost, SecondAppended
<1>3. FlowOf(s, "connecting", lost, p) => s = kConnecting /\ p = <<>>
  BY DEF FlowOf
<1>4. FlowOf(s, "up", lost, p) => \/ s = kConnecting /\ p = <<Joined>>
                                  \/ s = kConnected /\ p = <<>>
  BY DEF FlowOf
<1>5. Append(<<>>, Joined) = <<Joined>> /\ Append(<<>>, Lost) = <<Lost>>
  BY <1>1, JoinedLost
<1>6. /\ FlowOf(kConnecting, "up", lost, <<Joined>>)
      /\ FlowOf(kConnecting, "down", lost, <<Lost>>)
      /\ FlowOf(kConnecting, "down", lost, <<Joined, Lost>>)
      /\ FlowOf(kConnected, "down", lost, <<Lost>>)
  BY Zenon DEF FlowOf
<1> QED
  BY <1>2, <1>3, <1>4, <1>5, <1>6

------------------------------------------------------------------------------
LEMMA FlowGives ==
    ASSUME CalmInv, SoftApInv, FlowInv
    PROVE  /\ Hand \in Seq(WifiManagerEvent) /\ queue \in Seq(WifiManagerEvent)
           /\ drv.events \in Seq(DriverEvent)
           /\ AllTold(drv.events) \in Seq(WifiManagerEvent)
           /\ Len(AllTold(drv.events)) = Len(drv.events)
           /\ Pipe \in Seq(WifiManagerEvent)
           /\ Len(Pipe) = Len(Hand) + (Len(queue) + Len(drv.events))
           /\ Hand = IF task = "dispatch" THEN <<current>> ELSE <<>>
           /\ Len(Hand) = IF task = "dispatch" THEN 1 ELSE 0
           /\ Pipe = <<>> <=> task # "dispatch" /\ queue = <<>> /\ drv.events = <<>>
           /\ ~running => /\ Pipe = <<>> /\ drv.link = "down"
                          /\ state \notin {kConnecting, kConnected, kPortal}
           /\ running => taskRunning \/ app = "creating"
           /\ app = "creating" => task = "none"
<1>1. /\ queue \in Seq(WifiManagerEvent) /\ drv.events \in Seq(DriverEvent)
      /\ current \in WifiManagerEvent /\ running \in BOOLEAN
  BY CalmGives
<1>2. /\ Hand \in Seq(WifiManagerEvent)
      /\ Len(Hand) = IF task = "dispatch" THEN 1 ELSE 0
  BY <1>1 DEF Hand
<1>3. /\ AllTold(drv.events) \in Seq(WifiManagerEvent)
      /\ Len(AllTold(drv.events)) = Len(drv.events)
  BY <1>1, AllToldType
<1>4. /\ Pipe \in Seq(WifiManagerEvent)
      /\ Len(Pipe) = Len(Hand) + (Len(queue) + Len(drv.events))
  <2> DEFINE h == Hand
             t == AllTold(drv.events)
  <2>1. h \in Seq(WifiManagerEvent) /\ t \in Seq(WifiManagerEvent)
    BY <1>2, <1>3
  <2> HIDE DEF h, t
  <2>2. h \o (queue \o t) \in Seq(WifiManagerEvent)
    BY <1>1, <2>1, JoinedLost, PipeMoves
  <2>3. Len(h \o (queue \o t)) = Len(h) + (Len(queue) + Len(t))
    BY <1>1, <2>1, JoinedLost, PipeMoves
  <2>4. Pipe = h \o (queue \o t)
    BY DEF Pipe, Flowing, h, t
  <2>5. Len(t) = Len(drv.events)
    BY <1>3 DEF t
  <2> QED
    BY <2>2, <2>3, <2>4, <2>5 DEF h
<1>5. Pipe = <<>> <=> task # "dispatch" /\ queue = <<>> /\ drv.events = <<>>
  <2>1. /\ Len(Pipe) \in Nat /\ (Pipe = <<>> <=> Len(Pipe) = 0)
        /\ Len(queue) \in Nat /\ (queue = <<>> <=> Len(queue) = 0)
        /\ Len(drv.events) \in Nat /\ (drv.events = <<>> <=> Len(drv.events) = 0)
    BY <1>1, <1>4, EmptyIsLenZero
  <2>2. CASE task = "dispatch"
    BY <1>2, <1>4, <2>1, <2>2
  <2>3. CASE task # "dispatch"
    BY <1>2, <1>4, <2>1, <2>3
  <2> QED
    BY <2>2, <2>3
<1>6. ASSUME ~running
      PROVE  /\ Pipe = <<>> /\ drv.link = "down"
             /\ state \notin {kConnecting, kConnected, kPortal}
  <2>1. state \in {kInit, kStopped, kError}
    BY <1>6, CalmGives DEF ManagerInv, RestInv
  <2>2. state \notin {kConnecting, kConnected, kPortal}
    BY <2>1
  <2> QED
    BY <2>2, Zenon DEF FlowInv, FlowOf
<1>7. running => taskRunning \/ app = "creating"
  <2>1. app \in {"idle", "creating", "stopping"}
    BY CalmGives, TaskTypeGives
  <2> QED
    BY <2>1, CalmGives DEF SoftApInv
<1>8. app = "creating" => task = "none"
  BY CalmGives DEF BaseInv
<1> QED
  BY <1>1, <1>2, <1>3, <1>4, <1>5, <1>6, <1>7, <1>8 DEF Hand

\* An event of the pipe is in the task's hand, in the queue, or posted.
LEMMA PipeHolds ==
    ASSUME CalmInv, SoftApInv, FlowInv
    PROVE  /\ Held(Pipe) = Held(Hand) \cup (Held(queue) \cup {Told(e) : e \in Held(drv.events)})
           /\ Held(Hand) = IF task = "dispatch" THEN {current} ELSE {}
<1> DEFINE t == AllTold(drv.events)
           h == Hand
           es == drv.events
<1>1. /\ h \in Seq(WifiManagerEvent) /\ queue \in Seq(WifiManagerEvent)
      /\ t \in Seq(WifiManagerEvent) /\ Len(t) = Len(es)
      /\ \A i \in 1..Len(es) : t[i] = Told(es[i])
  BY FlowGives, AllToldType
<1>2. Pipe = h \o (queue \o t)
  BY DEF Pipe, Flowing
<1> HIDE DEF t, h, es
<1> DEFINE rest == queue \o t
<1>3. rest \in Seq(WifiManagerEvent)
  BY <1>1, ConcatProperties
<1>4. Held(rest) = Held(queue) \cup Held(t)
  BY <1>1, ConcatHolds
<1> HIDE DEF rest
<1>5. Held(h \o rest) = Held(h) \cup Held(rest)
  BY <1>1, <1>3, ConcatHolds
<1>6. Held(t) = {Told(e) : e \in Held(es)}
  BY <1>1 DEF Held
<1>7. Held(h) = IF task = "dispatch" THEN {current} ELSE {}
  <2>1. Held(<<>>) = {}
    BY DEF Held
  <2>2. Held(<<current>>) = {current}
    <3>1. \A i \in 1..1 : i = 1
      OBVIOUS
    <3> QED
      BY <3>1 DEF Held
  <2> QED
    BY <2>1, <2>2 DEF h, Hand
<1> QED
  BY <1>2, <1>4, <1>5, <1>6, <1>7 DEF h, es, rest

------------------------------------------------------------------------------
\* Step by step.

\* What README.md:31, 34 and 38 say of the way out of the portal.
LeavesPortal ==
    \/ state' = kConnecting /\ InHand(kCredentialsReceived)
    \/ state' \in {kStopped, kError}
    \/ PowerLoss

FlowStays == FlowInv' /\ (state = kPortal /\ state' # kPortal => LeavesPortal)

\* The pipe from its parts, in the next state.
LEMMA PipeNext ==
    ASSUME NEW h, NEW q, NEW es, Hand' = h, queue' = q, drv'.events = es
    PROVE  Pipe' = Flowing(h, q, es)
BY DEF Pipe

LEMMA EmptyPipe ==
    /\ Flowing(<<>>, <<>>, <<>>) = <<>>
    /\ \A s, lost : s # kConnected =>
          FlowOf(s, IF s = kConnecting THEN "connecting" ELSE "down", lost, <<>>)
<1>1. Flowing(<<>>, <<>>, <<>>) = <<>>
  <2>1. <<>> \in Seq(WifiManagerEvent)
    BY EmptySeq
  <2>2. AllTold(<<>>) = <<>>
    BY EmptySeq, AllToldMoves DEF DriverEvent
  <2>3. <<>> \o <<>> = <<>>
    BY <2>1, ConcatEmptySeq
  <2> QED
    BY <2>2, <2>3 DEF Flowing
<1>2. ASSUME NEW s, NEW lost, s # kConnected
      PROVE  FlowOf(s, IF s = kConnecting THEN "connecting" ELSE "down", lost, <<>>)
  <2>1. CASE s = kConnecting
    BY <2>1 DEF FlowOf
  <2>2. CASE s = kPortal
    BY <2>2 DEF FlowOf
  <2>3. CASE s \notin {kConnecting, kConnected, kPortal}
    BY <2>3 DEF FlowOf
  <2> QED
    BY <1>2, <2>1, <2>2, <2>3
<1> QED
  BY <1>1, <1>2

\* Steps that leave the pipe, the link and the state alone.
LEMMA FlowKept ==
    ASSUME FlowInv, UNCHANGED <<state, drv, queue, lostEvent>>, Hand' = Hand
    PROVE  FlowStays
<1>1. Pipe' = Pipe
  BY DEF Pipe
<1> QED
  BY <1>1 DEF FlowStays, FlowInv

\* Steps after which nothing is on its way.
LEMMA FlowEmpty ==
    ASSUME Pipe' = <<>>, state' # kConnected,
           drv'.link = IF state' = kConnecting THEN "connecting" ELSE "down",
           state = kPortal /\ state' # kPortal => LeavesPortal
    PROVE  FlowStays
<1>1. FlowOf(state', drv'.link, lostEvent', <<>>)
  BY EmptyPipe
<1> QED
  BY <1>1 DEF FlowStays, FlowInv

\* At rest nothing is on its way: the steps of an application that owns a manager at
\* rest, and the loss of power.
LEMMA FlowAtRest ==
    ASSUME Obeys, CalmInv, SoftApInv, FlowInv, TaskInit \/ TaskStart \/ Destroy \/ PowerLoss
    PROVE  FlowStays
<1>1. ASSUME ~running
      PROVE  /\ task # "dispatch" /\ queue = <<>> /\ drv.events = <<>> /\ drv.link = "down"
             /\ state \in {kInit, kStopped, kError}
             /\ Hand = <<>>
  BY <1>1, FlowGives, CalmGives DEF ManagerInv, RestInv
<1>2. CASE TaskInit
  <2>1. ~running /\ UNCHANGED drv /\ state' \in {state, kInit}
    BY <1>2, InitCalm, CalmGives DEF TaskInit
  <2>2. UNCHANGED <<queue, Hand>>
    BY <1>2 DEF TaskInit, queueVars, taskVars, Hand
  <2>3. Pipe' = <<>>
    BY <1>1, <2>1, <2>2, PipeNext, EmptyPipe
  <2> QED
    BY <1>1, <2>1, <2>3, FlowEmpty
<1>3. CASE TaskStart
  <2>1. ~running /\ queue' = <<>> /\ Hand' = <<>>
    BY <1>3, CalmGives DEF TaskStart, Hand
  <2>2. \/ UNCHANGED <<state, drv>>
        \/ state' # kConnected /\ Dialled(drv, state', drv')
    BY <1>3, StartStaysCalm
  <2>3. /\ drv'.events = <<>> /\ state' # kConnected
        /\ drv'.link = IF state' = kConnecting THEN "connecting" ELSE "down"
    BY <1>1, <2>1, <2>2 DEF Dialled
  <2>4. Pipe' = <<>>
    BY <2>1, <2>3, PipeNext, EmptyPipe
  <2> QED
    BY <1>1, <2>1, <2>3, <2>4, FlowEmpty
<1>4. CASE Destroy
  <2>1. ~running
    BY <1>4, CalmGives DEF Destroy
  <2>2. /\ queue' = <<>> /\ Hand' = <<>> /\ state' = kInit
        /\ drv'.events = <<>> /\ drv'.link = "down"
    BY <1>1, <1>4, <2>1, DestroyStaysCalm DEF Destroy, TaskConstruct, Construct, Hand
  <2>3. Pipe' = <<>>
    BY <2>2, PipeNext, EmptyPipe
  <2> QED
    BY <1>1, <2>1, <2>2, <2>3, FlowEmpty
<1>5. CASE PowerLoss
  <2>1. /\ queue' = <<>> /\ Hand' = <<>> /\ state' = kInit
        /\ drv'.events = <<>> /\ drv'.link = "down"
    BY <1>5 DEF PowerLoss, TaskConstruct, Construct, FreshDriver, Hand
  <2>2. Pipe' = <<>>
    BY <2>1, PipeNext, EmptyPipe
  <2> QED
    BY <1>5, <2>1, <2>2, FlowEmpty DEF LeavesPortal
<1> QED
  BY <1>2, <1>3, <1>4, <1>5

\* The task waits, or takes the oldest event.
LEMMA FlowLoop ==
    ASSUME CalmInv, SoftApInv, FlowInv, TaskCreated \/ Receive \/ ReceiveTimesOut \/ LeaveLoop
    PROVE  FlowStays
<1>1. UNCHANGED <<state, drv, lostEvent>>
  BY DEF TaskCreated, Receive, ReceiveTimesOut, LeaveLoop, objectVars, faceVars, queueVars
<1>2. CASE TaskCreated \/ ReceiveTimesOut \/ LeaveLoop
  <2>1. Hand' = Hand /\ UNCHANGED queue
    BY <1>2, FlowGives DEF TaskCreated, ReceiveTimesOut, LeaveLoop, Hand, queueVars
  <2> QED
    BY <1>1, <2>1, FlowKept
<1>3. CASE Receive
  <2>1. queue # <<>> /\ task = "loop"
    BY <1>3 DEF Receive
  <2>2. taskRunning
    BY <2>1, FlowGives
  <2> DEFINE x == Head(queue)
             r == Tail(queue)
             t == AllTold(drv.events)
  <2>3. queue = <<x>> \o r /\ x \in WifiManagerEvent /\ r \in Seq(WifiManagerEvent)
    BY <2>1, FlowGives, HeadFirst
  <2>4. Hand = <<>> /\ Hand' = <<x>> /\ queue' = r
    BY <1>3, <2>1, <2>2 DEF Receive, Hand
  <2>5. t \in Seq(WifiManagerEvent) /\ <<>> \in Seq(WifiManagerEvent)
    BY FlowGives, EmptySeq
  <2>6. Pipe = <<>> \o (queue \o t) /\ Pipe' = <<x>> \o (r \o t)
    BY <1>1, <2>4 DEF Pipe, Flowing
  <2> HIDE DEF x, r, t
  <2>7. (<<x>> \o r) \o t = <<x>> \o (r \o t)
    BY <2>3, <2>5, FirstOfBoth
  <2>8. <<>> \o (queue \o t) = queue \o t
    BY <2>3, <2>5, FlowGives, PipeMoves
  <2>9. Pipe' = Pipe
    BY <2>3, <2>6, <2>7, <2>8
  <2> QED
    BY <1>1, <2>9 DEF FlowStays, FlowInv
<1> QED
  BY <1>2, <1>3

LEMMA FlowDispatch ==
    ASSUME Obeys, CalmInv, SoftApInv, FlowInv, DispatchReceived
    PROVE  FlowStays
<1> DEFINE t == AllTold(drv.events)
           r == queue \o t
<1>1. /\ task = "dispatch" /\ task' = "loop" /\ UNCHANGED <<queue, lostEvent>>
      /\ Hand = <<current>> /\ Hand' = <<>>
  BY DEF DispatchReceived, queueVars, Hand
<1>2. /\ queue \in Seq(WifiManagerEvent) /\ t \in Seq(WifiManagerEvent)
      /\ <<>> \in Seq(WifiManagerEvent) /\ current \in WifiManagerEvent
  BY FlowGives, CalmGives, EmptySeq
<1>3. Pipe = <<current>> \o r
  BY <1>1 DEF Pipe, Flowing
<1>4. drv'.events = drv.events => Pipe' = <<>> \o r
  BY <1>1 DEF Pipe, Flowing
<1>5. r \in Seq(WifiManagerEvent)
  BY <1>2, ConcatProperties
<1> HIDE DEF r
<1>6. drv'.events = drv.events => Pipe' = r
  BY <1>4, <1>5, ConcatEmptySeq
<1>7. CalmMoves(current)
  <2>1. running
    BY <1>1, FlowGives
  <2> QED
    BY <2>1, DispatchStaysCalm
<1>8. \/ /\ state = kConnecting /\ current = Joined
         /\ \/ r = <<>> /\ (drv.link = "up" \/ (drv.link = "down" /\ lostEvent))
            \/ r = <<Lost>> /\ drv.link = "down"
      \/ current = Lost /\ r = <<>> /\ drv.link = "down" /\ state \in {kConnecting, kConnected}
      \/ current.type = kCredentialsReceived /\ r = <<>> /\ drv.link = "down" /\ state = kPortal
  <2>1. FlowOf(state, drv.link, lostEvent, <<current>> \o r)
    BY <1>3 DEF FlowInv
  <2> QED
    BY <1>2, <1>5, <2>1, FlowHead
<1>9. CASE /\ state = kConnecting /\ current = Joined
           /\ \/ r = <<>> /\ (drv.link = "up" \/ (drv.link = "down" /\ lostEvent))
              \/ r = <<Lost>> /\ drv.link = "down"
  <2>1. state' = kConnected /\ UNCHANGED drv
    BY <1>7, <1>9, JoinedLost DEF CalmMoves
  <2>2. Pipe' = r
    BY <1>6, <2>1
  <2>3. FlowOf(kConnected, drv.link, lostEvent, r)
    BY <1>9 DEF FlowOf
  <2> QED
    BY <1>1, <1>9, <2>1, <2>2, <2>3 DEF FlowStays, FlowInv
<1>10. ASSUME r = <<>>, drv.link = "down", current.type # kConnectionSucceeded,
              current.type = kCredentialsReceived => state = kPortal,
              state = kPortal => current.type = kCredentialsReceived
       PROVE  FlowStays
  <2>1. \/ state' # kConnected /\ Dialled(drv, state', drv')
        \/ state = kPortal /\ UNCHANGED <<state, drv>>
    BY <1>7, <1>10 DEF CalmMoves
  <2>2. /\ state' # kConnected /\ drv'.events = drv.events
        /\ drv'.link = IF state' = kConnecting THEN "connecting" ELSE "down"
    BY <1>10, <2>1 DEF Dialled
  <2>3. state = kPortal /\ state' # kPortal => LeavesPortal
    BY <1>1, <1>7, <1>10 DEF CalmMoves, LeavesPortal, InHand
  <2>4. Pipe' = <<>>
    BY <1>6, <1>10, <2>2
  <2> QED
    BY <2>2, <2>3, <2>4, FlowEmpty
<1> QED
  BY <1>8, <1>9, <1>10, JoinedLost

LEMMA FlowTick ==
    ASSUME Obeys, CalmInv, SoftApInv, FlowInv, Tick
    PROVE  FlowStays
<1>1. UNCHANGED <<queue, lostEvent>> /\ Hand' = Hand
  BY DEF Tick, queueVars, Hand
<1>2. CASE UNCHANGED <<state, drv>>
  BY <1>1, <1>2, FlowKept
<1>3. CASE state = kWaitingToRetry /\ CalmMoves(PlainEvent(kRetryTimerElapsed))
  <2>1. drv.link = "down" /\ Pipe = <<>>
    BY <1>3 DEF FlowInv, FlowOf
  <2>2. PlainEvent(kRetryTimerElapsed).type \notin {kConnectionSucceeded, kCredentialsReceived}
    BY DEF PlainEvent, kRetryTimerElapsed, kConnectionSucceeded, kCredentialsReceived
  <2>3. state' # kConnected /\ Dialled(drv, state', drv')
    BY <1>3, <2>1, <2>2 DEF CalmMoves
  <2>4. Pipe' = <<>>
    BY <1>1, <2>1, <2>3 DEF Pipe, Dialled
  <2> QED
    BY <1>3, <2>1, <2>3, <2>4, FlowEmpty DEF Dialled
<1> QED
  BY <1>2, <1>3, TickStaysCalm
\* The event loop hands the manager the oldest of the driver's events.  A queue that is
\* full drops it; with two events at most on their way that is the loss of a link whose
\* address has filled a queue of one.
LEMMA FlowHandle ==
    ASSUME CalmInv, SoftApInv, FlowInv, HandleAdapterEvent
    PROVE  FlowStays
<1> DEFINE es == drv.events
           e  == Head(es)
           x  == Told(e)
           t  == AllTold(Tail(es))
           h  == Hand
<1>1. es # <<>> /\ es \in Seq(DriverEvent)
  BY FlowGives DEF HandleAdapterEvent
<1>2. running /\ externalQueue /\ ad.initialized
  <2>1. Pipe # <<>>
    BY <1>1, FlowGives
  <2>2. running
    BY <2>1, FlowGives
  <2> QED
    BY <2>2, CalmGives DEF BaseInv
<1>3. e \in DriverEvent /\ Tail(es) \in Seq(DriverEvent) /\ AllTold(es) = <<x>> \o t
  <2>1. "fail" \in DriverEvent
    BY DEF DriverEvent
  <2> QED
    BY <1>1, <2>1, AllToldMoves
<1>4. x \in WifiManagerEvent /\ t \in Seq(WifiManagerEvent) /\ Len(t) = Len(Tail(es))
  BY <1>3, ToldType, AllToldType
<1>5. h \in Seq(WifiManagerEvent) /\ queue \in Seq(WifiManagerEvent)
  BY FlowGives
<1>6. e # "leave"
  <2>1. e \in Held(es)
    <3>1. Len(es) \in Nat \ {0} /\ Head(es) = es[1]
      BY <1>1, EmptySeq, LenProperties
    <3>2. 1 \in 1..Len(es)
      BY <3>1
    <3> QED
      BY <3>1, <3>2 DEF Held
  <2>2. x \in Held(Pipe)
    BY <2>1, PipeHolds
  <2>3. x.type # kProvisioningRequested
    BY <2>2, FlowShape DEF FlowInv
  <2> QED
    BY <1>3, <2>3, ToldType
<1>7. /\ UNCHANGED <<state, task, current>>
      /\ drv'.link = drv.link /\ drv'.events = Tail(es)
      /\ queue' = IF Len(queue) < QueueCapacity THEN Append(queue, x) ELSE queue
      /\ lostEvent' = (lostEvent \/ Len(queue) = QueueCapacity)
  <2> DEFINE face == FaceOf(state, runtimeStatus, portal, AfterEvent(ad, e),
                            [drv EXCEPT !.events = Tail(@)])
  <2>1. Emits(ad, e) /\ x = EmittedEvent(e)
    BY <1>2, <1>6 DEF Emits, Told
  <2>2. /\ face.state = state /\ face.drv.link = drv.link /\ face.drv.events = Tail(es)
    <3>1. drv \in Driver
      BY CalmGives
    <3> QED
      BY <3>1 DEF FaceOf, Driver
  <2>3. Deliver(EmittedEvent(e), face)
        /\ lostEvent' = (lostEvent \/ (externalQueue /\ Len(queue) = QueueCapacity))
    BY <2>1 DEF HandleAdapterEvent
  <2>4. UNCHANGED <<task, current>>
    BY DEF HandleAdapterEvent, taskVars
  <2> HIDE DEF face
  <2>5. Becomes(face)
        /\ queue' = IF Len(queue) < QueueCapacity THEN Append(queue, EmittedEvent(e)) ELSE queue
    BY <1>2, <2>3 DEF Deliver, Unhandled
  <2> QED
    BY <1>2, <2>1, <2>2, <2>3, <2>4, <2>5 DEF Becomes
<1>8. Pipe = h \o (queue \o AllTold(es)) /\ Pipe' = h \o (queue' \o t)
  BY <1>7 DEF Pipe, Flowing, Hand
<1>9. Len(queue) \in Nat /\ Len(queue) <= QueueCapacity /\ QueueCapacity \in Nat \ {0}
  BY CalmGives, CapacityAssumption, TaskTypeGives DEF Queues
<1> HIDE DEF e, x, t, h
<1>10. CASE Len(queue) < QueueCapacity
  <2>1. queue' = Append(queue, x) /\ lostEvent' = lostEvent
    BY <1>7, <1>9, <1>10, CalmGives, TaskTypeGives
  <2>2. queue \o (<<x>> \o t) = Append(queue, x) \o t
    BY <1>4, <1>5, FirstIsQueued
  <2>3. Pipe' = Pipe
    BY <1>3, <1>8, <2>1, <2>2
  <2> QED
    BY <1>7, <2>1, <2>3 DEF FlowStays, FlowInv
<1>11. CASE Len(queue) = QueueCapacity
  <2>1. queue' = queue /\ lostEvent'
    <3>1. queue' = queue
      BY <1>7, <1>9, <1>11
    <3>2. lostEvent'
      BY <1>7, <1>11, Zenon
    <3> QED
      BY <3>1, <3>2
  <2>2. /\ Len(h) \in Nat /\ (h = <<>> <=> Len(h) = 0)
        /\ Len(t) \in Nat /\ (t = <<>> <=> Len(t) = 0)
        /\ Len(Pipe) = Len(h) + (Len(queue) + Len(es))
        /\ Len(es) = Len(t) + 1
    <3>1. Len(Tail(es)) = Len(es) - 1 /\ Len(es) \in Nat \ {0}
      BY <1>1, HeadTailProperties, EmptySeq, LenProperties
    <3>2. Len(h) \in Nat /\ (h = <<>> <=> Len(h) = 0)
      BY <1>5, EmptyIsLenZero
    <3>3. Len(t) \in Nat /\ (t = <<>> <=> Len(t) = 0)
      BY <1>4, EmptyIsLenZero
    <3>4. Len(Pipe) = Len(h) + (Len(queue) + Len(es))
      BY FlowGives DEF h
    <3> QED
      BY <1>4, <3>1, <3>2, <3>3, <3>4
  <2>3. Len(Pipe) \in 0..2
    BY FlowShape DEF FlowInv
  <2>4. h = <<>> /\ t = <<>> /\ Len(queue) = 1 /\ Len(es) = 1 /\ Len(Pipe) = 2
    BY <1>9, <1>11, <2>2, <2>3
  <2>5. state = kConnecting /\ Pipe = <<Joined, Lost>> /\ drv.link = "down"
    <3>1. Len(<<>>) = 0 /\ Len(<<Joined>>) = 1 /\ Len(<<Lost>>) = 1
      OBVIOUS
    <3>2. Len(Pipe) \notin {0, 1}
      BY <2>4
    <3>3. /\ Pipe # <<>> /\ Pipe # <<Joined>> /\ Pipe # <<Lost>> /\ Len(Pipe) # 1
      BY <3>1, <3>2
    <3> QED
      BY <3>3 DEF FlowInv, FlowOf
  <2>6. Pipe' = <<Joined>>
    <3>1. Pipe' = queue /\ Pipe = queue \o <<x>>
      <4>1. /\ <<>> \in Seq(WifiManagerEvent)
            /\ queue \o <<>> = queue /\ <<>> \o queue = queue
        BY <1>5, EmptySeq, ConcatEmptySeq
      <4> DEFINE one == <<x>>
      <4>2. one \in Seq(WifiManagerEvent)
        BY <1>4
      <4> HIDE DEF one
      <4>3. one \o <<>> = one /\ queue \o one \in Seq(WifiManagerEvent)
            /\ <<>> \o (queue \o one) = queue \o one
        <5>1. one \o <<>> = one
          BY <4>2, ConcatEmptySeq
        <5>2. queue \o one \in Seq(WifiManagerEvent)
          BY <1>5, <4>2, ConcatProperties
        <5>3. <<>> \o (queue \o one) = queue \o one
          BY <5>2, ConcatEmptySeq
        <5> QED
          BY <5>1, <5>2, <5>3
      <4>4. Pipe = <<>> \o (queue \o (one \o <<>>)) /\ Pipe' = <<>> \o (queue \o <<>>)
        BY <1>3, <1>8, <2>1, <2>4 DEF one
      <4> QED
        BY <4>1, <4>3, <4>4 DEF one
    <3>2. Append(queue, x) = queue \o <<x>>
      BY <1>4, <1>5, AppendIsConcat
    <3>3. queue[1] = Append(queue, x)[1]
      <4>1. \A i \in 1..Len(queue) : Append(queue, x)[i] = queue[i]
        BY <1>4, <1>5, AppendProperties
      <4> QED
        BY <2>4, <4>1
    <3>4. queue[1] = Joined
      BY <2>5, <3>1, <3>2, <3>3
    <3> DEFINE one == <<Joined>>
    <3>5. one \in Seq(WifiManagerEvent) /\ Len(one) = 1 /\ one[1] = Joined
      BY JoinedLost
    <3> HIDE DEF one
    <3>6. \A i \in 1..1 : i = 1
      OBVIOUS
    <3>7. queue = one
      BY <1>5, <2>4, <3>4, <3>5, <3>6, SeqEqual
    <3> QED
      BY <3>1, <3>7 DEF one
  <2>7. FlowOf(kConnecting, "down", TRUE, <<Joined>>)
    BY DEF FlowOf
  <2> QED
    BY <1>7, <2>1, <2>5, <2>6, <2>7 DEF FlowStays, FlowInv
<1> QED
  BY <1>9, <1>10, <1>11

\* A form comes in by a portal with nothing on its way: the one form at a time that the
\* page submits.
LEMMA FlowPost ==
    ASSUME CalmInv, SoftApInv, FlowInv, PostConnect, "Resubmit" \notin Inputs
    PROVE  FlowStays
<1>1. PICK credentials \in Credentials :
         Deliver([type |-> kCredentialsReceived, credentials |-> credentials], Face)
  BY DEF PostConnect
<1> DEFINE c == [type |-> kCredentialsReceived, credentials |-> credentials]
<1>2. running /\ externalQueue /\ state = kPortal /\ UNCHANGED <<state, drv>>
  BY PostStaysCalm
<1>3. c \in WifiManagerEvent /\ c.type = kCredentialsReceived
  BY EventType
<1>4. Pipe = <<>>
  <2> SUFFICES ASSUME Pipe # <<>> PROVE FALSE
    OBVIOUS
  <2>1. Len(Pipe) = 1 /\ Pipe[1].type = kCredentialsReceived
    BY <1>2 DEF FlowInv, FlowOf
  <2>2. Pipe[1] \in Held(Pipe)
    <3>1. 1 \in 1..1
      OBVIOUS
    <3> QED
      BY <2>1, <3>1 DEF Held
  <2>3. ~(InQueue(kCredentialsReceived) \/ InHand(kCredentialsReceived))
    BY DEF PostConnect
  <2>4. CASE Pipe[1] \in Held(queue)
    BY <2>1, <2>3, <2>4 DEF Held, InQueue
  <2>5. CASE Pipe[1] \in Held(Hand)
    BY <2>1, <2>3, <2>5, PipeHolds DEF InHand
  <2>6. CASE Pipe[1] \in {Told(e) : e \in Held(drv.events)}
    <3>1. PICK e \in Held(drv.events) : Pipe[1] = Told(e)
      BY <2>6
    <3>2. e \in DriverEvent
      <4>1. \A i \in 1..Len(drv.events) : drv.events[i] \in DriverEvent
        BY FlowGives
      <4> QED
        BY <4>1 DEF Held
    <3> QED
      BY <2>1, <3>1, <3>2, ToldType
  <2> QED
    BY <2>2, <2>4, <2>5, <2>6, PipeHolds
<1>5. task # "dispatch" /\ queue = <<>> /\ drv.events = <<>>
  BY <1>4, FlowGives
<1>6. QueueCapacity \in Nat \ {0}
  BY CapacityAssumption
<1> HIDE DEF c
<1>7. queue' = <<c>> /\ UNCHANGED <<lostEvent, task, current>>
  <2>1. queue' = IF Len(queue) < QueueCapacity THEN Append(queue, c) ELSE queue
    BY <1>1, <1>2 DEF Deliver, c
  <2>2. Len(queue) < QueueCapacity
    BY <1>5, <1>6
  <2>3. Append(<<>>, c) = <<c>>
    OBVIOUS
  <2>4. UNCHANGED <<lostEvent, task, current>>
    BY DEF PostConnect, taskVars
  <2> QED
    BY <1>5, <2>1, <2>2, <2>3, <2>4
<1>8. Pipe' = <<c>>
  <2> DEFINE one == <<c>>
  <2>1. one \in Seq(WifiManagerEvent) /\ <<>> \in Seq(WifiManagerEvent)
    BY <1>3, EmptySeq
  <2>2. Hand' = <<>> /\ queue' = one /\ AllTold(drv'.events) = <<>>
    BY <1>2, <1>5, <1>7, EmptySeq, AllToldMoves DEF Hand, DriverEvent
  <2> HIDE DEF one
  <2>3. Pipe' = <<>> \o (one \o <<>>)
    BY <2>2 DEF Pipe, Flowing
  <2>4. one \o <<>> = one /\ <<>> \o one = one
    BY <2>1, ConcatEmptySeq
  <2> QED
    BY <2>3, <2>4 DEF one
<1>9. FlowOf(kPortal, "down", lostEvent, <<c>>)
  BY <1>3 DEF FlowOf
<1>10. drv.link = "down"
  BY <1>2 DEF FlowInv, FlowOf
<1> QED
  BY <1>2, <1>7, <1>8, <1>9, <1>10 DEF FlowStays, FlowInv

\* Every change of the link announces itself.
LEMMA FlowDriver ==
    ASSUME CalmInv, SoftApInv, FlowInv, StationConnects \/ StationFails \/ StationIsLost
    PROVE  FlowStays
<1>1. /\ UNCHANGED <<state, queue, lostEvent, task, current>>
      /\ drv' \in LinkComesUp(drv) \cup ConnectFails(drv) \cup LinkIsLost(drv)
  BY DEF StationConnects, StationFails, StationIsLost, DriverMoves, queueVars, taskVars
<1>2. \/ /\ drv.link = "connecting" /\ drv'.link = "up"
         /\ drv'.events = Append(drv.events, "gotip")
      \/ /\ drv.link \in {"connecting", "up"} /\ drv'.link = "down"
         /\ drv'.events = Append(drv.events, "fail")
  BY <1>1 DEF LinkComesUp, ConnectFails, LinkIsLost, Posted
<1>3. ASSUME NEW e \in DriverEvent, drv'.events = Append(drv.events, e)
      PROVE  Pipe' = Append(Pipe, Told(e))
  <2> DEFINE h == Hand
             t == AllTold(drv.events)
             x == Told(e)
  <2>1. AllTold(drv'.events) = Append(t, x)
    BY <1>3, FlowGives, AllToldMoves
  <2>2. /\ h \in Seq(WifiManagerEvent) /\ queue \in Seq(WifiManagerEvent)
        /\ t \in Seq(WifiManagerEvent) /\ x \in WifiManagerEvent
    BY FlowGives, ToldType
  <2>3. Pipe = h \o (queue \o t) /\ Pipe' = h \o (queue \o Append(t, x))
    BY <1>1, <2>1 DEF Pipe, Flowing, Hand
  <2> HIDE DEF h, t, x
  <2>4. h \o (queue \o Append(t, x)) = Append(h \o (queue \o t), x)
    BY <2>2, PipeMoves
  <2> QED
    BY <2>3, <2>4 DEF x
<1>4. "gotip" \in DriverEvent /\ "fail" \in DriverEvent
  BY DEF DriverEvent
<1>5. Told("gotip") = Joined /\ Told("fail") = Lost
  BY <1>4, ToldType
<1>6. FlowOf(state, drv.link, lostEvent, Pipe) /\ Pipe \in Seq(WifiManagerEvent)
  BY FlowGives DEF FlowInv
<1>7. FlowOf(state, drv'.link, lostEvent, Pipe')
  <2>1. CASE drv.link = "connecting" /\ drv'.link = "up" /\ Pipe' = Append(Pipe, Joined)
    BY <1>6, <2>1, FlowPosts
  <2>2. CASE drv.link = "connecting" /\ drv'.link = "down" /\ Pipe' = Append(Pipe, Lost)
    BY <1>6, <2>2, FlowPosts
  <2>3. CASE drv.link = "up" /\ drv'.link = "down" /\ Pipe' = Append(Pipe, Lost)
    BY <1>6, <2>3, FlowPosts
  <2> QED
    BY <1>2, <1>3, <1>4, <1>5, <2>1, <2>2, <2>3
<1> QED
  BY <1>1, <1>7 DEF FlowStays, FlowInv

------------------------------------------------------------------------------
\* The application neither stops the manager nor forces the portal, and no form is
\* submitted twice.
Undisturbed ==
    {"Stop", "ForceProvisioning", "Resubmit"} \cap Inputs = {} /\ ~MayFail("xTaskCreate")

LEMMA FlowInitially == TaskSpecInit => FlowInv
<1> SUFFICES ASSUME TaskSpecInit PROVE FlowInv
  OBVIOUS
<1>1. Hand = <<>> /\ queue = <<>> /\ drv.events = <<>> /\ drv.link = "down" /\ state = kInit
  BY DEF TaskSpecInit, ManagerInit, FreshDriver, Hand
<1>2. Pipe = <<>>
  BY <1>1, EmptyPipe DEF Pipe
<1>3. state \notin {kConnecting, kConnected, kPortal}
  BY <1>1
<1> QED
  BY <1>1, <1>2, <1>3, Zenon DEF FlowInv, FlowOf

LEMMA NextFlow ==
    ASSUME Obeys, Undisturbed, CalmInv, SoftApInv, FlowInv, [Next]_vars
    PROVE  CalmInv' /\ SoftApInv' /\ FlowStays
<1>1. ~TaskNotCreated /\ ~Stopping /\ ~Stopped /\ ~AppForcesProvisioning
  BY DEF TaskNotCreated, Stopping, Stopped, AppForcesProvisioning, SoftApInv, Undisturbed
<1>2. CalmInv' /\ SoftApInv'
  BY <1>1, NextCalm DEF SoftApStays
<1> SUFFICES FlowStays
  BY <1>2
<1>3. CASE TaskInit \/ TaskStart \/ Destroy \/ PowerLoss
  BY <1>3, FlowAtRest
<1>4. CASE TaskCreated \/ Receive \/ ReceiveTimesOut \/ LeaveLoop
  BY <1>4, FlowLoop
<1>5. CASE DispatchReceived
  BY <1>5, FlowDispatch
<1>6. CASE Tick
  BY <1>6, FlowTick
<1>7. CASE HandleAdapterEvent
  BY <1>7, FlowHandle
<1>8. CASE PostConnect
  BY <1>8, FlowPost DEF Undisturbed
<1>9. CASE StationConnects \/ StationFails \/ StationIsLost
  BY <1>9, FlowDriver
<1>10. CASE UNCHANGED vars
  <2>1. UNCHANGED <<state, drv, queue, lostEvent, task, current>>
    BY <1>10 DEF vars, objectVars, faceVars, queueVars, taskVars
  <2> QED
    BY <2>1, FlowKept DEF Hand
<1> QED
  BY <1>1, <1>2, <1>3, <1>4, <1>5, <1>6, <1>7, <1>8, <1>9, <1>10
  DEF Next, AppStep, TaskStep

\* WifiManagerEspIdfAdapter.cpp:283-324, WifiManager.cpp:238-276: a manager that nobody
\* disturbs, with a driver whose calls succeed, is in kConnected only while the station
\* has its link, or the loss of the link is on its way, or a full queue has dropped it:
\* no old address and no disconnection that was asked for is taken for news.
THEOREM ConnectedCorrect ==
    ASSUME Obeys, Undisturbed
    PROVE  Spec => []ConnectedHasLink
<1>1. CalmInv /\ SoftApInv /\ FlowInv => ConnectedHasLink
  <2> SUFFICES ASSUME CalmInv, SoftApInv, FlowInv, state = kConnected,
                      drv.link # "up", ~lostEvent
               PROVE  OutcomePending
    BY DEF ConnectedHasLink
  <2>1. Pipe = <<Lost>>
    BY DEF FlowInv, FlowOf
  <2>2. Lost \in Held(Pipe)
    <3>1. 1 \in 1..Len(<<Lost>>) /\ <<Lost>>[1] = Lost
      OBVIOUS
    <3> QED
      BY <2>1, <3>1 DEF Held
  <2>3. CASE Lost \in Held(Hand)
    BY <2>3, PipeHolds, JoinedLost DEF InHand, OutcomePending
  <2>4. CASE Lost \in Held(queue)
    BY <2>4, JoinedLost DEF Held, InQueue, OutcomePending
  <2>5. CASE Lost \in {Told(e) : e \in Held(drv.events)}
    <3>1. PICK i \in 1..Len(drv.events) : Lost = Told(drv.events[i])
      BY <2>5 DEF Held
    <3>2. drv.events[i] \in DriverEvent
      BY FlowGives
    <3>3. drv.events[i] # "leave"
      BY <3>1, <3>2, ToldType, JoinedLost
    <3> QED
      BY <3>2, <3>3 DEF DriverEvent, OutcomePending
  <2> QED
    BY <2>2, <2>3, <2>4, <2>5, PipeHolds
<1>2. CalmInv /\ SoftApInv /\ FlowInv /\ [Next]_vars => CalmInv' /\ SoftApInv' /\ FlowInv'
  BY NextFlow DEF FlowStays
<1> QED
  BY <1>1, <1>2, CalmInitially, FlowInitially, PTL DEF Spec

\* README.md:31, 34, 38: a portal that nobody disturbs is left for new credentials, a
\* stop or an error, or with the power.  An old answer of the driver never ends it.
THEOREM LeftAsDrawnCorrect ==
    ASSUME Obeys, Undisturbed
    PROVE  Spec => PortalLeftAsDrawn
<1>1. CalmInv /\ SoftApInv /\ FlowInv /\ [Next]_vars => CalmInv' /\ SoftApInv' /\ FlowInv'
  BY NextFlow DEF FlowStays
<1>2. /\ CalmInv /\ SoftApInv /\ FlowInv /\ [Next]_vars
      => [state = kPortal /\ state' # kPortal =>
            \/ state' = kConnecting /\ InHand(kCredentialsReceived)
            \/ state' \in {kStopped, kError}
            \/ PowerLoss]_vars
  BY NextFlow DEF FlowStays, LeavesPortal
<1> QED
  BY <1>1, <1>2, CalmInitially, FlowInitially, PTL DEF Spec, PortalLeftAsDrawn
==============================================================================

------------------------------- MODULE EspIdf -------------------------------
(***************************************************************************)
(* The part of ESP-IDF the component stands on, as its code uses it: error *)
(* codes, which calls may fail, and the Wi-Fi driver with its station link *)
(* and the events it has posted to the default event loop.  None of this   *)
(* is in the repository.                                                   *)
(***************************************************************************)
EXTENDS Sequences

CONSTANT Faults     \* the names of the calls that may report an error

ESP_OK                   == "ESP_OK"
ESP_FAIL                 == "ESP_FAIL"     \* every error the code does not single out
ESP_ERR_WIFI_NOT_CONNECT == "ESP_ERR_WIFI_NOT_CONNECT"

Results == {ESP_OK, ESP_FAIL, ESP_ERR_WIFI_NOT_CONNECT}

MayFail(call) == call \in Faults

\* Events the handlers registered by the adapter see: a disconnection the
\* station asked for (WIFI_REASON_ASSOC_LEAVE), any other disconnection, and an
\* address for the station.
DriverEvent == {"leave", "fail", "gotip"}

\* started: between esp_wifi_start and esp_wifi_stop.
\* mode:    WIFI_MODE_STA or WIFI_MODE_APSTA; the SoftAP exists in the second.
\* link:    the station: idle, associating or waiting for DHCP, or with an address.
\* events:  posted and not yet handled, oldest first.
Driver == [started : BOOLEAN,
           mode    : {"STA", "APSTA"},
           link    : {"down", "connecting", "up"},
           events  : Seq(DriverEvent)]

FreshDriver == [started |-> FALSE, mode |-> "STA", link |-> "down", events |-> <<>>]

Posted(drv, link, event) ==
    [started |-> drv.started, mode |-> drv.mode, link |-> link,
     events  |-> Append(drv.events, event)]

SoftApUp(drv) == drv.started /\ drv.mode = "APSTA"

------------------------------------------------------------------------------
\* The driver calls: sets of [result, drv].
Replies(call, drv, after) ==
    {[result |-> ESP_OK, drv |-> after]}
    \cup (IF MayFail(call) THEN {[result |-> ESP_FAIL, drv |-> drv]} ELSE {})

esp_wifi_set_mode(drv, mode) ==
    Replies("esp_wifi_set_mode", drv, [drv EXCEPT !.mode = mode])

esp_wifi_start(drv) ==
    Replies("esp_wifi_start", drv, [drv EXCEPT !.started = TRUE])

esp_wifi_stop(drv) ==
    Replies("esp_wifi_stop", drv,
            [started |-> FALSE, mode |-> drv.mode, link |-> "down", events |-> drv.events])

\* A station that has a link, or is getting one, drops it and posts the event.
\* Without one the driver may say so or not.
esp_wifi_disconnect(drv) ==
    IF drv.link # "down"
    THEN Replies("esp_wifi_disconnect", drv, Posted(drv, "down", "leave"))
    ELSE Replies("esp_wifi_disconnect", drv, drv)
         \cup {[result |-> ESP_ERR_WIFI_NOT_CONNECT, drv |-> drv]}

\* The station's configuration cannot be set, nor a connection started, while
\* one is in progress; what the driver then says is not documented precisely,
\* so it may refuse or ignore the call.
esp_wifi_set_sta_config(drv) ==
    Replies("esp_wifi_set_config", drv, drv)
    \cup (IF drv.link = "connecting"
          THEN {[result |-> ESP_FAIL, drv |-> drv]} ELSE {})

esp_wifi_connect(drv) ==
    IF drv.link = "down"
    THEN Replies("esp_wifi_connect", drv, [drv EXCEPT !.link = "connecting"])
    ELSE {[result |-> r, drv |-> drv] : r \in {ESP_OK, ESP_FAIL}}

------------------------------------------------------------------------------
\* What the driver and the network do by themselves: sets of successors.
LinkComesUp(drv) ==
    IF drv.link = "connecting" THEN {Posted(drv, "up", "gotip")} ELSE {}

ConnectFails(drv) ==
    IF drv.link = "connecting" THEN {Posted(drv, "down", "fail")} ELSE {}

LinkIsLost(drv) ==
    IF drv.link = "up" THEN {Posted(drv, "down", "fail")} ELSE {}
==============================================================================

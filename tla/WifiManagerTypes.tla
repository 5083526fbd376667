-------------------------- MODULE WifiManagerTypes --------------------------
(***************************************************************************)
(* The types the components of the Wi-Fi manager share: connection states, *)
(* events and credentials (WifiManagerTypes.hpp).  C strings are abstract  *)
(* values; only the empty string matters, because the code tests ssid[0].  *)
(***************************************************************************)
CONSTANTS
    Ssid,       \* the non-empty network names a user may enter
    Password    \* the passwords a user may enter; open networks use ""

ASSUME SsidAssumption == "" \notin Ssid

\* enum class WifiState
kInit           == "kInit"
kConnecting     == "kConnecting"
kWaitingToRetry == "kWaitingToRetry"
kConnected      == "kConnected"
kPortal         == "kPortal"
kStopped        == "kStopped"
kError          == "kError"

WifiState == {kInit, kConnecting, kWaitingToRetry, kConnected, kPortal,
              kStopped, kError}

\* enum class WifiManagerEventType
kProvisioningRequested == "kProvisioningRequested"
kCredentialsReceived   == "kCredentialsReceived"
kConnectionSucceeded   == "kConnectionSucceeded"
kConnectionFailed      == "kConnectionFailed"
kRetryTimerElapsed     == "kRetryTimerElapsed"

WifiManagerEventType ==
    {kProvisioningRequested, kCredentialsReceived, kConnectionSucceeded,
     kConnectionFailed, kRetryTimerElapsed}

\* struct WifiCredentials.  What a user can submit, what a zeroed structure
\* holds, and everything a structure can hold (a partial load leaves an SSID
\* without its password).
Credentials      == [ssid : Ssid, password : Password]
EmptyCredentials == [ssid |-> "", password |-> ""]
WifiCredentials  == [ssid : Ssid \cup {""}, password : Password \cup {""}]

HasSsid(credentials) == credentials.ssid # ""

\* struct WifiRuntimeStatus, abstracted to what it reports: nothing, the
\* reason of a disconnection, or the address of a live connection.
WifiRuntimeStatus == {"none", "reason", "address"}

\* struct WifiManagerEvent.  The runtime status an event carries follows from
\* its type, because only EventHandler fills it in, so it is left out.
WifiManagerEvent == [type        : WifiManagerEventType,
                     credentials : Credentials \cup {EmptyCredentials}]

PlainEvent(type) == [type |-> type, credentials |-> EmptyCredentials]
==============================================================================

------------------------- MODULE WifiCredentialStore -------------------------
(***************************************************************************)
(* WifiCredentialStore.cpp over the NVS library.  The store writes its two *)
(* keys one after the other and each write takes effect by itself, so a    *)
(* failing save may leave the new name beside the old password.            *)
(***************************************************************************)
EXTENDS EspIdf, WifiManagerTypes

NotStored == "<not stored>"

ASSUME StoreAssumption == NotStored \notin Ssid \cup Password

\* The two keys in flash.
Nvs == [ssid : Ssid \cup {NotStored}, pass : Password \cup {NotStored}]

EmptyNvs == [ssid |-> NotStored, pass |-> NotStored]

\* Load's result: whether it loaded, and the structure it leaves.  It clears the
\* structure first; a name whose password cannot be read stays in it.
LoadOutcomes(nvs) ==
    LET Loaded(ok, ssid, password) ==
            [loaded      |-> ok,
             credentials |-> [ssid |-> ssid, password |-> password]]
        CannotOpen == Loaded(FALSE, "", "")
        NoPassword == Loaded(FALSE, nvs.ssid, "")
    IN  IF nvs.ssid = NotStored THEN {CannotOpen}
        ELSE (IF nvs.pass = NotStored THEN {NoPassword}
              ELSE {Loaded(TRUE, nvs.ssid, nvs.pass)})
             \cup (IF MayFail("nvs_open") THEN {CannotOpen} ELSE {})
             \cup (IF MayFail("nvs_get_str") THEN {CannotOpen, NoPassword} ELSE {})

\* Mutant: an existing password is not overwritten.
SaveKeepsPassword(nvs, credentials) ==
    {[saved |-> TRUE,
      nvs   |-> [ssid |-> credentials.ssid,
                 pass |-> IF nvs.pass = NotStored THEN credentials.password
                                                  ELSE nvs.pass]]}

\* Save's result: whether it saved, and the keys it leaves.
SaveOutcomes(nvs, credentials) ==
    LET Wrote(ok, keys) == [saved |-> ok, nvs |-> keys]
        NameWritten == [nvs EXCEPT !.ssid = credentials.ssid]
        BothWritten == [ssid |-> credentials.ssid, pass |-> credentials.password]
    IN  {Wrote(TRUE, BothWritten)}
        \cup (IF MayFail("nvs_open") THEN {Wrote(FALSE, nvs)} ELSE {})
        \cup (IF MayFail("nvs_set_str")
              THEN {Wrote(FALSE, nvs), Wrote(FALSE, NameWritten)} ELSE {})
        \cup (IF MayFail("nvs_commit") THEN {Wrote(FALSE, BothWritten)} ELSE {})

\* Mutant: the password is written first.
PasswordWrittenFirst(nvs, credentials) ==
    {nvs,
     [nvs EXCEPT !.pass = credentials.password],
     [ssid |-> credentials.ssid, pass |-> credentials.password]}

\* What a Save cut short by a loss of power may leave in flash.
InterruptedSaves(nvs, credentials) ==
    {nvs,
     [nvs EXCEPT !.ssid = credentials.ssid],
     [ssid |-> credentials.ssid, pass |-> credentials.password]}
==============================================================================

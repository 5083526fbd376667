---------------------------- MODULE WifiLifecycle ----------------------------
(***************************************************************************)
(* What a user of the manager may rely on, whatever its threads, its queue *)
(* and its driver do: the reported state and what may change it.  It draws *)
(* the edges of the diagram in the component's README (lines 22-41), those *)
(* the code adds, and the count of failed attempts.  WifiManagerTask       *)
(* implements it.                                                          *)
(***************************************************************************)
EXTENDS Naturals

CONSTANTS
    MaxAttempts,    \* attempts in a row before the portal opens
    NoDelay         \* a failed attempt is repeated without a wait

VARIABLES
    active,         \* between a start that succeeded and the stop after it
    status,         \* the reported state
    attempt,        \* failures in a row behind this attempt, or this wait
    forced,         \* provisioning has been asked for
    report          \* the event under way to the manager, or "none"

vars == <<active, status, attempt, forced, report>>

Reports == {"kProvisioningRequested", "kCredentialsReceived",
            "kConnectionSucceeded", "kConnectionFailed"}

Trying == {"kConnecting", "kWaitingToRetry"}

Enter(statuses) == status' \in statuses /\ attempt' = 0

Handled(type) == report = type /\ report' = "none"

Init ==
    /\ active = FALSE
    /\ status = "kInit"
    /\ attempt = 0
    /\ forced = FALSE
    /\ report = "none"

------------------------------------------------------------------------------
\* At rest the manager may be configured, if its driver can, or begin to work.
Configure ==
    /\ ~active
    /\ Enter({status, "kInit"})
    /\ forced' = FALSE
    /\ UNCHANGED <<active, report>>

Begin ==
    /\ ~active
    /\ active' = TRUE
    /\ Enter(IF forced THEN {"kPortal", "kError"} ELSE {"kConnecting", "kPortal", "kError"})
    /\ UNCHANGED <<forced, report>>

Take == report = "none" /\ report' \in Reports /\ UNCHANGED <<active, status, attempt, forced>>

\* A manager at rest remembers what it was told, and nothing more happens; one whose
\* flash fails ignores the credentials.
Remember ==
    /\ Handled(report) \/ UNCHANGED report
    /\ forced' \in BOOLEAN
    /\ ~active \/ (report = "kCredentialsReceived" /\ forced' = forced)
    /\ UNCHANGED <<active, status, attempt>>

\* Credentials and requests are obeyed in every state of an active manager.
Provision ==
    /\ active
    /\ Handled("kCredentialsReceived")
    /\ forced' = FALSE
    /\ Enter({"kConnecting", "kError"})
    /\ UNCHANGED active

Force ==
    /\ active
    /\ Handled("kProvisioningRequested") \/ UNCHANGED report
    /\ forced' = TRUE
    /\ Enter({"kPortal", "kError"})
    /\ UNCHANGED active

\* A success counts whenever it is reported.
Succeed ==
    /\ active
    /\ Handled("kConnectionSucceeded")
    /\ Enter({"kConnected"})
    /\ UNCHANGED <<active, forced>>

\* The failures in a row, with one more.  Outside of an attempt, a wait and a
\* connection, a late report may start the count anywhere.
Counts ==
    CASE status \in Trying      -> {attempt + 1}
      [] status = "kConnected"  -> {1}
      [] OTHER                  -> 0..MaxAttempts

TryAgain(n) ==
    /\ n < MaxAttempts
    /\ attempt' = n
    /\ status' = IF NoDelay THEN "kConnecting" ELSE "kWaitingToRetry"

Fail ==
    /\ active
    /\ Handled("kConnectionFailed")
    /\ \E n \in Counts :
          \/ TryAgain(n)
          \/ NoDelay /\ n < MaxAttempts /\ Enter({"kError"})
          \/ n >= MaxAttempts /\ Enter({"kPortal", "kError"})
    /\ UNCHANGED <<active, forced>>

\* Only a wait ends by itself, and it forgets no failure.
Retry ==
    /\ active
    /\ report = "none"
    /\ status = "kWaitingToRetry"
    /\ \/ status' = "kConnecting" /\ UNCHANGED attempt
       \/ Enter({"kError"})
    /\ UNCHANGED <<active, forced, report>>

Halt ==
    /\ active
    /\ active' = FALSE
    /\ Enter({"kStopped", "kError"})
    /\ UNCHANGED <<forced, report>>

\* A new object, after a loss of power or the end of the old one.
Renew == active' = FALSE /\ Enter({"kInit"}) /\ forced' = FALSE /\ report' = "none"

Next == Configure \/ Begin \/ Take \/ Remember \/ Provision \/ Force \/ Succeed
        \/ Fail \/ Retry \/ Halt \/ Renew

Spec == Init /\ [][Next]_vars
==============================================================================

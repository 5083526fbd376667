----------------------- MODULE WifiManagerStateMachine -----------------------
(***************************************************************************)
(* WifiManagerStateMachine.cpp: the connection state, the count of failed  *)
(* attempts and the reconnect delay.  Each handler is an operator that     *)
(* returns the object after the call, so that the manager can compose it;  *)
(* SMSpec lets a caller make any sequence of calls.                        *)
(***************************************************************************)
EXTENDS Naturals, WifiManagerTypes

CONSTANTS
    MaxConnectAttempts,      \* config_.maxConnectAttempts, a uint8_t
    InitialReconnectDelayMs, \* config_.initialReconnectDelayMs, a uint32_t
    MaxReconnectDelayMs      \* config_.maxReconnectDelayMs, a uint32_t

ASSUME BackoffAssumption ==
    /\ MaxConnectAttempts \in 0..255
    /\ InitialReconnectDelayMs \in Nat
    /\ MaxReconnectDelayMs \in Nat

VARIABLE sm     \* the object: [state, connectAttempts, reconnectDelayMs]

UInt8 == 0..255

StateMachine == [state            : WifiState,
                 connectAttempts  : UInt8,
                 reconnectDelayMs : 0..MaxReconnectDelayMs]

------------------------------------------------------------------------------
\* delayMs after the loop has doubled it k times: it returns the maximum as
\* soon as it is reached.  The 64-bit product cannot overflow, because it is
\* compared with a 32-bit maximum after every doubling.
DelayAfterDoublings[k \in Nat] ==
    IF k = 0 THEN InitialReconnectDelayMs
    ELSE IF 2 * DelayAfterDoublings[k - 1] >= MaxReconnectDelayMs
         THEN MaxReconnectDelayMs
         ELSE 2 * DelayAfterDoublings[k - 1]

\* Mutant: the maximum is forgotten.
DelayWithoutMaximum(attempts) ==
    IF attempts = 0 THEN InitialReconnectDelayMs
                    ELSE InitialReconnectDelayMs * 2 ^ (attempts - 1)

\* Mutant: the backoff starts over when it passes the maximum.
DelayStartsOver(attempts) ==
    LET delay == IF attempts = 0 THEN InitialReconnectDelayMs
                 ELSE InitialReconnectDelayMs * 2 ^ (attempts - 1)
    IN  IF delay > MaxReconnectDelayMs THEN InitialReconnectDelayMs ELSE delay

\* Mutant: the loop starts at attempt 0 and doubles once too often.
DelayDoubledOnceMore(attempts) ==
    IF InitialReconnectDelayMs = 0 \/ MaxReconnectDelayMs = 0 THEN 0
    ELSE LET delay == DelayAfterDoublings[attempts] IN
         IF delay > MaxReconnectDelayMs THEN MaxReconnectDelayMs ELSE delay

CalculateReconnectDelayMs(attempts) ==
    IF InitialReconnectDelayMs = 0 \/ MaxReconnectDelayMs = 0 THEN 0
    ELSE LET delay == DelayAfterDoublings[IF attempts = 0 THEN 0 ELSE attempts - 1]
         IN  IF delay \in 0..MaxReconnectDelayMs THEN delay ELSE MaxReconnectDelayMs

------------------------------------------------------------------------------
Fresh(state) == [state |-> state, connectAttempts |-> 0, reconnectDelayMs |-> 0]

Reset == Fresh(kInit)

OnStart(forceProvisioning, hasStoredCredentials) ==
    Fresh(IF forceProvisioning \/ ~hasStoredCredentials THEN kPortal
                                                        ELSE kConnecting)

OnProvisioningRequested == Fresh(kPortal)

\* Mutant: new credentials inherit the attempts of the old ones.
CredentialsKeepAttempts == [sm EXCEPT !.state = kConnecting]

OnCredentialsReceived == Fresh(kConnecting)

OnConnectionSucceeded == Fresh(kConnected)

OnStop == Fresh(kStopped)

\* Mutant: the last attempt is recognised by equality.
FailedComparesForEquality(m) ==
    LET attempts == (m.connectAttempts + 1) % 256 IN
    IF attempts # MaxConnectAttempts
    THEN [state            |-> kWaitingToRetry,
          connectAttempts  |-> attempts,
          reconnectDelayMs |-> CalculateReconnectDelayMs(attempts)]
    ELSE [Fresh(kPortal) EXCEPT !.connectAttempts = attempts]

OnConnectionFailed(m) ==
    LET attempts == (m.connectAttempts + 1) % 256 IN
    CASE MaxConnectAttempts = 0 ->
            [Fresh(kPortal) EXCEPT !.connectAttempts = m.connectAttempts]
      [] MaxConnectAttempts # 0 /\ attempts < MaxConnectAttempts ->
            [state            |-> kWaitingToRetry,
             connectAttempts  |-> attempts,
             reconnectDelayMs |-> CalculateReconnectDelayMs(attempts)]
      [] OTHER ->
            [Fresh(kPortal) EXCEPT !.connectAttempts = attempts]

\* Mutant: a retry forgets the attempts before it.
RetryForgetsAttempts(m) == Fresh(kConnecting)

OnRetryTimerElapsed(m) == [m EXCEPT !.state = kConnecting]

------------------------------------------------------------------------------
SMInit == sm = Reset

Failure == sm' = OnConnectionFailed(sm)

Retry == sm' = OnRetryTimerElapsed(sm)

OtherCall ==
    sm' \in {Reset, OnProvisioningRequested, OnCredentialsReceived,
             OnConnectionSucceeded, OnStop}
            \cup {OnStart(force, stored) : force, stored \in BOOLEAN}

SMNext == Failure \/ Retry \/ OtherCall

SMSpec == SMInit /\ [][SMNext]_sm

------------------------------------------------------------------------------
\* The object's fields keep their C++ ranges, and the delay never exceeds the
\* configured maximum.
SMTypeOK == sm \in StateMachine

\* WifiManagerStateMachine.cpp:55-58: whenever a retry is due, the attempts made
\* so far leave at least one, and the delay is the initial delay doubled once
\* per earlier failure, capped.  The right-hand side is an independent
\* definition: the least of the cap and a power of two.
PowerOfTwo[k \in Nat] == IF k = 0 THEN 1 ELSE 2 * PowerOfTwo[k - 1]

ExponentialDelay(attempts) ==
    LET uncapped == InitialReconnectDelayMs * PowerOfTwo[attempts - 1] IN
    IF uncapped < MaxReconnectDelayMs THEN uncapped ELSE MaxReconnectDelayMs

BackoffIsExponential ==
    sm.state = kWaitingToRetry =>
        /\ sm.connectAttempts < MaxConnectAttempts
        /\ sm.connectAttempts > 0 =>
              sm.reconnectDelayMs = ExponentialDelay(sm.connectAttempts)

\* Across a run of failures and retries with no success, stop or new
\* credentials in between, the wait never gets shorter.
BackoffNeverShrinks ==
    [][Failure /\ sm'.state = kWaitingToRetry =>
          sm'.reconnectDelayMs >= sm.reconnectDelayMs]_sm

\* Once the attempts are used up, further failures cannot leave the portal: a
\* late failure is absorbed.  The uint8_t counter limits this to 255 counted
\* failures (WifiManagerStateMachine.cpp:54 wraps at the next one).
LateFailuresStayInPortal ==
    [][(/\ Failure
        /\ sm.state = kPortal
        /\ sm.connectAttempts >= MaxConnectAttempts
        /\ sm.connectAttempts < 255) => sm'.state = kPortal]_sm
==============================================================================

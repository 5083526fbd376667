--------------------------- MODULE WifiManager_proofs ---------------------------
(***************************************************************************)
(* The state machine by itself, whatever its configuration and the order   *)
(* of the calls; the adapter's operations, which keep its type and the     *)
(* driver's; and every operation of the manager, which keeps its invariant *)
(* whatever the calls beneath it answer.  That invariant is what the       *)
(* operations rely on together: the timer is armed in kWaitingToRetry and  *)
(* nowhere else, and a manager that does not run is in one of three states.*)
(***************************************************************************)
EXTENDS WifiManager, WellFoundedInduction, TLAPS

USE DEF kInit, kConnecting, kWaitingToRetry, kConnected, kPortal, kStopped, kError

------------------------------------------------------------------------------
\* Every set of numbers that is not empty has a least one: what induction needs.
LEMMA LeastNatural ==
    ASSUME NEW T \in SUBSET Nat, T # {}
    PROVE  \E n \in T : \A m \in T : n <= m
<1> DEFINE R == OpToRel(<, Nat)
<1>1. IsWellFoundedOn(R, Nat)
  BY NatLessThanWellFounded
<1>2. PICK n \in T : \A m \in T : ~(<<m, n>> \in R)
  <2> HIDE DEF R
  <2> QED BY <1>1, WFMin
<1>3. \A m \in T : ~(m < n)
  BY <1>2 DEF OpToRel
<1> QED BY <1>3

\* Induction over a set of numbers.
LEMMA NaturalsOf ==
    ASSUME NEW T, 0 \in T, \A n \in Nat : n \in T => n + 1 \in T
    PROVE  Nat \subseteq T
<1> SUFFICES ASSUME Nat \ T # {} PROVE FALSE
  BY Zenon
<1>1. PICK n \in Nat \ T : \A m \in Nat \ T : n <= m
  BY LeastNatural
<1>2. n # 0 /\ n - 1 \in Nat
  BY <1>1
<1>3. n - 1 \in T
  BY <1>1, <1>2
<1> QED
  BY <1>1, <1>2, <1>3

\* The first n values of a sequence that starts with a and goes on by step.
Begins(n, a, step, g) ==
    /\ g \in [0..n -> Nat]
    /\ g[0] = a
    /\ \A k \in 1..n : g[k] = step[g[k - 1]]

LEMMA BeginningExists ==
    ASSUME NEW a \in Nat, NEW step \in [Nat -> Nat]
    PROVE  \A n \in Nat : \E g : Begins(n, a, step, g)
<1> DEFINE T == {n \in Nat : \E g : Begins(n, a, step, g)}
<1>1. 0 \in T
  <2>1. Begins(0, a, step, [k \in 0..0 |-> a])
    BY DEF Begins
  <2> QED
    BY <2>1
<1>2. ASSUME NEW n \in Nat, n \in T PROVE n + 1 \in T
  <2>1. PICK g : Begins(n, a, step, g)
    BY <1>2
  <2> DEFINE next == step[g[n]]
             h == [k \in 0..(n + 1) |-> IF k = n + 1 THEN next ELSE g[k]]
  <2>2. /\ h \in [0..(n + 1) -> Nat]
        /\ h[0] = a
        /\ \A k \in 1..(n + 1) : h[k] = step[h[k - 1]]
    <3>1. next \in Nat /\ g \in [0..n -> Nat] /\ g[0] = a
      BY <2>1 DEF Begins
    <3> HIDE DEF next, T
    <3>2. h \in [0..(n + 1) -> Nat]
      BY <3>1
    <3>3. h[0] = a
      BY <3>1
    <3>4. h[n + 1] = step[h[n]]
      BY DEF next
    <3>5. ASSUME NEW k \in 1..n PROVE h[k] = step[h[k - 1]]
      <4>1. h[k] = g[k] /\ h[k - 1] = g[k - 1]
        OBVIOUS
      <4> QED
        BY <2>1, <4>1 DEF Begins
    <3> HIDE DEF h
    <3>6. ASSUME NEW k \in 1..(n + 1) PROVE h[k] = step[h[k - 1]]
      <4>1. CASE k = n + 1
        BY <3>4, <4>1
      <4>2. CASE k # n + 1
        BY <3>5, <4>2
      <4> QED
        BY <4>1, <4>2
    <3> QED
      BY <3>2, <3>3, <3>6, Zenon
  <2>3. Begins(n + 1, a, step, h)
    BY <2>2, Zenon DEF Begins
  <2> HIDE DEF h
  <2> QED
    BY <2>3
<1> HIDE DEF T
<1>3. Nat \subseteq T
  BY <1>1, <1>2, NaturalsOf
<1> QED
  BY <1>3 DEF T

LEMMA BeginningsAgree ==
    ASSUME NEW m \in Nat, NEW n \in Nat, NEW a, NEW step, NEW g, NEW h,
           Begins(m, a, step, g), Begins(n, a, step, h)
    PROVE  \A k \in Nat : k <= m /\ k <= n => g[k] = h[k]
<1> DEFINE T == {k \in Nat : k <= m /\ k <= n => g[k] = h[k]}
<1>1. 0 \in T
  BY DEF Begins
<1>2. ASSUME NEW k \in Nat, k \in T PROVE k + 1 \in T
  <2> SUFFICES ASSUME k + 1 <= m, k + 1 <= n PROVE g[k + 1] = h[k + 1]
    OBVIOUS
  <2>1. k + 1 \in 1..m /\ k + 1 \in 1..n /\ (k + 1) - 1 = k
    OBVIOUS
  <2>2. g[k + 1] = step[g[k]] /\ h[k + 1] = step[h[k]]
    BY <2>1 DEF Begins
  <2>3. g[k] = h[k]
    BY <1>2
  <2> QED
    BY <2>2, <2>3
<1> HIDE DEF T
<1>3. Nat \subseteq T
  BY <1>1, <1>2, NaturalsOf
<1> QED
  BY <1>3 DEF T

\* A step and a first value define a sequence: what a recursive function needs to be
\* known by its equation.
LEMMA SequenceExists ==
    ASSUME NEW a \in Nat, NEW step \in [Nat -> Nat]
    PROVE  \E f \in [Nat -> Nat] :
              /\ f[0] = a
              /\ \A k \in Nat : f[k + 1] = step[f[k]]
<1> DEFINE Beginning(n) == CHOOSE g : Begins(n, a, step, g)
           F == [k \in Nat |-> Beginning(k)[k]]
<1>1. \A n \in Nat : Begins(n, a, step, Beginning(n))
  BY BeginningExists
<1> HIDE DEF Beginning
<1>2. F[0] = a
  BY <1>1 DEF Begins
<1>3. ASSUME NEW k \in Nat PROVE F[k + 1] = step[F[k]]
  <2>1. Beginning(k + 1)[k + 1] = step[Beginning(k + 1)[k]]
    BY <1>1 DEF Begins
  <2>2. Beginning(k + 1)[k] = Beginning(k)[k]
    BY <1>1, BeginningsAgree
  <2> QED
    BY <2>1, <2>2
<1>4. F \in [Nat -> Nat]
  BY <1>1 DEF Begins
<1> HIDE DEF F
<1> QED
  BY <1>2, <1>3, <1>4

\* One turn of the loop.
Doubled(delay) ==
    IF 2 * delay >= MaxReconnectDelayMs THEN MaxReconnectDelayMs ELSE 2 * delay

LEMMA DoubledType == \A delay \in Nat : Doubled(delay) \in Nat
BY BackoffAssumption DEF Doubled

\* The loop's delays, as the model defines them.
LEMMA DelaysByDoubling ==
    /\ DelayAfterDoublings \in [Nat -> Nat]
    /\ DelayAfterDoublings[0] = InitialReconnectDelayMs
    /\ \A k \in Nat : DelayAfterDoublings[k + 1] = Doubled(DelayAfterDoublings[k])
<1> DEFINE Step == [delay \in Nat |-> Doubled(delay)]
           Body(f) == [k \in Nat |-> IF k = 0 THEN InitialReconnectDelayMs
                                     ELSE IF 2 * f[k - 1] >= MaxReconnectDelayMs
                                          THEN MaxReconnectDelayMs ELSE 2 * f[k - 1]]
<1>1. Step \in [Nat -> Nat]
  BY DoubledType
<1>2. \A delay \in Nat : Step[delay] = Doubled(delay)
  OBVIOUS
<1> HIDE DEF Step
<1>3. PICK F \in [Nat -> Nat] :
         /\ F[0] = InitialReconnectDelayMs
         /\ \A k \in Nat : F[k + 1] = Step[F[k]]
  BY <1>1, SequenceExists, BackoffAssumption
<1>4. F = Body(F)
  <2>1. ASSUME NEW k \in Nat, k # 0 PROVE F[k] = Doubled(F[k - 1])
    <3>1. k - 1 \in Nat /\ (k - 1) + 1 = k
      BY <2>1
    <3> QED
      BY <1>2, <1>3, <3>1
  <2>2. \A k \in Nat : F[k] = Body(F)[k]
    BY <1>3, <2>1 DEF Doubled
  <2> QED
    BY <2>2
<1>5. DelayAfterDoublings = Body(DelayAfterDoublings)
  <2>1. DelayAfterDoublings = CHOOSE f : f = Body(f)
    BY DEF DelayAfterDoublings
  <2> HIDE DEF Body
  <2> QED
    BY <1>4, <2>1, Zenon
<1>6. /\ DelayAfterDoublings[0] = InitialReconnectDelayMs
      /\ \A k \in Nat : DelayAfterDoublings[k + 1] = Doubled(DelayAfterDoublings[k])
  BY <1>5 DEF Doubled
<1>7. \A k \in Nat : DelayAfterDoublings[k] \in Nat
  <2> DEFINE T == {k \in Nat : DelayAfterDoublings[k] \in Nat}
  <2>1. 0 \in T
    BY <1>6, BackoffAssumption
  <2>2. \A k \in Nat : k \in T => k + 1 \in T
    BY <1>6, DoubledType
  <2> HIDE DEF T
  <2>3. Nat \subseteq T
    BY <2>1, <2>2, NaturalsOf
  <2> QED
    BY <2>3 DEF T
<1> QED
  BY <1>5, <1>6, <1>7

LEMMA PowersByDoubling ==
    /\ PowerOfTwo \in [Nat -> Nat]
    /\ PowerOfTwo[0] = 1
    /\ \A k \in Nat : PowerOfTwo[k + 1] = 2 * PowerOfTwo[k]
<1> DEFINE One == 1
           Step == [power \in Nat |-> 2 * power]
           Body(f) == [k \in Nat |-> IF k = 0 THEN 1 ELSE 2 * f[k - 1]]
<1>1. /\ One \in Nat
      /\ Step \in [Nat -> Nat]
      /\ \A power \in Nat : Step[power] = 2 * power
  OBVIOUS
<1> HIDE DEF One, Step
<1>2. PICK F \in [Nat -> Nat] :
         /\ F[0] = One
         /\ \A k \in Nat : F[k + 1] = Step[F[k]]
  BY <1>1, SequenceExists
<1>3. F = Body(F)
  <2>1. ASSUME NEW k \in Nat, k # 0 PROVE F[k] = 2 * F[k - 1]
    <3>1. k - 1 \in Nat /\ (k - 1) + 1 = k
      BY <2>1
    <3> QED
      BY <1>1, <1>2, <3>1
  <2>2. \A k \in Nat : F[k] = Body(F)[k]
    BY <1>2, <2>1 DEF One
  <2> QED
    BY <2>2
<1>4. PowerOfTwo = Body(PowerOfTwo)
  <2>1. PowerOfTwo = CHOOSE f : f = Body(f)
    BY DEF PowerOfTwo
  <2> HIDE DEF Body
  <2> QED
    BY <1>3, <2>1, Zenon
<1>5. /\ PowerOfTwo[0] = 1
      /\ \A k \in Nat : PowerOfTwo[k + 1] = 2 * PowerOfTwo[k]
  BY <1>4
<1>6. \A k \in Nat : PowerOfTwo[k] \in Nat
  <2> DEFINE T == {k \in Nat : PowerOfTwo[k] \in Nat}
  <2>1. 0 \in T
    BY <1>5
  <2>2. \A k \in Nat : k \in T => k + 1 \in T
    BY <1>5
  <2> HIDE DEF T
  <2>3. Nat \subseteq T
    BY <2>1, <2>2, NaturalsOf
  <2> QED
    BY <2>3 DEF T
<1> QED
  BY <1>4, <1>5, <1>6

------------------------------------------------------------------------------
\* WifiManagerStateMachine.cpp:91-107: the delay is within the maximum, because of
\* the last comparison and whatever the loop computed.
LEMMA DelayInRange ==
    ASSUME NEW attempts
    PROVE  CalculateReconnectDelayMs(attempts) \in 0..MaxReconnectDelayMs
BY BackoffAssumption DEF CalculateReconnectDelayMs

\* WifiManagerStateMachine.cpp:91-107: the delay after k doublings, under the maximum.
Capped(k) ==
    IF DelayAfterDoublings[k] <= MaxReconnectDelayMs THEN DelayAfterDoublings[k]
                                                     ELSE MaxReconnectDelayMs

\* How often the delay of a count has been doubled.
Doublings(attempts) == IF attempts = 0 THEN 0 ELSE attempts - 1

LEMMA DelayIsCapped ==
    ASSUME NEW attempts \in Nat,
           InitialReconnectDelayMs # 0, MaxReconnectDelayMs # 0
    PROVE  /\ Doublings(attempts) \in Nat
           /\ CalculateReconnectDelayMs(attempts) = Capped(Doublings(attempts))
<1> DEFINE delay == DelayAfterDoublings[Doublings(attempts)]
<1>1. Doublings(attempts) \in Nat
  BY DEF Doublings
<1>2. delay \in Nat
  BY <1>1, DelaysByDoubling
<1>3. CalculateReconnectDelayMs(attempts)
        = IF delay \in 0..MaxReconnectDelayMs THEN delay ELSE MaxReconnectDelayMs
  BY DEF CalculateReconnectDelayMs, Doublings
<1> HIDE DEF delay
<1>4. CalculateReconnectDelayMs(attempts)
        = IF delay <= MaxReconnectDelayMs THEN delay ELSE MaxReconnectDelayMs
  BY <1>2, <1>3, BackoffAssumption
<1> QED
  BY <1>1, <1>4 DEF Capped, delay

\* WifiManagerStateMachine.cpp:97-104: as long as the loop has not returned the
\* maximum, it holds the initial delay times a power of two; after that, both are at
\* the maximum or over it.
LEMMA DelayIsPower ==
    ASSUME NEW k \in Nat
    PROVE  \/ DelayAfterDoublings[k] = InitialReconnectDelayMs * PowerOfTwo[k]
           \/ /\ DelayAfterDoublings[k] >= MaxReconnectDelayMs
              /\ InitialReconnectDelayMs * PowerOfTwo[k] >= MaxReconnectDelayMs
<1> DEFINE Uncapped(i) == InitialReconnectDelayMs * PowerOfTwo[i]
           Agree(i) == \/ DelayAfterDoublings[i] = Uncapped(i)
                       \/ /\ DelayAfterDoublings[i] >= MaxReconnectDelayMs
                          /\ Uncapped(i) >= MaxReconnectDelayMs
           T == {i \in Nat : Agree(i)}
<1>1. Uncapped(0) = InitialReconnectDelayMs
  BY PowersByDoubling, BackoffAssumption
<1>2. \A i \in Nat : Uncapped(i) \in Nat /\ Uncapped(i + 1) = 2 * Uncapped(i)
  BY PowersByDoubling, BackoffAssumption
<1> HIDE DEF Uncapped
<1>3. 0 \in T
  BY <1>1, DelaysByDoubling
<1>4. ASSUME NEW i \in Nat, i \in T PROVE i + 1 \in T
  BY <1>2, <1>4, DelaysByDoubling, BackoffAssumption DEF Doubled
<1> HIDE DEF T
<1>5. Nat \subseteq T
  BY <1>3, <1>4, NaturalsOf
<1> QED
  BY <1>5 DEF T, Uncapped

LEMMA DelayIsExponential ==
    ASSUME NEW attempts \in Nat, attempts > 0
    PROVE  CalculateReconnectDelayMs(attempts) = ExponentialDelay(attempts)
<1> DEFINE uncapped == InitialReconnectDelayMs * PowerOfTwo[attempts - 1]
<1>1. attempts - 1 \in Nat /\ uncapped \in Nat
  BY PowersByDoubling, BackoffAssumption
<1>2. CASE InitialReconnectDelayMs = 0 \/ MaxReconnectDelayMs = 0
  <2>1. CalculateReconnectDelayMs(attempts) = 0
    BY <1>2 DEF CalculateReconnectDelayMs
  <2>2. uncapped = 0 \/ MaxReconnectDelayMs = 0
    BY <1>1, <1>2, PowersByDoubling
  <2> QED
    BY <1>1, <2>1, <2>2, BackoffAssumption DEF ExponentialDelay
<1>3. CASE InitialReconnectDelayMs # 0 /\ MaxReconnectDelayMs # 0
  <2>1. CalculateReconnectDelayMs(attempts) = Capped(attempts - 1)
    BY <1>3, DelayIsCapped DEF Doublings
  <2>2. \/ DelayAfterDoublings[attempts - 1] = uncapped
        \/ /\ DelayAfterDoublings[attempts - 1] >= MaxReconnectDelayMs
           /\ uncapped >= MaxReconnectDelayMs
    BY <1>1, DelayIsPower
  <2> QED
    BY <1>1, <2>1, <2>2, DelaysByDoubling, BackoffAssumption DEF Capped, ExponentialDelay
<1> QED
  BY <1>2, <1>3

\* The doubling never ends in a delay of zero: only a configured zero gives one.
LEMMA DelayIsZero ==
    ASSUME NEW attempts \in Nat
    PROVE  CalculateReconnectDelayMs(attempts) = 0 <=>
              InitialReconnectDelayMs = 0 \/ MaxReconnectDelayMs = 0
<1> DEFINE T == {k \in Nat : DelayAfterDoublings[k] # 0}
<1>1. CASE InitialReconnectDelayMs = 0 \/ MaxReconnectDelayMs = 0
  BY <1>1 DEF CalculateReconnectDelayMs
<1>2. CASE InitialReconnectDelayMs # 0 /\ MaxReconnectDelayMs # 0
  <2>1. 0 \in T
    BY <1>2, DelaysByDoubling
  <2>2. ASSUME NEW k \in Nat, k \in T PROVE k + 1 \in T
    BY <1>2, <2>2, DelaysByDoubling, BackoffAssumption DEF Doubled
  <2> HIDE DEF T
  <2>3. Nat \subseteq T
    BY <2>1, <2>2, NaturalsOf
  <2>4. \A k \in Nat : DelayAfterDoublings[k] \in Nat /\ DelayAfterDoublings[k] # 0
    BY <2>3, DelaysByDoubling DEF T
  <2> QED
    BY <1>2, <2>4, DelayIsCapped, BackoffAssumption DEF Capped
<1> QED
  BY <1>1, <1>2

\* One more failure does not shorten the delay.
LEMMA DelayGrows ==
    ASSUME NEW attempts \in Nat
    PROVE  CalculateReconnectDelayMs(attempts) <= CalculateReconnectDelayMs(attempts + 1)
<1>1. CASE InitialReconnectDelayMs = 0 \/ MaxReconnectDelayMs = 0
  BY <1>1 DEF CalculateReconnectDelayMs
<1>2. CASE InitialReconnectDelayMs # 0 /\ MaxReconnectDelayMs # 0
  <2>1. /\ CalculateReconnectDelayMs(attempts) = Capped(Doublings(attempts))
        /\ CalculateReconnectDelayMs(attempts + 1) = Capped(Doublings(attempts + 1))
        /\ Doublings(attempts) \in Nat
    BY <1>2, DelayIsCapped
  <2>2. Doublings(attempts + 1) \in {Doublings(attempts), Doublings(attempts) + 1}
    BY DEF Doublings
  <2>3. \A k \in Nat : Capped(k) \in Nat /\ Capped(k) <= Capped(k + 1)
    BY DelaysByDoubling, BackoffAssumption DEF Capped, Doubled
  <2> QED
    BY <2>1, <2>2, <2>3
<1> QED
  BY <1>1, <1>2

LEMMA FreshType ==
    ASSUME NEW s \in WifiState
    PROVE  Fresh(s) \in StateMachine
BY BackoffAssumption DEF Fresh, StateMachine, UInt8

\* WifiManagerStateMachine.cpp:44-60: a failure leads to a wait, with an attempt
\* left, or to the portal.
LEMMA FailedType ==
    ASSUME NEW m \in StateMachine
    PROVE  /\ OnConnectionFailed(m) \in StateMachine
           /\ OnConnectionFailed(m).state \in {kWaitingToRetry, kPortal}
           /\ OnConnectionFailed(m).state = kWaitingToRetry =>
                 OnConnectionFailed(m).connectAttempts < MaxConnectAttempts
<1> DEFINE attempts == (m.connectAttempts + 1) % 256
<1>1. attempts \in UInt8
  BY DEF StateMachine, UInt8
<1>2. CASE MaxConnectAttempts = 0
  <2>1. OnConnectionFailed(m) = [Fresh(kPortal) EXCEPT !.connectAttempts = m.connectAttempts]
    BY <1>2 DEF OnConnectionFailed
  <2> QED
    BY <2>1, FreshType DEF Fresh, StateMachine, WifiState
<1>3. CASE MaxConnectAttempts # 0 /\ attempts < MaxConnectAttempts
  <2>1. OnConnectionFailed(m) = [state            |-> kWaitingToRetry,
                                 connectAttempts  |-> attempts,
                                 reconnectDelayMs |-> CalculateReconnectDelayMs(attempts)]
    BY <1>3 DEF OnConnectionFailed
  <2> QED
    BY <1>1, <1>3, <2>1, DelayInRange DEF StateMachine, WifiState
<1>4. CASE MaxConnectAttempts # 0 /\ ~(attempts < MaxConnectAttempts)
  <2>1. OnConnectionFailed(m) = [Fresh(kPortal) EXCEPT !.connectAttempts = attempts]
    BY <1>4 DEF OnConnectionFailed
  <2> QED
    BY <1>1, <2>1, FreshType DEF Fresh, StateMachine, WifiState
<1> QED
  BY <1>2, <1>3, <1>4

LEMMA RetryType ==
    ASSUME NEW m \in StateMachine
    PROVE  /\ OnRetryTimerElapsed(m) \in StateMachine
           /\ OnRetryTimerElapsed(m).state = kConnecting
           /\ OnRetryTimerElapsed(m).connectAttempts = m.connectAttempts
BY DEF OnRetryTimerElapsed, StateMachine, WifiState

\* The state machine keeps its type under every sequence of calls.
THEOREM SMTypeCorrect == SMSpec => []SMTypeOK
<1>1. SMInit => SMTypeOK
  BY FreshType DEF SMInit, SMTypeOK, Reset, WifiState
<1>2. SMTypeOK /\ [SMNext]_sm => SMTypeOK'
  <2> SUFFICES ASSUME SMTypeOK, [SMNext]_sm PROVE SMTypeOK'
    OBVIOUS
  <2>1. CASE Failure
    BY <2>1, FailedType DEF Failure, SMTypeOK
  <2>2. CASE Retry
    BY <2>2, RetryType DEF Retry, SMTypeOK
  <2>3. CASE OtherCall
    BY <2>3, FreshType
    DEF OtherCall, SMTypeOK, Reset, OnStart, OnProvisioningRequested,
        OnCredentialsReceived, OnConnectionSucceeded, OnStop, WifiState
  <2>4. CASE UNCHANGED sm
    BY <2>4 DEF SMTypeOK
  <2> QED
    BY <2>1, <2>2, <2>3, <2>4 DEF SMNext
<1> QED
  BY <1>1, <1>2, PTL DEF SMSpec

------------------------------------------------------------------------------
\* A delay that is not zero is that of the failures counted so far.
DelayInv ==
    sm.reconnectDelayMs # 0 =>
        /\ sm.connectAttempts < MaxConnectAttempts
        /\ sm.reconnectDelayMs = CalculateReconnectDelayMs(sm.connectAttempts)

\* What a failure makes of the count.
NextCount(m) == (m.connectAttempts + 1) % 256

LEMMA FailureCounts ==
    ASSUME NEW m \in StateMachine
    PROVE  \/ /\ OnConnectionFailed(m).state = kPortal
              /\ OnConnectionFailed(m).reconnectDelayMs = 0
              /\ MaxConnectAttempts = 0 \/ ~(NextCount(m) < MaxConnectAttempts)
           \/ /\ OnConnectionFailed(m).state = kWaitingToRetry
              /\ OnConnectionFailed(m).connectAttempts = NextCount(m)
              /\ NextCount(m) < MaxConnectAttempts
              /\ OnConnectionFailed(m).reconnectDelayMs
                    = CalculateReconnectDelayMs(NextCount(m))
<1>1. CASE MaxConnectAttempts = 0
  BY <1>1 DEF OnConnectionFailed, Fresh
<1>2. CASE MaxConnectAttempts # 0 /\ ~(NextCount(m) < MaxConnectAttempts)
  <2>1. OnConnectionFailed(m) = [Fresh(kPortal) EXCEPT !.connectAttempts = NextCount(m)]
    BY <1>2 DEF OnConnectionFailed, NextCount
  <2> QED
    BY <1>2, <2>1 DEF Fresh
<1>3. CASE MaxConnectAttempts # 0 /\ NextCount(m) < MaxConnectAttempts
  <2>1. OnConnectionFailed(m)
          = [state            |-> kWaitingToRetry,
             connectAttempts  |-> NextCount(m),
             reconnectDelayMs |-> CalculateReconnectDelayMs(NextCount(m))]
    BY <1>3 DEF OnConnectionFailed, NextCount
  <2> QED
    BY <1>3, <2>1
<1> QED
  BY <1>1, <1>2, <1>3

\* WifiManagerStateMachine.cpp:44-66: the counter goes up by one and does not wrap
\* while attempts are left; the delay of a wait is that of its count.
LEMMA FailureStep ==
    ASSUME SMTypeOK, DelayInv, Failure
    PROVE  /\ DelayInv'
           /\ sm'.state = kWaitingToRetry => sm'.reconnectDelayMs >= sm.reconnectDelayMs
<1> DEFINE attempts == NextCount(sm)
<1>1. /\ sm' = OnConnectionFailed(sm)
      /\ sm' \in StateMachine
      /\ sm \in StateMachine
  BY FailedType DEF SMTypeOK, Failure
<1>2. /\ sm.connectAttempts \in 0..255
      /\ sm.reconnectDelayMs \in Nat
      /\ sm'.reconnectDelayMs \in Nat
  BY <1>1, BackoffAssumption DEF StateMachine, UInt8
<1>3. CASE sm'.state = kPortal
  BY <1>1, <1>3, FailureCounts DEF DelayInv
<1>4. CASE /\ sm'.state = kWaitingToRetry
           /\ sm'.connectAttempts = attempts
           /\ attempts < MaxConnectAttempts
           /\ sm'.reconnectDelayMs = CalculateReconnectDelayMs(attempts)
  <2>1. DelayInv'
    BY <1>4 DEF DelayInv
  <2>2. CASE sm.connectAttempts = 255
    <3>1. sm.reconnectDelayMs = 0
      BY <1>2, <2>2, BackoffAssumption DEF DelayInv
    <3> QED
      BY <1>2, <2>1, <3>1
  <2>3. CASE sm.connectAttempts # 255
    <3>1. attempts = sm.connectAttempts + 1
      BY <1>2, <2>3 DEF NextCount
    <3>2. sm'.reconnectDelayMs >= sm.reconnectDelayMs
      BY <1>2, <1>4, <3>1, DelayGrows DEF DelayInv
    <3> QED
      BY <2>1, <3>2
  <2> QED
    BY <2>2, <2>3
<1> QED
  BY <1>1, <1>3, <1>4, FailureCounts

LEMMA OtherStep == SMTypeOK /\ (Retry \/ OtherCall) => (DelayInv => DelayInv')
<1>1. SMTypeOK /\ Retry => sm'.reconnectDelayMs = sm.reconnectDelayMs
                          /\ sm'.connectAttempts = sm.connectAttempts
  BY DEF SMTypeOK, StateMachine, Retry, OnRetryTimerElapsed
<1>2. OtherCall => sm'.reconnectDelayMs = 0
  BY DEF OtherCall, Fresh, Reset, OnStart, OnProvisioningRequested,
         OnCredentialsReceived, OnConnectionSucceeded, OnStop
<1> QED
  BY <1>1, <1>2 DEF DelayInv

LEMMA DelayInvariant == SMSpec => [](SMTypeOK /\ DelayInv)
<1>1. SMInit => SMTypeOK /\ DelayInv
  BY FreshType DEF SMInit, SMTypeOK, DelayInv, Reset, Fresh, WifiState
<1>2. SMTypeOK /\ DelayInv /\ [SMNext]_sm => DelayInv'
  BY FailureStep, OtherStep DEF SMNext, DelayInv
<1> QED
  BY <1>1, <1>2, SMTypeCorrect, PTL DEF SMSpec

\* WifiManagerStateMachine.cpp:91-107: within a run of failures the wait never gets
\* shorter, for every initial delay, every maximum and every number of attempts.
THEOREM BackoffCorrect == SMSpec => BackoffNeverShrinks
<1>1. SMTypeOK /\ DelayInv /\ [SMNext]_sm =>
        [Failure /\ sm'.state = kWaitingToRetry =>
            sm'.reconnectDelayMs >= sm.reconnectDelayMs]_sm
  BY FailureStep
<1> QED
  BY <1>1, DelayInvariant, PTL DEF SMSpec, BackoffNeverShrinks

\* A wait has the delay of its count.
SMWaitInv ==
    sm.state = kWaitingToRetry =>
        /\ sm.connectAttempts < MaxConnectAttempts
        /\ sm.reconnectDelayMs = CalculateReconnectDelayMs(sm.connectAttempts)

LEMMA WaitStep == SMTypeOK /\ SMWaitInv /\ [SMNext]_sm => SMWaitInv'
<1> SUFFICES ASSUME SMTypeOK, SMWaitInv, [SMNext]_sm PROVE SMWaitInv'
  OBVIOUS
<1>1. CASE Failure
  <2>1. sm \in StateMachine /\ sm' = OnConnectionFailed(sm)
    BY <1>1 DEF SMTypeOK, Failure
  <2> QED
    BY <2>1, FailureCounts DEF SMWaitInv
<1>2. CASE Retry
  BY <1>2, RetryType DEF Retry, SMTypeOK, SMWaitInv
<1>3. CASE OtherCall
  <2>1. sm'.state # kWaitingToRetry
    BY <1>3 DEF OtherCall, Reset, OnStart, OnProvisioningRequested, OnCredentialsReceived,
                OnConnectionSucceeded, OnStop, Fresh
  <2> QED
    BY <2>1 DEF SMWaitInv
<1>4. CASE UNCHANGED sm
  BY <1>4 DEF SMWaitInv
<1> QED
  BY <1>1, <1>2, <1>3, <1>4 DEF SMNext

\* WifiManagerStateMachine.cpp:55-58, 91-107: a wait leaves an attempt, and its delay is
\* the initial one times two to the number of earlier failures, or the maximum, for
\* every configuration; so neither the loop's bounds nor where it tests the maximum
\* is off by one.
THEOREM ExponentialCorrect == SMSpec => []BackoffIsExponential
<1>1. SMInit => SMWaitInv
  BY DEF SMInit, SMWaitInv, Reset, Fresh
<1>2. SMTypeOK /\ SMWaitInv => BackoffIsExponential
  BY DelayIsExponential DEF SMTypeOK, StateMachine, UInt8, SMWaitInv, BackoffIsExponential
<1> QED
  BY <1>1, <1>2, WaitStep, SMTypeCorrect, PTL DEF SMSpec

\* WifiManagerStateMachine.cpp:54-64: once the attempts are used up, a late failure
\* cannot leave the portal before the counter wraps.
THEOREM LateFailuresCorrect == SMSpec => LateFailuresStayInPortal
<1>1. SMTypeOK /\ [SMNext]_sm =>
        [(/\ Failure
          /\ sm.state = kPortal
          /\ sm.connectAttempts >= MaxConnectAttempts
          /\ sm.connectAttempts < 255) => sm'.state = kPortal]_sm
  <2> SUFFICES ASSUME SMTypeOK, Failure, sm.connectAttempts >= MaxConnectAttempts,
                      sm.connectAttempts < 255
               PROVE  sm'.state = kPortal
    OBVIOUS
  <2>1. sm \in StateMachine /\ NextCount(sm) = sm.connectAttempts + 1
    BY DEF SMTypeOK, StateMachine, UInt8, NextCount
  <2>2. sm.connectAttempts \in Nat
    BY <2>1 DEF StateMachine, UInt8
  <2> QED
    BY <2>1, <2>2, FailureCounts, BackoffAssumption DEF Failure
<1> QED
  BY <1>1, SMTypeCorrect, PTL DEF SMSpec, LateFailuresStayInPortal

------------------------------------------------------------------------------
\* What every driver call may answer.
DriverReplies == [result : Results, drv : Driver]

LEMMA RepliesType ==
    ASSUME NEW call, NEW driver \in Driver, NEW after \in Driver
    PROVE  Replies(call, driver, after) \subseteq DriverReplies
BY DEF Replies, DriverReplies, Results

LEMMA PostedType ==
    ASSUME NEW driver \in Driver, NEW link \in {"down", "connecting", "up"},
           NEW event \in DriverEvent
    PROVE  Posted(driver, link, event) \in Driver
BY DEF Posted, Driver

LEMMA SetModeType ==
    ASSUME NEW driver \in Driver, NEW mode \in {"STA", "APSTA"}
    PROVE  esp_wifi_set_mode(driver, mode) \subseteq DriverReplies
<1>1. [driver EXCEPT !.mode = mode] \in Driver
  BY DEF Driver
<1> QED
  BY <1>1, RepliesType DEF esp_wifi_set_mode

LEMMA StartType ==
    ASSUME NEW driver \in Driver
    PROVE  esp_wifi_start(driver) \subseteq DriverReplies
<1>1. [driver EXCEPT !.started = TRUE] \in Driver
  BY DEF Driver
<1> QED
  BY <1>1, RepliesType DEF esp_wifi_start

LEMMA StopType ==
    ASSUME NEW driver \in Driver
    PROVE  esp_wifi_stop(driver) \subseteq DriverReplies
<1>1. [started |-> FALSE, mode |-> driver.mode, link |-> "down",
       events |-> driver.events] \in Driver
  BY DEF Driver
<1> QED
  BY <1>1, RepliesType DEF esp_wifi_stop

LEMMA DisconnectType ==
    ASSUME NEW driver \in Driver
    PROVE  esp_wifi_disconnect(driver) \subseteq DriverReplies
<1>1. Posted(driver, "down", "leave") \in Driver
  BY PostedType DEF DriverEvent
<1>2. [result |-> ESP_ERR_WIFI_NOT_CONNECT, drv |-> driver] \in DriverReplies
  BY DEF DriverReplies, Results
<1>3. Replies("esp_wifi_disconnect", driver, Posted(driver, "down", "leave"))
        \subseteq DriverReplies
  BY <1>1, RepliesType
<1>4. Replies("esp_wifi_disconnect", driver, driver) \subseteq DriverReplies
  BY RepliesType
<1> QED
  BY <1>2, <1>3, <1>4 DEF esp_wifi_disconnect

LEMMA SetConfigType ==
    ASSUME NEW driver \in Driver
    PROVE  esp_wifi_set_sta_config(driver) \subseteq DriverReplies
<1>1. [result |-> ESP_FAIL, drv |-> driver] \in DriverReplies
  BY DEF DriverReplies, Results
<1> QED
  BY <1>1, RepliesType DEF esp_wifi_set_sta_config

LEMMA ConnectType ==
    ASSUME NEW driver \in Driver
    PROVE  esp_wifi_connect(driver) \subseteq DriverReplies
<1>1. [driver EXCEPT !.link = "connecting"] \in Driver
  BY DEF Driver
<1>2. \A r \in {ESP_OK, ESP_FAIL} : [result |-> r, drv |-> driver] \in DriverReplies
  BY DEF DriverReplies, Results
<1> QED
  BY <1>1, <1>2, RepliesType DEF esp_wifi_connect

\* What the driver does by itself.
LEMMA LinkMovesType ==
    ASSUME NEW driver \in Driver
    PROVE  LinkComesUp(driver) \cup ConnectFails(driver) \cup LinkIsLost(driver)
             \subseteq Driver
BY PostedType DEF LinkComesUp, ConnectFails, LinkIsLost, DriverEvent

------------------------------------------------------------------------------
LEMMA CallsType ==
    ASSUME NEW adapter \in Adapter, NEW replies \in SUBSET DriverReplies
    PROVE  Calls(adapter, replies) \subseteq Outcomes
BY DEF Calls, DriverReplies, Outcome, Outcomes

LEMMA OutcomeType ==
    /\ \A result \in Results, adapter \in Adapter, driver \in Driver :
          Outcome(result, adapter, driver) \in Outcomes
    /\ \A o \in Outcomes : o.result \in Results /\ o.ad \in Adapter /\ o.drv \in Driver
    /\ ESP_OK \in Results /\ ESP_FAIL \in Results
BY DEF Outcome, Outcomes, Results

\* Every flag can be written by itself.
LEMMA FlagType ==
    ASSUME NEW adapter \in Adapter, NEW b \in BOOLEAN
    PROVE  /\ [adapter EXCEPT !.initialized = b] \in Adapter
           /\ [adapter EXCEPT !.started = b] \in Adapter
           /\ [adapter EXCEPT !.wifiStarted = b] \in Adapter
           /\ [adapter EXCEPT !.apNetif = b] \in Adapter
           /\ [adapter EXCEPT !.suppress = b] \in Adapter
BY DEF Adapter

LEMMA StartWifiType ==
    ASSUME NEW adapter \in Adapter, NEW driver \in Driver
    PROVE  StartWifi(adapter, driver) \subseteq Outcomes
<1> DEFINE S == Calls(adapter, esp_wifi_start(driver))
<1>1. S \subseteq Outcomes
  BY StartType, CallsType
<1>2. SUFFICES ASSUME NEW o \in S
      PROVE (IF o.result = ESP_OK
             THEN {Outcome(ESP_OK, [o.ad EXCEPT !.wifiStarted = TRUE], o.drv)}
             ELSE {o}) \subseteq Outcomes
  BY DEF StartWifi, Then
<1> HIDE DEF S
<1>3. o.ad \in Adapter
  BY <1>1, OutcomeType
<1>4. [o.ad EXCEPT !.wifiStarted = TRUE] \in Adapter
  BY <1>3, FlagType
<1> QED
  BY <1>1, <1>4, OutcomeType

LEMMA StopWifiType ==
    ASSUME NEW adapter \in Adapter, NEW driver \in Driver
    PROVE  StopWifi(adapter, driver) \subseteq Outcomes
<1> DEFINE S == Calls(adapter, esp_wifi_stop(driver))
<1>1. S \subseteq Outcomes
  BY StopType, CallsType
<1>2. SUFFICES ASSUME NEW o \in S
      PROVE (IF o.result = ESP_OK
             THEN {Outcome(ESP_OK, [o.ad EXCEPT !.wifiStarted = FALSE], o.drv)}
             ELSE {o}) \subseteq Outcomes
  BY DEF StopWifi, Then
<1> HIDE DEF S
<1>3. o.ad \in Adapter
  BY <1>1, OutcomeType
<1>4. [o.ad EXCEPT !.wifiStarted = FALSE] \in Adapter
  BY <1>3, FlagType
<1> QED
  BY <1>1, <1>4, OutcomeType

LEMMA EnsureWifiStartedType ==
    ASSUME NEW adapter \in Adapter, NEW driver \in Driver
    PROVE  EnsureWifiStarted(adapter, driver) \subseteq Outcomes
<1> DEFINE S == Calls(adapter, esp_wifi_set_mode(driver, "STA"))
<1>1. S \subseteq Outcomes
  BY SetModeType, CallsType
<1>2. SUFFICES ASSUME NEW o \in S
      PROVE (IF o.result = ESP_OK
             THEN IF o.ad.wifiStarted THEN {Outcome(ESP_OK, o.ad, o.drv)}
                                      ELSE StartWifi(o.ad, o.drv)
             ELSE {o}) \subseteq Outcomes
  BY DEF EnsureWifiStarted, Then
<1> HIDE DEF S
<1> QED
  BY <1>1, OutcomeType, StartWifiType

LEMMA StartSoftApType ==
    ASSUME NEW adapter \in Adapter, NEW driver \in Driver
    PROVE  StartSoftAp(adapter, driver) \subseteq Outcomes
<1> DEFINE S == Calls(adapter, esp_wifi_set_mode(driver, "APSTA"))
<1>1. S \subseteq Outcomes
  BY SetModeType, CallsType
<1>2. SUFFICES ASSUME NEW o \in S
      PROVE (IF o.result = ESP_OK THEN CreateSoftAp(o.ad, o.drv) ELSE {o})
              \subseteq Outcomes
  BY OutcomeType DEF StartSoftAp, Then
<1> HIDE DEF S
<1>3. ASSUME NEW a \in Adapter, NEW d \in Driver
      PROVE  CreateSoftAp(a, d) \subseteq Outcomes
  <2>1. Calls([a EXCEPT !.apNetif = TRUE], Replies("esp_wifi_set_config", d, d))
          \subseteq Outcomes
    BY FlagType, RepliesType, CallsType
  <2> QED
    BY <2>1, OutcomeType DEF CreateSoftAp
<1> QED
  BY <1>1, <1>3, OutcomeType

LEMMA StopSoftApType ==
    ASSUME NEW adapter \in Adapter, NEW driver \in Driver
    PROVE  StopSoftAp(adapter, driver) \subseteq Outcomes
<1> DEFINE S == Calls(adapter, esp_wifi_set_mode(driver, "STA"))
<1>1. S \subseteq Outcomes
  BY SetModeType, CallsType
<1>2. SUFFICES ASSUME NEW o \in S
      PROVE (IF o.result = ESP_OK
             THEN {Outcome(ESP_OK, [o.ad EXCEPT !.apNetif = FALSE], o.drv)}
             ELSE {o}) \subseteq Outcomes
  BY OutcomeType DEF StopSoftAp, Then
<1> HIDE DEF S
<1>3. o.ad \in Adapter
  BY <1>1, OutcomeType
<1>4. [o.ad EXCEPT !.apNetif = FALSE] \in Adapter
  BY <1>3, FlagType
<1> QED
  BY <1>1, <1>4, OutcomeType

LEMMA ConnectStationType ==
    ASSUME NEW adapter \in Adapter, NEW driver \in Driver, NEW credentials
    PROVE  ConnectStation(adapter, driver, credentials) \subseteq Outcomes
<1>1. ASSUME NEW a \in Adapter, NEW d \in Driver
      PROVE  Configure(a, d) \subseteq Outcomes
  <2> DEFINE S == Calls(a, esp_wifi_set_sta_config(d))
  <2>1. S \subseteq Outcomes
    BY SetConfigType, CallsType
  <2>2. SUFFICES ASSUME NEW o \in S
        PROVE (IF o.result = ESP_OK THEN Calls(o.ad, esp_wifi_connect(o.drv)) ELSE {o})
                \subseteq Outcomes
    BY DEF Configure, Then
  <2> HIDE DEF S
  <2> QED
    BY <2>1, OutcomeType, ConnectType, CallsType
<1> DEFINE S == EnsureWifiStarted(adapter, driver)
<1>2. S \subseteq Outcomes
  BY EnsureWifiStartedType
<1>3. SUFFICES ASSUME NEW o \in S
      PROVE (IF o.result = ESP_OK THEN Configure(o.ad, o.drv) ELSE {o}) \subseteq Outcomes
  BY OutcomeType DEF ConnectStation, Then
<1> HIDE DEF S
<1> QED
  BY <1>1, <1>2, OutcomeType

LEMMA LeaveNetworkType ==
    ASSUME NEW adapter \in Adapter, NEW driver \in Driver
    PROVE  LeaveNetwork(adapter, driver) \subseteq Outcomes
<1>1. SUFFICES ASSUME NEW r \in esp_wifi_disconnect(driver)
      PROVE Outcome(IF r.result = ESP_FAIL THEN ESP_FAIL ELSE ESP_OK,
                    [adapter EXCEPT !.suppress = (r.result = ESP_OK)], r.drv) \in Outcomes
  BY DEF LeaveNetwork
<1>2. r.drv \in Driver
  BY DisconnectType DEF DriverReplies
<1>3. [adapter EXCEPT !.suppress = (r.result = ESP_OK)] \in Adapter
  BY FlagType
<1> QED
  BY <1>2, <1>3, OutcomeType

------------------------------------------------------------------------------
LEMMA AdapterStartType ==
    ASSUME NEW adapter \in Adapter, NEW driver \in Driver
    PROVE  AdapterStart(adapter, driver) \subseteq Outcomes
<1>1. [initialized |-> TRUE, started |-> TRUE, wifiStarted |-> adapter.wifiStarted,
       apNetif |-> adapter.apNetif, suppress |-> FALSE] \in Adapter
  BY DEF Adapter
<1> QED
  BY <1>1, OutcomeType, EnsureWifiStartedType DEF AdapterStart

LEMMA AdapterInitType ==
    ASSUME NEW adapter \in Adapter, NEW driver \in Driver
    PROVE  AdapterInit(adapter, driver) \subseteq Outcomes
<1>1. [adapter EXCEPT !.initialized = TRUE] \in Adapter
  BY FlagType
<1> QED
  BY <1>1, OutcomeType DEF AdapterInit

LEMMA AdapterStopType ==
    ASSUME NEW adapter \in Adapter, NEW driver \in Driver
    PROVE  AdapterStop(adapter, driver) \subseteq Outcomes
<1> DEFINE a == [adapter EXCEPT !.started = FALSE]
           Flagged(r) == [a EXCEPT !.suppress = (r.result # ESP_ERR_WIFI_NOT_CONNECT)]
           After(r) == IF r.result = ESP_FAIL THEN {Outcome(ESP_FAIL, Flagged(r), r.drv)}
                       ELSE StopWifi(Flagged(r), r.drv)
<1>1. a \in Adapter
  BY FlagType
<1>2. AdapterStop(adapter, driver) = IF ~a.wifiStarted THEN {Outcome(ESP_OK, a, driver)}
                                 ELSE UNION {After(r) : r \in esp_wifi_disconnect(driver)}
  BY DEF AdapterStop
<1> HIDE DEF a
<1>3. ASSUME NEW r \in esp_wifi_disconnect(driver)
      PROVE  After(r) \subseteq Outcomes
  <2>1. r.drv \in Driver
    BY DisconnectType DEF DriverReplies
  <2>2. Flagged(r) \in Adapter
    BY <1>1, FlagType
  <2> HIDE DEF Flagged
  <2> QED
    BY <2>1, <2>2, OutcomeType, StopWifiType
<1> HIDE DEF After
<1> QED
  BY <1>1, <1>2, <1>3, OutcomeType

LEMMA AdapterDeinitType ==
    ASSUME NEW adapter \in Adapter, NEW driver \in Driver,
           NEW o \in AdapterDeinit(adapter, driver)
    PROVE  o.drv \in Driver
<1> DEFINE Off(s) == [started |-> FALSE, mode |-> "STA", link |-> "down",
                      events |-> s.drv.events]
           Left(s) == [FreshAdapter EXCEPT !.wifiStarted = s.ad.wifiStarted,
                                           !.apNetif = s.ad.apNetif]
<1>1. PICK s \in AdapterStop(adapter, driver) :
         o = IF s.result = ESP_OK THEN Outcome(ESP_OK, FreshAdapter, Off(s))
             ELSE Outcome(s.result, Left(s), s.drv)
  BY DEF AdapterDeinit
<1> HIDE DEF Left
<1>2. s.drv \in Driver
  BY AdapterStopType DEF Outcomes
<1>3. Off(s) \in Driver
  BY <1>2 DEF Driver
<1> HIDE DEF Off
<1> QED
  BY <1>1, <1>2, <1>3 DEF Outcome

LEMMA ApplyConnectingType ==
    ASSUME NEW adapter \in Adapter, NEW driver \in Driver, NEW credentials
    PROVE  ApplyConnecting(adapter, driver, credentials) \subseteq Outcomes
<1>1. SUFFICES ASSUME NEW o \in StopSoftAp(adapter, driver)
      PROVE (IF o.result = ESP_OK THEN ConnectStation(o.ad, o.drv, credentials)
             ELSE {o}) \subseteq Outcomes
  BY DEF ApplyConnecting, Then
<1> QED
  BY StopSoftApType, ConnectStationType, OutcomeType

LEMMA ApplyPortalType ==
    ASSUME NEW adapter \in Adapter, NEW driver \in Driver
    PROVE  ApplyPortal(adapter, driver) \subseteq Outcomes
<1> DEFINE S == IF adapter.wifiStarted THEN LeaveNetwork(adapter, driver)
                                       ELSE EnsureWifiStarted(adapter, driver)
<1>1. SUFFICES ASSUME NEW o \in S
      PROVE (IF o.result = ESP_OK THEN StartSoftAp(o.ad, o.drv) ELSE {o})
              \subseteq Outcomes
  BY DEF ApplyPortal, Then
<1>2. S \subseteq Outcomes
  BY LeaveNetworkType, EnsureWifiStartedType
<1> HIDE DEF S
<1> QED
  BY <1>2, StartSoftApType, OutcomeType

LEMMA ApplyStoppedType ==
    ASSUME NEW adapter \in Adapter, NEW driver \in Driver
    PROVE  ApplyStopped(adapter, driver) \subseteq Outcomes
<1> DEFINE Leave(a, d) == IF ~a.wifiStarted THEN {Outcome(ESP_OK, a, d)}
                          ELSE Then(LeaveNetwork(a, d), StopWifi)
<1>1. ASSUME NEW a \in Adapter, NEW d \in Driver
      PROVE  Leave(a, d) \subseteq Outcomes
  <2>1. SUFFICES ASSUME NEW o \in LeaveNetwork(a, d)
        PROVE (IF o.result = ESP_OK THEN StopWifi(o.ad, o.drv) ELSE {o}) \subseteq Outcomes
    BY OutcomeType DEF Then
  <2> QED
    BY LeaveNetworkType, StopWifiType, OutcomeType
<1>2. ApplyStopped(adapter, driver) = Then(StopSoftAp(adapter, driver), Leave)
  BY DEF ApplyStopped
<1> HIDE DEF Leave
<1>3. SUFFICES ASSUME NEW o \in StopSoftAp(adapter, driver)
      PROVE (IF o.result = ESP_OK THEN Leave(o.ad, o.drv) ELSE {o}) \subseteq Outcomes
  BY <1>2 DEF Then
<1> QED
  BY <1>1, StopSoftApType, OutcomeType

\* WifiManagerEspIdfAdapter.cpp:107-188: the states that ask nothing of the driver
\* always succeed and change nothing.
LEMMA ApplyStateType ==
    ASSUME NEW adapter \in Adapter, NEW driver \in Driver, NEW target, NEW credentials
    PROVE  /\ ApplyState(adapter, driver, target, credentials) \subseteq Outcomes
           /\ target \notin {kConnecting, kPortal, kStopped} =>
                 ApplyState(adapter, driver, target, credentials)
                   = {Outcome(ESP_OK, adapter, driver)}
BY ApplyConnectingType, ApplyPortalType, ApplyStoppedType, OutcomeType
DEF ApplyState, kConnecting, kPortal, kStopped

\* WifiManagerEspIdfAdapter.cpp:283-324.
LEMMA AfterEventType ==
    ASSUME NEW adapter \in Adapter, NEW event
    PROVE  AfterEvent(adapter, event) \in Adapter
BY FlagType DEF AfterEvent

------------------------------------------------------------------------------
\* A manager that does not run has stopped, failed, or not started, and its state
\* machine says so.  Without this part a forced start could leave the timer armed.
RestInv ==
    ~running => /\ state \in {kInit, kStopped, kError}
                /\ sm.state \in {kInit, kStopped}

ManagerInv ==
    /\ ManagerTypeOK
    /\ RetryTimerInv
    /\ AttemptsLeft
    /\ ShadowState
    /\ RestInv
    /\ eventQueue = <<>>

------------------------------------------------------------------------------
LEMMA PortalType ==
    ASSUME NEW p \in Portal
    PROVE  /\ StartPortal(p) \subseteq Portal
           /\ StopPortal(p) \subseteq Portal
<1>1. \A active, http, dns \in BOOLEAN :
         [active |-> active, http |-> http, dns |-> dns] \in Portal
  BY DEF Portal
<1>2. \A call : CanStart(call) \subseteq BOOLEAN
  BY DEF CanStart
<1>3. StopPortal(p) \subseteq Portal
  <2>1. \A ok \in BOOLEAN : (~ok) \in BOOLEAN
    OBVIOUS
  <2> QED
    BY <1>1, <1>2, <2>1 DEF StopPortal
<1>4. StartPortal(p) \subseteq Portal
  <2> DEFINE After(ok, dnsOk) == [active |-> ok /\ ~p.http,
                                  http   |-> ok \/ p.http,
                                  dns    |-> ok /\ ~p.http /\ (dnsOk \/ p.dns)]
  <2>1. ASSUME NEW ok \in BOOLEAN, NEW dnsOk \in BOOLEAN
        PROVE  After(ok, dnsOk) \in Portal
    <3>1. /\ (ok /\ ~p.http) \in BOOLEAN
          /\ (ok \/ p.http) \in BOOLEAN
          /\ (ok /\ ~p.http /\ (dnsOk \/ p.dns)) \in BOOLEAN
      OBVIOUS
    <3> QED
      BY <1>1, <3>1
  <2>2. StartPortal(p) = IF p.active THEN {p}
                         ELSE {After(ok, dnsOk) : ok \in CanStart("httpd_start"),
                                                  dnsOk \in CanStart("dns_start")}
    BY DEF StartPortal
  <2> HIDE DEF After
  <2> QED
    BY <1>2, <2>1, <2>2
<1> QED
  BY <1>3, <1>4

LEMMA SchedulerType ==
    /\ Cancel \in RetryScheduler
    /\ ~Cancel.armed
    /\ \A delayMs \in Nat : Arm(delayMs) \in RetryScheduler
    /\ \A delayMs \in Nat : Arm(delayMs).armed <=> delayMs > 0
<1>1. Cancel \in RetryScheduler /\ ~Cancel.armed
  BY DEF Cancel, RetryScheduler
<1>2. ASSUME NEW delayMs \in Nat
      PROVE  Arm(delayMs) \in RetryScheduler /\ (Arm(delayMs).armed <=> delayMs > 0)
  <2>1. (delayMs > 0) \in BOOLEAN
    OBVIOUS
  <2> QED
    BY <2>1 DEF Arm, RetryScheduler
<1> QED
  BY <1>1, <1>2

\* WifiRetryScheduler.hpp:21-34: a countdown that does not elapse stays as armed
\* as it was.
LEMMA AdvanceType ==
    ASSUME NEW timer \in RetryScheduler, NEW elapsedMs \in Nat
    PROVE  /\ Advance(timer, elapsedMs) \in RetryScheduler
           /\ ~Elapses(timer, elapsedMs) => (Advance(timer, elapsedMs).armed <=> timer.armed)
<1>1. CASE ~timer.armed
  BY <1>1 DEF Advance
<1>2. CASE timer.armed /\ Elapses(timer, elapsedMs)
  BY <1>2, SchedulerType DEF Advance
<1>3. CASE timer.armed /\ ~Elapses(timer, elapsedMs)
  <2>1. timer.remainingDelayMs - elapsedMs \in Nat
    BY <1>3 DEF Elapses, RetryScheduler
  <2>2. Advance(timer, elapsedMs)
          = [timer EXCEPT !.remainingDelayMs = timer.remainingDelayMs - elapsedMs]
    BY <1>3 DEF Advance
  <2> QED
    BY <2>1, <2>2 DEF RetryScheduler
<1> QED
  BY <1>1, <1>2, <1>3

LEMMA FaceType ==
    /\ \A s \in WifiState, status \in WifiRuntimeStatus, p \in Portal, a \in Adapter,
          d \in Driver : /\ FaceOf(s, status, p, a, d) \in Faces
                         /\ FaceOf(s, status, p, a, d).state = s
    /\ \A face \in Faces, status \in WifiRuntimeStatus :
          WithStatus(face, status) \in Faces /\ WithStatus(face, status).state = face.state
    /\ \A face \in Faces, o \in Outcomes :
          WithOutcome(face, o) \in Faces /\ WithOutcome(face, o).state = face.state
BY DEF FaceOf, Faces, WithStatus, WithOutcome, Outcomes

\* WifiManager.cpp:332-336: the portal follows the state and touches nothing else.
LEMMA PortalFollowsType ==
    ASSUME NEW previous, NEW face \in Faces, NEW f \in PortalFollows(previous, face)
    PROVE  f \in Faces /\ f.state = face.state
<1>1. PICK p \in Portal :
         f = FaceOf(face.state, face.runtimeStatus, p, face.ad, face.drv)
  BY PortalType DEF PortalFollows, Faces
<1> QED
  BY <1>1, FaceType DEF Faces

\* WifiManager.cpp:311-337: SetState ends in the state it was asked for, or in
\* kError if that state asks something of the adapter.
LEMMA SetStateType ==
    ASSUME NEW face \in Faces, NEW n \in WifiState, NEW credentials,
           NEW f \in SetState(face, n, credentials)
    PROVE  /\ f \in Faces
           /\ f.state \in {n, kError}
           /\ n \notin {kConnecting, kPortal, kStopped} => f.state = n
<1> DEFINE Failed(o) == FaceOf(kError, "none", face.portal, o.ad, o.drv)
           Applied(o) == FaceOf(n, face.runtimeStatus, face.portal, o.ad, o.drv)
<1>1. PICK o \in ApplyState(face.ad, face.drv, n, credentials) :
         f \in IF o.result # ESP_OK /\ n # kError THEN {Failed(o)}
               ELSE PortalFollows(face.state, Applied(o))
  BY DEF SetState
<1>2. face.ad \in Adapter /\ face.drv \in Driver
  BY DEF Faces
<1>3. o \in Outcomes
  BY <1>1, <1>2, ApplyStateType
<1>4. /\ Failed(o) \in Faces /\ Failed(o).state = kError
      /\ Applied(o) \in Faces /\ Applied(o).state = n
  BY <1>3, FaceType DEF Faces, Outcomes, WifiState, WifiRuntimeStatus
<1>5. n \notin {kConnecting, kPortal, kStopped} => o.result = ESP_OK
  BY <1>1, <1>2, ApplyStateType DEF Outcome
<1> HIDE DEF Failed, Applied
<1> QED
  BY <1>1, <1>4, <1>5, PortalFollowsType

LEMMA LoadType ==
    ASSUME NEW keys \in Nvs, NEW load \in LoadOutcomes(keys)
    PROVE  load.loaded \in BOOLEAN /\ load.credentials \in WifiCredentials
<1> DEFINE Loaded(ok, ssid, password) ==
             [loaded      |-> ok,
              credentials |-> [ssid |-> ssid, password |-> password]]
<1>1. \/ load = Loaded(FALSE, "", "")
      \/ load = Loaded(FALSE, keys.ssid, "") /\ keys.ssid # NotStored
      \/ /\ load = Loaded(TRUE, keys.ssid, keys.pass)
         /\ keys.ssid # NotStored /\ keys.pass # NotStored
  BY Zenon DEF LoadOutcomes
<1>2. /\ keys.ssid # NotStored => keys.ssid \in Ssid
      /\ keys.pass # NotStored => keys.pass \in Password
  BY DEF Nvs
<1>3. \A ok \in BOOLEAN, ssid \in Ssid \cup {""}, password \in Password \cup {""} :
         /\ Loaded(ok, ssid, password).loaded \in BOOLEAN
         /\ Loaded(ok, ssid, password).credentials \in WifiCredentials
  BY DEF WifiCredentials
<1> HIDE DEF Loaded
<1> QED
  BY <1>1, <1>2, <1>3

LEMMA SaveType ==
    ASSUME NEW keys \in Nvs, NEW credentials \in Credentials,
           NEW save \in SaveOutcomes(keys, credentials)
    PROVE  save.nvs \in Nvs
<1>1. [keys EXCEPT !.ssid = credentials.ssid] \in Nvs
  BY DEF Nvs, Credentials
<1>2. [ssid |-> credentials.ssid, pass |-> credentials.password] \in Nvs
  BY DEF Nvs, Credentials
<1> QED
  BY <1>1, <1>2 DEF SaveOutcomes

LEMMA BecomesType ==
    ASSUME NEW f \in Faces, Becomes(f)
    PROVE  /\ state' = f.state
           /\ state' \in WifiState
           /\ runtimeStatus' \in WifiRuntimeStatus
           /\ portal' \in Portal
           /\ ad' \in Adapter
           /\ drv' \in Driver
BY DEF Becomes, Faces

------------------------------------------------------------------------------
\* DispatchEvent (WifiManager.cpp:158-237), one lemma per event.  The face and the
\* timer are what the caller has made of the variables by then.

LEMMA UnhandledStep ==
    ASSUME ManagerInv, NEW face \in Faces, face.state = state,
           NEW timer \in RetryScheduler, timer.armed <=> state = kWaitingToRetry,
           Unhandled(face, timer), nvs' \in Nvs,
           UNCHANGED <<initialized, running, eventQueue>>
    PROVE  ManagerInv' /\ UNCHANGED state
<1>1. /\ state' = state
      /\ <<runtimeStatus', portal', ad', drv'>> \in
            WifiRuntimeStatus \X Portal \X Adapter \X Driver
  BY BecomesType DEF Unhandled
<1>2. ManagerTypeOK'
  BY <1>1 DEF Unhandled, ManagerInv, ManagerTypeOK
<1>3. (RetryTimerInv /\ AttemptsLeft /\ ShadowState /\ RestInv)'
  BY <1>1 DEF Unhandled, ManagerInv, RetryTimerInv, AttemptsLeft, ShadowState, RestInv
<1> QED
  BY <1>1, <1>2, <1>3 DEF ManagerInv

LEMMA SucceededStep ==
    ASSUME ManagerInv, NEW face \in Faces, ConnectionSucceeded(face),
           UNCHANGED <<initialized, running, eventQueue>>
    PROVE  ManagerInv'
<1>1. PICK f \in SetState(WithStatus(face, "address"), kConnected, activeCredentials) :
         Becomes(f)
  BY DEF ConnectionSucceeded
<1>2. f \in Faces /\ f.state = kConnected
  BY <1>1, SetStateType, FaceType DEF WifiState, WifiRuntimeStatus
<1>3. /\ state' = kConnected
      /\ <<runtimeStatus', portal', ad', drv'>> \in
            WifiRuntimeStatus \X Portal \X Adapter \X Driver
  BY <1>1, <1>2, BecomesType
<1>4. sm' \in StateMachine /\ sm'.state = kConnected
  BY FreshType DEF ConnectionSucceeded, OnConnectionSucceeded, Fresh, WifiState
<1>5. ManagerTypeOK'
  BY <1>3, <1>4, SchedulerType DEF ConnectionSucceeded, ManagerInv, ManagerTypeOK, WifiState
<1>6. (RetryTimerInv /\ AttemptsLeft /\ ShadowState /\ RestInv)'
  BY <1>3, <1>4, SchedulerType
  DEF ConnectionSucceeded, ManagerInv, RetryTimerInv, AttemptsLeft, ShadowState, RestInv
<1> QED
  BY <1>5, <1>6 DEF ManagerInv

LEMMA ProvisioningStep ==
    ASSUME ManagerInv, NEW face \in Faces, face.state = state,
           ProvisioningRequested(face),
           UNCHANGED <<initialized, running, eventQueue>>
    PROVE  ManagerInv' /\ (~running => UNCHANGED state)
<1>1. CASE running
  <2>1. PICK f \in SetState(face, kPortal, activeCredentials) : Becomes(f)
    BY <1>1 DEF ProvisioningRequested
  <2>2. f \in Faces /\ f.state \in {kPortal, kError}
    BY <2>1, SetStateType DEF WifiState
  <2>3. /\ state' \in {kPortal, kError}
        /\ <<runtimeStatus', portal', ad', drv'>> \in
              WifiRuntimeStatus \X Portal \X Adapter \X Driver
    BY <2>1, <2>2, BecomesType
  <2>4. sm' \in StateMachine /\ sm'.state = kPortal
    BY <1>1, FreshType
    DEF ProvisioningRequested, OnProvisioningRequested, Fresh, WifiState
  <2>5. ManagerTypeOK'
    BY <2>3, <2>4, SchedulerType
    DEF ProvisioningRequested, ManagerInv, ManagerTypeOK, WifiState
  <2>6. (RetryTimerInv /\ AttemptsLeft /\ ShadowState /\ RestInv)'
    BY <1>1, <2>3, <2>4, SchedulerType
    DEF ProvisioningRequested, ManagerInv, RetryTimerInv, AttemptsLeft, ShadowState, RestInv
  <2> QED
    BY <1>1, <2>5, <2>6 DEF ManagerInv
<1>2. CASE ~running
  <2>1. /\ state' = state
        /\ <<runtimeStatus', portal', ad', drv'>> \in
              WifiRuntimeStatus \X Portal \X Adapter \X Driver
    BY <1>2, BecomesType DEF ProvisioningRequested
  <2>2. ManagerTypeOK'
    BY <1>2, <2>1, SchedulerType DEF ProvisioningRequested, ManagerInv, ManagerTypeOK
  <2>3. (RetryTimerInv /\ AttemptsLeft /\ ShadowState /\ RestInv)'
    BY <1>2, <2>1, SchedulerType
    DEF ProvisioningRequested, ManagerInv, RetryTimerInv, AttemptsLeft, ShadowState, RestInv
  <2> QED
    BY <2>1, <2>2, <2>3 DEF ManagerInv
<1> QED
  BY <1>1, <1>2

\* Only a manager that waits is told that its timer has elapsed, so the attempts
\* leave one more.
LEMMA RetryStep ==
    ASSUME ManagerInv, NEW face \in Faces, state = kWaitingToRetry,
           RetryTimerElapsed(face),
           UNCHANGED <<initialized, running, eventQueue>>
    PROVE  ManagerInv'
<1>1. PICK f \in SetState(face, kConnecting, activeCredentials) : Becomes(f)
  BY DEF RetryTimerElapsed
<1>2. f \in Faces /\ f.state \in {kConnecting, kError}
  BY <1>1, SetStateType DEF WifiState
<1>3. /\ state' \in {kConnecting, kError}
      /\ <<runtimeStatus', portal', ad', drv'>> \in
            WifiRuntimeStatus \X Portal \X Adapter \X Driver
  BY <1>1, <1>2, BecomesType
<1>4. /\ sm' \in StateMachine /\ sm'.state = kConnecting
      /\ sm'.connectAttempts = sm.connectAttempts
  BY RetryType DEF RetryTimerElapsed, ManagerInv, ManagerTypeOK
<1>5. ManagerTypeOK'
  BY <1>3, <1>4, SchedulerType DEF RetryTimerElapsed, ManagerInv, ManagerTypeOK, WifiState
<1>6. (RetryTimerInv /\ AttemptsLeft /\ ShadowState /\ RestInv)'
  BY <1>3, <1>4, SchedulerType
  DEF RetryTimerElapsed, ManagerInv, RetryTimerInv, AttemptsLeft, ShadowState, RestInv
<1> QED
  BY <1>5, <1>6 DEF ManagerInv

\* WifiManager.cpp:201-224: a failure leaves the timer armed, or retries at once.
LEMMA FailedStep ==
    ASSUME ManagerInv, NEW face \in Faces, ConnectionFailed(face),
           UNCHANGED <<initialized, running, eventQueue>>
    PROVE  ManagerInv'
<1> DEFINE failed == OnConnectionFailed(sm)
<1>1. /\ failed \in StateMachine
      /\ failed.state \in {kWaitingToRetry, kPortal}
      /\ failed.state = kWaitingToRetry => failed.connectAttempts < MaxConnectAttempts
  BY FailedType DEF ManagerInv, ManagerTypeOK
<1> HIDE DEF failed
<1>2. PICK f \in SetState(WithStatus(face, "reason"), failed.state, activeCredentials) :
         IF f.state = kWaitingToRetry /\ failed.reconnectDelayMs = 0
         THEN /\ sm' = OnRetryTimerElapsed(failed)
              /\ retryScheduler' = Cancel
              /\ \E g \in SetState(f, kConnecting, activeCredentials) : Becomes(g)
         ELSE /\ sm' = failed
              /\ retryScheduler' = IF f.state = kWaitingToRetry
                                   THEN Arm(failed.reconnectDelayMs) ELSE Cancel
              /\ Becomes(f)
  BY DEF ConnectionFailed, failed
<1>3. /\ f \in Faces
      /\ f.state \in {failed.state, kError}
      /\ failed.state = kWaitingToRetry => f.state = kWaitingToRetry
  BY <1>1, <1>2, SetStateType, FaceType DEF WifiState, WifiRuntimeStatus
<1>4. failed.reconnectDelayMs \in Nat
  BY <1>1, BackoffAssumption DEF StateMachine
<1>5. CASE f.state = kWaitingToRetry /\ failed.reconnectDelayMs = 0
  <2>1. PICK g \in SetState(f, kConnecting, activeCredentials) : Becomes(g)
    BY <1>2, <1>5
  <2>2. g \in Faces /\ g.state \in {kConnecting, kError}
    BY <1>3, <2>1, SetStateType DEF WifiState
  <2>3. /\ state' \in {kConnecting, kError}
        /\ <<runtimeStatus', portal', ad', drv'>> \in
              WifiRuntimeStatus \X Portal \X Adapter \X Driver
    BY <2>1, <2>2, BecomesType
  <2>4. /\ sm' \in StateMachine /\ sm'.state = kConnecting
        /\ sm'.connectAttempts < MaxConnectAttempts
    BY <1>1, <1>2, <1>3, <1>5, RetryType
  <2>5. retryScheduler' = Cancel
    BY <1>2, <1>5
  <2>6. ManagerTypeOK'
    BY <2>3, <2>4, <2>5, SchedulerType DEF ConnectionFailed, ManagerInv, ManagerTypeOK, WifiState
  <2>7. (RetryTimerInv /\ AttemptsLeft /\ ShadowState /\ RestInv)'
    BY <2>3, <2>4, <2>5, SchedulerType
    DEF ConnectionFailed, ManagerInv, RetryTimerInv, AttemptsLeft, ShadowState, RestInv
  <2> QED
    BY <2>6, <2>7 DEF ManagerInv
<1>6. CASE ~(f.state = kWaitingToRetry /\ failed.reconnectDelayMs = 0)
  <2>1. /\ sm' = failed
        /\ retryScheduler' = IF f.state = kWaitingToRetry
                             THEN Arm(failed.reconnectDelayMs) ELSE Cancel
        /\ Becomes(f)
    BY <1>2, <1>6
  <2>2. /\ state' = f.state
        /\ state' \in {failed.state, kError}
        /\ <<runtimeStatus', portal', ad', drv'>> \in
              WifiRuntimeStatus \X Portal \X Adapter \X Driver
    BY <1>3, <2>1, BecomesType
  <2>3. /\ retryScheduler' \in RetryScheduler
        /\ retryScheduler'.armed <=> state' = kWaitingToRetry
    BY <1>4, <1>6, <2>1, <2>2, SchedulerType
  <2>4. ManagerTypeOK'
    BY <1>1, <2>1, <2>2, <2>3 DEF ConnectionFailed, ManagerInv, ManagerTypeOK, WifiState
  <2>5. (RetryTimerInv /\ AttemptsLeft /\ ShadowState /\ RestInv)'
    BY <1>1, <2>1, <2>2, <2>3
    DEF ConnectionFailed, ManagerInv, RetryTimerInv, AttemptsLeft, ShadowState, RestInv
  <2> QED
    BY <2>4, <2>5 DEF ManagerInv
<1> QED
  BY <1>5, <1>6

LEMMA CredentialsStep ==
    ASSUME ManagerInv, NEW face \in Faces, face.state = state,
           NEW timer \in RetryScheduler, timer.armed <=> state = kWaitingToRetry,
           NEW credentials \in Credentials \cup {EmptyCredentials},
           CredentialsReceived(credentials, face, timer),
           UNCHANGED <<initialized, running, eventQueue>>
    PROVE  ManagerInv' /\ (~running => UNCHANGED state)
<1>1. HasSsid(credentials) => credentials \in Credentials
  <2>1. EmptyCredentials.ssid = ""
    BY DEF EmptyCredentials
  <2> QED
    BY <2>1 DEF HasSsid
<1>2. nvs \in Nvs
  BY DEF ManagerInv, ManagerTypeOK
<1>3. CASE /\ ~HasSsid(credentials)
           /\ Unhandled(face, timer)
           /\ UNCHANGED nvs
  BY <1>2, <1>3, UnhandledStep
<1>4. CASE /\ HasSsid(credentials)
           /\ \E save \in SaveOutcomes(nvs, credentials) :
                /\ nvs' = save.nvs
                /\ ~save.saved
                /\ Unhandled(face, timer)
  <2>1. nvs' \in Nvs
    BY <1>1, <1>2, <1>4, SaveType
  <2> QED
    BY <1>4, <2>1, UnhandledStep
<1>5. CASE /\ HasSsid(credentials)
           /\ \E save \in SaveOutcomes(nvs, credentials) : save.saved /\ nvs' = save.nvs
           /\ activeCredentials' = credentials
           /\ hasStoredCredentials' = TRUE
           /\ forceProvisioning' = FALSE
           /\ retryScheduler' = Cancel
           /\ IF running
              THEN /\ sm' = OnCredentialsReceived
                   /\ \E f \in SetState(WithStatus(face, "none"), kConnecting, credentials) :
                         Becomes(f)
              ELSE /\ UNCHANGED sm
                   /\ Becomes(WithStatus(face, "none"))
  <2>1. nvs' \in Nvs /\ activeCredentials' \in WifiCredentials
    BY <1>1, <1>2, <1>5, SaveType DEF Credentials, WifiCredentials
  <2>2. WithStatus(face, "none") \in Faces /\ WithStatus(face, "none").state = state
    BY FaceType DEF WifiRuntimeStatus
  <2>3. CASE running
    <3>1. PICK f \in SetState(WithStatus(face, "none"), kConnecting, credentials) : Becomes(f)
      BY <1>5, <2>3
    <3>2. f \in Faces /\ f.state \in {kConnecting, kError}
      BY <2>2, <3>1, SetStateType DEF WifiState
    <3>3. /\ state' \in {kConnecting, kError}
          /\ <<runtimeStatus', portal', ad', drv'>> \in
                WifiRuntimeStatus \X Portal \X Adapter \X Driver
      BY <3>1, <3>2, BecomesType
    <3>4. /\ sm' \in StateMachine
          /\ sm'.state = kConnecting
          /\ sm'.connectAttempts = 0
      BY <1>5, <2>3, FreshType DEF OnCredentialsReceived, Fresh, WifiState
    <3>5. ManagerTypeOK'
      BY <1>5, <2>1, <3>3, <3>4, SchedulerType DEF ManagerInv, ManagerTypeOK, WifiState
    <3>6. (RetryTimerInv /\ AttemptsLeft /\ ShadowState /\ RestInv)'
      BY <1>5, <2>3, <3>3, <3>4, SchedulerType
      DEF ManagerInv, RetryTimerInv, AttemptsLeft, ShadowState, RestInv
    <3> QED
      BY <2>3, <3>5, <3>6 DEF ManagerInv
  <2>4. CASE ~running
    <3>1. /\ state' = state
          /\ <<runtimeStatus', portal', ad', drv'>> \in
                WifiRuntimeStatus \X Portal \X Adapter \X Driver
      BY <1>5, <2>2, <2>4, BecomesType
    <3>2. ManagerTypeOK'
      BY <1>5, <2>1, <2>4, <3>1, SchedulerType DEF ManagerInv, ManagerTypeOK
    <3>3. (RetryTimerInv /\ AttemptsLeft /\ ShadowState /\ RestInv)'
      BY <1>5, <2>4, <3>1, SchedulerType
      DEF ManagerInv, RetryTimerInv, AttemptsLeft, ShadowState, RestInv
    <3> QED
      BY <3>1, <3>2, <3>3 DEF ManagerInv
  <2> QED
    BY <2>3, <2>4
<1> QED
  BY <1>3, <1>4, <1>5 DEF CredentialsReceived

\* WifiManager.cpp:158-237 as a whole, also that events move only a manager that
\* runs.
LEMMA DispatchStep ==
    ASSUME ManagerInv, NEW event \in WifiManagerEvent,
           NEW face \in Faces, face.state = state,
           NEW timer \in RetryScheduler,
           IF event.type = kRetryTimerElapsed THEN state = kWaitingToRetry
           ELSE timer.armed <=> state = kWaitingToRetry,
           DispatchEvent(event, face, timer), UNCHANGED eventQueue
    PROVE  ManagerInv' /\ UNCHANGED running /\ (~running => UNCHANGED state)
<1> USE DEF kProvisioningRequested, kCredentialsReceived, kConnectionSucceeded,
            kConnectionFailed, kRetryTimerElapsed
<1>1. UNCHANGED <<initialized, running, eventQueue>>
  BY DEF DispatchEvent
<1>2. CASE event.type = kProvisioningRequested /\ ProvisioningRequested(face)
  BY <1>1, <1>2, ProvisioningStep
<1>3. CASE /\ event.type = kCredentialsReceived
           /\ CredentialsReceived(event.credentials, face, timer)
  <2>1. event.credentials \in Credentials \cup {EmptyCredentials}
    BY DEF WifiManagerEvent
  <2>2. timer.armed <=> state = kWaitingToRetry
    BY <1>3
  <2> QED
    BY <1>1, <1>3, <2>1, <2>2, CredentialsStep
<1>4. CASE event.type = kConnectionSucceeded /\ ConnectionSucceeded(face)
  BY <1>1, <1>4, SucceededStep DEF ConnectionSucceeded
<1>5. CASE event.type = kConnectionFailed /\ ConnectionFailed(face)
  BY <1>1, <1>5, FailedStep DEF ConnectionFailed
<1>6. CASE event.type = kRetryTimerElapsed /\ RetryTimerElapsed(face)
  BY <1>1, <1>6, RetryStep DEF RetryTimerElapsed
<1>7. CASE /\ event.type \in {kConnectionSucceeded, kConnectionFailed, kRetryTimerElapsed}
           /\ ~running
           /\ Unhandled(face, timer)
           /\ UNCHANGED nvs
  <2>1. state # kWaitingToRetry
    BY <1>7 DEF ManagerInv, RestInv
  <2>2. timer.armed <=> state = kWaitingToRetry
    BY <1>7, <2>1
  <2>3. nvs' \in Nvs
    BY <1>7 DEF ManagerInv, ManagerTypeOK
  <2> QED
    BY <1>1, <1>7, <2>2, <2>3, UnhandledStep
<1> QED
  BY <1>2, <1>3, <1>4, <1>5, <1>6, <1>7 DEF DispatchEvent

------------------------------------------------------------------------------
LEMMA EnqueueStep ==
    ASSUME ManagerInv, NEW event \in WifiManagerEvent,
           NEW face \in Faces, face.state = state,
           NEW timer \in RetryScheduler,
           IF event.type = kRetryTimerElapsed
           THEN state = kWaitingToRetry /\ initialized
           ELSE timer.armed <=> state = kWaitingToRetry,
           EnqueueAndProcess(event, face, timer)
    PROVE  ManagerInv' /\ UNCHANGED running /\ (~running => UNCHANGED state)
<1>1. eventQueue = <<>> /\ EventQueueCapacity > 0
  BY CapacityAssumption DEF ManagerInv
<1>2. /\ Head(Append(eventQueue, event)) = event
      /\ Tail(Append(eventQueue, event)) = <<>>
  BY <1>1
<1>3. CASE /\ eventQueue' = Tail(Append(eventQueue, event))
           /\ DispatchEvent(Head(Append(eventQueue, event)), face, timer)
  <2>1. DispatchEvent(event, face, timer) /\ UNCHANGED eventQueue
    BY <1>1, <1>2, <1>3
  <2> QED
    BY <2>1, DispatchStep
<1>4. CASE /\ ~initialized \/ Len(eventQueue) = EventQueueCapacity
           /\ Unhandled(face, timer)
           /\ UNCHANGED <<initialized, running, nvs, eventQueue>>
  <2>1. ~initialized
    BY <1>1, <1>4, CapacityAssumption
  <2>2. timer.armed <=> state = kWaitingToRetry
    BY <2>1
  <2>3. nvs' \in Nvs
    BY <1>4 DEF ManagerInv, ManagerTypeOK
  <2> QED
    BY <1>4, <2>2, <2>3, UnhandledStep
<1> QED
  BY <1>3, <1>4 DEF EnqueueAndProcess

\* WifiManager.cpp:139-156: what elapses is a wait.
LEMMA AdvanceStep ==
    ASSUME ManagerInv, NEW elapsedMs \in Nat, AdvanceRetryTimer(elapsedMs)
    PROVE  ManagerInv' /\ UNCHANGED running /\ (~running => UNCHANGED state)
<1> DEFINE timer == Advance(retryScheduler, elapsedMs)
<1>1. /\ retryScheduler \in RetryScheduler
      /\ timer \in RetryScheduler
      /\ ~Elapses(retryScheduler, elapsedMs) => (timer.armed <=> retryScheduler.armed)
  BY AdvanceType DEF ManagerInv, ManagerTypeOK
<1>2. Face \in Faces /\ Face.state = state
  BY FaceType DEF Face, ManagerInv, ManagerTypeOK
<1>3. PlainEvent(kRetryTimerElapsed) \in WifiManagerEvent
  BY DEF PlainEvent, WifiManagerEvent, WifiManagerEventType
<1>4. CASE initialized /\ Elapses(retryScheduler, elapsedMs)
  <2>1. EnqueueAndProcess(PlainEvent(kRetryTimerElapsed), Face, timer)
    BY <1>4 DEF AdvanceRetryTimer
  <2>2. PlainEvent(kRetryTimerElapsed).type = kRetryTimerElapsed
    BY DEF PlainEvent
  <2>3. state = kWaitingToRetry
    BY <1>4 DEF Elapses, ManagerInv, RetryTimerInv
  <2> HIDE DEF timer
  <2> QED
    BY <1>1, <1>2, <1>3, <1>4, <2>1, <2>2, <2>3, EnqueueStep
<1>5. CASE ~(initialized /\ Elapses(retryScheduler, elapsedMs))
  <2>1. /\ retryScheduler' = IF initialized THEN timer ELSE retryScheduler
        /\ UNCHANGED <<sm, faceVars, activeCredentials, initialized, running,
                       forceProvisioning, hasStoredCredentials, nvs, eventQueue>>
    BY <1>5 DEF AdvanceRetryTimer
  <2> HIDE DEF timer
  <2>2. /\ retryScheduler' \in RetryScheduler
        /\ retryScheduler'.armed <=> retryScheduler.armed
    BY <1>1, <1>5, <2>1
  <2>3. ManagerTypeOK'
    BY <2>1, <2>2 DEF faceVars, ManagerInv, ManagerTypeOK
  <2>4. (RetryTimerInv /\ AttemptsLeft /\ ShadowState /\ RestInv)'
    BY <2>1, <2>2
    DEF faceVars, ManagerInv, RetryTimerInv, AttemptsLeft, ShadowState, RestInv
  <2> QED
    BY <2>1, <2>3, <2>4 DEF faceVars, ManagerInv
<1> QED
  BY <1>4, <1>5

\* WifiManager.cpp:39-60, 339-360: an event of the driver or of the portal.
LEMMA DeliverStep ==
    ASSUME ManagerInv, NEW event \in WifiManagerEvent, event.type # kRetryTimerElapsed,
           NEW face \in Faces, face.state = state, Deliver(event, face)
    PROVE  ManagerInv' /\ UNCHANGED running /\ (~running => UNCHANGED state)
<1>1. /\ retryScheduler \in RetryScheduler
      /\ retryScheduler.armed <=> state = kWaitingToRetry
  BY DEF ManagerInv, ManagerTypeOK, RetryTimerInv
<1>2. CASE Unhandled(face, retryScheduler) /\ UNCHANGED <<initialized, running, nvs, eventQueue>>
  <2>1. nvs' \in Nvs
    BY <1>2 DEF ManagerInv, ManagerTypeOK
  <2> QED
    BY <1>1, <1>2, <2>1, UnhandledStep
<1>3. CASE EnqueueAndProcess(event, face, retryScheduler)
  BY <1>1, <1>3, EnqueueStep
<1> QED
  BY <1>2, <1>3 DEF Deliver

\* WifiManager.cpp:267-274, called by the application.
LEMMA ForceStep ==
    ASSUME ManagerInv, ForceProvisioning
    PROVE  ManagerInv' /\ UNCHANGED running /\ (~running => UNCHANGED state)
<1>1. Face \in Faces /\ Face.state = state
  BY FaceType DEF Face, ManagerInv, ManagerTypeOK
<1> QED
  BY <1>1, ProvisioningStep DEF ForceProvisioning

------------------------------------------------------------------------------
\* WifiManager.cpp:62-88: Init leaves a manager at rest, and one whose adapter
\* cannot be initialized was at rest before.
LEMMA InitStep ==
    ASSUME ManagerInv, ~running, Init
    PROVE  ManagerInv' /\ ~running'
<1>1. PICK o \in AdapterInit(ad, drv) :
         LET face == WithStatus(WithOutcome(Face, o), "none") IN
         /\ initialized' = (o.result = ESP_OK)
         /\ \E f \in IF o.result = ESP_OK
                     THEN SetState(face, kInit, EmptyCredentials) ELSE {face} :
               Becomes(f)
  BY DEF Init
<1> DEFINE face == WithStatus(WithOutcome(Face, o), "none")
<1>2. o \in Outcomes
  BY <1>1, AdapterInitType DEF ManagerInv, ManagerTypeOK
<1>3. Face \in Faces /\ Face.state = state
  BY FaceType DEF Face, ManagerInv, ManagerTypeOK
<1>4. face \in Faces /\ face.state = state
  BY <1>2, <1>3, FaceType DEF WifiRuntimeStatus
<1>5. PICK f \in IF o.result = ESP_OK
                 THEN SetState(face, kInit, EmptyCredentials) ELSE {face} :
         Becomes(f)
  BY <1>1
<1> HIDE DEF face
<1>6. f \in Faces /\ f.state \in {state, kInit}
  BY <1>4, <1>5, SetStateType DEF WifiState
<1>7. /\ state' \in {state, kInit}
      /\ <<runtimeStatus', portal', ad', drv'>> \in
            WifiRuntimeStatus \X Portal \X Adapter \X Driver
  BY <1>5, <1>6, BecomesType
<1>8. initialized' \in BOOLEAN
  BY <1>1
<1>9. sm' \in StateMachine /\ sm'.state = kInit /\ sm'.connectAttempts = 0
  BY FreshType DEF Init, Reset, Fresh, WifiState
<1>10. EmptyCredentials \in WifiCredentials
  BY DEF EmptyCredentials, WifiCredentials
<1>11. ManagerTypeOK'
  BY <1>7, <1>8, <1>9, <1>10, SchedulerType DEF Init, ManagerInv, ManagerTypeOK, WifiState
<1>12. (RetryTimerInv /\ AttemptsLeft /\ ShadowState /\ RestInv)'
  BY <1>7, <1>9, SchedulerType
  DEF Init, ManagerInv, RetryTimerInv, AttemptsLeft, ShadowState, RestInv
<1> QED
  BY <1>11, <1>12 DEF Init, ManagerInv

\* WifiManager.cpp:90-114.
LEMMA StartStep ==
    ASSUME ManagerInv, ~running, Start
    PROVE  ManagerInv'
<1>1. PICK o \in IF initialized THEN AdapterStart(ad, drv)
                 ELSE {Outcome(ESP_FAIL, ad, drv)} :
         LET face == WithOutcome(Face, o) IN
         \/ /\ o.result # ESP_OK
            /\ Becomes(face)
            /\ UNCHANGED <<sm, running, activeCredentials, hasStoredCredentials,
                           retryScheduler>>
         \/ /\ o.result = ESP_OK
            /\ forceProvisioning
            /\ running' = TRUE
            /\ \E f \in SetState(face, kPortal, activeCredentials) : Becomes(f)
            /\ UNCHANGED <<sm, activeCredentials, hasStoredCredentials, retryScheduler>>
         \/ /\ o.result = ESP_OK
            /\ ~forceProvisioning
            /\ running' = TRUE
            /\ retryScheduler' = Cancel
            /\ \E load \in LoadOutcomes(nvs) :
                 /\ activeCredentials' = load.credentials
                 /\ hasStoredCredentials' = load.loaded
                 /\ sm' = OnStart(forceProvisioning, load.loaded)
                 /\ \E f \in SetState(face, sm'.state, load.credentials) : Becomes(f)
  BY DEF Start
<1> DEFINE face == WithOutcome(Face, o)
<1>2. ad \in Adapter /\ drv \in Driver
  BY DEF ManagerInv, ManagerTypeOK
<1>3. o \in Outcomes
  BY <1>1, <1>2, AdapterStartType, OutcomeType
<1>4. Face \in Faces /\ Face.state = state
  BY FaceType DEF Face, ManagerInv, ManagerTypeOK
<1>5. face \in Faces /\ face.state = state
  BY <1>3, <1>4, FaceType
<1> HIDE DEF face
<1>6. UNCHANGED <<initialized, forceProvisioning, nvs, eventQueue>>
  BY DEF Start
<1>7. CASE /\ Becomes(face)
           /\ UNCHANGED <<sm, running, activeCredentials, hasStoredCredentials,
                          retryScheduler>>
  <2>1. /\ state' = state
        /\ <<runtimeStatus', portal', ad', drv'>> \in
              WifiRuntimeStatus \X Portal \X Adapter \X Driver
    BY <1>5, <1>7, BecomesType
  <2>2. ManagerTypeOK'
    BY <1>6, <1>7, <2>1 DEF ManagerInv, ManagerTypeOK
  <2>3. (RetryTimerInv /\ AttemptsLeft /\ ShadowState /\ RestInv)'
    BY <1>7, <2>1 DEF ManagerInv, RetryTimerInv, AttemptsLeft, ShadowState, RestInv
  <2> QED
    BY <1>6, <2>2, <2>3 DEF ManagerInv
<1>8. CASE /\ running' = TRUE
           /\ \E f \in SetState(face, kPortal, activeCredentials) : Becomes(f)
           /\ UNCHANGED <<sm, activeCredentials, hasStoredCredentials, retryScheduler>>
  <2>1. PICK f \in SetState(face, kPortal, activeCredentials) : Becomes(f)
    BY <1>8
  <2>2. f \in Faces /\ f.state \in {kPortal, kError}
    BY <1>5, <2>1, SetStateType DEF WifiState
  <2>3. /\ state' \in {kPortal, kError}
        /\ <<runtimeStatus', portal', ad', drv'>> \in
              WifiRuntimeStatus \X Portal \X Adapter \X Driver
    BY <2>1, <2>2, BecomesType
  <2>4. ManagerTypeOK'
    BY <1>6, <1>8, <2>3 DEF ManagerInv, ManagerTypeOK, WifiState
  <2>5. (RetryTimerInv /\ AttemptsLeft /\ ShadowState /\ RestInv)'
    BY <1>8, <2>3 DEF ManagerInv, RetryTimerInv, AttemptsLeft, ShadowState, RestInv
  <2> QED
    BY <1>6, <2>4, <2>5 DEF ManagerInv
<1>9. CASE /\ running' = TRUE
           /\ retryScheduler' = Cancel
           /\ \E load \in LoadOutcomes(nvs) :
                /\ activeCredentials' = load.credentials
                /\ hasStoredCredentials' = load.loaded
                /\ sm' = OnStart(forceProvisioning, load.loaded)
                /\ \E f \in SetState(face, sm'.state, load.credentials) : Becomes(f)
  <2>1. PICK load \in LoadOutcomes(nvs) :
           /\ activeCredentials' = load.credentials
           /\ hasStoredCredentials' = load.loaded
           /\ sm' = OnStart(forceProvisioning, load.loaded)
           /\ \E f \in SetState(face, sm'.state, load.credentials) : Becomes(f)
    BY <1>9
  <2>2. activeCredentials' \in WifiCredentials /\ hasStoredCredentials' \in BOOLEAN
    BY <2>1, LoadType DEF ManagerInv, ManagerTypeOK
  <2>3. /\ sm' \in StateMachine
        /\ sm'.state \in {kPortal, kConnecting}
        /\ sm'.connectAttempts = 0
    BY <2>1, FreshType DEF OnStart, Fresh, WifiState
  <2>4. PICK f \in SetState(face, sm'.state, load.credentials) : Becomes(f)
    BY <2>1
  <2>5. f \in Faces /\ f.state \in {sm'.state, kError}
    BY <1>5, <2>3, <2>4, SetStateType DEF WifiState
  <2>6. /\ state' \in {sm'.state, kError}
        /\ <<runtimeStatus', portal', ad', drv'>> \in
              WifiRuntimeStatus \X Portal \X Adapter \X Driver
    BY <2>4, <2>5, BecomesType
  <2>7. ManagerTypeOK'
    BY <1>6, <1>9, <2>2, <2>3, <2>6, SchedulerType DEF ManagerInv, ManagerTypeOK, WifiState
  <2>8. (RetryTimerInv /\ AttemptsLeft /\ ShadowState /\ RestInv)'
    BY <1>9, <2>3, <2>6, SchedulerType
    DEF ManagerInv, RetryTimerInv, AttemptsLeft, ShadowState, RestInv
  <2> QED
    BY <1>6, <2>7, <2>8 DEF ManagerInv
<1> QED
  BY <1>1, <1>7, <1>8, <1>9 DEF face

\* WifiManager.cpp:239-265.
LEMMA StopStep ==
    ASSUME ManagerInv, Stop
    PROVE  ManagerInv' /\ ~running'
<1>1. PICK o \in AdapterStop(ad, drv) :
         /\ ad' = o.ad
         /\ drv' = o.drv
         /\ IF o.result = ESP_OK
            THEN /\ sm' = OnStop
                 /\ state' = kStopped
                 /\ hasStoredCredentials' = FALSE
            ELSE /\ sm' = Reset
                 /\ state' = kError
                 /\ UNCHANGED hasStoredCredentials
  BY DEF Stop
<1>2. portal' \in Portal
  BY PortalType DEF Stop, ManagerInv, ManagerTypeOK
<1>3. ad' \in Adapter /\ drv' \in Driver
  BY <1>1, AdapterStopType DEF ManagerInv, ManagerTypeOK, Outcomes
<1>4. /\ state' \in {kStopped, kError}
      /\ hasStoredCredentials' \in BOOLEAN
  BY <1>1 DEF ManagerInv, ManagerTypeOK
<1>5. /\ sm' \in StateMachine
      /\ sm'.state \in {kInit, kStopped}
  BY <1>1, FreshType DEF OnStop, Reset, Fresh, WifiState
<1>6. ManagerTypeOK'
  BY <1>2, <1>3, <1>4, <1>5, SchedulerType
  DEF Stop, ManagerInv, ManagerTypeOK, WifiState, WifiRuntimeStatus
<1>7. (RetryTimerInv /\ AttemptsLeft /\ ShadowState /\ RestInv)'
  BY <1>4, <1>5, SchedulerType
  DEF Stop, RetryTimerInv, AttemptsLeft, ShadowState, RestInv
<1> QED
  BY <1>6, <1>7 DEF Stop, ManagerInv

LEMMA ConstructStep ==
    ASSUME Construct, drv' \in Driver, nvs' \in Nvs
    PROVE  ManagerInv' /\ ~running'
<1>1. Reset \in StateMachine /\ Reset.state = kInit /\ Reset.connectAttempts = 0
  BY FreshType DEF Reset, Fresh, WifiState
<1>2. /\ EmptyCredentials \in WifiCredentials
      /\ NoPortal \in Portal
      /\ FreshAdapter \in Adapter
  BY DEF EmptyCredentials, WifiCredentials, NoPortal, Portal, FreshAdapter, Adapter
<1>3. "none" \in WifiRuntimeStatus /\ kInit \in WifiState /\ <<>> \in Seq(WifiManagerEvent)
  BY DEF WifiRuntimeStatus, WifiState
<1>4. ManagerTypeOK'
  BY <1>1, <1>2, <1>3, SchedulerType DEF Construct, ManagerTypeOK
<1> QED
  BY <1>1, <1>4, SchedulerType
  DEF Construct, ManagerInv, RetryTimerInv, AttemptsLeft, ShadowState, RestInv
==============================================================================

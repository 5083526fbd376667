------------------------- MODULE WifiRetryScheduler -------------------------
(***************************************************************************)
(* WifiRetryScheduler.hpp: a countdown that the manager task advances by   *)
(* its tick.  Every operator returns the object after the call.            *)
(***************************************************************************)
EXTENDS Naturals

RetryScheduler == [armed : BOOLEAN, remainingDelayMs : Nat]

Cancel == [armed |-> FALSE, remainingDelayMs |-> 0]

Arm(delayMs) == [armed |-> delayMs > 0, remainingDelayMs |-> delayMs]

\* What Advance returns, and what it leaves.
Elapses(scheduler, elapsedMs) ==
    scheduler.armed /\ elapsedMs >= scheduler.remainingDelayMs

Advance(scheduler, elapsedMs) ==
    IF ~scheduler.armed THEN scheduler
    ELSE IF Elapses(scheduler, elapsedMs) THEN Cancel
    ELSE [scheduler EXCEPT !.remainingDelayMs = @ - elapsedMs]
=============================================================================

------------------------------- MODULE Poller -------------------------------
(***************************************************************************)
(* What polling the parking server promises: as long as the session lasts, *)
(* either one request for a snapshot is under way or a timer will start    *)
(* the next one; failures are retried after delays that double from        *)
(* BaseDelay up to MaxDelay, and a success returns to BaseDelay            *)
(* (initializeApiClient, scheduleReconnect and applyParkingSnapshot in     *)
(* src/src/controllers/parkingcontroller.cpp).                             *)
(***************************************************************************)
EXTENDS Naturals

\* 0 < BaseDelay <= MaxDelay, as ServerLink assumes.
CONSTANTS BaseDelay, MaxDelay

VARIABLES
    phase,   \* "asking", "waiting", or "ended" with the session
    wait,    \* how long the timer was set to wait, 0 when it does not run
    delay    \* how long it will be set to wait after the next failure

pollVars == <<phase, wait, delay>>

Doubled(d) == IF 2 * d < MaxDelay THEN 2 * d ELSE MaxDelay

Init == phase = "asking" /\ wait = 0 /\ delay = BaseDelay

\* The timer fires, or the operator does not wait for it.
Ask == phase = "waiting" /\ phase' = "asking" /\ wait' = 0 /\ UNCHANGED delay

Succeed ==
    /\ phase = "asking" /\ phase' = "waiting"
    /\ wait' = BaseDelay /\ delay' = BaseDelay

Fail ==
    /\ phase = "asking" /\ phase' = "waiting"
    /\ wait' = delay /\ delay' = Doubled(delay)

\* Another address is asked instead.
Restart == phase # "ended" /\ phase' = "asking" /\ wait' = 0 /\ delay' = BaseDelay

End == phase # "ended" /\ phase' = "ended" /\ wait' = 0 /\ delay' = BaseDelay

Next == Ask \/ Succeed \/ Fail \/ Restart \/ End

Safety == Init /\ [][Next]_pollVars
Spec == Safety /\ WF_pollVars(Ask) /\ WF_pollVars(Succeed \/ Fail)
=============================================================================

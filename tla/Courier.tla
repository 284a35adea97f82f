------------------------------- MODULE Courier -------------------------------
(***************************************************************************)
(* What a user of the MQTT client may count on when it sends commands      *)
(* (MqttServiceClient::publish, publishConfirmed and publishFailed in      *)
(* src/src/services/mqttserviceclient.h): a command is taken only while    *)
(* the session is ready, and each command taken is either confirmed once   *)
(* or lost with the session, never both and never twice.                   *)
(***************************************************************************)
EXTENDS Naturals

CONSTANT Commands    \* the topics commands are published on

VARIABLES
    ready,           \* a command would be taken
    outstanding      \* outstanding[c]: commands taken and not answered

courierVars == <<ready, outstanding>>

NoneOutstanding == [c \in Commands |-> 0]

Init == ready = FALSE /\ outstanding = NoneOutstanding

Open == ~ready /\ ready' = TRUE /\ UNCHANGED outstanding

Accept(c) ==
    /\ ready
    /\ outstanding' = [outstanding EXCEPT ![c] = @ + 1]
    /\ UNCHANGED ready

Confirm(c) ==
    /\ outstanding[c] > 0
    /\ outstanding' = [outstanding EXCEPT ![c] = @ - 1]
    /\ UNCHANGED ready

Lose == ready /\ ready' = FALSE /\ outstanding' = NoneOutstanding

Next == Open \/ Lose \/ \E c \in Commands : Accept(c) \/ Confirm(c)

Spec == Init /\ [][Next]_courierVars
=============================================================================

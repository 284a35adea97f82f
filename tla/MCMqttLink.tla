------------------------------ MODULE MCMqttLink ------------------------------
(***************************************************************************)
(* MqttLink with two subscriptions, two command topics and packet ids that *)
(* wrap after five, so that they return within two connections.            *)
(***************************************************************************)
EXTENDS MqttLink
=============================================================================

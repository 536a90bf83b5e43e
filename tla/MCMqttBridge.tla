----------------------------- MODULE MCMqttBridge -----------------------------
(* An instance of MqttBridge for TLC: topics and payloads are model values *)
(* that no definition tells apart.                                         *)
EXTENDS MqttBridge, TLC

BridgeSymmetry == Permutations(Topics) \cup Permutations(Payloads)
==============================================================================

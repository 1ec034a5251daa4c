---------------------------- MODULE MCMQTTBroker ----------------------------
EXTENDS MQTTBroker, TLC

Symmetry == Permutations(Controllers) \cup Permutations(Logins)
=============================================================================

------------------------------ MODULE MCCluster ------------------------------
(* Instances of Cluster for TLC: two brokers, the ring prefers the first. *)
EXTENDS Cluster

CONSTANTS b1, b2

MCBrokers == {b1, b2}
MCRingOrder == <<b1, b2>>
NobodyReconnects == [b \in MCBrokers |-> 1]
BothReconnect == [b \in MCBrokers |-> 2]
FirstReconnects == [b \in MCBrokers |-> IF b = b1 THEN 2 ELSE 0]
=============================================================================

--------------------------- MODULE MCReplicaManager ---------------------------
(* The instance of ReplicaManager for TLC: one other broker. *)
EXTENDS ReplicaManager
=============================================================================

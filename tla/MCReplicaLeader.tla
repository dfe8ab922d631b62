---------------------------- MODULE MCReplicaLeader ----------------------------
EXTENDS ReplicaLeader

CONSTANTS f1, f2

TwoFollowers == {f1, f2}
MCListIndex == [r \in TwoFollowers |-> IF r = f1 THEN 1 ELSE 2]
=============================================================================

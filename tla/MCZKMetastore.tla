---------------------------- MODULE MCZKMetastore ----------------------------
EXTENDS ZKMetastore, TLC

CONSTANTS b1, b2, b3

RingB == <<b2, b1, b3>>
Lists == {<<>>, <<b3, b1>>}
Symmetry == Permutations(Tasks)
=============================================================================

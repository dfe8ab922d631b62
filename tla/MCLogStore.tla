------------------------------ MODULE MCLogStore ------------------------------
EXTENDS LogStore

\* A message that shares a segment and one larger than max_segment_size.
MCPayloadLen == [p \in Payloads |-> IF p = "small" THEN 1 ELSE 8]
=============================================================================

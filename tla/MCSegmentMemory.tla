---------------------------- MODULE MCSegmentMemory ----------------------------
EXTENDS SegmentMemory, TLC

Seg(topic, base) == [topic |-> topic, base |-> base]

\* Two segments of one topic, at offsets 0 and 12.
TwoSegments == {Seg(<<"a">>, 0), Seg(<<"a">>, 12)}

ObjectSymmetry == Permutations(Users) \cup Permutations(Entries)
=============================================================================

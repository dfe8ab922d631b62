---------------------------- MODULE SegmentRegistry ----------------------------
(***************************************************************************)
(* The registry of one topic (broker log/segment_registry.py): the ordered *)
(* list of SegmentMeta that maps offsets to segment files.  Every method   *)
(* runs under the topic's RLock, so each is one operator on the list: a    *)
(* guard (the method returns instead of raising) and a result.             *)
(*                                                                         *)
(* A topic the registry has never seen is NoTopic; a topic all of whose    *)
(* segments were removed is the empty sequence, and the code treats the    *)
(* two differently.  topic, path and created_at are left out of the        *)
(* record: the first two are functions of the topic and the base, and      *)
(* created_at is the same constant in every segment (see LogStore).        *)
(***************************************************************************)
EXTENDS Integers, Sequences

CONSTANT NoTopic

VARIABLE registry  \* __registry[topic]

\* SegmentState.
ACTIVE  == "ACTIVE"
SEALED  == "SEALED"
EXPIRED == "EXPIRED"
DELETED == "DELETED"
States  == {ACTIVE, SEALED, EXPIRED, DELETED}

\* SegmentMeta, a frozen dataclass: callers hold copies that go stale.
SegmentMeta == [base : Nat, size : Nat, state : States]

\* A list is never taken for a topic that does not exist.
ASSUME NoTopicAssumption == NoTopic \notin Seq(SegmentMeta)

\* get_end_offset: the offset of the next message of the segment.
EndOffset(meta) == meta.base + meta.size

\* _ALLOWED_TRANSITIONS.
AllowedTransitions(state) ==
  CASE state = ACTIVE  -> {SEALED}
    [] state = SEALED  -> {EXPIRED}
    [] state = EXPIRED -> {DELETED}
    [] OTHER           -> {}

NewSegment(base) == [base |-> base, size |-> 0, state |-> ACTIVE]

LastSegment(reg) == reg[Len(reg)]

-----------------------------------------------------------------------------
\* Mutant: without the test for a second segment at the base of an empty one.
MutCanCreate(reg, base) ==
  \/ reg = NoTopic
  \/ reg # NoTopic /\ Len(reg) > 0 /\ EndOffset(LastSegment(reg)) <= base

\* create_segment: rejects an overlap with the last segment and a second
\* segment with its base; on the empty list registry[topic][-1] raises.
CanCreate(reg, base) ==
  \/ reg = NoTopic
  \/ /\ reg # NoTopic /\ Len(reg) > 0
     /\ EndOffset(LastSegment(reg)) <= base
     /\ LastSegment(reg).base # base

CreateSegment(reg, base) ==
  IF reg = NoTopic THEN <<NewSegment(base)>> ELSE Append(reg, NewSegment(base))

\* l, r and i of _find_segment_index, counted from 1, with 0 for the code's -1.
SearchState(reg) == [l : 1..(Len(reg) + 1), r : 0..Len(reg), i : 0..Len(reg)]

\* Mutant: the search compares with < and misses a segment's first offset.
MutHalve(reg, offset, s) ==
  LET mid == (s.l + s.r) \div 2
  IN  IF reg[mid].base < offset THEN [l |-> mid + 1, r |-> s.r, i |-> mid]
                                ELSE [l |-> s.l, r |-> mid - 1, i |-> s.i]

\* The body of the loop.
Halve(reg, offset, s) ==
  LET mid == (s.l + s.r) \div 2
  IN  IF reg[mid].base <= offset THEN [l |-> mid + 1, r |-> s.r, i |-> mid]
                                 ELSE [l |-> s.l, r |-> mid - 1, i |-> s.i]

\* _find_segment_index, the binary search as it is coded.
BinarySearch(reg, offset) ==
  LET Loop[s \in SearchState(reg)] == IF s.l > s.r THEN s.i ELSE Loop[Halve(reg, offset, s)]
  IN  Loop[[l |-> 1, r |-> Len(reg), i |-> 0]]

\* What the search is for (its docstring): the greatest index whose base is not
\* greater than the offset.  The two are equal in every registry that can arise
\* (RegistryClients!SearchAgrees); the other operators use this form.
FindSegmentIndex(reg, offset) ==
  LET below == {i \in 1..Len(reg) : reg[i].base <= offset}
  IN  IF below = {} THEN 0 ELSE CHOOSE i \in below : \A j \in below : j <= i

\* advance_offset: no check of the state or of the base found; when nothing is
\* found the code indexes the list with -1, which is its last element.
AdvanceIndex(reg, meta) ==
  IF FindSegmentIndex(reg, meta.base) = 0 THEN Len(reg) ELSE FindSegmentIndex(reg, meta.base)

\* Mutant: the length of the payload, without its 4-byte prefix.
MutAdvanceOffset(reg, meta, length) ==
  [reg EXCEPT ![AdvanceIndex(reg, meta)].size = @ + length - 4]

AdvanceOffset(reg, meta, length) ==
  [reg EXCEPT ![AdvanceIndex(reg, meta)] =
     [base |-> @.base, size |-> @.size + length, state |-> @.state]]

CanAdvance(reg) == reg # NoTopic /\ Len(reg) > 0

\* get_segment without an offset: the last segment, even if it is empty.
CanGetLast(reg) == reg # NoTopic /\ Len(reg) > 0

\* get_segment with an offset: the segment that contains it.
CanGetSegment(reg, offset) ==
  /\ CanGetLast(reg)
  /\ offset <= EndOffset(LastSegment(reg))
  /\ FindSegmentIndex(reg, offset) # 0
  /\ offset < EndOffset(reg[FindSegmentIndex(reg, offset)])

GetSegment(reg, offset) == reg[FindSegmentIndex(reg, offset)]

\* get_segment_by_base_offset.
CanGetByBase(reg, base) ==
  /\ CanGetLast(reg)
  /\ FindSegmentIndex(reg, base) # 0
  /\ reg[FindSegmentIndex(reg, base)].base = base

\* bisect_left on the bases: the first index whose base is not smaller.
BisectLeft(reg, base) ==
  LET atLeast == {i \in 1..Len(reg) : reg[i].base >= base}
  IN  IF atLeast = {} THEN Len(reg) + 1 ELSE CHOOSE i \in atLeast : \A j \in atLeast : i <= j

\* Mutant: the copy is recognised by its base only, so a stale one is accepted.
MutCanProgress(reg, meta, state) ==
  /\ reg # NoTopic
  /\ BisectLeft(reg, meta.base) <= Len(reg)
  /\ reg[BisectLeft(reg, meta.base)].base = meta.base
  /\ state \in AllowedTransitions(meta.state)

\* progress_state: the caller's copy must still equal the registry's (a stale
\* copy is rejected), and the transition must be allowed.
CanProgress(reg, meta, state) ==
  /\ reg # NoTopic
  /\ BisectLeft(reg, meta.base) <= Len(reg)
  /\ reg[BisectLeft(reg, meta.base)] = meta
  /\ state \in AllowedTransitions(meta.state)

\* The segment that leaves: registry[topic].pop(idx).
PopSegment(reg, idx) ==
  [i \in 1..(Len(reg) - 1) |-> IF i < idx THEN reg[i] ELSE reg[i + 1]]

\* The entry is rebuilt from the CALLER's copy, not from the registry's.
ProgressState(reg, meta, state) ==
  LET idx == BisectLeft(reg, meta.base)
  IN  IF state = DELETED THEN PopSegment(reg, idx)
                         ELSE [reg EXCEPT ![idx] = [base |-> meta.base, size |-> meta.size, state |-> state]]

\* get_latest_offset; raises IndexError on the empty list.
LatestOffset(reg) == EndOffset(LastSegment(reg))

\* list_segments_by_state: a snapshot of the entries in that state (callers go
\* through them one by one, so a set).
ListSegments(reg, state) == {reg[i] : i \in {j \in 1..Len(reg) : reg[j].state = state}}
=============================================================================

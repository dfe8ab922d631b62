---------------------------- MODULE RegistryClients ----------------------------
(***************************************************************************)
(* The registry under callers that follow no protocol: any number of       *)
(* clients call any method, in any order, with metas they obtained at any  *)
(* earlier time (SegmentMeta is a value, so a copy outlives the entry it   *)
(* was read from).  This is what the registry's own tests do with threads; *)
(* LogStore is the registry under the discipline of LogWriter.             *)
(*                                                                         *)
(* A method that raises leaves the registry and the caller's copy alone,   *)
(* which is a stuttering step and not an action here.                      *)
(***************************************************************************)
EXTENDS SegmentRegistry

CONSTANTS
  Clients,     \* threads that call the registry
  NoCopy,      \* a client that holds no copy
  Lengths,     \* the lengths passed to advance_offset
  MaxOffset,   \* bound on the offsets clients use
  MaxSegments  \* bound on the length of the list

ASSUME ClientsAssumption ==
  /\ NoCopy \notin SegmentMeta
  /\ Lengths \subseteq Nat
  /\ MaxOffset \in Nat /\ MaxSegments \in Nat

VARIABLE held  \* the last SegmentMeta each client obtained

clientVars == <<registry, held>>

Offsets == 0..MaxOffset

ClientsInit ==
  /\ registry = NoTopic
  /\ held = [c \in Clients |-> NoCopy]

Create(c, base) ==
  /\ CanCreate(registry, base)
  /\ registry # NoTopic => Len(registry) < MaxSegments
  /\ registry' = CreateSegment(registry, base)
  /\ held' = [held EXCEPT ![c] = NewSegment(base)]

\* The result is the new entry, found where the old one was.
AdvanceBy(c, length) ==
  /\ held[c] # NoCopy
  /\ CanAdvance(registry)
  /\ registry' = AdvanceOffset(registry, held[c], length)
  /\ \A i \in 1..Len(registry) : EndOffset(registry'[i]) <= MaxOffset
  /\ held' = [held EXCEPT ![c] = registry'[AdvanceIndex(registry, held[c])]]

GetLast(c) ==
  /\ CanGetLast(registry)
  /\ held' = [held EXCEPT ![c] = LastSegment(registry)]
  /\ UNCHANGED registry

Get(c, offset) ==
  /\ CanGetSegment(registry, offset)
  /\ held' = [held EXCEPT ![c] = GetSegment(registry, offset)]
  /\ UNCHANGED registry

GetByBase(c, base) ==
  /\ CanGetByBase(registry, base)
  /\ held' = [held EXCEPT ![c] = GetSegment(registry, base)]
  /\ UNCHANGED registry

\* list_segments_by_state, the caller picking one of the entries.
List(c, state) ==
  /\ registry # NoTopic
  /\ \E meta \in ListSegments(registry, state) : held' = [held EXCEPT ![c] = meta]
  /\ UNCHANGED registry

\* progress_state; with DELETED it is remove_segment, which returns the caller's
\* own copy.
Progress(c, state) ==
  /\ held[c] # NoCopy
  /\ CanProgress(registry, held[c], state)
  /\ registry' = ProgressState(registry, held[c], state)
  /\ held' = IF state = DELETED THEN held ELSE [held EXCEPT ![c].state = state]

ClientsNext ==
  \E c \in Clients :
    \/ \E base \in Offsets : Create(c, base)
    \/ \E length \in Lengths : AdvanceBy(c, length)
    \/ GetLast(c)
    \/ \E offset \in Offsets : Get(c, offset)
    \/ \E base \in Offsets : GetByBase(c, base)
    \/ \E state \in States : List(c, state)
    \/ \E state \in States : Progress(c, state)

ClientsSpec == ClientsInit /\ [][ClientsNext]_clientVars

-----------------------------------------------------------------------------
ClientsTypeOK ==
  /\ registry \in Seq(SegmentMeta) \cup {NoTopic}
  /\ held \in [Clients -> SegmentMeta \cup {NoCopy}]

\* _find_segment_index and bisect_left binary-search the list, so its bases must
\* stay strictly increasing whatever clients create, advance and remove
\* (create_segment's docstring: "Ensures no overlap and uniquess").
BasesIncreasing ==
  registry # NoTopic =>
    \A i, j \in 1..Len(registry) : i < j => registry[i].base < registry[j].base

\* In every registry clients can build, with gaps, empty segments and removed
\* ones, the binary search finds the last segment that starts at or before the
\* offset.
SearchAgrees ==
  registry # NoTopic =>
    \A offset \in Offsets : BinarySearch(registry, offset) = FindSegmentIndex(registry, offset)

\* progress_state writes back the size of the caller's copy.  A copy taken
\* before another client's advance_offset must never undo that advance, and no
\* state is skipped or revisited: a live entry only grows, and moves along
\* ACTIVE -> SEALED -> EXPIRED, and only an EXPIRED one leaves.
EntryEvolves(old) ==
  \/ \E i \in 1..Len(registry') :
       /\ registry'[i].base = old.base
       /\ registry'[i].size >= old.size
       /\ registry'[i].state = old.state \/ registry'[i].state \in AllowedTransitions(old.state)
  \/ /\ old.state = EXPIRED
     /\ \A i \in 1..Len(registry') : registry'[i].base # old.base

NoLostUpdate ==
  [][registry # NoTopic => \A i \in 1..Len(registry) : EntryEvolves(registry[i])]_clientVars
=============================================================================

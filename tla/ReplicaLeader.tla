----------------------------- MODULE ReplicaLeader -----------------------------
(***************************************************************************)
(* ReplicaLeader (broker replication/leader.py) of one topic, with the     *)
(* broker paths that use it: a publish with acks = -1 (_handle_write and   *)
(* wait_for_hw), a consumer's pull, a replica's fetch, and the leader loop *)
(* of ReplicaManager that recomputes the ISR.                              *)
(*                                                                         *)
(* All of these run on the event-loop thread, so one of them runs at a     *)
(* time until it awaits; the writer pool appends to the log at any moment, *)
(* also between two reads of the log end by the same handler.  loop is the *)
(* handler in the middle of such a pair of reads.                          *)
(*                                                                         *)
(* Followers are known here by the fetch commands they send: an offset is  *)
(* whatever the follower's own log has, so it may lie behind an earlier    *)
(* one (the follower lost its log) or past the leader's log end (the       *)
(* follower outlived a longer leader).                                     *)
(***************************************************************************)
EXTENDS Integers, FiniteSets

CONSTANTS
  Leader,       \* this broker's id
  Followers,    \* the other ids of replica_list
  ListIndex,    \* the position of each follower in replica_list
  Publishers,   \* clients that publish with acks = -1
  MinIsrCount,  \* config.min_isr_count
  MaxIsrLag,    \* config.max_isr_lag_ms, compared with seconds by the code
  InitialLEO,   \* the log end when the leader is created
  Lengths,      \* frame lengths
  PullSizes,    \* the size argument of a pull
  StartTime,    \* time.time() when the leader is created
  MaxLEO,       \* bound: log end
  MaxTime       \* bound: clock

ASSUME LeaderAssumption ==
  /\ Leader \notin Followers
  /\ IsFiniteSet(Followers)
  /\ ListIndex \in [Followers -> Nat]
  /\ \A q, r \in Followers : ListIndex[q] = ListIndex[r] => q = r
  /\ MinIsrCount \in Int /\ MaxIsrLag \in Nat /\ InitialLEO \in Nat
  /\ Lengths \subseteq Nat \ {0} /\ PullSizes \subseteq Nat
  /\ MaxLEO \in Nat /\ MaxTime \in Nat
  /\ StartTime \in Nat /\ StartTime > MaxIsrLag

VARIABLES
  leo,       \* LogManager.get_latest_offset(topic)
  frames,    \* the messages written since, as <<start, end>>
  isr,       \* in_sync_replica
  offset,    \* replica_offset, a defaultdict(int)
  hw,        \* _high_watermark
  caught,    \* replica_last_caugthup, a defaultdict(float)
  now,       \* time.time()
  phase,     \* "open", "stopping" (Broker.close has cancelled the handlers), "closed"
  loop,      \* the handler between two reads of the log end
  pub        \* state of each publisher: its step and its message

vars == <<leo, frames, isr, offset, hw, caught, now, phase, loop, pub>>

Replicas == Followers \cup {Leader}

Idle == [op |-> "none"]
NoMessage == [pc |-> "idle", start |-> 0, end |-> 0]

Max2(a, b) == IF a > b THEN a ELSE b

\* _compute_high_watermark also stores the log end as the leader's own offset.
OwnOffset == [offset EXCEPT ![Leader] = leo]

Smallest(S) == CHOOSE x \in S : \A y \in S : x <= y

ComputeHW == IF isr = {} THEN 0 ELSE Smallest({OwnOffset[r] : r \in isr})

\* Mutant: the computed value replaces the stored one.
MutGetHW == ComputeHW

\* get_high_watermark.
GetHW == Max2(hw, ComputeHW)

Init ==
  /\ leo = InitialLEO
  /\ frames = {}
  /\ isr = {Leader}
  /\ offset = [r \in Replicas |-> IF r = Leader THEN InitialLEO ELSE 0]
  /\ hw = InitialLEO
  /\ caught = [r \in Followers |-> 0]
  /\ now = StartTime
  /\ phase = "open"
  /\ loop = Idle
  /\ pub = [p \in Publishers |-> NoMessage]

-----------------------------------------------------------------------------
\* The writer pool appends a message nobody waits for (acks 0 or 1).
AppendMessage(length) ==
  /\ leo + length <= MaxLEO
  /\ leo' = leo + length
  /\ frames' = frames \cup {<<leo, leo + length>>}
  /\ UNCHANGED <<isr, offset, hw, caught, now, phase, loop, pub>>

\* _handle_write with acks = -1: get_leader, then the request is queued.
Publish(p) ==
  /\ loop = Idle /\ phase = "open"
  /\ pub[p].pc \in {"idle", "acked", "failed"}
  /\ pub' = [pub EXCEPT ![p] = [NoMessage EXCEPT !.pc = "submitted"]]
  /\ UNCHANGED <<leo, frames, isr, offset, hw, caught, now, phase, loop>>

\* The writer pool appends that message; the publisher's future gets the offset
\* the message STARTS at.
AppendForPublisher(p, length) ==
  /\ pub[p].pc = "submitted"
  /\ leo + length <= MaxLEO
  /\ leo' = leo + length
  /\ frames' = frames \cup {<<leo, leo + length>>}
  /\ pub' = [pub EXCEPT ![p] = [pc |-> "appended", start |-> leo, end |-> leo + length]]
  /\ UNCHANGED <<isr, offset, hw, caught, now, phase, loop>>

\* wait_for_hw(offset), on the leader object _handle_write fetched before the
\* append: the ack goes out at once or the publisher joins hw_waiter_queue.
WaitForHW(p) ==
  /\ loop = Idle
  /\ pub[p].pc = "appended"
  /\ hw' = GetHW
  /\ offset' = OwnOffset
  /\ pub' = [pub EXCEPT ![p].pc = IF GetHW >= pub[p].start THEN "acked" ELSE "waiting"]
  /\ UNCHANGED <<leo, frames, isr, caught, now, phase, loop>>

\* Broker.close cancels every connection handler, wherever it is suspended; the
\* future of a waiter stays in hw_waiter_queue.
CancelHandlers ==
  /\ loop = Idle /\ phase = "open"
  /\ phase' = "stopping"
  /\ pub' = [p \in Publishers |-> [pub[p] EXCEPT !.pc = "cancelled"]]
  /\ UNCHANGED <<leo, frames, isr, offset, hw, caught, now, loop>>

\* close: every waiter in the queue gets an exception.  On a future that was
\* cancelled set_exception raises, and there are no others behind it.
Close ==
  /\ loop = Idle /\ phase # "closed"
  /\ phase' = "closed"
  /\ pub' = [p \in Publishers |->
       IF pub[p].pc = "waiting" THEN [pub[p] EXCEPT !.pc = "failed"] ELSE pub[p]]
  /\ UNCHANGED <<leo, frames, isr, offset, hw, caught, now, loop>>

\* handle(fetch): the log end is read for the response, ...
FetchBegin(r, o) ==
  /\ loop = Idle /\ phase = "open"
  /\ loop' = [op |-> "fetch", replica |-> r, offset |-> o, leo |-> leo]
  /\ UNCHANGED <<leo, frames, isr, offset, hw, caught, now, phase, pub>>

\* ... then again inside get_high_watermark; only afterwards is the offset of
\* the request recorded.  The read of the log that follows may raise (nothing
\* past the log end), which closes the connection and undoes nothing.
FetchEnd ==
  /\ loop.op = "fetch"
  /\ hw' = GetHW
  /\ offset' = [OwnOffset EXCEPT ![loop.replica] = loop.offset]
  /\ caught' = IF loop.offset = loop.leo THEN [caught EXCEPT ![loop.replica] = now] ELSE caught
  /\ loop' = Idle
  /\ UNCHANGED <<leo, frames, isr, now, phase, pub>>

\* PullCommand: an offset at or past the high watermark gets an empty answer or
\* an error; reading the high watermark updates it all the same.
PullNothing(o) ==
  /\ loop = Idle /\ phase = "open"
  /\ o >= GetHW
  /\ hw' = GetHW
  /\ offset' = OwnOffset
  /\ UNCHANGED <<leo, frames, isr, caught, now, phase, loop, pub>>

\* Mutant: the high watermark itself is let through.
MutPullBegin(o, size) ==
  /\ loop = Idle /\ phase = "open"
  /\ o <= GetHW
  /\ hw' = GetHW
  /\ offset' = OwnOffset
  /\ loop' = [op |-> "pull", offset |-> o, size |-> size]
  /\ UNCHANGED <<leo, frames, isr, caught, now, phase, pub>>

\* An offset below it goes to _push_message with the size the client asked for;
\* the high watermark is not passed on.
PullBegin(o, size) ==
  /\ loop = Idle /\ phase = "open"
  /\ o < GetHW
  /\ hw' = GetHW
  /\ offset' = OwnOffset
  /\ loop' = [op |-> "pull", offset |-> o, size |-> size]
  /\ UNCHANGED <<leo, frames, isr, caught, now, phase, pub>>

\* LogReader: whole messages from the offset within the size, at least one, not
\* past the end of a segment (so any such prefix).
PullRead(end) ==
  /\ loop.op = "pull"
  /\ \E f \in frames : f[1] >= loop.offset /\ f[2] = end
  /\ \/ end <= loop.offset + loop.size
     \/ <<loop.offset, end>> \in frames
  /\ loop' = Idle
  /\ UNCHANGED <<leo, frames, isr, offset, hw, caught, now, phase, pub>>

-----------------------------------------------------------------------------
\* _update_isr.  The followers are sorted by lag and taken from the freshest on;
\* among equals the later one in replica_list comes first (the sort is stable).
Lag(r) == now - caught[r]

\* Mutant: sorted without reverse=True and taken from the end.
MutTakenBefore(q, r) ==
  \/ caught[q] < caught[r]
  \/ caught[q] = caught[r] /\ ListIndex[q] > ListIndex[r]

TakenBefore(q, r) ==
  \/ caught[q] > caught[r]
  \/ caught[q] = caught[r] /\ ListIndex[q] > ListIndex[r]

Rank(r) == Cardinality({q \in Followers : TakenBefore(q, r)})

Needed == Max2(0, MinIsrCount - 1)

\* Mutant: the new list starts empty, without the leader.
MutNewIsr ==
  {r \in Followers :
     \/ Rank(r) < Needed
     \/ \A q \in Followers : Needed <= Rank(q) /\ Rank(q) <= Rank(r) => Lag(q) <= MaxIsrLag}

\* First the minimum number, whatever their lag; then on while the lag is small
\* enough, stopping at the first that is not.
NewIsr ==
  {Leader} \cup
  {r \in Followers :
     \/ Rank(r) < Needed
     \/ \A q \in Followers : Needed <= Rank(q) /\ Rank(q) <= Rank(r) => Lag(q) <= MaxIsrLag}

\* One turn of ReplicaManager._leader_loop.  The coroutine of on_isr_change is
\* created and never awaited, so the controller hears nothing.
UpdateIsr ==
  /\ loop = Idle /\ phase # "closed"
  /\ isr' = NewIsr
  /\ UNCHANGED <<leo, frames, offset, hw, caught, now, phase, loop, pub>>

Tick ==
  /\ now < MaxTime
  /\ now' = now + 1
  /\ UNCHANGED <<leo, frames, isr, offset, hw, caught, phase, loop, pub>>

\* A consumer's positions are message starts and the log end.
PullOffsets == {f[1] : f \in frames} \cup {leo}

Next ==
  \/ \E length \in Lengths : AppendMessage(length)
  \/ \E p \in Publishers :
       \/ Publish(p) \/ WaitForHW(p)
       \/ \E length \in Lengths : AppendForPublisher(p, length)
  \/ CancelHandlers
  \/ Close
  \/ \E r \in Followers, o \in 0..(MaxLEO + 1) : FetchBegin(r, o)
  \/ FetchEnd
  \/ \E o \in PullOffsets : PullNothing(o) \/ \E size \in PullSizes : PullBegin(o, size)
  \/ \E end \in 0..MaxLEO : PullRead(end)
  \/ UpdateIsr
  \/ Tick

Spec == Init /\ [][Next]_vars

-----------------------------------------------------------------------------
LoopStates ==
  {Idle} \cup [op : {"fetch"}, replica : Followers, offset : Nat, leo : Nat]
         \cup [op : {"pull"}, offset : Nat, size : Nat]

PubSteps == {"idle", "submitted", "appended", "waiting", "acked", "failed", "cancelled"}

TypeOK ==
  /\ leo \in Nat /\ frames \subseteq Nat \X Nat
  /\ isr \subseteq Replicas
  /\ offset \in [Replicas -> Nat]
  /\ hw \in Nat
  /\ caught \in [Followers -> Nat]
  /\ now \in Nat /\ phase \in {"open", "stopping", "closed"}
  /\ loop \in LoopStates
  /\ pub \in [Publishers -> [pc : PubSteps, start : Nat, end : Nat]]

\* The high watermark never names an offset the leader does not have, although
\* followers report offsets past the log end and the ISR changes under it.
HWBelowLEO == hw <= leo

\* "HW must never decrease" (docs/replicatin-design.md), although a follower's
\* offset may go back and a slow one may join the ISR.
HWMonotone == [][hw' >= hw]_vars

\* A pull that passed the high-watermark check finds its offset in the log, so
\* the read after the check cannot raise.
AcceptedPullIsReadable == loop.op = "pull" => loop.offset < leo

\* What _update_isr is for, by the comparison it makes, that of a lag in seconds with
\* the number max_isr_lag_ms: the leader is in; at least min_isr_count replicas if
\* there are as many; every fresh follower is in; nobody outside is fresher than
\* somebody inside; a stale follower is in only to make up the minimum.
IsrWellChosen ==
  [][isr' # isr =>
       /\ Leader \in isr'
       /\ Cardinality(isr') >= MinIsrCount \/ isr' = Replicas
       /\ \A r \in Followers : Lag(r) <= MaxIsrLag => r \in isr'
       /\ \A r \in Followers \cap isr', q \in Followers \ isr' : caught[r] >= caught[q]
       /\ (\E r \in Followers \cap isr' : Lag(r) > MaxIsrLag)
            => Cardinality(isr') <= Max2(1, MinIsrCount)]_vars

=============================================================================

------------------------------- MODULE Metastore -------------------------------
(***************************************************************************)
(* What MetastoreManager computes (controller metastore/manager.py): who   *)
(* holds and who leads a topic.                                            *)
(*                                                                         *)
(* The hash ring is a preference order.  A broker's place for a topic is   *)
(* its first virtual node after the topic's hash, which does not depend on *)
(* the other brokers, so get_replicas returns the first members of the     *)
(* ring in one fixed order, RingOrder (hash collisions left out).          *)
(***************************************************************************)
EXTENDS Integers, SequencesExt

CONSTANTS
  Brokers,
  RingOrder,         \* the order in which the ring prefers them for the topic
  ReplicasPerTopic,  \* replicas_per_topic
  NoBroker,          \* the empty leader_id
  NoTopic            \* the topic is not in the store

\* TopicMetadata, but for the name of the topic.
TopicMetadata == [leader   : Brokers \cup {NoBroker},
                  replicas : Seq(Brokers),
                  isr      : Seq(Brokers),
                  version  : Nat]

ASSUME MetastoreAssumption ==
  /\ RingOrder \in Seq(Brokers) /\ IsInjective(RingOrder)
  /\ \A b \in Brokers : Contains(RingOrder, b)
  /\ ReplicasPerTopic \in Nat
  /\ NoBroker \notin Brokers
  /\ NoTopic \notin TopicMetadata

Take(s, n) == SubSeq(s, 1, IF n < Len(s) THEN n ELSE Len(s))

\* The members of S in the list s, in their order: [r for r in s if r in S].
Keep(s, S) ==
  LET at == {i \in DOMAIN s : s[i] \in S}
  IN  [k \in 1..Cardinality(at) |-> s[CHOOSE i \in at : Cardinality({j \in at : j < i}) = k - 1]]

\* ConsistentHashRing: the members in ring order; get_replicas; get_node.
Preference(ring) == Keep(RingOrder, ring)
GetReplicas(ring) == Take(Preference(ring), ReplicasPerTopic)
GetNode(ring) == IF ring = {} THEN NoBroker ELSE Head(Preference(ring))

\* _elect_leader.
ElectLeader(meta, ring) ==
  IF meta.isr # <<>> THEN Head(meta.isr)
  ELSE IF meta.replicas # <<>> THEN Head(meta.replicas)
  ELSE GetNode(ring)

\* register_topic, when the topic is new.
NewTopic(ring) ==
  LET replicas == GetReplicas(ring)
  IN  [leader   |-> IF replicas = <<>> THEN NoBroker ELSE Head(replicas),
       replicas |-> replicas,
       isr      |-> replicas,
       version  |-> 1]

\* Mutant: the lost broker keeps its place.
MutReplicasWithout(meta, b, ring, listed) == meta.replicas

\* deregister_broker: the lost replica is taken out and the list filled up from
\* the ring, if the storage lists any node.
ReplicasWithout(meta, b, ring, listed) ==
  LET rest  == Keep(meta.replicas, Brokers \ {b})
      spare == Keep(GetReplicas(ring), Brokers \ ToSet(rest))
  IN  IF listed = {} THEN rest ELSE rest \o Take(spare, ReplicasPerTopic - Len(rest))

NeedsUpdate(meta, b) == Contains(meta.replicas, b) \/ meta.leader = b

\* deregister_broker, for one topic.  Only a leader is taken out of the ISR.
AfterLoss(meta, b, ring, listed) ==
  LET held == [meta EXCEPT
                 !.replicas = IF Contains(@, b) THEN ReplicasWithout(meta, b, ring, listed) ELSE @,
                 !.version  = @ + 1]
      led  == [held EXCEPT !.isr = Keep(@, Brokers \ {b})]
  IN  IF meta.leader = b THEN [led EXCEPT !.leader = ElectLeader(led, ring)] ELSE held

\* update_topic_isr, for a topic that exists.
WithIsr(meta, isr, ring) ==
  LET changed == [meta EXCEPT !.isr = isr, !.version = @ + 1]
  IN  IF Contains(isr, meta.leader) THEN changed
      ELSE [changed EXCEPT !.leader = ElectLeader(changed, ring)]
=============================================================================

----------------------------- MODULE MetastoreProofs -----------------------------
(***************************************************************************)
(* What the operators of Metastore return, for the proofs about the        *)
(* controllers that use them, ZKMetastore and Cluster.  The k-th element   *)
(* that Keep takes from a list is at the position before which there are   *)
(* k - 1 of those it takes, and there is one for every k.                  *)
(***************************************************************************)
EXTENDS Metastore, SequenceTheorems, FiniteSetTheorems, FunctionTheorems, TLAPS

\* In a finite set of numbers there is one with m members below it, for each m.
LEMMA RankOnto ==
  ASSUME NEW I \in SUBSET Nat, IsFiniteSet(I), NEW m \in 0..(Cardinality(I) - 1)
  PROVE  \E i \in I : Cardinality({j \in I : j < i}) = m
<1> DEFINE n == Cardinality(I)
           below(i) == {j \in I : j < i}
           rank == [i \in I |-> Cardinality(below(i))]
<1>0. n \in Nat /\ \A i \in I : i \in Nat
  BY FS_CardinalityType
<1>1. ASSUME NEW i \in I
      PROVE  /\ below(i) \in SUBSET I /\ below(i) # I /\ IsFiniteSet(below(i))
             /\ Cardinality(below(i)) \in Nat /\ Cardinality(below(i)) < n
  <2>1. below(i) \in SUBSET I /\ i \notin below(i)
    OBVIOUS
  <2>2. IsFiniteSet(below(i)) /\ Cardinality(below(i)) <= n /\ Cardinality(below(i)) # n
    BY <2>1, FS_Subset
  <2>3. Cardinality(below(i)) \in Nat
    BY <2>2, FS_CardinalityType
  <2> QED BY <1>0, <2>1, <2>2, <2>3
<1>2. ASSUME NEW i \in I, NEW j \in I, i < j PROVE Cardinality(below(i)) < Cardinality(below(j))
  <2>1. \A x \in I : x < i => x < j
    BY <1>0, <1>2
  <2>2. below(i) \in SUBSET below(j)
    BY <2>1
  <2>3. i \in below(j) /\ i \notin below(i)
    BY <1>0, <1>2
  <2>4. Cardinality(below(i)) <= Cardinality(below(j)) /\ Cardinality(below(i)) # Cardinality(below(j))
    <3> HIDE DEF below
    <3> QED BY <1>1, <2>2, <2>3, FS_Subset
  <2> QED BY <1>1, <2>4
<1>3. IsFiniteSet(0..(n - 1)) /\ Cardinality(0..(n - 1)) = n
  <2>1. 0 \in Int /\ n - 1 \in Int
    BY <1>0
  <2>2. Cardinality(0..(n - 1)) = IF 0 > n - 1 THEN 0 ELSE n - 1 - 0 + 1
    BY <2>1, FS_Interval
  <2> HIDE DEF n
  <2> QED BY <1>0, <2>1, <2>2, FS_Interval
<1>4. rank \in [I -> 0..(n - 1)]
  <2> HIDE DEF below, n
  <2> QED BY <1>0, <1>1
<1>5. \A i, j \in I : rank[i] = rank[j] => i = j
  <2> SUFFICES ASSUME NEW i \in I, NEW j \in I, rank[i] = rank[j] PROVE i = j
    OBVIOUS
  <2> HIDE DEF below
  <2> QED BY <1>1, <1>2
<1>6. rank \in Surjection(I, 0..(n - 1))
  <2> HIDE DEF rank, n
  <2>1. rank \in Injection(I, 0..(n - 1))
    BY <1>4, <1>5, Fun_IsInj
  <2> QED BY <1>3, <2>1, FS_Injection DEF n
<1>7. \A k \in 0..(n - 1) : \E i \in I : rank[i] = k
  <2> HIDE DEF rank, n
  <2> QED BY <1>6 DEF Surjection
<1> QED BY <1>7

\* Keep takes nothing but members of A from the list, and something if it holds one.
LEMMA KeepType ==
  ASSUME NEW S, NEW s \in Seq(S), NEW A
  PROVE  /\ Keep(s, A) \in Seq(S)
         /\ ToSet(Keep(s, A)) \subseteq ToSet(s) \cap A
         /\ (\E b \in A : Contains(s, b)) => Keep(s, A) # <<>>
<1> DEFINE at == {i \in DOMAIN s : s[i] \in A}
           nth(k) == CHOOSE i \in at : Cardinality({j \in at : j < i}) = k - 1
           n == Cardinality(at)
<1>1. at \in SUBSET (1..Len(s)) /\ DOMAIN s = 1..Len(s) /\ Len(s) \in Nat
  OBVIOUS
<1>2. IsFiniteSet(at) /\ n \in Nat /\ at \in SUBSET Nat
  <2>1. IsFiniteSet(1..Len(s))
    BY <1>1, FS_Interval
  <2> QED BY <1>1, <2>1, FS_Subset, FS_CardinalityType
<1>3. \A k \in 1..n : nth(k) \in at
  <2> SUFFICES ASSUME NEW k \in 1..n PROVE nth(k) \in at
    OBVIOUS
  <2> HIDE DEF at
  <2>1. k - 1 \in 0..(Cardinality(at) - 1)
    BY <1>2
  <2>2. \E i \in at : Cardinality({j \in at : j < i}) = k - 1
    BY <1>2, <2>1, RankOnto
  <2> QED BY <2>2
<1>4. Keep(s, A) = [k \in 1..n |-> s[nth(k)]]
  BY DEF Keep
<1> HIDE DEF nth, n
<1>5. \A k \in 1..n : s[nth(k)] \in S \cap A /\ s[nth(k)] \in ToSet(s)
  BY <1>1, <1>3 DEF ToSet
<1>6. Keep(s, A) \in Seq(S) /\ DOMAIN Keep(s, A) = 1..n
  BY <1>2, <1>4, <1>5
<1>7. ToSet(Keep(s, A)) \subseteq ToSet(s) \cap A
  BY <1>4, <1>5, <1>6 DEF ToSet
<1>8. ASSUME NEW b \in A, Contains(s, b) PROVE Keep(s, A) # <<>>
  <2>1. at # {}
    BY <1>1, <1>8 DEF Contains
  <2>2. n # 0
    BY <1>2, <2>1, FS_EmptySet DEF n
  <2> QED BY <1>2, <1>6, <2>2
<1> QED BY <1>6, <1>7, <1>8

\* The first n elements are a list of the same elements.
LEMMA TakeType ==
  ASSUME NEW S, NEW s \in Seq(S), NEW n \in Int
  PROVE  Take(s, n) \in Seq(S) /\ ToSet(Take(s, n)) \subseteq ToSet(s)
<1> DEFINE m == IF n < Len(s) THEN n ELSE Len(s)
<1>1. m \in Int /\ m <= Len(s) /\ Take(s, n) = SubSeq(s, 1, m)
  BY DEF Take
<1>2. CASE m >= 0
  BY <1>1, <1>2 DEF ToSet
<1>3. CASE m < 0
  BY <1>1, <1>3 DEF ToSet
<1> QED BY <1>1, <1>2, <1>3

\* get_replicas and get_node name members of the ring only.
LEMMA ReplicasType ==
  ASSUME NEW members \in SUBSET Brokers
  PROVE  /\ GetReplicas(members) \in Seq(Brokers) /\ ToSet(GetReplicas(members)) \subseteq members
         /\ GetNode(members) \in Brokers \cup {NoBroker}
<1>1. /\ Preference(members) \in Seq(Brokers) /\ ToSet(Preference(members)) \subseteq members
      /\ members # {} => Preference(members) # <<>>
  BY KeepType, MetastoreAssumption DEF Preference
<1>2. GetReplicas(members) \in Seq(Brokers) /\ ToSet(GetReplicas(members)) \subseteq members
  <2>1. ReplicasPerTopic \in Int
    BY MetastoreAssumption
  <2>2. /\ Take(Preference(members), ReplicasPerTopic) \in Seq(Brokers)
        /\ ToSet(Take(Preference(members), ReplicasPerTopic)) \subseteq ToSet(Preference(members))
    BY <1>1, <2>1, TakeType
  <2> QED BY <1>1, <2>2 DEF GetReplicas
<1>3. GetNode(members) \in Brokers \cup {NoBroker}
  BY <1>1 DEF GetNode
<1> QED BY <1>2, <1>3

\* _elect_leader names a broker or nobody.
LEMMA ElectType ==
  ASSUME NEW meta \in TopicMetadata, NEW members \in SUBSET Brokers
  PROVE  ElectLeader(meta, members) \in Brokers \cup {NoBroker}
<1>1. meta.isr \in Seq(Brokers) /\ meta.replicas \in Seq(Brokers)
  BY DEF TopicMetadata
<1>2. GetNode(members) \in Brokers \cup {NoBroker}
  BY ReplicasType
<1> QED BY <1>1, <1>2 DEF ElectLeader

\* A new topic has version 1 and its replicas in the ring (register_topic).
LEMMA NewTopicType ==
  ASSUME NEW members \in SUBSET Brokers
  PROVE  /\ NewTopic(members) \in TopicMetadata /\ NewTopic(members).version = 1
         /\ ToSet(NewTopic(members).replicas) \subseteq members
<1>1. GetReplicas(members) \in Seq(Brokers) /\ ToSet(GetReplicas(members)) \subseteq members
  BY ReplicasType
<1> QED BY <1>1 DEF NewTopic, TopicMetadata

\* A list without one broker, filled up from the ring.
LEMMA FilledUp ==
  ASSUME NEW meta \in TopicMetadata, NEW b, NEW members \in SUBSET Brokers, NEW listed
  PROVE  /\ ReplicasWithout(meta, b, members, listed) \in Seq(Brokers)
         /\ ToSet(ReplicasWithout(meta, b, members, listed))
              \subseteq (ToSet(meta.replicas) \ {b}) \cup members
<1> DEFINE rest  == Keep(meta.replicas, Brokers \ {b})
           spare == Keep(GetReplicas(members), Brokers \ ToSet(rest))
           more  == Take(spare, ReplicasPerTopic - Len(rest))
<1>1. meta.replicas \in Seq(Brokers)
  BY DEF TopicMetadata
<1>2. rest \in Seq(Brokers) /\ ToSet(rest) \subseteq ToSet(meta.replicas) \ {b}
  BY <1>1, KeepType
<1> HIDE DEF rest
<1>3. GetReplicas(members) \in Seq(Brokers) /\ ToSet(GetReplicas(members)) \subseteq members
  BY ReplicasType
<1>4. spare \in Seq(Brokers) /\ ToSet(spare) \subseteq members
  BY <1>3, KeepType
<1> HIDE DEF spare
<1>5. ReplicasPerTopic - Len(rest) \in Int
  BY <1>2, MetastoreAssumption
<1>6. more \in Seq(Brokers) /\ ToSet(more) \subseteq members
  BY <1>4, <1>5, TakeType
<1>7. ReplicasWithout(meta, b, members, listed) = IF listed = {} THEN rest ELSE rest \o more
  BY DEF ReplicasWithout, rest, spare
<1> HIDE DEF more
<1>8. rest \o more \in Seq(Brokers) /\ ToSet(rest \o more) \subseteq ToSet(rest) \cup ToSet(more)
  BY <1>2, <1>6 DEF ToSet
<1> QED BY <1>2, <1>6, <1>7, <1>8

\* TopicMetadata with two of its fields replaced.
LEMMA TwoFields ==
  ASSUME NEW meta \in TopicMetadata, NEW list, NEW version
  PROVE  /\ [meta EXCEPT !.replicas = list, !.version = version]
              = [leader |-> meta.leader, replicas |-> list, isr |-> meta.isr, version |-> version]
         /\ [meta EXCEPT !.isr = list, !.version = version]
              = [leader |-> meta.leader, replicas |-> meta.replicas, isr |-> list, version |-> version]
<1> DEFINE one == [meta EXCEPT !.replicas = list]
           two == [meta EXCEPT !.isr = list]
<1>1. one = [leader |-> meta.leader, replicas |-> list, isr |-> meta.isr, version |-> meta.version]
  BY DEF TopicMetadata
<1>2. two = [leader |-> meta.leader, replicas |-> meta.replicas, isr |-> list, version |-> meta.version]
  BY DEF TopicMetadata
<1>3. /\ [meta EXCEPT !.replicas = list, !.version = version] = [one EXCEPT !.version = version]
      /\ [meta EXCEPT !.isr = list, !.version = version] = [two EXCEPT !.version = version]
  OBVIOUS
<1> HIDE DEF one, two
<1>4. [one EXCEPT !.version = version]
        = [leader |-> meta.leader, replicas |-> list, isr |-> meta.isr, version |-> version]
  BY <1>1
<1>5. [two EXCEPT !.version = version]
        = [leader |-> meta.leader, replicas |-> meta.replicas, isr |-> list, version |-> version]
  BY <1>2
<1> QED BY <1>3, <1>4, <1>5

\* After the loss of b the topic's version is the next one, and its replicas are
\* those it had, without b, and members of the ring (deregister_broker).
LEMMA LossType ==
  ASSUME NEW meta \in TopicMetadata, NEW b, NEW members \in SUBSET Brokers, NEW listed
  PROVE  LET after == AfterLoss(meta, b, members, listed)
         IN  /\ after \in TopicMetadata /\ after.version = meta.version + 1
             /\ ToSet(after.replicas) \subseteq (ToSet(meta.replicas) \ {b}) \cup members
<1> DEFINE replicas == IF Contains(meta.replicas, b) THEN ReplicasWithout(meta, b, members, listed)
                       ELSE meta.replicas
           held == [meta EXCEPT !.replicas = replicas, !.version = meta.version + 1]
           led  == [held EXCEPT !.isr = Keep(meta.isr, Brokers \ {b})]
           after == AfterLoss(meta, b, members, listed)
<1>1. meta.replicas \in Seq(Brokers) /\ meta.isr \in Seq(Brokers) /\ meta.version \in Nat
  BY DEF TopicMetadata
<1>2. replicas \in Seq(Brokers) /\ ToSet(replicas) \subseteq (ToSet(meta.replicas) \ {b}) \cup members
  <2>1. CASE Contains(meta.replicas, b)
    BY <2>1, FilledUp
  <2>2. CASE ~Contains(meta.replicas, b)
    BY <1>1, <2>2 DEF Contains, ToSet
  <2> QED BY <2>1, <2>2
<1> HIDE DEF replicas
<1>3. /\ held \in TopicMetadata /\ held.version = meta.version + 1 /\ held.replicas = replicas
      /\ held.isr = meta.isr
  <2>1. held = [leader |-> meta.leader, replicas |-> replicas, isr |-> meta.isr,
                version |-> meta.version + 1]
    BY TwoFields
  <2> QED BY <1>1, <1>2, <2>1 DEF TopicMetadata
<1>4. Keep(meta.isr, Brokers \ {b}) \in Seq(Brokers)
  BY <1>1, KeepType
<1>5. led \in TopicMetadata /\ led.version = meta.version + 1 /\ led.replicas = replicas
  BY <1>3, <1>4 DEF TopicMetadata
<1>6. ElectLeader(led, members) \in Brokers \cup {NoBroker}
  BY <1>5, ElectType
<1>7. after = IF meta.leader = b THEN [led EXCEPT !.leader = ElectLeader(led, members)] ELSE held
  BY <1>3 DEF AfterLoss, replicas
<1> HIDE DEF held, led, after
<1>8. after \in TopicMetadata /\ after.version = meta.version + 1 /\ after.replicas = replicas
  BY <1>3, <1>5, <1>6, <1>7 DEF TopicMetadata
<1> QED BY <1>2, <1>8 DEF after

\* A new ISR counts the version on and leaves the replicas (update_topic_isr).
LEMMA IsrType ==
  ASSUME NEW meta \in TopicMetadata, NEW isr \in Seq(Brokers), NEW members \in SUBSET Brokers
  PROVE  LET after == WithIsr(meta, isr, members)
         IN  /\ after \in TopicMetadata /\ after.version = meta.version + 1
             /\ after.replicas = meta.replicas
<1> DEFINE changed == [meta EXCEPT !.isr = isr, !.version = meta.version + 1]
<1>1. /\ changed \in TopicMetadata /\ changed.version = meta.version + 1
      /\ changed.replicas = meta.replicas
  <2>1. changed = [leader |-> meta.leader, replicas |-> meta.replicas, isr |-> isr,
                   version |-> meta.version + 1]
    BY TwoFields
  <2> QED BY <2>1 DEF TopicMetadata
<1>2. ElectLeader(changed, members) \in Brokers \cup {NoBroker}
  BY <1>1, ElectType
<1>3. WithIsr(meta, isr, members) = IF Contains(isr, meta.leader) THEN changed
                                    ELSE [changed EXCEPT !.leader = ElectLeader(changed, members)]
  BY DEF WithIsr
<1> HIDE DEF changed
<1> QED BY <1>1, <1>2, <1>3 DEF TopicMetadata
=============================================================================

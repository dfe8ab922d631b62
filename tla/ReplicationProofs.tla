------------------------- MODULE ReplicationProofs --------------------------
(***************************************************************************)
(* The two halves of replication in a broker: the leader of a topic, and   *)
(* the manager that starts and stops leaders.  The halves have separate    *)
(* state and separate specifications; nothing below uses both.             *)
(***************************************************************************)
EXTENDS ReplicaLeader, ReplicaManager, WellFoundedInduction, FiniteSetTheorems, FunctionTheorems, TLAPS

-----------------------------------------------------------------------------
(***************************************************************************)
(* The high watermark and the ISR of a leader, for every set of followers, *)
(* every bound, every min_isr_count and every fetch a follower may send.   *)
(*                                                                         *)
(* hw <= leo is not inductive: the computed value is the least offset of   *)
(* the ISR, and it is the leader's membership of the ISR that keeps it     *)
(* from following a follower past the log end.  A pull between its check   *)
(* and its read additionally needs its offset to lie below hw.  What       *)
(* _update_isr chooses rests on its order of the followers being total, so *)
(* that the first n of them are n.                                         *)
(***************************************************************************)

\* The facts the induction carries along.
LeaderInIsr == Leader \in isr
PullBelowHW == loop.op = "pull" => loop.offset < hw

IInv == TypeOK /\ LeaderInIsr /\ HWBelowLEO /\ PullBelowHW

\* A non-empty set of naturals has a least element, so Smallest, the min(...) of
\* _compute_high_watermark, is one of its members and a lower bound.
LEMMA SmallestIsLeast ==
  ASSUME NEW S \in SUBSET Nat, S # {}
  PROVE  Smallest(S) \in S /\ \A y \in S : Smallest(S) <= y
<1>1. \E x \in S : \A y \in S : ~(<<y, x>> \in OpToRel(<, Nat))
  BY WFMin, NatLessThanWellFounded
<1>2. PICK x \in S : \A y \in S : ~(<<y, x>> \in OpToRel(<, Nat))
  BY <1>1
<1>3. ASSUME NEW y \in S PROVE ~(y < x)
  BY <1>2, Zenon DEF OpToRel
<1>4. \A y \in S : x <= y
  BY <1>3
<1> QED
  BY <1>4 DEF Smallest

\* What get_high_watermark returns in a state of the invariant: a natural number,
\* no smaller than the stored value and no larger than the log end; storing the
\* leader's own offset keeps the offsets well typed.
LEMMA GetHWBounds ==
  ASSUME TypeOK, LeaderInIsr, HWBelowLEO
  PROVE  /\ GetHW \in Nat /\ hw <= GetHW /\ GetHW <= leo
         /\ OwnOffset \in [Replicas -> Nat]
<1> DEFINE S == {OwnOffset[r] : r \in isr}
<1>1. OwnOffset \in [Replicas -> Nat] /\ OwnOffset[Leader] = leo
  BY DEF TypeOK, OwnOffset, Replicas
<1>2. S \in SUBSET Nat /\ leo \in S
  BY <1>1 DEF TypeOK, LeaderInIsr
<1>3. isr # {}
  BY DEF LeaderInIsr
<1>4. Smallest(S) \in Nat /\ Smallest(S) <= leo
  <2> HIDE DEF S
  <2>1. Smallest(S) \in S /\ \A y \in S : Smallest(S) <= y
    BY <1>2, SmallestIsLeast
  <2> QED
    BY <2>1, <1>2
<1>5. ComputeHW \in Nat /\ ComputeHW <= leo
  BY <1>3, <1>4 DEF ComputeHW
<1> QED
  BY <1>1, <1>5 DEF GetHW, Max2, TypeOK, HWBelowLEO

\* The initial states: only the leader is in the ISR and hw is its log end.
LEMMA InitIInv == Init => IInv
<1> SUFFICES ASSUME Init PROVE IInv
  OBVIOUS
<1> USE LeaderAssumption DEF Init
<1>1. /\ leo \in Nat /\ frames \subseteq Nat \X Nat /\ isr \subseteq Replicas
      /\ hw \in Nat /\ now \in Nat /\ phase \in {"open", "stopping", "closed"}
  BY DEF Replicas
<1>2. offset \in [Replicas -> Nat] /\ caught \in [Followers -> Nat]
  OBVIOUS
<1>3. loop \in LoopStates
  BY DEF LoopStates
<1>4. NoMessage \in [pc : PubSteps, start : Nat, end : Nat]
  BY DEF NoMessage, PubSteps
<1>5. TypeOK
  BY <1>1, <1>2, <1>3, <1>4 DEF TypeOK
<1>6. LeaderInIsr /\ HWBelowLEO
  BY DEF LeaderInIsr, HWBelowLEO
<1>7. PullBelowHW
  BY DEF PullBelowHW, Idle
<1> QED
  BY <1>5, <1>6, <1>7 DEF IInv

\* One step: every handler that reads the high watermark replaces hw by GetHW,
\* and only the writer pool moves the log end, upwards.
LEMMA NextIInv == IInv /\ [Next]_vars => IInv'
<1> SUFFICES ASSUME IInv, [Next]_vars PROVE IInv'
  OBVIOUS
<1> USE LeaderAssumption
<1>0. TypeOK /\ LeaderInIsr /\ HWBelowLEO /\ PullBelowHW
  BY DEF IInv
<1>hw. /\ GetHW \in Nat /\ hw <= GetHW /\ GetHW <= leo
       /\ OwnOffset \in [Replicas -> Nat]
  BY <1>0, GetHWBounds
<1>1. CASE \E length \in Lengths : AppendMessage(length)
  BY <1>0, <1>1 DEF IInv, TypeOK, LeaderInIsr, HWBelowLEO, PullBelowHW, AppendMessage
<1>2. ASSUME NEW p \in Publishers, Publish(p) PROVE IInv'
  BY <1>0, <1>2 DEF IInv, TypeOK, LeaderInIsr, HWBelowLEO, PullBelowHW, Publish, NoMessage, PubSteps
<1>3. ASSUME NEW p \in Publishers, WaitForHW(p) PROVE IInv'
  BY <1>0, <1>hw, <1>3
     DEF IInv, TypeOK, LeaderInIsr, HWBelowLEO, PullBelowHW, WaitForHW, Idle, PubSteps
<1>4. ASSUME NEW p \in Publishers, NEW length \in Lengths, AppendForPublisher(p, length) PROVE IInv'
  BY <1>0, <1>4 DEF IInv, TypeOK, LeaderInIsr, HWBelowLEO, PullBelowHW, AppendForPublisher, PubSteps
<1>5. CASE Close
  BY <1>0, <1>5 DEF IInv, TypeOK, LeaderInIsr, HWBelowLEO, PullBelowHW, Close, PubSteps
<1>14. CASE CancelHandlers
  BY <1>0, <1>14 DEF IInv, TypeOK, LeaderInIsr, HWBelowLEO, PullBelowHW, CancelHandlers, PubSteps
<1>6. ASSUME NEW r \in Followers, NEW o \in 0..(MaxLEO + 1), FetchBegin(r, o) PROVE IInv'
  BY <1>0, <1>6 DEF IInv, TypeOK, LeaderInIsr, HWBelowLEO, PullBelowHW, FetchBegin, LoopStates
<1>7. CASE FetchEnd
  <2>1. loop.replica \in Followers /\ loop.offset \in Nat
    BY <1>0, <1>7 DEF TypeOK, FetchEnd, LoopStates, Idle
  <2>2. offset' \in [Replicas -> Nat] /\ caught' \in [Followers -> Nat]
    BY <1>0, <1>hw, <1>7, <2>1 DEF TypeOK, FetchEnd, Replicas
  <2> QED
    BY <1>0, <1>hw, <1>7, <2>2
       DEF IInv, TypeOK, LeaderInIsr, HWBelowLEO, PullBelowHW, FetchEnd, LoopStates, Idle
<1>8. ASSUME NEW o \in PullOffsets, PullNothing(o) PROVE IInv'
  BY <1>0, <1>hw, <1>8 DEF IInv, TypeOK, LeaderInIsr, HWBelowLEO, PullBelowHW, PullNothing, Idle
<1>9. ASSUME NEW o \in PullOffsets, NEW size \in PullSizes, PullBegin(o, size) PROVE IInv'
  <2>1. o \in Nat
    BY <1>0, <1>9 DEF PullOffsets, TypeOK
  <2> QED
    BY <1>0, <1>hw, <1>9, <2>1
       DEF IInv, TypeOK, LeaderInIsr, HWBelowLEO, PullBelowHW, PullBegin, LoopStates
<1>10. ASSUME NEW end \in 0..MaxLEO, PullRead(end) PROVE IInv'
  BY <1>0, <1>10 DEF IInv, TypeOK, LeaderInIsr, HWBelowLEO, PullBelowHW, PullRead, LoopStates, Idle
<1>11. CASE UpdateIsr
  BY <1>0, <1>11
     DEF IInv, TypeOK, LeaderInIsr, HWBelowLEO, PullBelowHW, UpdateIsr, NewIsr, Replicas
<1>12. CASE Tick
  BY <1>0, <1>12 DEF IInv, TypeOK, LeaderInIsr, HWBelowLEO, PullBelowHW, Tick
<1>13. CASE UNCHANGED vars
  BY <1>0, <1>13 DEF IInv, TypeOK, LeaderInIsr, HWBelowLEO, PullBelowHW, vars
<1> QED
  BY <1>1, <1>2, <1>3, <1>4, <1>5, <1>6, <1>7, <1>8, <1>9, <1>10, <1>11, <1>12, <1>13, <1>14 DEF Next

\* The invariant of the leader holds in every reachable state.
THEOREM LeaderInvariant == Spec => []IInv
<1> QED
  BY InitIInv, NextIInv, PTL DEF Spec

\* Every variable of the leader keeps its type.
THEOREM LeaderTypeOK == Spec => []TypeOK
<1>1. IInv => TypeOK
  BY DEF IInv
<1> QED
  BY <1>1, LeaderInvariant, PTL

\* get_high_watermark never exceeds the log end, whatever offsets followers
\* report and whoever _update_isr admits.
THEOREM HighWatermarkBelowLogEnd == Spec => []HWBelowLEO
<1>1. IInv => HWBelowLEO
  BY DEF IInv
<1> QED
  BY <1>1, LeaderInvariant, PTL

\* A pull accepted by the high-watermark check can be read.
THEOREM PullReadable == Spec => []AcceptedPullIsReadable
<1>1. IInv => AcceptedPullIsReadable
  <2> SUFFICES ASSUME IInv, loop.op = "pull" PROVE loop.offset < leo
    BY DEF AcceptedPullIsReadable
  <2>1. loop.offset \in Nat /\ loop.offset < hw /\ hw <= leo /\ hw \in Nat /\ leo \in Nat
    BY DEF IInv, PullBelowHW, HWBelowLEO, TypeOK, LoopStates, Idle
  <2> QED
    BY <2>1
<1> QED
  BY <1>1, LeaderInvariant, PTL

\* The high watermark never decreases: an ISR that admits a follower behind it
\* only stops it from moving.
THEOREM HighWatermarkMonotone == Spec => HWMonotone
<1>1. ASSUME IInv, [Next]_vars PROVE [hw' >= hw]_vars
  <2>1. hw \in Nat /\ GetHW \in Nat /\ hw <= GetHW
    BY <1>1, GetHWBounds DEF IInv, TypeOK
  <2>2. hw' = hw \/ hw' = GetHW
    BY <1>1 DEF Next, vars, AppendMessage, Publish, WaitForHW, AppendForPublisher, CancelHandlers, Close, FetchBegin,
                FetchEnd, PullNothing, PullBegin, PullRead, UpdateIsr, Tick
  <2> QED
    BY <2>1, <2>2
<1> QED
  BY <1>1, LeaderInvariant, PTL DEF Spec, HWMonotone

-----------------------------------------------------------------------------
(***************************************************************************)
(* Whom _update_isr admits.  Taking the followers from the freshest on,    *)
(* with the position in replica_list between equals, is a strict total     *)
(* order; Rank numbers the followers in it from 0, without gaps.           *)
(***************************************************************************)

LEMMA TakenInOrder ==
  ASSUME TypeOK, NEW q \in Followers, NEW r \in Followers
  PROVE  /\ ~TakenBefore(r, r)
         /\ q # r => TakenBefore(q, r) \/ TakenBefore(r, q)
         /\ \A x \in Followers : TakenBefore(x, q) /\ TakenBefore(q, r) => TakenBefore(x, r)
         /\ TakenBefore(q, r) => caught[q] >= caught[r]
<1>1. \A x \in Followers : caught[x] \in Nat /\ ListIndex[x] \in Nat
  BY LeaderAssumption DEF TypeOK
<1>2. q # r => ListIndex[q] # ListIndex[r]
  BY LeaderAssumption
<1> QED BY <1>1, <1>2 DEF TakenBefore

\* A follower's rank is smaller than that of those taken after it.
LEMMA RankOrders ==
  ASSUME TypeOK, NEW q \in Followers, NEW r \in Followers
  PROVE  /\ Rank(r) \in Nat /\ Rank(r) < Cardinality(Followers)
         /\ TakenBefore(q, r) <=> Rank(q) < Rank(r)
         /\ Rank(q) = Rank(r) => q = r
<1> DEFINE Earlier(x) == {y \in Followers : TakenBefore(y, x)}
<1>1. ASSUME NEW x \in Followers
      PROVE  /\ IsFiniteSet(Earlier(x)) /\ Rank(x) = Cardinality(Earlier(x)) /\ Rank(x) \in Nat
             /\ x \notin Earlier(x)
  <2>1. Earlier(x) \in SUBSET Followers
    OBVIOUS
  <2>2. IsFiniteSet(Earlier(x))
    BY <2>1, LeaderAssumption, FS_Subset
  <2>3. x \notin Earlier(x)
    BY TakenInOrder
  <2>4. Rank(x) = Cardinality(Earlier(x))
    BY DEF Rank
  <2> QED BY <2>2, <2>3, <2>4, FS_CardinalityType
<1>2. Cardinality(Followers) \in Nat
  BY LeaderAssumption, FS_CardinalityType
<1>3. Rank(r) < Cardinality(Followers)
  <2>1. Earlier(r) \in SUBSET Followers /\ Earlier(r) # Followers
    BY <1>1
  <2>2. Cardinality(Earlier(r)) <= Cardinality(Followers) /\ Cardinality(Earlier(r)) # Cardinality(Followers)
    BY <2>1, LeaderAssumption, FS_Subset
  <2> QED BY <1>1, <1>2, <2>2
<1>4. ASSUME NEW x \in Followers, NEW y \in Followers, TakenBefore(x, y) PROVE Rank(x) < Rank(y)
  <2>1. Earlier(x) \in SUBSET Earlier(y)
    BY <1>4, TakenInOrder
  <2>2. x \in Earlier(y)
    BY <1>4
  <2>3. Earlier(x) # Earlier(y)
    BY <1>1, <2>2
  <2>4. Cardinality(Earlier(x)) <= Cardinality(Earlier(y)) /\ Cardinality(Earlier(x)) # Cardinality(Earlier(y))
    <3> HIDE DEF Earlier
    <3> QED BY <1>1, <2>1, <2>3, FS_Subset
  <2> QED BY <1>1, <2>4
<1>5. q = r \/ TakenBefore(q, r) \/ TakenBefore(r, q)
  BY TakenInOrder
<1>6. TakenBefore(q, r) => Rank(q) < Rank(r)
  BY <1>4
<1>7. TakenBefore(r, q) => Rank(r) < Rank(q)
  BY <1>4
<1>8. TakenBefore(q, r) \in BOOLEAN /\ Rank(q) \in Nat /\ Rank(r) \in Nat
  BY <1>1 DEF TakenBefore
<1>9. q = r => ~TakenBefore(q, r)
  BY TakenInOrder
<1>10. TakenBefore(q, r) <=> Rank(q) < Rank(r)
  BY <1>5, <1>6, <1>7, <1>8, <1>9
<1>11. Rank(q) = Rank(r) => q = r
  BY <1>5, <1>6, <1>7, <1>8
<1> QED BY <1>3, <1>8, <1>10, <1>11

\* The first k of the sorted list are k followers.
LEMMA FirstAreMany ==
  ASSUME TypeOK, NEW k \in 0..Cardinality(Followers)
  PROVE  LET first == {r \in Followers : Rank(r) < k}
         IN  IsFiniteSet(first) /\ Cardinality(first) = k
<1> DEFINE n == Cardinality(Followers)
           first == {r \in Followers : Rank(r) < k}
           all == [r \in Followers |-> Rank(r)]
           some == [r \in first |-> Rank(r)]
<1>0. n \in Nat /\ k \in Nat /\ k <= n
  BY LeaderAssumption, FS_CardinalityType
<1>1. \A r \in Followers : Rank(r) \in 0..(n - 1)
  BY <1>0, RankOrders
<1>2. \A q, r \in Followers : Rank(q) = Rank(r) => q = r
  BY RankOrders
<1>3. IsFiniteSet(0..(n - 1)) /\ Cardinality(0..(n - 1)) = n
  <2>1. 0 \in Int /\ n - 1 \in Int
    BY <1>0
  <2>2. Cardinality(0..(n - 1)) = IF 0 > n - 1 THEN 0 ELSE n - 1 - 0 + 1
    BY <2>1, FS_Interval
  <2> HIDE DEF n
  <2> QED BY <1>0, <2>1, <2>2, FS_Interval
<1>4. all \in Injection(Followers, 0..(n - 1))
  <2>1. all \in [Followers -> 0..(n - 1)]
    BY <1>1
  <2>2. \A q, r \in Followers : all[q] = all[r] => q = r
    BY <1>2
  <2> HIDE DEF all, n
  <2> QED BY <2>1, <2>2, Fun_IsInj
<1>5. all \in Surjection(Followers, 0..(n - 1))
  <2> HIDE DEF all
  <2> QED BY <1>3, <1>4, FS_Injection
<1>6. \A m \in 0..(n - 1) : \E r \in Followers : Rank(r) = m
  <2>1. \A m \in 0..(n - 1) : \E r \in Followers : all[r] = m
    <3> HIDE DEF all
    <3> QED BY <1>5, Fun_SurjectionProperties
  <2> QED BY <2>1
<1>7. some \in [first -> 0..(k - 1)]
  BY <1>0, <1>1
<1>8. \A q, r \in first : some[q] = some[r] => q = r
  BY <1>2
<1>9. \A m \in 0..(k - 1) : \E r \in first : some[r] = m
  <2> SUFFICES ASSUME NEW m \in 0..(k - 1) PROVE \E r \in first : some[r] = m
    OBVIOUS
  <2>1. m \in 0..(n - 1)
    BY <1>0
  <2>2. PICK r \in Followers : Rank(r) = m
    BY <1>6, <2>1
  <2>3. r \in first
    BY <1>0, <2>2
  <2> QED BY <2>2, <2>3
<1>10. some \in Bijection(first, 0..(k - 1))
  <2> HIDE DEF some, first
  <2> QED BY <1>7, <1>8, <1>9, Fun_IsBij
<1>11. IsFiniteSet(first)
  BY LeaderAssumption, FS_Subset
<1>12. Cardinality(0..(k - 1)) = Cardinality(first)
  <2> HIDE DEF some, first
  <2>1. ExistsBijection(first, 0..(k - 1))
    BY <1>10 DEF ExistsBijection
  <2> QED BY <1>11, <2>1, FS_Bijection
<1>13. Cardinality(0..(k - 1)) = k
  <2>1. 0 \in Int /\ k - 1 \in Int
    BY <1>0
  <2>2. Cardinality(0..(k - 1)) = IF 0 > k - 1 THEN 0 ELSE k - 1 - 0 + 1
    BY <2>1, FS_Interval
  <2> QED BY <1>0, <2>1, <2>2
<1> QED BY <1>11, <1>12, <1>13

\* What _update_isr chooses, for any followers and any times at which they caught up.
LEMMA IsrChosen ==
  ASSUME TypeOK
  PROVE  /\ Leader \in NewIsr
         /\ Cardinality(NewIsr) >= MinIsrCount \/ NewIsr = Replicas
         /\ \A r \in Followers : Lag(r) <= MaxIsrLag => r \in NewIsr
         /\ \A r \in Followers \cap NewIsr, q \in Followers \ NewIsr : caught[r] >= caught[q]
         /\ (\E r \in Followers \cap NewIsr : Lag(r) > MaxIsrLag)
              => Cardinality(NewIsr) <= Max2(1, MinIsrCount)
<1> DEFINE first == {r \in Followers : Rank(r) < Needed}
           In(r) == \/ Rank(r) < Needed
                    \/ \A q \in Followers : Needed <= Rank(q) /\ Rank(q) <= Rank(r) => Lag(q) <= MaxIsrLag
<1>0. /\ Needed \in Nat /\ Needed + 1 = Max2(1, MinIsrCount) /\ Needed + 1 >= MinIsrCount
      /\ MinIsrCount \in Int
  BY LeaderAssumption DEF Needed, Max2
<1>1. \A r \in Followers : caught[r] \in Nat /\ now \in Nat /\ MaxIsrLag \in Nat /\ Rank(r) \in Nat
  BY LeaderAssumption, RankOrders DEF TypeOK
<1>2. NewIsr = {Leader} \cup {r \in Followers : In(r)}
  BY DEF NewIsr
<1>3. \A r \in Followers : r \in NewIsr <=> In(r)
  BY <1>2, LeaderAssumption
<1>4. \A q, r \in Followers : Rank(q) <= Rank(r) => caught[q] >= caught[r] /\ Lag(q) <= Lag(r)
  <2> SUFFICES ASSUME NEW q \in Followers, NEW r \in Followers, Rank(q) <= Rank(r)
               PROVE  caught[q] >= caught[r] /\ Lag(q) <= Lag(r)
    OBVIOUS
  <2>1. q = r \/ TakenBefore(q, r)
    BY <1>1, RankOrders
  <2>2. caught[q] >= caught[r]
    BY <1>1, <2>1, TakenInOrder
  <2> QED BY <1>1, <2>2 DEF Lag
<1>5. \A r \in Followers : Lag(r) \in Int
  BY <1>1 DEF Lag
<1>6. \A r \in Followers : Lag(r) <= MaxIsrLag => r \in NewIsr
  BY <1>1, <1>3, <1>4, <1>5
<1>7. ASSUME NEW r \in Followers, r \in NewIsr, NEW q \in Followers, q \notin NewIsr
      PROVE  caught[r] >= caught[q]
  <2>1. ASSUME Rank(q) <= Rank(r) PROVE FALSE
    <3>1. In(r) /\ ~In(q)
      BY <1>3, <1>7
    <3> QED BY <1>1, <1>0, <2>1, <3>1
  <2> QED BY <1>1, <1>4, <2>1
<1>8. ASSUME NEW r \in Followers, r \in NewIsr, Lag(r) > MaxIsrLag PROVE NewIsr = first \cup {Leader}
  <2>1. In(r) /\ ~(Lag(r) <= MaxIsrLag)
    BY <1>1, <1>3, <1>5, <1>8
  <2>2. Rank(r) < Needed
    BY <1>0, <1>1, <2>1
  <2>3. ASSUME NEW q \in Followers, In(q) PROVE Rank(q) < Needed
    <3> SUFFICES ASSUME ~(Rank(q) < Needed) PROVE FALSE
      OBVIOUS
    <3>1. Lag(q) <= MaxIsrLag
      BY <1>0, <1>1, <2>3
    <3>2. Rank(r) <= Rank(q)
      BY <1>0, <1>1, <2>2
    <3>3. Lag(r) <= Lag(q)
      BY <1>4, <3>2
    <3> QED BY <1>1, <1>5, <2>1, <3>1, <3>3
  <2> QED BY <1>2, <2>3
<1>9. CASE Needed <= Cardinality(Followers)
  <2>1. Needed \in 0..Cardinality(Followers)
    <3>1. Cardinality(Followers) \in Nat
      BY LeaderAssumption, FS_CardinalityType
    <3> QED BY <1>0, <1>9, <3>1
  <2>2. IsFiniteSet(first) /\ Cardinality(first) = Needed
    BY <2>1, FirstAreMany
  <2>3. Leader \notin first
    BY LeaderAssumption
  <2> HIDE DEF first
  <2>4. IsFiniteSet(first \cup {Leader}) /\ Cardinality(first \cup {Leader}) = Needed + 1
    BY <2>2, <2>3, FS_AddElement
  <2>5. first \cup {Leader} \in SUBSET NewIsr
    BY <1>2 DEF first
  <2>6. IsFiniteSet(NewIsr)
    <3>1. IsFiniteSet({r \in Followers : In(r)})
      BY LeaderAssumption, FS_Subset
    <3>2. NewIsr = {r \in Followers : In(r)} \cup {Leader}
      BY <1>2
    <3> QED BY <3>1, <3>2, FS_AddElement
  <2>7. Cardinality(first \cup {Leader}) <= Cardinality(NewIsr) /\ Cardinality(NewIsr) \in Nat
    BY <2>5, <2>6, FS_Subset, FS_CardinalityType
  <2>8. Cardinality(NewIsr) >= MinIsrCount
    BY <1>0, <2>4, <2>7
  <2> QED BY <1>0, <1>2, <1>6, <1>7, <1>8, <2>4, <2>8
<1>10. CASE ~(Needed <= Cardinality(Followers))
  <2>0. Cardinality(Followers) \in Nat
    BY LeaderAssumption, FS_CardinalityType
  <2>1. \A r \in Followers : Rank(r) < Needed
    BY <1>0, <1>1, <1>10, <2>0, RankOrders
  <2>2. NewIsr = Followers \cup {Leader}
    BY <1>2, <2>1
  <2>3. Cardinality(NewIsr) = Cardinality(Followers) + 1
    BY <2>2, LeaderAssumption, FS_AddElement
  <2>4. Cardinality(NewIsr) <= Max2(1, MinIsrCount)
    BY <1>0, <1>10, <2>0, <2>3
  <2> QED BY <1>2, <1>6, <1>7, <2>2, <2>4 DEF Replicas
<1> QED BY <1>9, <1>10

\* Every change of the ISR is one _update_isr was meant to make, for any number of
\* followers and any min_isr_count: the leader and at least the minimum are in,
\* nobody fresh is left out, and a stale follower is in only to make up the minimum.
THEOREM IsrChangesWellChosen == Spec => IsrWellChosen
<1>1. ASSUME IInv, [Next]_vars
      PROVE  [isr' # isr =>
                /\ Leader \in isr'
                /\ Cardinality(isr') >= MinIsrCount \/ isr' = Replicas
                /\ \A r \in Followers : Lag(r) <= MaxIsrLag => r \in isr'
                /\ \A r \in Followers \cap isr', q \in Followers \ isr' : caught[r] >= caught[q]
                /\ (\E r \in Followers \cap isr' : Lag(r) > MaxIsrLag)
                     => Cardinality(isr') <= Max2(1, MinIsrCount)]_vars
  <2>1. isr' = isr \/ isr' = NewIsr
    BY <1>1 DEF Next, vars, AppendMessage, Publish, WaitForHW, AppendForPublisher, CancelHandlers, Close, FetchBegin,
                FetchEnd, PullNothing, PullBegin, PullRead, UpdateIsr, Tick
  <2>2. TypeOK
    BY <1>1 DEF IInv
  <2> QED BY <2>1, <2>2, IsrChosen
<1> QED BY <1>1, LeaderInvariant, PTL DEF Spec, IsrWellChosen

-----------------------------------------------------------------------------
(***************************************************************************)
(* The metadata and the leader loop of a broker, for every set of brokers, *)
(* every number of versions and every order in which any number of callers *)
(* suspend and go on.                                                      *)
(*                                                                         *)
(* LeaderLoopRuns is not inductive.  A caller that resumes installs its    *)
(* metadata whatever topics has become, and what it overwrites depends on  *)
(* whether it still closes the current state; ClosingIsCurrent says what   *)
(* holds of that state meanwhile: it is there and its loop is stopped.     *)
(***************************************************************************)

ClosingIsCurrent ==
  /\ running => Leads(topics)
  /\ \A k \in Callers : Closing(k, TRUE) => topics # NoTopic /\ ~running

ManagerInv == ManagerTypeOK /\ LeaderLoopRuns /\ ClosingIsCurrent

Messages == Metadata \cup {NoTopic}

\* A caller that installs its metadata, whatever topics is by then, keeps the
\* types, starts the loop of a leader and leaves no other caller with the
\* impression that its state is the current one.
LEMMA InstallKeepsInv ==
  ASSUME ManagerInv, NEW k \in Callers, NEW msg \in Messages, Install(k, msg)
  PROVE  ManagerInv'
<1> DEFINE gone == Excluded(msg)
           stage == IF gone \/ Leads(msg) THEN NotApplying ELSE [NotApplying EXCEPT !.stage = "dial"]
<1>1. /\ present' = present
      /\ topics' = IF gone THEN NoTopic ELSE msg
      /\ running' = (~gone /\ Leads(msg))
      /\ orphaned' = (orphaned \/ running)
      /\ applying' = [j \in Callers |-> IF j = k THEN stage ELSE [applying[j] EXCEPT !.current = FALSE]]
  BY DEF Install
<1>2. stage \in [stage : {"idle", "close", "dial"}, current : BOOLEAN, msg : Messages]
      /\ stage.stage # "close"
  BY DEF NotApplying, Messages
<1> HIDE DEF gone, stage
<1>3. ManagerTypeOK'
  <2>1. topics' \in Messages
    BY <1>1 DEF Messages
  <2>2. running' \in BOOLEAN /\ orphaned' \in BOOLEAN /\ present' \in SUBSET Callers
    BY <1>1 DEF ManagerInv, ManagerTypeOK
  <2>3. applying' \in [Callers -> [stage : {"idle", "close", "dial"}, current : BOOLEAN, msg : Messages]]
    BY <1>1, <1>2 DEF ManagerInv, ManagerTypeOK, Messages
  <2> QED
    BY <2>1, <2>2, <2>3 DEF ManagerTypeOK, Messages
<1>4. \A j \in Callers : ~Closing(j, TRUE)'
  <2> SUFFICES ASSUME NEW j \in Callers, applying'[j].stage = "close" PROVE applying'[j].current # TRUE
    BY DEF Closing
  <2>1. j # k
    BY <1>1, <1>2
  <2>2. applying'[j] = [applying[j] EXCEPT !.current = FALSE]
    BY <2>1, <1>1
  <2> QED
    BY <2>2 DEF ManagerInv, ManagerTypeOK
<1>5. gone => ~Leads(topics')
  BY <1>1 DEF Leads
<1>6. ~gone => topics' = msg
  BY <1>1
<1>7. LeaderLoopRuns' /\ (running' => Leads(topics'))
  BY <1>1, <1>5, <1>6 DEF LeaderLoopRuns, Leads
<1> QED
  BY <1>3, <1>4, <1>7 DEF ManagerInv, ClosingIsCurrent

\* A caller that begins to close the current state, stopping its loop.
LEMMA CloseKeepsInv ==
  ASSUME ManagerInv, NEW k \in Callers, NEW msg \in Messages, CloseState(k, msg)
  PROVE  ManagerInv'
<1>1. /\ applying' = [applying EXCEPT ![k] = [stage |-> "close", current |-> TRUE, msg |-> msg]]
      /\ running' = FALSE /\ topics' = topics /\ orphaned' = orphaned /\ present' = present
      /\ ~Ignored(msg) /\ Leads(topics)
  BY DEF CloseState
<1>2. ManagerTypeOK'
  BY <1>1 DEF ManagerInv, ManagerTypeOK, Messages
<1>3. Closing(k, TRUE)'
  BY <1>1 DEF ManagerInv, ManagerTypeOK, Closing
<1>4. LeaderLoopRuns'
  BY <1>3 DEF LeaderLoopRuns
<1>5. topics' # NoTopic /\ ~running'
  BY <1>1 DEF Leads
<1> QED
  BY <1>1, <1>2, <1>4, <1>5 DEF ManagerInv, ClosingIsCurrent

\* A caller that comes to rest and changes nothing else.  If it was closing the
\* current state, there must still be one: RemoveRaises finds none.
LEMMA RestKeepsInv ==
  ASSUME ManagerInv, NEW k \in Callers, RemoveRaises(k) \/ FetcherFails(k)
  PROVE  ManagerInv'
<1>1. /\ applying' = [applying EXCEPT ![k] = NotApplying]
      /\ topics' = topics /\ running' = running /\ orphaned' = orphaned /\ present' = present
      /\ topics = NoTopic \/ applying[k].stage = "dial"
  BY DEF RemoveRaises, FetcherFails
<1>2. ManagerTypeOK'
  BY <1>1 DEF ManagerInv, ManagerTypeOK, NotApplying
<1>3. ASSUME NEW j \in Callers PROVE Closing(j, TRUE)' => Closing(j, TRUE) /\ applying'[j] = applying[j]
  BY <1>1 DEF ManagerInv, ManagerTypeOK, Closing, NotApplying
<1>4. ASSUME NEW j \in Callers, Leads(topics) PROVE Closing(j, TRUE) => Closing(j, TRUE)'
  BY <1>1, <1>4 DEF ManagerInv, ManagerTypeOK, Closing, Leads
<1>5. LeaderLoopRuns'
  BY <1>1, <1>4 DEF ManagerInv, LeaderLoopRuns, Leads
<1>6. ClosingIsCurrent'
  BY <1>1, <1>3 DEF ManagerInv, ClosingIsCurrent, Leads
<1> QED
  BY <1>2, <1>5, <1>6 DEF ManagerInv

\* Nothing is applied and nothing runs.
LEMMA ManagerInitInv == ManagerInit => ManagerInv
<1> SUFFICES ASSUME ManagerInit PROVE ManagerInv
  OBVIOUS
<1>1. ManagerTypeOK
  BY DEF ManagerInit, ManagerTypeOK, NotApplying
<1>2. \A k \in Callers : ~Closing(k, TRUE)
  BY DEF ManagerInit, NotApplying, Closing
<1> QED
  BY <1>1, <1>2 DEF ManagerInit, ManagerInv, LeaderLoopRuns, ClosingIsCurrent, Leads

\* Every step of a caller keeps the invariant.
LEMMA ManagerNextInv == ManagerInv /\ [ManagerNext]_managerVars => ManagerInv'
<1> SUFFICES ASSUME ManagerInv, [ManagerNext]_managerVars PROVE ManagerInv'
  OBVIOUS
<1>1. CASE UNCHANGED managerVars
  BY <1>1 DEF managerVars, ManagerInv, ManagerTypeOK, LeaderLoopRuns, ClosingIsCurrent, Closing, Leads
<1>2. CASE ManagerNext
  <2>1. PICK k \in Callers :
          \/ \E msg \in Messages : Ignore(k, msg) \/ CloseState(k, msg) \/ Apply(k, msg)
          \/ Closed(k) \/ RemoveRaises(k) \/ FetcherFails(k)
    BY <1>2 DEF ManagerNext, ManagerInv, ManagerTypeOK, Messages
  <2>2. ASSUME NEW msg \in Messages, Ignore(k, msg) PROVE ManagerInv'
    BY <2>2 DEF Ignore, managerVars, ManagerInv, ManagerTypeOK, LeaderLoopRuns, ClosingIsCurrent, Closing, Leads
  <2>3. ASSUME NEW msg \in Messages, CloseState(k, msg) PROVE ManagerInv'
    BY <2>3, CloseKeepsInv
  <2>4. ASSUME NEW msg \in Messages, Apply(k, msg) PROVE ManagerInv'
    BY <2>4, InstallKeepsInv DEF Apply
  <2>5. CASE Closed(k)
    <3>1. applying[k].msg \in Messages
      BY DEF ManagerInv, ManagerTypeOK, Messages
    <3> QED
      BY <3>1, <2>5, InstallKeepsInv DEF Closed
  <2>6. CASE RemoveRaises(k) \/ FetcherFails(k)
    BY <2>6, RestKeepsInv
  <2> QED
    BY <2>1, <2>2, <2>3, <2>4, <2>5, <2>6
<1> QED
  BY <1>1, <1>2

\* The invariant holds throughout.
LEMMA ManagerInvariant == ManagerSpec => []ManagerInv
BY ManagerInitInv, ManagerNextInv, PTL DEF ManagerSpec

\* Every variable has its type (TopicState, apply_metadata).
THEOREM ManagerTypes == ManagerSpec => []ManagerTypeOK
<1>1. ManagerInv => ManagerTypeOK
  BY DEF ManagerInv
<1> QED
  BY <1>1, ManagerInvariant, PTL

\* A broker that leads the topic runs its leader loop unless a caller is stopping
\* it (_start_topic, _close_state).
THEOREM LeaderLoop == ManagerSpec => []LeaderLoopRuns
<1>1. ManagerInv => LeaderLoopRuns
  BY DEF ManagerInv
<1> QED
  BY <1>1, ManagerInvariant, PTL

\* With a single caller nobody overtakes it, so the state it closes is the current
\* one and its loop is stopped before the next is installed: no loop is left behind
\* (apply_metadata, _close_state).
THEOREM OneCallerOneLoop == ManagerSpec => []OneLoop
<1> DEFINE Kept(c) == ~orphaned /\ (applying[c].stage = "close" => applying[c].current)
           J == ManagerInv /\ \A c \in Callers : present = {c} => Kept(c)
<1>1. ManagerInit => J
  BY ManagerInitInv DEF ManagerInit, NotApplying
<1>2. ASSUME ManagerInv, [ManagerNext]_managerVars, NEW c \in Callers, present = {c}, Kept(c)
      PROVE  Kept(c)'
  <2>2. /\ applying \in [Callers -> [stage : {"idle", "close", "dial"}, current : BOOLEAN, msg : Messages]]
        /\ running \in BOOLEAN
    BY <1>2 DEF ManagerInv, ManagerTypeOK, Messages
  <2>3. ASSUME NEW msg \in Messages, Install(c, msg), ~running PROVE Kept(c)'
    <3>1. orphaned' = (orphaned \/ running)
      BY <2>3 DEF Install
    <3>2. applying'[c].stage # "close"
      BY <2>3 DEF Install, NotApplying
    <3> QED
      BY <3>1, <3>2, <2>3, <1>2
  <2>4. ASSUME UNCHANGED managerVars PROVE Kept(c)'
    <3>1. applying' = applying /\ orphaned' = orphaned
      BY <2>4 DEF managerVars
    <3> QED
      BY <3>1, <1>2
  <2>5. ASSUME NEW msg \in Messages, Ignore(c, msg) PROVE Kept(c)'
    BY <2>5, <1>2 DEF Ignore, managerVars
  <2>6. ASSUME NEW msg \in Messages, CloseState(c, msg) PROVE Kept(c)'
    BY <2>6, <2>2, <1>2 DEF CloseState
  <2>7. ASSUME NEW msg \in Messages, Apply(c, msg) PROVE Kept(c)'
    BY <2>7, <2>3, <1>2 DEF Apply, ManagerInv, ClosingIsCurrent
  <2>8. ASSUME Closed(c) PROVE Kept(c)'
    <3>1. Closing(c, TRUE)
      BY <2>8, <2>2, <1>2 DEF Closed, Closing
    <3>2. ~running /\ applying[c].msg \in Messages
      BY <3>1, <2>2, <1>2 DEF ManagerInv, ClosingIsCurrent
    <3>3. Install(c, applying[c].msg)
      BY <2>8 DEF Closed
    <3> HIDE DEF Kept
    <3> QED
      BY <3>2, <3>3, <2>3
  <2>9. ASSUME RemoveRaises(c) \/ FetcherFails(c) PROVE Kept(c)'
    <3>1. applying' = [applying EXCEPT ![c] = NotApplying] /\ orphaned' = orphaned
      BY <2>9 DEF RemoveRaises, FetcherFails
    <3>2. applying'[c].stage = "idle"
      BY <3>1, <2>2 DEF NotApplying
    <3> QED
      BY <3>1, <3>2, <1>2
  <2> QED
    BY <1>2, <2>4, <2>5, <2>6, <2>7, <2>8, <2>9 DEF ManagerNext, Messages
<1>3. J /\ [ManagerNext]_managerVars => J'
  <2> SUFFICES ASSUME J, [ManagerNext]_managerVars PROVE J'
    OBVIOUS
  <2>1. ManagerInv'
    BY ManagerNextInv
  <2>2. present' = present
    BY DEF ManagerNext, managerVars, Ignore, CloseState, Apply, Closed, Install, RemoveRaises, FetcherFails
  <2>3. ASSUME NEW c \in Callers, present' = {c} PROVE Kept(c)'
    <3> HIDE DEF Kept
    <3> QED
      BY <2>3, <2>2, <1>2
  <2> HIDE DEF Kept
  <2> QED
    BY <2>1, <2>3
<1>4. J => OneLoop
  BY DEF OneLoop, ManagerInv, ClosingIsCurrent
<1> QED
  BY <1>1, <1>3, <1>4, PTL DEF ManagerSpec
=============================================================================

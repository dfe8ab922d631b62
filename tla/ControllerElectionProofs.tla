----------------------- MODULE ControllerElectionProofs -----------------------
(***************************************************************************)
(* The invariants of ControllerElection hold for any number of             *)
(* controllers, starts and faults.                                         *)
(***************************************************************************)
EXTENDS ControllerElection, TLAPS

\* A controller whose watch is set serves as a follower and is in no election, one about to set it has
\* stepped back, and one that serves while its election runs does not lead.
StandsBack ==
  \A k \in Controllers :
    /\ k \in watch => proc[k] = "serving" /\ ~isLeader[k] /\ elect[k] = "none"
    /\ elect[k] = "watch" => ~isLeader[k]
    /\ proc[k] = "serving" /\ elect[k] # "none" => ~isLeader[k]

IInv == TypeOK /\ StandsBack /\ LeaderHoldsNode

LEMMA FiredType ==
  ASSUME NEW e \in [Controllers -> {"none", "create", "watch", "gone", "failed"}], NEW ws
  PROVE  Fired(e, ws) \in [Controllers -> {"none", "create", "watch", "gone", "failed"}]
  BY DEF Fired

LEMMA InitIInv == Init => IInv
  BY ElectionAssumption DEF Init, IInv, TypeOK, StandsBack, LeaderHoldsNode

LEMMA TypeStep == TypeOK /\ [Next]_vars => TypeOK'
<1> SUFFICES ASSUME TypeOK, [Next]_vars PROVE TypeOK'
  OBVIOUS
<1>0. CASE UNCHANGED vars
  BY <1>0 DEF TypeOK, vars
<1>1. CASE NodeExpires
  BY <1>1, FiredType DEF NodeExpires, TypeOK
<1>2. ASSUME NEW k \in Controllers, Start(k) PROVE TypeOK'
  BY <1>2 DEF Start, TypeOK
<1>3. ASSUME NEW k \in Controllers, Elected(k) PROVE TypeOK'
  <2>1. [elect EXCEPT ![k] = "none"] \in [Controllers -> {"none", "create", "watch", "gone", "failed"}]
    BY DEF TypeOK
  <2> QED BY <1>3, <2>1, FiredType DEF Elected, TypeOK
<1>4. ASSUME NEW k \in Controllers, NotElected(k) PROVE TypeOK'
  BY <1>4 DEF NotElected, TypeOK
<1>5. ASSUME NEW k \in Controllers, SetWatch(k) PROVE TypeOK'
  BY <1>5 DEF SetWatch, TypeOK
<1>6. ASSUME NEW k \in Controllers, LeaderGone(k) PROVE TypeOK'
  BY <1>6 DEF LeaderGone, TypeOK
<1>7. ASSUME NEW k \in Controllers, NEW executed \in BOOLEAN, ElectionRaises(k, executed)
      PROVE  TypeOK'
  <2>1. [elect EXCEPT ![k] = "failed"] \in [Controllers -> {"none", "create", "watch", "gone", "failed"}]
    BY DEF TypeOK
  <2>2. CASE proc[k] = "starting"
    BY <1>7, <2>2 DEF ElectionRaises, TypeOK
  <2>3. CASE proc[k] # "starting"
    <3>1. elect' \in [Controllers -> {"none", "create", "watch", "gone", "failed"}]
      BY <1>7, <2>1, <2>3 DEF ElectionRaises, Fired
    <3>2. isLeader' \in [Controllers -> BOOLEAN]
      BY <1>7, <2>3 DEF ElectionRaises, TypeOK
    <3>3. /\ watch' \subseteq Controllers /\ znode' \in Controllers \cup {Absent, Orphan}
          /\ faults' \in Nat /\ UNCHANGED <<proc, expired, starts>>
      BY <1>7, <2>3 DEF ElectionRaises, TypeOK
    <3> QED BY <3>1, <3>2, <3>3 DEF TypeOK
  <2> QED BY <2>2, <2>3
<1>8. ASSUME NEW k \in Controllers, NEW ws, Ends(k, ws)
      PROVE  /\ proc' \in [Controllers -> {"down", "starting", "serving"}]
             /\ elect' \in [Controllers -> {"none", "create", "watch", "gone", "failed"}]
  <2>1. [elect EXCEPT ![k] = "none"] \in [Controllers -> {"none", "create", "watch", "gone", "failed"}]
    BY DEF TypeOK
  <2> QED BY <1>8, <2>1, FiredType DEF Ends, TypeOK
<1>9. ASSUME NEW k \in Controllers, Close(k) PROVE TypeOK'
  BY <1>8, <1>9 DEF Close, TypeOK
<1>10. ASSUME NEW k \in Controllers, Crash(k) PROVE TypeOK'
  BY <1>8, <1>10 DEF Crash, TypeOK
<1>11. ASSUME NEW k \in Controllers, SessionExpires(k) PROVE TypeOK'
  BY <1>11, FiredType DEF SessionExpires, TypeOK
<1>12. ASSUME NEW k \in Controllers, Interrupted(k) PROVE TypeOK'
  BY <1>12, FiredType DEF Interrupted, TypeOK
<1> QED
  BY <1>0, <1>1, <1>2, <1>3, <1>4, <1>5, <1>6, <1>7, <1>9, <1>10, <1>11, <1>12
  DEF Next, ElectionStep

\* What a step does to one controller j, from the parts of the invariant about it.
Good(j) ==
  /\ j \in watch => proc[j] = "serving" /\ ~isLeader[j] /\ elect[j] = "none"
  /\ elect[j] = "watch" => ~isLeader[j]
  /\ proc[j] = "serving" /\ elect[j] # "none" => ~isLeader[j]
  /\ proc[j] = "serving" /\ isLeader[j] /\ j \notin expired => znode = j

LEMMA GoodStep ==
  ASSUME TypeOK, [Next]_vars, NEW j \in Controllers, Good(j)
  PROVE  Good(j)'
<1>0. CASE UNCHANGED vars
  BY <1>0 DEF Good, vars
<1>1. CASE NodeExpires
  BY <1>1, ElectionAssumption DEF Fired, NodeExpires, Good, TypeOK
<1>2. ASSUME NEW k \in Controllers, Start(k) PROVE Good(j)'
  BY <1>2 DEF Start, Good, TypeOK
<1>3. ASSUME NEW k \in Controllers, Elected(k) PROVE Good(j)'
  <2>1. elect'[j] = IF j \in watch THEN "gone" ELSE [elect EXCEPT ![k] = "none"][j]
    BY <1>3 DEF Fired, Elected
  <2>2. j = k => j \notin watch
    BY <1>3 DEF Elected, Good
  <2> QED BY <1>3, <2>1, <2>2, ElectionAssumption DEF Elected, Good, TypeOK
<1>4. ASSUME NEW k \in Controllers, NotElected(k) PROVE Good(j)'
  BY <1>4 DEF NotElected, Good, TypeOK
<1>5. ASSUME NEW k \in Controllers, SetWatch(k) PROVE Good(j)'
  BY <1>5 DEF SetWatch, Good, TypeOK
<1>6. ASSUME NEW k \in Controllers, LeaderGone(k) PROVE Good(j)'
  BY <1>6 DEF LeaderGone, Good, TypeOK
<1>7. ASSUME NEW k \in Controllers, NEW executed \in BOOLEAN, ElectionRaises(k, executed)
      PROVE  Good(j)'
  <2>1. CASE proc[k] = "starting"
    BY <1>7, <2>1 DEF ElectionRaises, Good, TypeOK
  <2>2. CASE proc[k] # "starting"
    <3>1. elect'[j] = IF executed /\ j \in watch THEN "gone" ELSE [elect EXCEPT ![k] = "failed"][j]
      BY <1>7, <2>2 DEF Fired, ElectionRaises
    <3> QED BY <1>7, <2>2, <3>1, ElectionAssumption DEF ElectionRaises, Good, TypeOK
  <2> QED BY <2>1, <2>2
<1>8. ASSUME NEW k \in Controllers, Close(k) PROVE Good(j)'
  <2>1. CASE znode = k
    <3>1. elect'[j] = IF j \in watch \ {k} THEN "gone" ELSE [elect EXCEPT ![k] = "none"][j]
      BY <1>8, <2>1 DEF Fired, Close, Ends
    <3> QED BY <1>8, <2>1, <3>1, ElectionAssumption DEF Close, Ends, Good, TypeOK
  <2>2. CASE znode # k
    <3>1. elect'[j] = [elect EXCEPT ![k] = "none"][j]
      BY <1>8, <2>2 DEF Fired, Close, Ends
    <3> QED BY <1>8, <2>2, <3>1 DEF Close, Ends, Good, TypeOK
  <2> QED BY <2>1, <2>2
<1>9. ASSUME NEW k \in Controllers, Crash(k) PROVE Good(j)'
  <2>1. elect'[j] = [elect EXCEPT ![k] = "none"][j]
    BY <1>9 DEF Fired, Crash, Ends
  <2> QED BY <1>9, <2>1 DEF Crash, Ends, Good, TypeOK
<1>10. ASSUME NEW k \in Controllers, SessionExpires(k) PROVE Good(j)'
  BY <1>10, ElectionAssumption DEF Fired, SessionExpires, Good, TypeOK
<1>11. ASSUME NEW k \in Controllers, Interrupted(k) PROVE Good(j)'
  BY <1>11 DEF Fired, Interrupted, Good, TypeOK
<1> QED
  BY <1>0, <1>1, <1>2, <1>3, <1>4, <1>5, <1>6, <1>7, <1>8, <1>9, <1>10, <1>11
  DEF Next, ElectionStep

LEMMA GoodIsIInv == IInv <=> TypeOK /\ \A j \in Controllers : Good(j)
  BY DEF IInv, StandsBack, LeaderHoldsNode, Good

LEMMA IInvStep == IInv /\ [Next]_vars => IInv'
<1> SUFFICES ASSUME IInv, [Next]_vars PROVE IInv'
  OBVIOUS
<1>1. TypeOK /\ \A j \in Controllers : Good(j)
  BY GoodIsIInv
<1>2. TypeOK'
  BY <1>1, TypeStep
<1>3. \A j \in Controllers : Good(j)'
  BY <1>1, GoodStep
<1> QED BY <1>2, <1>3, GoodIsIInv DEF IInv, StandsBack, LeaderHoldsNode, Good

\* The state of the election keeps its type.
THEOREM ElectionTypeOK == Spec => []TypeOK
<1>1. Init => TypeOK
  BY InitIInv DEF IInv
<1> QED BY <1>1, TypeStep, PTL DEF Spec

\* Whoever serves brokers as leader after _run_election owns the /controller node,
\* or its session has expired under it.
THEOREM LeaderHolds == Spec => []LeaderHoldsNode
<1>1. IInv => LeaderHoldsNode
  BY DEF IInv
<1> QED BY <1>1, InitIInv, IInvStep, PTL DEF Spec
=============================================================================

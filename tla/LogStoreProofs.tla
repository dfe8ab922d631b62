----------------------------- MODULE LogStoreProofs -----------------------------
(***************************************************************************)
(* The registry of segments and the log kept in them: first the operators  *)
(* of SegmentRegistry and their concurrent callers (RegistryClients), then *)
(* the log of a topic under LogManager (LogStore).                         *)
(***************************************************************************)
EXTENDS LogStore, RegistryClients, SequenceTheorems, WellFoundedInduction, FiniteSetTheorems, TLAPS

-----------------------------------------------------------------------------
(***************************************************************************)
(* What the operators of SegmentRegistry return, for every list of         *)
(* segments: the facts about the two searches, about appending, advancing  *)
(* and removing that the proofs below cite, and that the loop of           *)
(* _find_segment_index finds, on a sorted list, what FindSegmentIndex      *)
(* says.                                                                   *)
(*                                                                         *)
(* The last part proves the safety of RegistryClients for any number of    *)
(* clients and any bounds: RegistryInv, the type of the list and its order *)
(* by base, is inductive as it stands.                                     *)
(***************************************************************************)

\* The bases of the list increase strictly.
Sorted(reg) == \A i, j \in 1..Len(reg) : i < j => reg[i].base < reg[j].base

\* A non-empty set of naturals has a least element.
LEMMA NatMin ==
  ASSUME NEW S \in SUBSET Nat, S # {}
  PROVE  \E x \in S : \A y \in S : x <= y
<1>1. PICK x \in S : \A y \in S : ~(<<y, x>> \in OpToRel(<, Nat))
  BY WFMin, NatLessThanWellFounded
<1>2. ASSUME NEW y \in S PROVE ~(y < x)
  BY <1>1, Zenon DEF OpToRel
<1> QED
  BY <1>2

\* A non-empty set of indices up to n has a greatest element.
LEMMA IndexMax ==
  ASSUME NEW n \in Nat, NEW S \in SUBSET (1..n), S # {}
  PROVE  \E x \in S : \A y \in S : y <= x
<1> DEFINE T == {n - x : x \in S}
<1>1. T \in SUBSET Nat /\ T # {}
  <2>1. \A x \in S : n - x \in Nat
    OBVIOUS
  <2>2. PICK x \in S : TRUE
    OBVIOUS
  <2>3. n - x \in T
    OBVIOUS
  <2> QED
    BY <2>1, <2>3
<1>2. PICK t \in T : \A u \in T : t <= u
  <2> HIDE DEF T
  <2> QED
    BY <1>1, NatMin
<1>3. PICK x \in S : t = n - x
  OBVIOUS
<1>4. \A y \in S : n - y \in T
  OBVIOUS
<1>5. ASSUME NEW y \in S PROVE y <= x
  <2>1. t <= n - y
    BY <1>2, <1>4
  <2> QED
    BY <2>1, <1>3
<1> QED
  BY <1>5

\* _find_segment_index: an index of the list or 0; the segment found starts at or
\* before the offset, every later one starts after it, and 0 means that all do.
LEMMA FindSegmentIndexFinds ==
  ASSUME NEW reg \in Seq(SegmentMeta), NEW offset \in Nat
  PROVE  LET k == FindSegmentIndex(reg, offset)
         IN  /\ k \in 0..Len(reg)
             /\ k # 0 => reg[k].base <= offset
             /\ \A j \in 1..Len(reg) : reg[j].base <= offset => j <= k
<1> DEFINE below == {i \in 1..Len(reg) : reg[i].base <= offset}
<1>1. Len(reg) \in Nat /\ below \in SUBSET (1..Len(reg))
  OBVIOUS
<1>2. CASE below = {}
  BY <1>1, <1>2 DEF FindSegmentIndex
<1>3. CASE below # {}
  <2>1. \E k \in below : \A j \in below : j <= k
    <3> HIDE DEF below
    <3> QED
      BY <1>1, <1>3, IndexMax
  <2>2. FindSegmentIndex(reg, offset) = CHOOSE k \in below : \A j \in below : j <= k
    BY <1>3 DEF FindSegmentIndex
  <2>3. /\ FindSegmentIndex(reg, offset) \in below
        /\ \A j \in below : j <= FindSegmentIndex(reg, offset)
    BY <2>1, <2>2
  <2> QED
    BY <2>3, <1>1
<1> QED
  BY <1>2, <1>3

\* What is left to find in state s of the binary search: the greatest index in l..r
\* whose base is not greater than the offset, or i if there is none.
Candidates(reg, offset, s) == {k \in s.l..s.r : reg[k].base <= offset}
LastBelow(reg, offset, s) ==
  IF Candidates(reg, offset, s) = {} THEN s.i
  ELSE CHOOSE k \in Candidates(reg, offset, s) : \A j \in Candidates(reg, offset, s) : j <= k

\* LastBelow is the one greatest element of Candidates.
LEMMA LastBelowIs ==
  ASSUME NEW reg \in Seq(SegmentMeta), NEW offset \in Nat, NEW s \in SearchState(reg),
         NEW k \in Candidates(reg, offset, s), \A j \in Candidates(reg, offset, s) : j <= k
  PROVE  LastBelow(reg, offset, s) = k
<1> DEFINE B == Candidates(reg, offset, s)
           m == CHOOSE x \in B : \A j \in B : j <= x
<1>1. m \in B /\ \A j \in B : j <= m
  <2> HIDE DEF B
  <2> QED BY DEF B
<1>2. LastBelow(reg, offset, s) = m
  BY DEF LastBelow
<1>3. k \in Int /\ m \in Int
  <2>1. B \subseteq Int
    BY LenProperties DEF Candidates, SearchState
  <2> HIDE DEF B, m
  <2> QED BY <1>1, <2>1 DEF B
<1>4. m <= k /\ k <= m
  <2> HIDE DEF B, m
  <2> QED BY <1>1 DEF B
<1> HIDE DEF m
<1> QED BY <1>2, <1>3, <1>4

\* The body of the loop leaves as much to find, in a shorter range.
LEMMA HalveKeeps ==
  ASSUME NEW reg \in Seq(SegmentMeta), Sorted(reg), NEW offset \in Nat,
         NEW s \in SearchState(reg), ~(s.l > s.r)
  PROVE  LET t == Halve(reg, offset, s)
         IN  /\ t \in SearchState(reg) /\ LastBelow(reg, offset, t) = LastBelow(reg, offset, s)
             /\ (t.r + 1) - t.l < (s.r + 1) - s.l /\ (t.r + 1) - t.l \in Nat
<1> DEFINE n == Len(reg)
           mid == (s.l + s.r) \div 2
           t == Halve(reg, offset, s)
           B(u) == Candidates(reg, offset, u)
<1>0. n \in Nat /\ \A j \in 1..n : reg[j].base \in Nat
  <2>1. n \in Nat /\ \A j \in 1..n : reg[j] \in SegmentMeta
    BY LenProperties, ElementOfSeq
  <2> QED BY <2>1 DEF SegmentMeta
<1>1. s.l \in 1..(n + 1) /\ s.r \in 0..n /\ s.i \in 0..n /\ s.l <= s.r
  BY <1>0 DEF SearchState
<1>2. mid \in s.l..s.r /\ mid \in 1..n
  BY <1>0, <1>1
<1>3. CASE reg[mid].base <= offset
  <2>1. t = [l |-> mid + 1, r |-> s.r, i |-> mid]
    BY <1>3 DEF Halve
  <2>2. t.l = mid + 1 /\ t.r = s.r /\ t.i = mid
    BY <2>1
  <2> HIDE DEF mid, t
  <2>3. t \in SearchState(reg)
    BY <1>0, <1>1, <1>2, <2>1 DEF SearchState
  <2>4. (t.r + 1) - t.l < (s.r + 1) - s.l /\ (t.r + 1) - t.l \in Nat
    BY <1>0, <1>1, <1>2, <2>2
  <2>5. mid \in B(s) /\ B(t) \subseteq B(s) /\ \A k \in B(s) : k <= mid \/ k \in B(t)
    BY <1>0, <1>1, <1>2, <1>3, <2>2 DEF Candidates
  <2>6. CASE B(t) = {}
    <3>1. \A k \in B(s) : k <= mid
      BY <2>5, <2>6
    <3>2. LastBelow(reg, offset, s) = mid
      BY <2>5, <3>1, LastBelowIs
    <3> QED BY <2>2, <2>3, <2>4, <2>6, <3>2 DEF LastBelow, t
  <2>7. CASE B(t) # {}
    <3>1. B(t) \in SUBSET (1..n)
      BY <1>0, <1>1, <1>2, <2>2 DEF Candidates
    <3>2. PICK k \in B(t) : \A j \in B(t) : j <= k
      BY <1>0, <2>7, <3>1, IndexMax
    <3>3. mid < k /\ k \in Int
      BY <1>0, <1>1, <1>2, <2>2 DEF Candidates
    <3>4. \A j \in B(s) : j <= k
      <4> SUFFICES ASSUME NEW j \in B(s), j <= mid PROVE j <= k
        BY <2>5, <3>2
      <4>1. j \in Int /\ mid \in Int
        BY <1>0, <1>1, <1>2 DEF Candidates
      <4> QED BY <3>3, <4>1
    <3>5. LastBelow(reg, offset, s) = k /\ LastBelow(reg, offset, t) = k
      BY <2>3, <2>5, <3>2, <3>4, LastBelowIs
    <3> QED BY <2>3, <2>4, <3>5 DEF t
  <2> QED BY <2>6, <2>7
<1>4. CASE ~(reg[mid].base <= offset)
  <2>1. t = [l |-> s.l, r |-> mid - 1, i |-> s.i]
    BY <1>4 DEF Halve
  <2>2. t.l = s.l /\ t.r = mid - 1 /\ t.i = s.i
    BY <2>1
  <2> HIDE DEF mid, t
  <2>3. t \in SearchState(reg)
    BY <1>0, <1>1, <1>2, <2>1 DEF SearchState
  <2>4. (t.r + 1) - t.l < (s.r + 1) - s.l /\ (t.r + 1) - t.l \in Nat
    BY <1>0, <1>1, <1>2, <2>2
  <2>5. B(t) = B(s)
    <3>1. ASSUME NEW k \in s.l..s.r, mid <= k PROVE ~(reg[k].base <= offset)
      <4>1. k \in 1..n /\ (k = mid \/ mid < k)
        BY <1>0, <1>1, <1>2, <3>1
      <4>2. k = mid \/ reg[mid].base < reg[k].base
        BY <1>2, <4>1 DEF Sorted
      <4> QED BY <1>0, <1>2, <1>4, <4>1, <4>2
    <3> QED BY <1>0, <1>1, <1>2, <2>2, <3>1 DEF Candidates
  <2>6. LastBelow(reg, offset, t) = LastBelow(reg, offset, s)
    BY <2>2, <2>5 DEF LastBelow
  <2> QED BY <2>3, <2>4, <2>6 DEF t
<1> QED BY <1>3, <1>4

\* The loop of the search, as a condition on the function that computes it.
Loops(reg, offset, f) ==
  f = [s \in SearchState(reg) |-> IF s.l > s.r THEN s.i ELSE f[Halve(reg, offset, s)]]

\* On a sorted list there is a function with the loop's equation, so BinarySearch
\* is the value of one.
LEMMA SearchIsLoop ==
  ASSUME NEW reg \in Seq(SegmentMeta), Sorted(reg), NEW offset \in Nat
  PROVE  \E f : Loops(reg, offset, f) /\ BinarySearch(reg, offset) = f[[l |-> 1, r |-> Len(reg), i |-> 0]]
<1> DEFINE g == [s \in SearchState(reg) |-> LastBelow(reg, offset, s)]
<1>1. Loops(reg, offset, g)
  <2>1. ASSUME NEW s \in SearchState(reg)
        PROVE  g[s] = IF s.l > s.r THEN s.i ELSE g[Halve(reg, offset, s)]
    <3>1. CASE s.l > s.r
      <4>1. Candidates(reg, offset, s) = {}
        BY <3>1, LenProperties DEF Candidates, SearchState
      <4> QED BY <3>1, <4>1 DEF LastBelow
    <3>2. CASE ~(s.l > s.r)
      <4>1. /\ Halve(reg, offset, s) \in SearchState(reg)
            /\ LastBelow(reg, offset, Halve(reg, offset, s)) = LastBelow(reg, offset, s)
        BY <3>2, HalveKeeps
      <4> QED BY <3>2, <4>1
    <3> QED BY <3>1, <3>2
  <2> QED BY <2>1, Zenon DEF Loops
<1> HIDE DEF g
<1> DEFINE f == CHOOSE h : Loops(reg, offset, h)
<1>2. Loops(reg, offset, f)
  BY <1>1
<1>3. BinarySearch(reg, offset) = f[[l |-> 1, r |-> Len(reg), i |-> 0]]
  BY Zenon DEF BinarySearch, Loops
<1> QED BY <1>2, <1>3

\* Every function with the loop's equation computes LastBelow: were there a state
\* in which it does not, there would be one with a shortest range, and the loop
\* would go on from it to a shorter one.
LEMMA LoopFinds ==
  ASSUME NEW reg \in Seq(SegmentMeta), Sorted(reg), NEW offset \in Nat, NEW f, Loops(reg, offset, f),
         NEW s \in SearchState(reg)
  PROVE  f[s] = LastBelow(reg, offset, s)
<1> DEFINE Wrong == {u \in SearchState(reg) : f[u] # LastBelow(reg, offset, u)}
           Width(u) == (u.r + 1) - u.l
           Widths == {Width(u) : u \in Wrong}
<1>0. Len(reg) \in Nat
  BY LenProperties
<1>1. \A u \in SearchState(reg) : f[u] = IF u.l > u.r THEN u.i ELSE f[Halve(reg, offset, u)]
  BY DEF Loops
<1>2. ASSUME NEW u \in Wrong PROVE ~(u.l > u.r)
  <2> SUFFICES ASSUME u.l > u.r PROVE FALSE
    OBVIOUS
  <2>1. Candidates(reg, offset, u) = {}
    BY <1>0 DEF Candidates, SearchState
  <2> QED BY <1>1, <2>1 DEF LastBelow
<1>3. ASSUME Wrong # {} PROVE FALSE
  <2>1. \A u \in Wrong : Width(u) \in Nat
    BY <1>0, <1>2 DEF SearchState
  <2>2. Widths \in SUBSET Nat /\ Widths # {}
    BY <1>3, <2>1
  <2>3. PICK w \in Widths : \A v \in Widths : w <= v
    <3> HIDE DEF Widths
    <3> QED BY <2>2, NatMin
  <2>4. PICK u \in Wrong : w = Width(u)
    OBVIOUS
  <2> DEFINE t == Halve(reg, offset, u)
  <2>5. /\ t \in SearchState(reg) /\ LastBelow(reg, offset, t) = LastBelow(reg, offset, u)
        /\ Width(t) < Width(u) /\ Width(t) \in Nat
    BY <1>2, HalveKeeps
  <2>6. f[u] = f[t]
    BY <1>1, <1>2
  <2> HIDE DEF t
  <2>7. t \in Wrong
    BY <2>5, <2>6
  <2>8. Width(t) \in Widths
    BY <2>7
  <2> HIDE DEF Widths, Width
  <2> QED BY <2>1, <2>3, <2>4, <2>5, <2>8
<1> QED BY <1>3

\* The binary search of _find_segment_index finds, in every sorted list, the
\* segment its docstring promises.
LEMMA SearchFinds ==
  ASSUME NEW reg \in Seq(SegmentMeta), Sorted(reg), NEW offset \in Nat
  PROVE  BinarySearch(reg, offset) = FindSegmentIndex(reg, offset)
<1> DEFINE s == [l |-> 1, r |-> Len(reg), i |-> 0]
<1>1. PICK f : Loops(reg, offset, f) /\ BinarySearch(reg, offset) = f[s]
  BY SearchIsLoop
<1>2. s \in SearchState(reg)
  BY LenProperties DEF SearchState
<1>3. f[s] = LastBelow(reg, offset, s)
  BY <1>1, <1>2, LoopFinds
<1>4. LastBelow(reg, offset, s) = FindSegmentIndex(reg, offset)
  <2> DEFINE S == {i \in 1..Len(reg) : reg[i].base <= offset}
             B == Candidates(reg, offset, s)
  <2>1. FindSegmentIndex(reg, offset) = IF S = {} THEN 0 ELSE CHOOSE i \in S : \A j \in S : j <= i
    BY Zenon DEF FindSegmentIndex
  <2>2. LastBelow(reg, offset, s) = IF B = {} THEN s.i ELSE CHOOSE i \in B : \A j \in B : j <= i
    BY Zenon DEF LastBelow
  <2>3. s.i = 0 /\ B = S
    BY DEF Candidates
  <2> HIDE DEF s, S, B
  <2> QED BY <2>1, <2>2, <2>3
<1> QED BY <1>1, <1>3, <1>4

\* bisect_left: the first index whose base is not smaller, or one past the end.
LEMMA BisectLeftFinds ==
  ASSUME NEW reg \in Seq(SegmentMeta), NEW base \in Nat
  PROVE  LET k == BisectLeft(reg, base)
         IN  /\ k \in 1..(Len(reg) + 1)
             /\ k <= Len(reg) => reg[k].base >= base
             /\ \A j \in 1..Len(reg) : reg[j].base >= base => k <= j
<1> DEFINE atLeast == {i \in 1..Len(reg) : reg[i].base >= base}
<1>1. Len(reg) \in Nat /\ atLeast \in SUBSET Nat /\ atLeast \subseteq 1..Len(reg)
  OBVIOUS
<1>2. CASE atLeast = {}
  BY <1>1, <1>2 DEF BisectLeft
<1>3. CASE atLeast # {}
  <2>1. \E k \in atLeast : \A j \in atLeast : k <= j
    <3> HIDE DEF atLeast
    <3> QED
      BY <1>1, <1>3, NatMin
  <2>2. BisectLeft(reg, base) = CHOOSE k \in atLeast : \A j \in atLeast : k <= j
    BY <1>3 DEF BisectLeft
  <2>3. /\ BisectLeft(reg, base) \in atLeast
        /\ \A j \in atLeast : BisectLeft(reg, base) <= j
    BY <2>1, <2>2
  <2> QED
    BY <2>3, <1>1
<1> QED
  BY <1>2, <1>3

\* create_segment appends: the old entries stay where they are.
LEMMA CreateAppends ==
  ASSUME NEW reg \in Seq(SegmentMeta), NEW base \in Nat, reg # NoTopic
  PROVE  LET new == CreateSegment(reg, base)
         IN  /\ new \in Seq(SegmentMeta)
             /\ Len(new) = Len(reg) + 1
             /\ \A i \in 1..Len(reg) : new[i] = reg[i]
             /\ new[Len(reg) + 1] = NewSegment(base)
<1>1. NewSegment(base) \in SegmentMeta
  BY DEF NewSegment, SegmentMeta, States, ACTIVE
<1>2. CreateSegment(reg, base) = Append(reg, NewSegment(base))
  BY DEF CreateSegment
<1> QED
  BY <1>1, <1>2, AppendProperties

\* The first segment of a topic.
LEMMA CreateFirst ==
  ASSUME NEW base \in Nat
  PROVE  LET new == CreateSegment(NoTopic, base)
         IN  /\ new \in Seq(SegmentMeta) /\ Len(new) = 1 /\ new[1] = NewSegment(base)
<1>1. NewSegment(base) \in SegmentMeta
  BY DEF NewSegment, SegmentMeta, States, ACTIVE
<1>2. CreateSegment(NoTopic, base) = <<NewSegment(base)>>
  BY DEF CreateSegment
<1> QED
  BY <1>1, <1>2

\* advance_offset changes one entry, and of it only the size.
LEMMA AdvanceChangesSize ==
  ASSUME NEW reg \in Seq(SegmentMeta), NEW meta \in SegmentMeta, NEW length \in Nat, Len(reg) > 0
  PROVE  LET k == AdvanceIndex(reg, meta)
             new == AdvanceOffset(reg, meta, length)
         IN  /\ k \in 1..Len(reg)
             /\ new \in Seq(SegmentMeta) /\ Len(new) = Len(reg)
             /\ \A i \in 1..Len(reg) : i # k => new[i] = reg[i]
             /\ new[k] = [base |-> reg[k].base, size |-> reg[k].size + length, state |-> reg[k].state]
<1> DEFINE k == AdvanceIndex(reg, meta)
           entry == [base |-> reg[k].base, size |-> reg[k].size + length, state |-> reg[k].state]
<1>1. meta.base \in Nat /\ Len(reg) \in Nat
  BY DEF SegmentMeta
<1>2. k \in 1..Len(reg)
  <2>1. FindSegmentIndex(reg, meta.base) \in 0..Len(reg)
    BY <1>1, FindSegmentIndexFinds
  <2> QED
    BY <1>1, <2>1 DEF AdvanceIndex
<1>3. reg[k] \in SegmentMeta
  BY <1>2, ElementOfSeq
<1>4. entry \in SegmentMeta
  BY <1>3 DEF SegmentMeta
<1>5. AdvanceOffset(reg, meta, length) = [reg EXCEPT ![k] = entry]
  BY DEF AdvanceOffset
<1> HIDE DEF k, entry
<1>6. [reg EXCEPT ![k] = entry] \in Seq(SegmentMeta) /\ Len([reg EXCEPT ![k] = entry]) = Len(reg)
  BY <1>2, <1>4, ExceptSeq
<1>7. /\ [reg EXCEPT ![k] = entry][k] = entry
      /\ \A i \in 1..Len(reg) : i # k => [reg EXCEPT ![k] = entry][i] = reg[i]
  BY <1>2
<1> QED
  BY <1>2, <1>5, <1>6, <1>7 DEF k, entry

\* pop(idx): the entries before idx stay, the ones after it move down.
LEMMA PopRemoves ==
  ASSUME NEW reg \in Seq(SegmentMeta), NEW k \in 1..Len(reg)
  PROVE  LET new == PopSegment(reg, k)
         IN  /\ new \in Seq(SegmentMeta) /\ Len(new) = Len(reg) - 1
             /\ \A i \in 1..(Len(reg) - 1) : new[i] = IF i < k THEN reg[i] ELSE reg[i + 1]
<1> DEFINE n == Len(reg) - 1
           new == PopSegment(reg, k)
<1>1. n \in Nat /\ Len(reg) \in Nat
  OBVIOUS
<1>2. \A i \in 1..n : (IF i < k THEN reg[i] ELSE reg[i + 1]) \in SegmentMeta
  BY <1>1, ElementOfSeq
<1>3. new \in [1..n -> SegmentMeta]
  BY <1>2 DEF PopSegment
<1>4. \A i \in 1..n : new[i] = IF i < k THEN reg[i] ELSE reg[i + 1]
  BY DEF PopSegment
<1> HIDE DEF new
<1>5. new \in Seq(SegmentMeta)
  BY <1>1, <1>3, SeqDef
<1>6. Len(new) = n
  BY <1>1, <1>3, <1>5, LenProperties
<1> QED
  BY <1>4, <1>5, <1>6 DEF new

\* progress_state on a copy that equals its entry: the entry keeps its base and
\* size and takes the next state, or leaves the list.
LEMMA ProgressChangesState ==
  ASSUME NEW reg \in Seq(SegmentMeta), NEW meta \in SegmentMeta, NEW state \in States,
         CanProgress(reg, meta, state)
  PROVE  LET k == BisectLeft(reg, meta.base)
             new == ProgressState(reg, meta, state)
         IN  /\ k \in 1..Len(reg) /\ reg[k] = meta
             /\ new \in Seq(SegmentMeta)
             /\ state = DELETED => new = PopSegment(reg, k)
             /\ state # DELETED =>
                  /\ Len(new) = Len(reg)
                  /\ new[k] = [base |-> meta.base, size |-> meta.size, state |-> state]
                  /\ \A i \in 1..Len(reg) : i # k => new[i] = reg[i]
<1> DEFINE k == BisectLeft(reg, meta.base)
           entry == [base |-> meta.base, size |-> meta.size, state |-> state]
<1>1. meta.base \in Nat /\ Len(reg) \in Nat /\ entry \in SegmentMeta
  BY DEF SegmentMeta
<1>2. k \in 1..Len(reg) /\ reg[k] = meta
  BY <1>1, BisectLeftFinds DEF CanProgress
<1>3. CASE state = DELETED
  <2>1. ProgressState(reg, meta, state) = PopSegment(reg, k)
    BY <1>3 DEF ProgressState
  <2> HIDE DEF k
  <2>2. PopSegment(reg, k) \in Seq(SegmentMeta)
    BY <1>2, PopRemoves
  <2> QED
    BY <1>2, <1>3, <2>1, <2>2 DEF k
<1>4. CASE state # DELETED
  <2>1. ProgressState(reg, meta, state) = [reg EXCEPT ![k] = entry]
    BY <1>4 DEF ProgressState
  <2> HIDE DEF k, entry
  <2>2. [reg EXCEPT ![k] = entry] \in Seq(SegmentMeta) /\ Len([reg EXCEPT ![k] = entry]) = Len(reg)
    BY <1>1, <1>2, ExceptSeq
  <2>3. /\ [reg EXCEPT ![k] = entry][k] = entry
        /\ \A i \in 1..Len(reg) : i # k => [reg EXCEPT ![k] = entry][i] = reg[i]
    BY <1>2
  <2> QED
    BY <1>2, <1>4, <2>1, <2>2, <2>3 DEF k, entry
<1> QED
  BY <1>3, <1>4

-----------------------------------------------------------------------------
RegistryInv == ClientsTypeOK /\ BasesIncreasing

\* A registry that is a sorted list satisfies the registry's part of RegistryInv.
LEMMA SortedListIsGood ==
  ASSUME registry' \in Seq(SegmentMeta), Sorted(registry'),
         held' \in [Clients -> SegmentMeta \cup {NoCopy}]
  PROVE  RegistryInv'
BY DEF RegistryInv, ClientsTypeOK, BasesIncreasing, Sorted

\* A copy a client holds is a SegmentMeta, so the new copy keeps held well typed.
LEMMA HeldTyped ==
  ASSUME ClientsTypeOK, NEW c \in Clients, NEW meta \in SegmentMeta
  PROVE  [held EXCEPT ![c] = meta] \in [Clients -> SegmentMeta \cup {NoCopy}]
BY DEF ClientsTypeOK

\* create_segment: the last segment ends at or before the new base and does not
\* start there, so the new base is past every other.
LEMMA CreateStep ==
  ASSUME RegistryInv, NEW c \in Clients, NEW base \in Offsets, Create(c, base)
  PROVE  RegistryInv' /\ (registry # NoTopic => \A i \in 1..Len(registry) : EntryEvolves(registry[i]))
<1>1. base \in Nat
  BY ClientsAssumption DEF Offsets
<1>2. NewSegment(base) \in SegmentMeta
  BY <1>1 DEF NewSegment, SegmentMeta, States, ACTIVE
<1>3. held' \in [Clients -> SegmentMeta \cup {NoCopy}]
  BY <1>2, HeldTyped DEF Create, RegistryInv
<1>4. CASE registry = NoTopic
  <2>1. registry' \in Seq(SegmentMeta) /\ Len(registry') = 1
    BY <1>1, <1>4, CreateFirst DEF Create
  <2>2. Sorted(registry')
    BY <2>1 DEF Sorted
  <2> QED
    BY <1>3, <1>4, <2>1, <2>2, SortedListIsGood
<1>5. CASE registry # NoTopic
  <2> DEFINE n == Len(registry)
  <2>1. registry \in Seq(SegmentMeta) /\ n \in Nat /\ Sorted(registry)
    BY <1>5 DEF RegistryInv, ClientsTypeOK, BasesIncreasing, Sorted
  <2>2. /\ registry' \in Seq(SegmentMeta) /\ Len(registry') = n + 1
        /\ \A i \in 1..n : registry'[i] = registry[i]
        /\ registry'[n + 1] = NewSegment(base)
    BY <1>1, <1>5, <2>1, CreateAppends DEF Create
  <2>3. n > 0 /\ EndOffset(registry[n]) <= base /\ registry[n].base # base
    BY <1>5 DEF Create, CanCreate, LastSegment
  <2>4. \A i \in 1..n : registry[i] \in SegmentMeta
    BY <2>1, ElementOfSeq
  <2>5. registry[n].base < base
    <3>1. registry[n] \in SegmentMeta
      BY <2>1, <2>3, <2>4
    <3> QED
      BY <1>1, <2>3, <3>1 DEF EndOffset, SegmentMeta
  <2>6. \A i \in 1..n : registry[i].base < base
    <3> SUFFICES ASSUME NEW i \in 1..n PROVE registry[i].base < base
      OBVIOUS
    <3>1. i = n \/ registry[i].base < registry[n].base
      BY <2>1, <2>3 DEF Sorted
    <3>2. registry[i].base \in Nat /\ registry[n].base \in Nat
      BY <2>1, <2>3, <2>4 DEF SegmentMeta
    <3> QED
      BY <1>1, <2>5, <3>1, <3>2
  <2>7. Sorted(registry')
    <3> SUFFICES ASSUME NEW i \in 1..(n + 1), NEW j \in 1..(n + 1), i < j
                 PROVE  registry'[i].base < registry'[j].base
      BY <2>2 DEF Sorted
    <3>1. i \in 1..n /\ (j \in 1..n \/ j = n + 1)
      BY <2>1
    <3>2. NewSegment(base).base = base
      BY DEF NewSegment
    <3> QED
      BY <2>1, <2>2, <2>6, <3>1, <3>2 DEF Sorted
  <2>8. ASSUME NEW i \in 1..n PROVE EntryEvolves(registry[i])
    <3>1. i \in 1..Len(registry') /\ registry'[i] = registry[i]
      BY <2>1, <2>2
    <3>2. registry[i].size \in Nat
      BY <2>4 DEF SegmentMeta
    <3> QED
      BY <3>1, <3>2 DEF EntryEvolves
  <2> QED
    BY <1>3, <2>2, <2>7, <2>8, SortedListIsGood
<1> QED
  BY <1>4, <1>5

\* advance_offset: one size grows, the bases stay.
LEMMA AdvanceStep ==
  ASSUME RegistryInv, NEW c \in Clients, NEW length \in Lengths, AdvanceBy(c, length)
  PROVE  RegistryInv' /\ (registry # NoTopic => \A i \in 1..Len(registry) : EntryEvolves(registry[i]))
<1> DEFINE n == Len(registry)
           k == AdvanceIndex(registry, held[c])
<1>1. registry # NoTopic /\ n > 0 /\ length \in Nat
  BY ClientsAssumption DEF AdvanceBy, CanAdvance
<1>2. registry \in Seq(SegmentMeta) /\ n \in Nat /\ Sorted(registry) /\ held[c] \in SegmentMeta
  BY <1>1 DEF RegistryInv, ClientsTypeOK, BasesIncreasing, Sorted, AdvanceBy
<1>3. registry' = AdvanceOffset(registry, held[c], length)
  BY DEF AdvanceBy
<1>4. /\ k \in 1..n /\ registry' \in Seq(SegmentMeta) /\ Len(registry') = n
      /\ \A i \in 1..n : i # k => registry'[i] = registry[i]
      /\ registry'[k] = [base |-> registry[k].base, size |-> registry[k].size + length,
                         state |-> registry[k].state]
  BY <1>1, <1>2, <1>3, AdvanceChangesSize
<1> HIDE DEF k
<1>5. \A i \in 1..n : registry[i] \in SegmentMeta
  BY <1>2, ElementOfSeq
<1>6. ASSUME NEW i \in 1..n
      PROVE  /\ registry'[i].base = registry[i].base
             /\ registry'[i].size >= registry[i].size
             /\ registry'[i].state = registry[i].state
  <2>1. registry[i].size \in Nat /\ registry[i].base \in Nat
    BY <1>5 DEF SegmentMeta
  <2>2. CASE i = k
    BY <1>1, <1>4, <2>1, <2>2
  <2>3. CASE i # k
    BY <1>4, <2>1, <2>3
  <2> QED
    BY <2>2, <2>3
<1>7. Sorted(registry')
  BY <1>2, <1>4, <1>6 DEF Sorted
<1>8. \A i \in 1..n : EntryEvolves(registry[i])
  BY <1>4, <1>6 DEF EntryEvolves
<1>9. held' \in [Clients -> SegmentMeta \cup {NoCopy}]
  <2>1. registry'[k] \in SegmentMeta
    BY <1>4, ElementOfSeq
  <2> QED
    BY <2>1, HeldTyped DEF AdvanceBy, RegistryInv, k
<1> QED
  BY <1>4, <1>7, <1>8, <1>9, SortedListIsGood

\* progress_state: the entry keeps its base and size, because the copy it is
\* rebuilt from was found equal to it, or it leaves and the others close ranks.
LEMMA ProgressStep ==
  ASSUME RegistryInv, NEW c \in Clients, NEW state \in States, Progress(c, state)
  PROVE  RegistryInv' /\ (registry # NoTopic => \A i \in 1..Len(registry) : EntryEvolves(registry[i]))
<1> DEFINE n == Len(registry)
           meta == held[c]
           k == BisectLeft(registry, meta.base)
<1>1. registry # NoTopic /\ CanProgress(registry, meta, state) /\ meta # NoCopy
  BY DEF Progress, CanProgress
<1>2. registry \in Seq(SegmentMeta) /\ n \in Nat /\ Sorted(registry) /\ meta \in SegmentMeta
  BY <1>1 DEF RegistryInv, ClientsTypeOK, BasesIncreasing, Sorted
<1>3. registry' = ProgressState(registry, meta, state)
  BY DEF Progress
<1>4. /\ k \in 1..n /\ registry[k] = meta
      /\ registry' \in Seq(SegmentMeta)
      /\ state = DELETED => registry' = PopSegment(registry, k)
      /\ state # DELETED =>
           /\ Len(registry') = n
           /\ registry'[k] = [base |-> meta.base, size |-> meta.size, state |-> state]
           /\ \A i \in 1..n : i # k => registry'[i] = registry[i]
  <2> DEFINE new == ProgressState(registry, meta, state)
  <2> HIDE DEF meta
  <2>1. /\ k \in 1..n /\ registry[k] = meta
        /\ new \in Seq(SegmentMeta)
        /\ state = DELETED => new = PopSegment(registry, k)
    BY <1>1, <1>2, ProgressChangesState
  <2>2. ASSUME state # DELETED
        PROVE  /\ Len(new) = n
               /\ new[k] = [base |-> meta.base, size |-> meta.size, state |-> state]
               /\ \A i \in 1..n : i # k => new[i] = registry[i]
    BY <1>1, <1>2, <2>2, ProgressChangesState
  <2>3. registry' = new
    BY <1>3
  <2> HIDE DEF new, k
  <2> QED
    BY <2>1, <2>2, <2>3, Zenon
<1>5. state \in AllowedTransitions(meta.state)
  BY <1>1 DEF CanProgress
<1> HIDE DEF k
<1>6. \A i \in 1..n : registry[i] \in SegmentMeta
  BY <1>2, ElementOfSeq
<1>7. held' \in [Clients -> SegmentMeta \cup {NoCopy}]
  <2>1. [meta EXCEPT !.state = state] \in SegmentMeta
    BY <1>2 DEF SegmentMeta
  <2>2. held' = held \/ held' = [held EXCEPT ![c] = [meta EXCEPT !.state = state]]
    BY DEF Progress
  <2> QED
    BY <2>1, <2>2, HeldTyped DEF RegistryInv, ClientsTypeOK
<1>8. CASE state # DELETED
  <2>1. ASSUME NEW i \in 1..n
        PROVE  /\ registry'[i].base = registry[i].base
               /\ registry'[i].size >= registry[i].size
               /\ \/ registry'[i].state = registry[i].state
                  \/ registry'[i].state \in AllowedTransitions(registry[i].state)
    <3>1. registry[i].size \in Nat
      BY <1>6 DEF SegmentMeta
    <3>2. CASE i = k
      BY <1>4, <1>5, <1>8, <3>1, <3>2
    <3>3. CASE i # k
      BY <1>4, <1>8, <3>1, <3>3
    <3> QED
      BY <3>2, <3>3
  <2>2. Sorted(registry')
    BY <1>2, <1>4, <1>8, <2>1 DEF Sorted
  <2>3. \A i \in 1..n : EntryEvolves(registry[i])
    BY <1>4, <1>8, <2>1 DEF EntryEvolves
  <2> QED
    BY <1>4, <1>7, <2>2, <2>3, SortedListIsGood
<1>9. CASE state = DELETED
  <2>1. /\ Len(registry') = n - 1
        /\ \A i \in 1..(n - 1) : registry'[i] = IF i < k THEN registry[i] ELSE registry[i + 1]
    BY <1>2, <1>4, <1>9, PopRemoves
  <2>2. meta.state = EXPIRED
    BY <1>5, <1>9 DEF AllowedTransitions, ACTIVE, SEALED, EXPIRED, DELETED
  <2>3. Sorted(registry')
    <3> SUFFICES ASSUME NEW i \in 1..(n - 1), NEW j \in 1..(n - 1), i < j
                 PROVE  registry'[i].base < registry'[j].base
      BY <2>1 DEF Sorted
    <3> DEFINE Old(m) == IF m < k THEN m ELSE m + 1
    <3>1. \A m \in 1..(n - 1) : Old(m) \in 1..n /\ registry'[m] = registry[Old(m)]
      BY <1>2, <1>4, <2>1
    <3>2. Old(i) < Old(j)
      BY <1>2, <1>4
    <3> HIDE DEF Old
    <3> QED
      BY <1>2, <3>1, <3>2 DEF Sorted
  <2>4. ASSUME NEW i \in 1..n PROVE EntryEvolves(registry[i])
    <3>1. registry[i].size \in Nat
      BY <1>6 DEF SegmentMeta
    <3>2. CASE i < k
      <4>1. i \in 1..Len(registry') /\ registry'[i] = registry[i]
        BY <1>2, <1>4, <2>1, <3>2
      <4> QED
        BY <3>1, <4>1 DEF EntryEvolves
    <3>3. CASE i > k
      <4>1. i - 1 \in 1..Len(registry') /\ registry'[i - 1] = registry[i]
        BY <1>2, <1>4, <2>1, <3>3
      <4> QED
        BY <3>1, <4>1 DEF EntryEvolves
    <3>4. CASE i = k
      <4>1. registry[i].state = EXPIRED
        BY <1>4, <2>2, <3>4
      <4>2. ASSUME NEW j \in 1..Len(registry') PROVE registry'[j].base # registry[i].base
        <5>1. PICK q \in 1..n : registry'[j] = registry[q] /\ q # k
          <6>1. j \in 1..(n - 1) /\ j \in 1..n /\ j + 1 \in 1..n
            BY <1>2, <1>4, <2>1
          <6>2. j < k => registry'[j] = registry[j] /\ j # k
            BY <2>1, <6>1
          <6>3. ~(j < k) => registry'[j] = registry[j + 1] /\ j + 1 # k
            BY <1>4, <2>1, <6>1
          <6> QED
            BY <6>1, <6>2, <6>3
        <5>2. registry[q].base \in Nat /\ registry[k].base \in Nat
          BY <1>4, <1>6 DEF SegmentMeta
        <5>3. registry[q].base < registry[k].base \/ registry[k].base < registry[q].base
          BY <1>2, <1>4, <5>1 DEF Sorted
        <5> QED
          BY <3>4, <5>1, <5>2, <5>3
      <4> QED
        BY <4>1, <4>2 DEF EntryEvolves
    <3> QED
      BY <1>4, <3>2, <3>3, <3>4
  <2> QED
    BY <1>4, <1>7, <2>3, <2>4, SortedListIsGood
<1> QED
  BY <1>8, <1>9

\* The methods that only look: the list is unchanged and the copy is one of its
\* entries.
LEMMA LookStep ==
  ASSUME RegistryInv, NEW c \in Clients,
         \/ GetLast(c)
         \/ \E offset \in Offsets : Get(c, offset) \/ GetByBase(c, offset)
         \/ \E state \in States : List(c, state)
  PROVE  RegistryInv' /\ registry' = registry
<1>1. registry' = registry /\ registry # NoTopic
  BY DEF GetLast, Get, GetByBase, List, CanGetLast, CanGetSegment, CanGetByBase
<1>2. registry \in Seq(SegmentMeta) /\ Len(registry) \in Nat
  BY <1>1 DEF RegistryInv, ClientsTypeOK
<1>3. \A i \in 1..Len(registry) : registry[i] \in SegmentMeta
  BY <1>2, ElementOfSeq
<1>4. PICK i \in 1..Len(registry) : held' = [held EXCEPT ![c] = registry[i]]
  <2>1. CASE GetLast(c)
    <3>1. Len(registry) \in 1..Len(registry)
      BY <1>2, <2>1 DEF GetLast, CanGetLast
    <3> QED
      BY <2>1, <3>1 DEF GetLast, LastSegment
  <2>2. ASSUME NEW offset \in Offsets, Get(c, offset) \/ GetByBase(c, offset)
        PROVE  \E i \in 1..Len(registry) : held' = [held EXCEPT ![c] = registry[i]]
    <3>1. offset \in Nat
      BY ClientsAssumption DEF Offsets
    <3>2. FindSegmentIndex(registry, offset) \in 0..Len(registry)
      BY <1>2, <3>1, FindSegmentIndexFinds
    <3>3. FindSegmentIndex(registry, offset) \in 1..Len(registry)
      BY <1>2, <2>2, <3>2 DEF Get, GetByBase, CanGetSegment, CanGetByBase
    <3> QED
      BY <2>2, <3>3 DEF Get, GetByBase, GetSegment
  <2>3. ASSUME NEW state \in States, List(c, state)
        PROVE  \E i \in 1..Len(registry) : held' = [held EXCEPT ![c] = registry[i]]
    BY <2>3 DEF List, ListSegments
  <2> QED
    BY <2>1, <2>2, <2>3
<1>5. held' \in [Clients -> SegmentMeta \cup {NoCopy}]
  BY <1>3, <1>4, HeldTyped DEF RegistryInv
<1> QED
  BY <1>1, <1>5 DEF RegistryInv, ClientsTypeOK, BasesIncreasing

\* Nothing is lost when the list does not change.
LEMMA UnchangedEvolves ==
  ASSUME RegistryInv, registry' = registry
  PROVE  registry # NoTopic => \A i \in 1..Len(registry) : EntryEvolves(registry[i])
<1> SUFFICES ASSUME registry # NoTopic, NEW i \in 1..Len(registry) PROVE EntryEvolves(registry[i])
  OBVIOUS
<1>1. registry[i] \in SegmentMeta
  BY ElementOfSeq DEF RegistryInv, ClientsTypeOK
<1> QED
  BY <1>1 DEF EntryEvolves, SegmentMeta

\* Every step keeps the invariant and loses no update.
LEMMA ClientsNextStep ==
  ASSUME RegistryInv, [ClientsNext]_clientVars
  PROVE  RegistryInv' /\ (registry # NoTopic => \A i \in 1..Len(registry) : EntryEvolves(registry[i]))
<1>1. CASE UNCHANGED clientVars
  BY <1>1, UnchangedEvolves DEF RegistryInv, ClientsTypeOK, BasesIncreasing, clientVars
<1>2. ASSUME NEW c \in Clients, NEW base \in Offsets, Create(c, base)
      PROVE  RegistryInv' /\ (registry # NoTopic => \A i \in 1..Len(registry) : EntryEvolves(registry[i]))
  BY <1>2, CreateStep
<1>3. ASSUME NEW c \in Clients, NEW length \in Lengths, AdvanceBy(c, length)
      PROVE  RegistryInv' /\ (registry # NoTopic => \A i \in 1..Len(registry) : EntryEvolves(registry[i]))
  BY <1>3, AdvanceStep
<1>4. ASSUME NEW c \in Clients, NEW state \in States, Progress(c, state)
      PROVE  RegistryInv' /\ (registry # NoTopic => \A i \in 1..Len(registry) : EntryEvolves(registry[i]))
  BY <1>4, ProgressStep
<1>5. ASSUME NEW c \in Clients,
             \/ GetLast(c)
             \/ \E offset \in Offsets : Get(c, offset) \/ GetByBase(c, offset)
             \/ \E state \in States : List(c, state)
      PROVE  RegistryInv' /\ (registry # NoTopic => \A i \in 1..Len(registry) : EntryEvolves(registry[i]))
  BY <1>5, LookStep, UnchangedEvolves
<1> QED
  BY <1>1, <1>2, <1>3, <1>4, <1>5 DEF ClientsNext

\* In every reachable registry, whatever the clients do, variables keep their
\* types and the bases increase: both searches may rely on it.
THEOREM RegistrySorted == ClientsSpec => [](ClientsTypeOK /\ BasesIncreasing)
<1>1. ClientsInit => RegistryInv
  BY DEF ClientsInit, RegistryInv, ClientsTypeOK, BasesIncreasing
<1>2. RegistryInv /\ [ClientsNext]_clientVars => RegistryInv'
  BY ClientsNextStep
<1> QED
  BY <1>1, <1>2, PTL DEF ClientsSpec, RegistryInv

\* No call with a stale SegmentMeta undoes an advance_offset, skips a state or
\* removes a segment that is not EXPIRED.
THEOREM UpdatesSurvive == ClientsSpec => NoLostUpdate
<1>1. ASSUME RegistryInv, [ClientsNext]_clientVars
      PROVE  [registry # NoTopic => \A i \in 1..Len(registry) : EntryEvolves(registry[i])]_clientVars
  BY <1>1, ClientsNextStep
<1>2. ClientsSpec => []RegistryInv
  BY RegistrySorted, PTL DEF RegistryInv
<1> QED
  BY <1>1, <1>2, PTL DEF ClientsSpec, NoLostUpdate

\* The binary search, as coded, finds the last segment that starts at or before the
\* offset in every registry that clients can build.
THEOREM SearchCorrect == ClientsSpec => []SearchAgrees
<1>1. RegistryInv => SearchAgrees
  <2> SUFFICES ASSUME RegistryInv, registry # NoTopic, NEW offset \in Offsets
               PROVE  BinarySearch(registry, offset) = FindSegmentIndex(registry, offset)
    BY DEF SearchAgrees
  <2>1. registry \in Seq(SegmentMeta) /\ Sorted(registry)
    BY DEF RegistryInv, ClientsTypeOK, BasesIncreasing, Sorted
  <2>2. offset \in Nat
    BY ClientsAssumption DEF Offsets
  <2> QED
    BY <2>1, <2>2, SearchFinds
<1>2. ClientsSpec => []RegistryInv
  BY RegistrySorted, PTL DEF RegistryInv
<1> QED
  BY <1>1, <1>2, PTL

-----------------------------------------------------------------------------
(***************************************************************************)
(* The log of a topic under LogManager, for any number of writers and      *)
(* readers, any payloads, bounds, file errors and restarts: the registry   *)
(* is one gap-free chain of segments, _rollover never fails half way, the  *)
(* files hold whole messages end to end below the sizes the registry gives *)
(* them, what append returned stays readable, reads return exactly the     *)
(* messages they say, and all of it implements AbstractLog.                *)
(*                                                                         *)
(* SegmentChain is not inductive.  What makes it so: the writer lock       *)
(* (Exclusive), that the copy a writer works on is still the registry's    *)
(* last segment (MetaCurrent), which create_topic cannot spoil because a   *)
(* second create_segment at 0 always raises, and that a batch in work is   *)
(* not empty (Busy).  Sortedness is carried along because it follows from  *)
(* the chain only by an induction over the list.                           *)
(*                                                                         *)
(* For the files, DiskInv adds that no two frames overlap, that the frames *)
(* of each segment fill it up to its size, and that the frame a writer is  *)
(* about to commit lies at the end of the last one.                        *)
(*                                                                         *)
(* For the reads, ReadInv says what a reader knows from the segment it was *)
(* given, which no writer changes any more, and the loop of                *)
(* _calc_read_size is shown to take a prefix of that segment's messages.   *)
(***************************************************************************)

\* The list part of SegmentChain.
Chained(reg) ==
  /\ Len(reg) > 0
  /\ reg[1].base = 0
  /\ \A i \in 1..(Len(reg) - 1) :
       /\ reg[i + 1].base = EndOffset(reg[i])
       /\ reg[i].size > 0
       /\ reg[i].state = SEALED
  /\ Sorted(reg)

RegistryChained == registry # NoTopic => Chained(registry)

LastActive ==
  registry # NoTopic => LastSegment(registry).state = ACTIVE \/ \E w \in Writers : wpc[w] = "create"

\* The steps of LogWriter.write under the writer lock.
Critical == {"get", "init", "rollget", "seal", "create", "write", "advance"}

Exclusive == \A w \in Writers : wpc[w] \in Critical => lock = w

Busy == \A w \in Writers : wpc[w] # "idle" => wbatch[w] # <<>>

MetaCurrentFor(w) ==
  /\ wpc[w] \in {"rollget", "seal", "create", "write", "advance"} => registry # NoTopic
  /\ wpc[w] \in {"seal", "write", "advance"} => wmeta[w] = LastSegment(registry)
  /\ wpc[w] \in {"rollget", "seal"} => LastSegment(registry).size > 0
  /\ wpc[w] = "create" =>
       /\ wmeta[w].size > 0
       /\ LastSegment(registry) = [base |-> wmeta[w].base, size |-> wmeta[w].size, state |-> SEALED]

MetaCurrent == \A w \in Writers : MetaCurrentFor(w)

IInv ==
  /\ TypeOK
  /\ RegistryChained
  /\ LastActive
  /\ Exclusive
  /\ Busy
  /\ MetaCurrent

-----------------------------------------------------------------------------
\* The last segment of a list is a SegmentMeta.
LEMMA LastIsMeta ==
  ASSUME NEW reg \in Seq(SegmentMeta), Len(reg) > 0
  PROVE  Len(reg) \in 1..Len(reg) /\ LastSegment(reg) \in SegmentMeta
<1>1. Len(reg) \in Nat /\ Len(reg) \in 1..Len(reg)
  OBVIOUS
<1> QED
  BY <1>1, ElementOfSeq DEF LastSegment

\* The first segment of a topic is a chain.
LEMMA FirstIsChain ==
  LET new == CreateSegment(NoTopic, 0)
  IN  /\ new \in Seq(SegmentMeta) /\ new # NoTopic /\ Chained(new)
      /\ LastSegment(new) = NewSegment(0)
<1> DEFINE new == CreateSegment(NoTopic, 0)
<1>1. new \in Seq(SegmentMeta) /\ Len(new) = 1 /\ new[1] = NewSegment(0)
  BY CreateFirst
<1>2. new # NoTopic
  BY <1>1, NoTopicAssumption
<1> HIDE DEF new
<1>3. Sorted(new)
  BY <1>1 DEF Sorted
<1>4. NewSegment(0).base = 0
  BY DEF NewSegment
<1> QED
  BY <1>1, <1>2, <1>3, <1>4 DEF Chained, LastSegment, new

\* create_topic and write's except branch cannot add a second segment at 0.
LEMMA NoSecondAtZero ==
  ASSUME NEW reg \in Seq(SegmentMeta), Chained(reg)
  PROVE  ~CanCreate(reg, 0)
<1>1. reg # NoTopic
  BY NoTopicAssumption
<1>2. LastSegment(reg).base \in Nat /\ LastSegment(reg).size \in Nat
  BY LastIsMeta DEF Chained, SegmentMeta
<1> QED
  BY <1>1, <1>2 DEF CanCreate, EndOffset

\* create_segment at the end of a sealed, non-empty last segment succeeds and
\* extends the chain.
LEMMA CreateExtendsChain ==
  ASSUME NEW reg \in Seq(SegmentMeta), Chained(reg),
         LastSegment(reg).size > 0, LastSegment(reg).state = SEALED
  PROVE  LET base == EndOffset(LastSegment(reg))
             new == CreateSegment(reg, base)
         IN  /\ base \in Nat /\ CanCreate(reg, base)
             /\ new \in Seq(SegmentMeta) /\ new # NoTopic /\ Chained(new)
             /\ LastSegment(new) = NewSegment(base)
             /\ Len(new) = Len(reg) + 1 /\ \A i \in 1..Len(reg) : new[i] = reg[i]
<1> DEFINE n == Len(reg)
           base == EndOffset(reg[n])
           new == CreateSegment(reg, base)
<1>1. n \in Nat /\ n \in 1..n /\ n > 0 /\ reg # NoTopic
  BY NoTopicAssumption DEF Chained
<1>2. \A i \in 1..n : reg[i].base \in Nat /\ reg[i].size \in Nat
  <2>1. \A i \in 1..n : reg[i] \in SegmentMeta
    BY ElementOfSeq
  <2> QED
    BY <2>1 DEF SegmentMeta
<1>3. base \in Nat /\ reg[n].base < base
  BY <1>1, <1>2 DEF EndOffset, LastSegment
<1>4. CanCreate(reg, base)
  BY <1>1, <1>2, <1>3 DEF CanCreate, LastSegment
<1>5. /\ new \in Seq(SegmentMeta) /\ Len(new) = n + 1
      /\ \A i \in 1..n : new[i] = reg[i]
      /\ new[n + 1] = NewSegment(base)
  BY <1>1, <1>3, CreateAppends
<1>6. NewSegment(base).base = base
  BY DEF NewSegment
<1>7. \A i \in 1..n : reg[i].base < base
  <2> SUFFICES ASSUME NEW i \in 1..n PROVE reg[i].base < base
    OBVIOUS
  <2>1. i = n \/ reg[i].base < reg[n].base
    BY <1>1 DEF Chained, Sorted
  <2> HIDE DEF base
  <2> QED
    BY <1>1, <1>2, <1>3, <2>1
<1> HIDE DEF new
<1>8. Sorted(new)
  <2> SUFFICES ASSUME NEW i \in 1..(n + 1), NEW j \in 1..(n + 1), i < j
               PROVE  new[i].base < new[j].base
    BY <1>5 DEF Sorted
  <2>1. i \in 1..n /\ (j \in 1..n \/ j = n + 1)
    BY <1>1
  <2> QED
    BY <1>5, <1>6, <1>7, <2>1 DEF Chained, Sorted
<1>9. ASSUME NEW i \in 1..n
      PROVE  new[i + 1].base = EndOffset(new[i]) /\ new[i].size > 0 /\ new[i].state = SEALED
  <2>1. CASE i = n
    BY <1>1, <1>5, <1>6, <2>1 DEF LastSegment
  <2>2. CASE i # n
    <3>1. i \in 1..(n - 1) /\ i + 1 \in 1..n
      BY <1>1, <2>2
    <3> QED
      BY <1>5, <3>1 DEF Chained
  <2> QED
    BY <2>1, <2>2
<1>10. Chained(new) /\ new # NoTopic
  BY <1>1, <1>5, <1>8, <1>9, NoTopicAssumption DEF Chained
<1>11. LastSegment(new) = NewSegment(base)
  BY <1>1, <1>5 DEF LastSegment
<1> QED
  BY <1>3, <1>4, <1>5, <1>10, <1>11 DEF LastSegment, new

\* Changing the size or the state of the last segment leaves a chain.
LEMMA LastMayChange ==
  ASSUME NEW reg \in Seq(SegmentMeta), Chained(reg),
         NEW new \in Seq(SegmentMeta), Len(new) = Len(reg),
         \A i \in 1..Len(reg) : i # Len(reg) => new[i] = reg[i],
         LastSegment(new).base = LastSegment(reg).base
  PROVE  Chained(new) /\ new # NoTopic
<1> DEFINE n == Len(reg)
<1>1. n \in Nat /\ n \in 1..n
  BY DEF Chained
<1>2. \A i \in 1..n : new[i].base = reg[i].base
  BY DEF LastSegment
<1>3. Sorted(new)
  BY <1>2 DEF Sorted, Chained
<1>4. ASSUME NEW i \in 1..(n - 1)
      PROVE  new[i + 1].base = EndOffset(new[i]) /\ new[i].size > 0 /\ new[i].state = SEALED
  <2>1. i \in 1..n /\ i # n /\ i + 1 \in 1..n
    BY <1>1
  <2>2. new[i] = reg[i] /\ new[i + 1].base = reg[i + 1].base
    BY <1>2, <2>1
  <2> QED
    BY <2>2 DEF Chained
<1>5. new[1].base = 0
  BY <1>1, <1>2 DEF Chained
<1> QED
  BY <1>3, <1>4, <1>5, NoTopicAssumption DEF Chained

\* advance_offset with a copy of the last segment advances the last segment.
LEMMA AdvanceKeepsChain ==
  ASSUME NEW reg \in Seq(SegmentMeta), Chained(reg), NEW length \in Nat
  PROVE  LET last == LastSegment(reg)
             new == AdvanceOffset(reg, last, length)
         IN  /\ new \in Seq(SegmentMeta) /\ new # NoTopic /\ Chained(new)
             /\ LastSegment(new) = [base |-> last.base, size |-> last.size + length, state |-> last.state]
             /\ Len(new) = Len(reg) /\ \A i \in 1..Len(reg) : i # Len(reg) => new[i] = reg[i]
<1> DEFINE n == Len(reg)
           last == LastSegment(reg)
           new == AdvanceOffset(reg, last, length)
           k == AdvanceIndex(reg, last)
<1>1. n \in Nat /\ n \in 1..n /\ n > 0 /\ last \in SegmentMeta
  BY LastIsMeta DEF Chained
<1>2. last.base \in Nat
  BY <1>1 DEF SegmentMeta
<1>3. k = n
  <2>1. /\ FindSegmentIndex(reg, last.base) \in 0..n
        /\ \A j \in 1..n : reg[j].base <= last.base => j <= FindSegmentIndex(reg, last.base)
    BY <1>2, FindSegmentIndexFinds
  <2>2. reg[n].base <= last.base
    BY <1>2 DEF LastSegment
  <2>3. n <= FindSegmentIndex(reg, last.base)
    BY <1>1, <2>1, <2>2
  <2>4. FindSegmentIndex(reg, last.base) = n
    BY <1>1, <2>1, <2>3
  <2> QED
    BY <1>1, <2>4 DEF AdvanceIndex
<1>4. /\ new \in Seq(SegmentMeta) /\ Len(new) = n
      /\ \A i \in 1..n : i # k => new[i] = reg[i]
      /\ new[k] = [base |-> reg[k].base, size |-> reg[k].size + length, state |-> reg[k].state]
  BY <1>1, AdvanceChangesSize
<1> HIDE DEF new, k
<1>5. LastSegment(new) = [base |-> last.base, size |-> last.size + length, state |-> last.state]
  BY <1>3, <1>4 DEF LastSegment
<1>6. Chained(new) /\ new # NoTopic
  BY <1>3, <1>4, <1>5, LastMayChange
<1> QED
  BY <1>3, <1>4, <1>5, <1>6 DEF new

\* progress_state(SEALED) with a copy of the last, ACTIVE segment succeeds.
LEMMA SealKeepsChain ==
  ASSUME NEW reg \in Seq(SegmentMeta), Chained(reg), LastSegment(reg).state = ACTIVE
  PROVE  LET last == LastSegment(reg)
             new == ProgressState(reg, last, SEALED)
         IN  /\ CanProgress(reg, last, SEALED)
             /\ new \in Seq(SegmentMeta) /\ new # NoTopic /\ Chained(new)
             /\ LastSegment(new) = [base |-> last.base, size |-> last.size, state |-> SEALED]
             /\ Len(new) = Len(reg) /\ \A i \in 1..Len(reg) : i # Len(reg) => new[i] = reg[i]
<1> DEFINE n == Len(reg)
           last == LastSegment(reg)
           new == ProgressState(reg, last, SEALED)
           k == BisectLeft(reg, last.base)
<1>1. n \in Nat /\ n \in 1..n /\ n > 0 /\ last \in SegmentMeta /\ reg # NoTopic
  BY LastIsMeta, NoTopicAssumption DEF Chained
<1>2. last.base \in Nat /\ \A i \in 1..n : reg[i].base \in Nat
  <2>1. \A i \in 1..n : reg[i] \in SegmentMeta
    BY ElementOfSeq
  <2> QED
    BY <1>1, <2>1 DEF SegmentMeta
<1>3. k = n
  <2>1. /\ k \in 1..(n + 1)
        /\ k <= n => reg[k].base >= last.base
        /\ \A j \in 1..n : reg[j].base >= last.base => k <= j
    BY <1>2, BisectLeftFinds
  <2>2. reg[n].base >= last.base
    BY <1>2 DEF LastSegment
  <2>3. k <= n
    BY <1>1, <2>1, <2>2
  <2> HIDE DEF k
  <2>4. k \in 1..n
    BY <1>1, <2>1, <2>3
  <2>5. reg[k].base >= reg[n].base
    BY <2>1, <2>3 DEF LastSegment
  <2>6. ~(k < n)
    <3>1. k < n => reg[k].base < reg[n].base
      BY <1>1, <2>4 DEF Chained, Sorted
    <3> QED
      BY <1>1, <1>2, <2>4, <2>5, <3>1
  <2> QED
    BY <1>1, <2>4, <2>6
<1>4. SEALED \in AllowedTransitions(last.state)
  BY DEF AllowedTransitions, ACTIVE, SEALED, EXPIRED, DELETED
<1>5. CanProgress(reg, last, SEALED)
  BY <1>1, <1>3, <1>4 DEF CanProgress, LastSegment
<1>6. SEALED \in States /\ SEALED # DELETED
  BY DEF States, SEALED, DELETED
<1>7. /\ new \in Seq(SegmentMeta) /\ Len(new) = n
      /\ new[k] = [base |-> last.base, size |-> last.size, state |-> SEALED]
      /\ \A i \in 1..n : i # k => new[i] = reg[i]
  BY <1>1, <1>5, <1>6, ProgressChangesState
<1> HIDE DEF new, k
<1>8. LastSegment(new) = [base |-> last.base, size |-> last.size, state |-> SEALED]
  BY <1>3, <1>7 DEF LastSegment
<1>9. Chained(new) /\ new # NoTopic
  BY <1>3, <1>7, <1>8, LastMayChange
<1> QED
  BY <1>3, <1>5, <1>7, <1>8, <1>9 DEF new

-----------------------------------------------------------------------------
\* Only the writer that holds the lock is inside write.
LEMMA OthersWait ==
  ASSUME Exclusive, NEW w \in Writers, wpc[w] \in Critical
  PROVE  lock = w /\ \A v \in Writers : v # w => wpc[v] \notin Critical
BY DEF Exclusive

\* When the holder of the lock moves, what MetaCurrent says of the others is void.
LEMMA HolderMoves ==
  ASSUME TypeOK, Exclusive, NEW w \in Writers, wpc[w] \in Critical,
         NEW pc \in WriterStates, wpc' = [wpc EXCEPT ![w] = pc],
         MetaCurrentFor(w)'
  PROVE  MetaCurrent'
<1> SUFFICES ASSUME NEW v \in Writers, v # w PROVE MetaCurrentFor(v)'
  BY DEF MetaCurrent
<1>1. wpc'[v] = wpc[v] /\ wpc[v] \notin Critical
  BY OthersWait DEF TypeOK
<1> QED
  BY <1>1 DEF MetaCurrentFor, Critical

\* A writer that holds the lock sees an ACTIVE last segment, unless it is itself
\* between the two registry calls of _rollover.
LEMMA HolderSeesActive ==
  ASSUME LastActive, Exclusive, registry # NoTopic,
         NEW w \in Writers, wpc[w] \in Critical, wpc[w] # "create"
  PROVE  LastSegment(registry).state = ACTIVE
BY OthersWait DEF LastActive, Critical

\* The message a writer works on exists, and its frame has a length.
LEMMA InWork ==
  ASSUME TypeOK, Busy, NEW w \in Writers, wpc[w] # "idle"
  PROVE  /\ wbatch[w] \in Seq(Payloads) /\ Len(wbatch[w]) \in Nat /\ Len(wbatch[w]) > 0
         /\ Head(wbatch[w]) \in Payloads
         /\ Tail(wbatch[w]) \in Seq(Payloads) /\ Len(Tail(wbatch[w])) = Len(wbatch[w]) - 1
         /\ FrameLen(Head(wbatch[w])) \in Nat
<1>1. wbatch[w] \in Seq(Payloads) /\ wbatch[w] # <<>>
  BY DEF TypeOK, Busy
<1>2. Head(wbatch[w]) \in Payloads /\ Tail(wbatch[w]) \in Seq(Payloads)
      /\ Len(Tail(wbatch[w])) = Len(wbatch[w]) - 1 /\ Len(wbatch[w]) \in Nat /\ Len(wbatch[w]) > 0
  BY <1>1, HeadTailProperties, EmptySeq, LenProperties
<1>3. FrameLen(Head(wbatch[w])) \in Nat
  BY <1>2, LogStoreAssumption DEF FrameLen, PrefixSize
<1> QED
  BY <1>1, <1>2, <1>3

\* A topic that exists is a non-empty list whose end is a natural number.
LEMMA TopicIsList ==
  ASSUME TypeOK, RegistryChained, registry # NoTopic
  PROVE  /\ registry \in Seq(SegmentMeta) /\ Chained(registry)
         /\ LastSegment(registry) \in SegmentMeta
         /\ LastSegment(registry).base \in Nat /\ LastSegment(registry).size \in Nat
         /\ LatestOffset(registry) \in Nat
<1>1. registry \in Seq(SegmentMeta) /\ Chained(registry)
  BY DEF TypeOK, RegistryChained
<1>2. LastSegment(registry) \in SegmentMeta
  BY <1>1, LastIsMeta DEF Chained
<1>3. LastSegment(registry).base \in Nat /\ LastSegment(registry).size \in Nat
  BY <1>2 DEF SegmentMeta
<1> QED
  BY <1>1, <1>2, <1>3 DEF LatestOffset, EndOffset

\* The offsets reads ask for are natural numbers.
LEMMA KnownOffsetsNat ==
  ASSUME TypeOK, RegistryChained
  PROVE  KnownOffsets \subseteq Nat
<1>1. LogEnd \in Nat
  BY TopicIsList DEF LogEnd
<1>2. \A e \in Committed : e[1] \in Nat
  BY DEF Committed, CommittedFrames, TypeOK, Frames
<1> QED
  BY <1>1, <1>2 DEF KnownOffsets

\* create_segment makes a SegmentMeta.
LEMMA NewSegmentTyped ==
  ASSUME NEW base \in Nat PROVE NewSegment(base) \in SegmentMeta
BY DEF NewSegment, SegmentMeta, States, ACTIVE

\* Steps that touch neither the registry nor a writer's control state.
LEMMA WritersUntouched ==
  ASSUME RegistryChained, LastActive, Exclusive, Busy, MetaCurrent,
         UNCHANGED <<registry, lock, wpc, wbatch, wmeta>>
  PROVE  RegistryChained' /\ LastActive' /\ Exclusive' /\ Busy' /\ MetaCurrent'
BY DEF RegistryChained, LastActive, Exclusive, Busy, MetaCurrent, MetaCurrentFor

-----------------------------------------------------------------------------
\* The invariant holds when the process starts.
LEMMA InitIInv == Init => IInv
<1> SUFFICES ASSUME Init PROVE IInv
  OBVIOUS
<1>1. NoMeta \in SegmentMeta
  BY NewSegmentTyped DEF NoMeta
<1>2. TypeOK
  <2>1. <<>> \in Seq(Payloads) /\ <<>> \in Seq(Nat \X Payloads)
    OBVIOUS
  <2> QED
    BY <1>1, <2>1 DEF Init, TypeOK, WriterStates
<1>3. RegistryChained /\ LastActive /\ Exclusive /\ Busy /\ MetaCurrent
  BY DEF Init, RegistryChained, LastActive, Exclusive, Busy, MetaCurrent, MetaCurrentFor, Critical
<1> QED
  BY <1>2, <1>3 DEF IInv

\* Each step of a writer keeps the invariant.
LEMMA WriterIInv ==
  ASSUME IInv, NEW w \in Writers, WriterStep(w) \/ \E batch \in Batches : Submit(w, batch)
  PROVE  IInv'
<1> USE DEF IInv
<1>n. NoMeta \in SegmentMeta
  BY NewSegmentTyped DEF NoMeta
<1>0. ASSUME Abort(w), UNCHANGED <<registry, disk, cpc, readerVars, now, restarts>>,
             faults' \in Nat, wpc[w] \in Critical, wpc[w] # "create"
      PROVE  IInv'
  <2>1. TypeOK'
    BY <1>0, <1>n DEF Abort, TypeOK, readerVars, WriterStates
  <2>2. RegistryChained' /\ Busy'
    BY <1>0 DEF Abort, TypeOK, RegistryChained, Busy
  <2>3. LastActive'
    BY <1>0, HolderSeesActive DEF Abort, LastActive
  <2>4. Exclusive'
    BY <1>0, OthersWait DEF Abort, TypeOK, Exclusive, Critical
  <2>5. MetaCurrentFor(w)'
    BY <1>0 DEF Abort, TypeOK, MetaCurrentFor
  <2>6. MetaCurrent'
    BY <1>0, <2>5, HolderMoves DEF Abort, WriterStates
  <2> QED
    BY <2>1, <2>2, <2>3, <2>4, <2>6
<1>1. ASSUME NEW batch \in Batches, Submit(w, batch) PROVE IInv'
  <2>1. batch \in Seq(Payloads) /\ Len(batch) \in Nat /\ batch # <<>>
    <3>1. PICK n \in 1..MaxBatch : batch \in [1..n -> Payloads]
      BY DEF Batches
    <3>2. n \in Nat /\ n > 0
      BY LogStoreAssumption
    <3>3. batch \in Seq(Payloads)
      BY <3>1, <3>2, SeqDef
    <3>4. Len(batch) = n
      BY <3>1, <3>2, <3>3, LenProperties
    <3> QED
      BY <3>2, <3>3, <3>4, EmptySeq
  <2>2. TypeOK'
    BY <1>1, <2>1 DEF Submit, TypeOK, readerVars, envVars, WriterStates
  <2>3. RegistryChained' /\ LastActive'
    BY <1>1 DEF Submit, TypeOK, RegistryChained, LastActive
  <2>4. Exclusive' /\ Busy'
    BY <1>1, <2>1 DEF Submit, TypeOK, Exclusive, Busy, Critical
  <2>5. MetaCurrent'
    BY <1>1 DEF Submit, TypeOK, MetaCurrent, MetaCurrentFor
  <2> QED
    BY <2>2, <2>3, <2>4, <2>5
<1>2. CASE Lock(w)
  <2>1. TypeOK'
    BY <1>2 DEF Lock, TypeOK, readerVars, envVars, WriterStates
  <2>2. RegistryChained' /\ LastActive' /\ Busy'
    BY <1>2 DEF Lock, TypeOK, RegistryChained, LastActive, Busy
  <2>3. Exclusive'
    BY <1>2, LogStoreAssumption DEF Lock, TypeOK, Exclusive
  <2>4. MetaCurrent'
    BY <1>2 DEF Lock, TypeOK, MetaCurrent, MetaCurrentFor
  <2> QED
    BY <2>1, <2>2, <2>3, <2>4
<1>3. CASE GetMeta(w)
  <2>1. registry # NoTopic /\ LastSegment(registry) \in SegmentMeta /\ LastSegment(registry).size \in Nat
    BY <1>3, TopicIsList DEF GetMeta, CanGetLast
  <2>2. PICK pc \in {"rollget", "write"} :
          /\ wpc' = [wpc EXCEPT ![w] = pc]
          /\ pc = "rollget" => LastSegment(registry).size # 0
    BY <1>3 DEF GetMeta
  <2>3. TypeOK'
    BY <1>3, <2>1, <2>2 DEF GetMeta, TypeOK, readerVars, envVars, WriterStates
  <2>4. RegistryChained' /\ LastActive' /\ Busy'
    <3>1. LastSegment(registry).state = ACTIVE
      BY <1>3, <2>1, HolderSeesActive DEF GetMeta, Critical
    <3> QED
      BY <1>3, <2>2, <3>1 DEF GetMeta, TypeOK, RegistryChained, LastActive, Busy
  <2>5. Exclusive'
    BY <1>3, <2>2 DEF GetMeta, TypeOK, Exclusive, Critical
  <2>6. MetaCurrentFor(w)'
    BY <1>3, <2>1, <2>2 DEF GetMeta, TypeOK, MetaCurrentFor
  <2>7. MetaCurrent'
    BY <1>3, <2>2, <2>6, HolderMoves DEF GetMeta, Critical, WriterStates
  <2> QED
    BY <2>3, <2>4, <2>5, <2>7
<1>4. CASE TopicMissing(w)
  <2>1. TypeOK'
    BY <1>4 DEF TopicMissing, TypeOK, readerVars, envVars, WriterStates
  <2>2. RegistryChained' /\ LastActive' /\ Busy' /\ Exclusive'
    BY <1>4 DEF TopicMissing, TypeOK, RegistryChained, LastActive, Busy, Exclusive, Critical
  <2>3. MetaCurrent'
    BY <1>4 DEF TopicMissing, TypeOK, MetaCurrent, MetaCurrentFor
  <2> QED
    BY <2>1, <2>2, <2>3
<1>5. CASE InitTopic(w)
  <2>1. registry = NoTopic
    BY <1>5, NoSecondAtZero DEF InitTopic, TypeOK, RegistryChained
  <2>2. /\ registry' \in Seq(SegmentMeta) /\ registry' # NoTopic /\ Chained(registry')
        /\ LastSegment(registry') = NewSegment(0)
    BY <1>5, <2>1, FirstIsChain DEF InitTopic
  <2>3. NewSegment(0) \in SegmentMeta /\ NewSegment(0).state = ACTIVE
    BY NewSegmentTyped DEF NewSegment
  <2>4. TypeOK'
    BY <1>5, <2>2, <2>3 DEF InitTopic, TypeOK, readerVars, envVars, WriterStates
  <2>5. RegistryChained' /\ LastActive'
    BY <2>2, <2>3 DEF RegistryChained, LastActive
  <2>6. Exclusive' /\ Busy'
    BY <1>5 DEF InitTopic, TypeOK, Exclusive, Busy, Critical
  <2>7. MetaCurrentFor(w)'
    BY <1>5, <2>2 DEF InitTopic, TypeOK, MetaCurrentFor
  <2>8. MetaCurrent'
    BY <1>5, <2>7, HolderMoves DEF InitTopic, Critical, WriterStates
  <2> QED
    BY <2>4, <2>5, <2>6, <2>8
<1>6. CASE InitTopicRaises(w)
  BY <1>6, <1>0 DEF InitTopicRaises, envVars, Critical, TypeOK
<1>7. CASE RollGet(w)
  <2>1. registry # NoTopic /\ LastSegment(registry) \in SegmentMeta
    BY <1>7, TopicIsList DEF RollGet, CanGetLast
  <2>2. TypeOK'
    BY <1>7, <2>1 DEF RollGet, TypeOK, readerVars, envVars, WriterStates
  <2>3. RegistryChained' /\ LastActive'
    BY <1>7, <2>1, HolderSeesActive DEF RollGet, RegistryChained, LastActive, Critical
  <2>4. Exclusive' /\ Busy'
    BY <1>7 DEF RollGet, TypeOK, Exclusive, Busy, Critical
  <2>5. MetaCurrentFor(w)'
    BY <1>7, <2>1 DEF RollGet, TypeOK, MetaCurrent, MetaCurrentFor
  <2>6. MetaCurrent'
    BY <1>7, <2>5, HolderMoves DEF RollGet, Critical, WriterStates
  <2> QED
    BY <2>2, <2>3, <2>4, <2>6
<1>8. CASE RollSeal(w)
  <2>1. registry # NoTopic /\ wmeta[w] = LastSegment(registry) /\ LastSegment(registry).size > 0
    BY <1>8 DEF RollSeal, MetaCurrent, MetaCurrentFor
  <2>2. LastSegment(registry).state = ACTIVE
    BY <1>8, <2>1, HolderSeesActive DEF RollSeal, Critical
  <2>3. /\ registry' \in Seq(SegmentMeta) /\ registry' # NoTopic /\ Chained(registry')
        /\ LastSegment(registry') = [base |-> wmeta[w].base, size |-> wmeta[w].size, state |-> SEALED]
    BY <1>8, <2>1, <2>2, TopicIsList, SealKeepsChain DEF RollSeal
  <2>4. TypeOK'
    BY <1>8, <2>3 DEF RollSeal, TypeOK, readerVars, envVars, WriterStates
  <2>5. RegistryChained' /\ LastActive'
    BY <1>8, <2>3 DEF RollSeal, TypeOK, RegistryChained, LastActive
  <2>6. Exclusive' /\ Busy'
    BY <1>8 DEF RollSeal, TypeOK, Exclusive, Busy, Critical
  <2>7. MetaCurrentFor(w)'
    BY <1>8, <2>1, <2>3 DEF RollSeal, TypeOK, MetaCurrentFor
  <2>8. MetaCurrent'
    BY <1>8, <2>7, HolderMoves DEF RollSeal, Critical, WriterStates
  <2> QED
    BY <2>4, <2>5, <2>6, <2>8
<1>9. CASE RollCreate(w)
  <2> DEFINE base == EndOffset(wmeta[w])
  <2>1. /\ registry # NoTopic /\ wmeta[w].size > 0
        /\ LastSegment(registry) = [base |-> wmeta[w].base, size |-> wmeta[w].size, state |-> SEALED]
    BY <1>9 DEF RollCreate, MetaCurrent, MetaCurrentFor
  <2>2. base = EndOffset(LastSegment(registry)) /\ LastSegment(registry).size > 0
        /\ LastSegment(registry).state = SEALED
    BY <2>1 DEF EndOffset
  <2>3. /\ base \in Nat
        /\ registry' \in Seq(SegmentMeta) /\ registry' # NoTopic /\ Chained(registry')
        /\ LastSegment(registry') = NewSegment(base)
    BY <1>9, <2>1, <2>2, TopicIsList, CreateExtendsChain DEF RollCreate
  <2>4. NewSegment(base) \in SegmentMeta /\ NewSegment(base).state = ACTIVE
    BY <2>3, NewSegmentTyped DEF NewSegment
  <2>5. wmeta' = [wmeta EXCEPT ![w] = NewSegment(base)]
    BY <1>9 DEF RollCreate
  <2> HIDE DEF base
  <2>6. TypeOK'
    BY <1>9, <2>3, <2>4, <2>5 DEF RollCreate, TypeOK, readerVars, envVars, WriterStates
  <2>7. RegistryChained' /\ LastActive'
    BY <2>3, <2>4 DEF RegistryChained, LastActive
  <2>8. Exclusive' /\ Busy'
    BY <1>9 DEF RollCreate, TypeOK, Exclusive, Busy, Critical
  <2>9. MetaCurrentFor(w)'
    BY <1>9, <2>3, <2>5 DEF RollCreate, TypeOK, MetaCurrentFor
  <2>10. MetaCurrent'
    BY <1>9, <2>9, HolderMoves DEF RollCreate, Critical, WriterStates
  <2> QED
    BY <2>6, <2>7, <2>8, <2>10
<1>10. CASE WriteFile(w)
  <2>1. wmeta[w] \in SegmentMeta /\ Head(wbatch[w]) \in Payloads
    BY <1>10, InWork DEF WriteFile, TypeOK
  <2>2. [base |-> wmeta[w].base, pos |-> wmeta[w].size, payload |-> Head(wbatch[w])] \in Frames
    BY <2>1 DEF SegmentMeta, Frames
  <2>3. disk' \subseteq Frames
    BY <1>10, <2>2 DEF WriteFile, WriteFrame, TypeOK
  <2>4. TypeOK'
    BY <1>10, <2>3 DEF WriteFile, TypeOK, readerVars, envVars, WriterStates
  <2>5. MetaCurrentFor(w)'
    BY <1>10 DEF WriteFile, TypeOK, MetaCurrent, MetaCurrentFor
  <2>6. MetaCurrent'
    BY <1>10, <2>5, HolderMoves DEF WriteFile, Critical, WriterStates
  <2>7. RegistryChained' /\ LastActive'
    BY <1>10, HolderSeesActive DEF WriteFile, RegistryChained, LastActive, Critical
  <2>8. Exclusive' /\ Busy'
    BY <1>10 DEF WriteFile, TypeOK, Exclusive, Busy, Critical
  <2> QED
    BY <2>4, <2>6, <2>7, <2>8
<1>11. CASE WriteRaises(w)
  <2>1. /\ Abort(w) /\ UNCHANGED <<registry, disk, cpc, readerVars, now, restarts>>
        /\ wpc[w] \in Critical /\ wpc[w] # "create"
    BY <1>11 DEF WriteRaises, Critical
  <2>2. faults' \in Nat
    BY <1>11 DEF WriteRaises, TypeOK
  <2> QED
    BY <1>0, <2>1, <2>2
<1>12. CASE Advance(w)
  <2> DEFINE payload == Head(wbatch[w])
             entry == Written(wmeta[w], payload)
  <2>1. registry # NoTopic /\ wmeta[w] = LastSegment(registry) /\ wmeta[w] \in SegmentMeta
    BY <1>12 DEF Advance, TypeOK, MetaCurrent, MetaCurrentFor
  <2>2. LastSegment(registry).state = ACTIVE
    BY <1>12, <2>1, HolderSeesActive DEF Advance, Critical
  <2>3. /\ wbatch[w] \in Seq(Payloads) /\ Len(wbatch[w]) \in Nat /\ Len(wbatch[w]) > 0
        /\ payload \in Payloads /\ FrameLen(payload) \in Nat
        /\ Tail(wbatch[w]) \in Seq(Payloads) /\ Len(Tail(wbatch[w])) = Len(wbatch[w]) - 1
    BY <1>12, InWork DEF Advance
  <2>4. /\ registry' \in Seq(SegmentMeta) /\ registry' # NoTopic /\ Chained(registry')
        /\ LastSegment(registry').state = ACTIVE
    <3> DEFINE last == LastSegment(registry)
               new == AdvanceOffset(registry, last, FrameLen(payload))
    <3>1. registry' = new
      BY <1>12, <2>1 DEF Advance
    <3>2. registry \in Seq(SegmentMeta) /\ Chained(registry)
      BY <2>1, TopicIsList
    <3> HIDE DEF payload
    <3>3. /\ new \in Seq(SegmentMeta) /\ new # NoTopic /\ Chained(new)
          /\ LastSegment(new) = [base |-> last.base, size |-> last.size + FrameLen(payload), state |-> last.state]
      BY <2>3, <3>2, AdvanceKeepsChain
    <3>4. LastSegment(new).state = ACTIVE
      BY <2>2, <3>3
    <3> HIDE DEF new
    <3> QED
      BY <3>1, <3>3, <3>4
  <2>5. entry \in Nat \X Payloads
    BY <2>1, <2>3 DEF Written, EndOffset, SegmentMeta
  <2>6. wdone' \in [Writers -> Seq(Nat \X Payloads)]
    <3>1. wdone[w] \in Seq(Nat \X Payloads)
      BY DEF TypeOK
    <3>2. Append(wdone[w], entry) \in Seq(Nat \X Payloads) /\ <<>> \in Seq(Nat \X Payloads)
      BY <2>5, <3>1
    <3> HIDE DEF entry
    <3> QED
      BY <1>12, <3>2 DEF Advance, TypeOK, entry
  <2>7. acked' \subseteq Nat \X Payloads
    <3>1. wdone[w] \in Seq(Nat \X Payloads)
      BY DEF TypeOK
    <3>2. \A i \in 1..Len(wdone[w]) : wdone[w][i] \in Nat \X Payloads
      BY <3>1, ElementOfSeq
    <3>3. acked' = acked \/ acked' = acked \cup {entry} \cup {wdone[w][i] : i \in 1..Len(wdone[w])}
      BY <1>12 DEF Advance
    <3> HIDE DEF entry
    <3>4. {wdone[w][i] : i \in 1..Len(wdone[w])} \subseteq Nat \X Payloads
      BY <3>2
    <3>5. acked \subseteq Nat \X Payloads
      BY DEF TypeOK
    <3> QED
      BY <2>5, <3>3, <3>4, <3>5, Zenon
  <2>8. PICK pc \in {"idle", "lock"} :
          /\ wpc' = [wpc EXCEPT ![w] = pc]
          /\ pc = "lock" => Len(wbatch[w]) # 1
    BY <1>12 DEF Advance
  <2>9. TypeOK'
    <3>1. wbatch' \in [Writers -> Seq(Payloads)] /\ wmeta' \in [Writers -> SegmentMeta]
      BY <1>12, <1>n, <2>3 DEF Advance, TypeOK
    <3> QED
      BY <1>12, <2>4, <2>6, <2>7, <2>8, <3>1 DEF Advance, TypeOK, readerVars, envVars, WriterStates
  <2>10. RegistryChained' /\ LastActive'
    BY <2>4 DEF RegistryChained, LastActive
  <2>11. Exclusive'
    BY <1>12, <2>8, OthersWait DEF Advance, TypeOK, Exclusive, Critical
  <2>12. Busy'
    <3>1. Len(wbatch[w]) # 1 => Tail(wbatch[w]) # <<>>
      <4>1. Len(Tail(wbatch[w])) = 0 => Len(wbatch[w]) = 1
        BY <2>3
      <4>2. Len(<<>>) = 0
        BY EmptySeq
      <4> QED
        BY <4>1, <4>2, Zenon
    <3> QED
      BY <1>12, <2>8, <3>1 DEF Advance, TypeOK, Busy
  <2>13. MetaCurrentFor(w)'
    BY <2>8 DEF TypeOK, MetaCurrentFor
  <2>14. MetaCurrent'
    BY <1>12, <2>8, <2>13, HolderMoves DEF Advance, Critical, WriterStates
  <2> QED
    BY <2>9, <2>10, <2>11, <2>12, <2>14
<1> QED
  BY <1>1, <1>2, <1>3, <1>4, <1>5, <1>6, <1>7, <1>8, <1>9, <1>10, <1>11, <1>12 DEF WriterStep

\* create_topic: a segment at 0 is created only where there is no topic, and then
\* no writer is past get_segment.
LEMMA CreateTopicIInv ==
  ASSUME IInv, CreateTopicCheck \/ CreateTopic \/ CreateTopicRaises
  PROVE  IInv'
<1> USE DEF IInv
<1>1. CASE CreateTopicCheck \/ CreateTopicRaises
  <2>1. TypeOK'
    BY <1>1 DEF CreateTopicCheck, CreateTopicRaises, TypeOK, writerVars, readerVars, envVars
  <2>2. UNCHANGED <<registry, lock, wpc, wbatch, wmeta>>
    BY <1>1 DEF CreateTopicCheck, CreateTopicRaises, writerVars
  <2> QED
    BY <2>1, <2>2, WritersUntouched
<1>2. CASE CreateTopic
  <2>1. registry = NoTopic
    BY <1>2, NoSecondAtZero DEF CreateTopic, TypeOK, RegistryChained
  <2>2. /\ registry' \in Seq(SegmentMeta) /\ registry' # NoTopic /\ Chained(registry')
        /\ LastSegment(registry') = NewSegment(0)
    BY <1>2, <2>1, FirstIsChain DEF CreateTopic
  <2>3. TypeOK'
    BY <1>2, <2>2 DEF CreateTopic, TypeOK, writerVars, readerVars, envVars
  <2>4. RegistryChained' /\ LastActive'
    BY <2>2 DEF RegistryChained, LastActive, NewSegment
  <2>5. Exclusive' /\ Busy'
    BY <1>2 DEF CreateTopic, writerVars, Exclusive, Busy
  <2>6. MetaCurrent'
    BY <1>2, <2>1 DEF CreateTopic, writerVars, MetaCurrent, MetaCurrentFor
  <2> QED
    BY <2>3, <2>4, <2>5, <2>6
<1> QED
  BY <1>1, <1>2

\* A read changes only the reader's own state; what get_segment gives it is a
\* segment of the list.
LEMMA ReaderIInv ==
  ASSUME IInv, NEW r \in Readers,
         \/ ReaderStep(r)
         \/ ReaderCall(r)
  PROVE  IInv'
<1> USE DEF IInv
<1>0. ASSUME TypeOK', UNCHANGED <<registry, writerVars>> PROVE IInv'
  BY <1>0, WritersUntouched DEF writerVars
<1>1. ASSUME NEW offset \in KnownOffsets, NEW size \in ReadSizes, NEW kind \in {"bytes", "file"},
             ReadGet(r, offset, size, kind)
      PROVE  IInv'
  <2> DEFINE k == FindSegmentIndex(registry, offset)
  <2>1. registry \in Seq(SegmentMeta) /\ k # 0
    BY <1>1 DEF ReadGet, CanGetSegment, CanGetLast, TypeOK
  <2>2. offset \in Nat
    BY KnownOffsetsNat
  <2>3. k \in 0..Len(registry)
    BY <2>1, <2>2, FindSegmentIndexFinds
  <2> HIDE DEF k
  <2>4. Len(registry) \in Nat
    BY <2>1
  <2>5. k \in 1..Len(registry)
    BY <2>1, <2>3, <2>4
  <2>6. registry[k] \in SegmentMeta
    BY <2>1, <2>5, ElementOfSeq
  <2>7. GetSegment(registry, offset) \in SegmentMeta
    BY <2>6 DEF GetSegment, k
  <2>8. TypeOK'
    BY <1>1, <2>7 DEF ReadGet, TypeOK, writerVars, envVars
  <2> QED
    BY <1>0, <1>1, <2>8 DEF ReadGet
<1>2. CASE ReadCalc(r)
  <2>1. PICK cap \in MapLengths : rcap' = [rcap EXCEPT ![r] = cap]
    BY <1>2 DEF ReadCalc
  <2>2. cap \in Nat
    BY <2>1, LogStoreAssumption
  <2>3. TypeOK'
    BY <1>2, <2>1, <2>2 DEF ReadCalc, TypeOK, writerVars, envVars
  <2> QED
    BY <1>0, <1>2, <2>3 DEF ReadCalc
<1>3. CASE ReadCopy(r) \/ SendFile(r)
  <2>1. ASSUME NEW len PROVE Slice(disk, rmeta[r].base, rreq[r].offset - rmeta[r].base, len) \in SUBSET (Nat \X Payloads)
    <3>1. \A f \in disk : <<f.base + f.pos, f.payload>> \in Nat \X Payloads
      BY DEF TypeOK, Frames
    <3> QED
      BY <3>1 DEF Slice
  <2>2. PICK data \in SUBSET (Nat \X Payloads) : rdata' = [rdata EXCEPT ![r] = data]
    BY <1>3, <2>1 DEF ReadCopy, SendFile
  <2>3. TypeOK'
    BY <1>3, <2>2 DEF ReadCopy, SendFile, TypeOK, writerVars, envVars
  <2> QED
    BY <1>0, <1>3, <2>3 DEF ReadCopy, SendFile
<1>4. CASE ReadLatest(r)
  <2>1. LatestOffset(registry) \in Nat
    BY <1>4, TopicIsList DEF ReadLatest, CanGetLast
  <2>2. TypeOK'
    BY <1>4, <2>1 DEF ReadLatest, TypeOK, writerVars, envVars
  <2> QED
    BY <1>0, <1>4, <2>2 DEF ReadLatest
<1>5. CASE ReadReturn(r)
  <2>1. NoMeta \in SegmentMeta
    BY NewSegmentTyped DEF NoMeta
  <2>2. TypeOK'
    BY <1>5, <2>1 DEF ReadReturn, TypeOK, writerVars, envVars
  <2> QED
    BY <1>0, <1>5, <2>2 DEF ReadReturn
<1>6. ASSUME NEW offset, ReadInside(r, offset) PROVE IInv'
  <2>1. TypeOK'
    BY <1>6 DEF ReadInside, TypeOK, writerVars, envVars
  <2> QED
    BY <1>0, <1>6, <2>1 DEF ReadInside
<1> QED
  BY <1>1, <1>2, <1>3, <1>4, <1>5, <1>6 DEF ReaderStep, ReaderCall

\* Every step of LogManager and of its environment keeps the invariant.
LEMMA NextIInv == IInv /\ [Next]_vars => IInv'
<1> SUFFICES ASSUME IInv, [Next]_vars PROVE IInv'
  OBVIOUS
<1> USE DEF IInv
<1>1. ASSUME NEW w \in Writers, WriterStep(w) \/ \E batch \in Batches : Submit(w, batch)
      PROVE  IInv'
  BY <1>1, WriterIInv
<1>2. CASE CreateTopicCheck \/ CreateTopic \/ CreateTopicRaises
  BY <1>2, CreateTopicIInv
<1>3. ASSUME NEW r \in Readers,
             \/ ReaderStep(r)
             \/ ReaderCall(r)
      PROVE  IInv'
  BY <1>3, ReaderIInv
<1>4. CASE Tick
  <2>1. TypeOK'
    BY <1>4 DEF Tick, TypeOK, writerVars, readerVars
  <2>2. UNCHANGED <<registry, lock, wpc, wbatch, wmeta>>
    BY <1>4 DEF Tick, writerVars
  <2> QED
    BY <2>1, <2>2, WritersUntouched
<1>5. CASE Restart
  <2>1. NoMeta \in SegmentMeta /\ <<>> \in Seq(Payloads) /\ <<>> \in Seq(Nat \X Payloads)
    BY NewSegmentTyped DEF NoMeta
  <2>2. TypeOK'
    BY <1>5, <2>1 DEF Restart, TypeOK, WriterStates
  <2>3. RegistryChained' /\ LastActive' /\ Exclusive' /\ Busy' /\ MetaCurrent'
    BY <1>5 DEF Restart, RegistryChained, LastActive, Exclusive, Busy, MetaCurrent, MetaCurrentFor, Critical
  <2> QED
    BY <2>2, <2>3
<1>6. CASE UNCHANGED vars
  <2>1. TypeOK'
    BY <1>6 DEF TypeOK, vars, writerVars, readerVars, envVars
  <2>2. UNCHANGED <<registry, lock, wpc, wbatch, wmeta>>
    BY <1>6 DEF vars, writerVars
  <2> QED
    BY <2>1, <2>2, WritersUntouched
<1> QED
  BY <1>1, <1>2, <1>3, <1>4, <1>5, <1>6 DEF Next

-----------------------------------------------------------------------------
\* The invariant of LogManager, for any writers, readers, batches and bounds.
THEOREM LogStoreInvariant == Spec => []IInv
BY InitIInv, NextIInv, PTL DEF Spec

\* Every variable of LogStore keeps its type: registry entries are SegmentMeta
\* with natural bases and sizes, files hold frames, results are natural offsets.
THEOREM LogStoreTypeOK == Spec => []TypeOK
<1>1. IInv => TypeOK
  BY DEF IInv
<1> QED
  BY <1>1, LogStoreInvariant, PTL

\* The segments of a topic are one gap-free chain of sealed, non-empty segments
\* from offset 0, with an ACTIVE one at the end except inside a _rollover,
\* however writers, create_topic, file errors and restarts interleave.
THEOREM RegistryIsChain == Spec => []SegmentChain
<1>1. IInv => SegmentChain
  BY DEF IInv, RegistryChained, Chained, LastActive, SegmentChain
<1> QED
  BY <1>1, LogStoreInvariant, PTL

\* The registry calls of _rollover never raise: the sealed copy is current, and
\* the new segment neither overlaps nor repeats the last one.
THEOREM RolloverNeverRaises == Spec => []RolloverSucceeds
<1>1. ASSUME IInv PROVE RolloverSucceeds
  <2> SUFFICES ASSUME NEW w \in Writers
               PROVE  /\ wpc[w] = "seal" => CanProgress(registry, wmeta[w], SEALED)
                      /\ wpc[w] = "create" => CanCreate(registry, EndOffset(wmeta[w]))
    BY DEF RolloverSucceeds
  <2> USE <1>1 DEF IInv
  <2>1. ASSUME wpc[w] = "seal" PROVE CanProgress(registry, wmeta[w], SEALED)
    <3>1. registry # NoTopic /\ wmeta[w] = LastSegment(registry)
      BY <2>1 DEF MetaCurrent, MetaCurrentFor
    <3>2. LastSegment(registry).state = ACTIVE
      BY <2>1, <3>1, HolderSeesActive DEF Critical
    <3> QED
      BY <3>1, <3>2, TopicIsList, SealKeepsChain
  <2>2. ASSUME wpc[w] = "create" PROVE CanCreate(registry, EndOffset(wmeta[w]))
    <3>1. /\ registry # NoTopic /\ wmeta[w].size > 0
          /\ LastSegment(registry) = [base |-> wmeta[w].base, size |-> wmeta[w].size, state |-> SEALED]
      BY <2>2 DEF MetaCurrent, MetaCurrentFor
    <3>2. /\ EndOffset(wmeta[w]) = EndOffset(LastSegment(registry))
          /\ LastSegment(registry).size > 0 /\ LastSegment(registry).state = SEALED
      BY <3>1 DEF EndOffset
    <3> QED
      BY <3>1, <3>2, TopicIsList, CreateExtendsChain
  <2> QED
    BY <2>1, <2>2
<1> QED
  BY <1>1, LogStoreInvariant, PTL

-----------------------------------------------------------------------------
(***************************************************************************)
(* The files.  A second invariant, DiskInv, over IInv: frames on disk are  *)
(* disjoint in every file, the bytes below a segment's size are filled,    *)
(* a writer past the rollover decision has room for its message, and one   *)
(* past handle.write has its frame on disk at the end of the last segment. *)
(***************************************************************************)

\* No two frames of a file share a byte.
Disjoint(files) ==
  \A f, g \in files : Overlaps(g, f.base, f.pos, FrameLen(f.payload)) => f = g

\* What FramesTile and SegmentBounded say of one segment, apart from Disjoint.
Filled(files, base, size) ==
  /\ \A p \in 0..(size - 1) : \E f \in files : Overlaps(f, base, p, 1)
  /\ \A f \in files : f.base = base /\ f.pos < size => f.pos + FrameLen(f.payload) <= size
  /\ \/ size <= MaxSegmentSize
     \/ \E f \in files : f.base = base /\ f.pos = 0 /\ FrameLen(f.payload) = size

AllFilled(reg, files) == \A i \in 1..Len(reg) : Filled(files, reg[i].base, reg[i].size)

\* The frames below the size of their segment.
Below(reg, files) ==
  {f \in files : \E i \in 1..Len(reg) : reg[i].base = f.base /\ f.pos < reg[i].size}

\* The frame of the message a writer works on, at the end of its copy.
OwnFrame(w) == [base |-> wmeta[w].base, pos |-> wmeta[w].size, payload |-> Head(wbatch[w])]

WriteFitsFor(w) ==
  /\ wpc[w] \in {"write", "advance"} =>
       wmeta[w].size = 0 \/ wmeta[w].size + FrameLen(Head(wbatch[w])) <= MaxSegmentSize
  /\ wpc[w] = "advance" => OwnFrame(w) \in disk

DiskInv ==
  /\ Disjoint(disk)
  /\ registry # NoTopic => AllFilled(registry, disk)
  /\ \A w \in Writers : WriteFitsFor(w)

\* A frame is at least its length prefix.
LEMMA FrameLenPositive ==
  ASSUME NEW payload \in Payloads PROVE FrameLen(payload) \in Nat /\ FrameLen(payload) > 0
BY LogStoreAssumption DEF FrameLen, PrefixSize

\* The fields of a frame.
LEMMA FrameTyped ==
  ASSUME NEW f \in Frames
  PROVE  /\ f.base \in Nat /\ f.pos \in Nat /\ f.payload \in Payloads
         /\ FrameLen(f.payload) \in Nat /\ FrameLen(f.payload) > 0
BY FrameLenPositive DEF Frames

\* A frame is at least its prefix.
LEMMA FrameHasPrefix ==
  ASSUME NEW f \in Frames
  PROVE  PrefixSize <= FrameLen(f.payload)
BY LogStoreAssumption DEF Frames, FrameLen, PrefixSize

\* handle.write leaves the frames of a file disjoint: it takes away what it
\* overwrites.
LEMMA WriteKeepsDisjoint ==
  ASSUME NEW files \in SUBSET Frames, Disjoint(files),
         NEW base \in Nat, NEW pos \in Nat, NEW payload \in Payloads
  PROVE  Disjoint(WriteFrame(files, base, pos, payload))
<1> DEFINE new == [base |-> base, pos |-> pos, payload |-> payload]
<1>1. /\ new \in Frames /\ new.base = base /\ new.pos = pos /\ new.payload = payload
  BY DEF Frames
<1> HIDE DEF new
<1> SUFFICES ASSUME NEW f \in WriteFrame(files, base, pos, payload),
                    NEW g \in WriteFrame(files, base, pos, payload),
                    Overlaps(g, f.base, f.pos, FrameLen(f.payload))
             PROVE  f = g
  BY DEF Disjoint
<1>2. /\ f = new \/ (f \in files /\ ~Overlaps(f, base, pos, FrameLen(payload)))
      /\ g = new \/ (g \in files /\ ~Overlaps(g, base, pos, FrameLen(payload)))
  BY DEF WriteFrame, new
<1>3. f \in Frames /\ g \in Frames
  BY <1>1, <1>2
<1>4. /\ f.base \in Nat /\ f.pos \in Nat /\ FrameLen(f.payload) \in Nat
      /\ g.base \in Nat /\ g.pos \in Nat /\ FrameLen(g.payload) \in Nat
      /\ FrameLen(payload) \in Nat
  BY <1>3, FrameTyped, FrameLenPositive
<1>5. CASE f \in files /\ g \in files
  BY <1>5 DEF Disjoint
<1>6. CASE f = new
  BY <1>1, <1>2, <1>4, <1>6 DEF Overlaps
<1>7. CASE g = new
  BY <1>1, <1>2, <1>4, <1>7 DEF Overlaps
<1> QED
  BY <1>2, <1>5, <1>6, <1>7

\* A write that starts at or after the end of a segment, or in another file,
\* takes no frame of it away.
LEMMA WriteKeepsCommitted ==
  ASSUME NEW files \in SUBSET Frames,
         NEW base \in Nat, NEW pos \in Nat, NEW payload \in Payloads,
         NEW b \in Nat, NEW size \in Nat, Filled(files, b, size), b # base \/ size <= pos
  PROVE  \A f \in Frames : f.base = b /\ f.pos < size
            => (f \in WriteFrame(files, base, pos, payload) <=> f \in files)
<1> SUFFICES ASSUME NEW f \in Frames, f.base = b, f.pos < size
             PROVE  f \in WriteFrame(files, base, pos, payload) <=> f \in files
  OBVIOUS
<1>1. /\ f.pos \in Nat /\ FrameLen(f.payload) \in Nat /\ FrameLen(payload) \in Nat
  BY FrameTyped, FrameLenPositive
<1>2. f # [base |-> base, pos |-> pos, payload |-> payload]
  BY <1>1
<1>3. f \in files => ~Overlaps(f, base, pos, FrameLen(payload))
  <2> SUFFICES ASSUME f \in files, b = base PROVE ~(pos < f.pos + FrameLen(f.payload))
    BY DEF Overlaps
  <2>1. f.pos + FrameLen(f.payload) <= size
    BY DEF Filled
  <2> QED
    BY <1>1, <2>1
<1> QED
  BY <1>2, <1>3 DEF WriteFrame

\* Such a write leaves the segment filled.
LEMMA WriteKeepsFilled ==
  ASSUME NEW files \in SUBSET Frames,
         NEW base \in Nat, NEW pos \in Nat, NEW payload \in Payloads,
         NEW b \in Nat, NEW size \in Nat, Filled(files, b, size), b # base \/ size <= pos
  PROVE  Filled(WriteFrame(files, base, pos, payload), b, size)
<1> DEFINE new == WriteFrame(files, base, pos, payload)
<1>1. \A f \in Frames : f.base = b /\ f.pos < size => (f \in new <=> f \in files)
  BY WriteKeepsCommitted
<1>2. new \in SUBSET Frames
  BY DEF WriteFrame, Frames
<1> HIDE DEF new
<1>3. ASSUME NEW p \in 0..(size - 1) PROVE \E f \in new : Overlaps(f, b, p, 1)
  <2>1. PICK f \in files : Overlaps(f, b, p, 1)
    BY DEF Filled
  <2>2. f.base = b /\ f.pos < size
    BY <2>1, FrameTyped DEF Overlaps
  <2> QED
    BY <1>1, <2>1, <2>2
<1>4. ASSUME NEW f \in new, f.base = b, f.pos < size PROVE f.pos + FrameLen(f.payload) <= size
  BY <1>1, <1>2, <1>4 DEF Filled
<1>5. size <= MaxSegmentSize \/ \E f \in new : f.base = b /\ f.pos = 0 /\ FrameLen(f.payload) = size
  <2> SUFFICES ASSUME ~(size <= MaxSegmentSize)
               PROVE  \E f \in new : f.base = b /\ f.pos = 0 /\ FrameLen(f.payload) = size
    OBVIOUS
  <2>1. PICK f \in files : f.base = b /\ f.pos = 0 /\ FrameLen(f.payload) = size
    BY DEF Filled
  <2>2. f.pos < size
    BY <2>1, LogStoreAssumption
  <2> QED
    BY <1>1, <2>1, <2>2
<1> QED
  BY <1>3, <1>4, <1>5 DEF Filled, new

\* advance_offset over a frame that is on disk at the end of the segment leaves
\* the segment filled.
LEMMA AdvanceKeepsFilled ==
  ASSUME NEW files \in SUBSET Frames, Disjoint(files),
         NEW base \in Nat, NEW size \in Nat, NEW payload \in Payloads,
         Filled(files, base, size), [base |-> base, pos |-> size, payload |-> payload] \in files,
         size = 0 \/ size + FrameLen(payload) <= MaxSegmentSize
  PROVE  Filled(files, base, size + FrameLen(payload))
<1> DEFINE own == [base |-> base, pos |-> size, payload |-> payload]
           len == FrameLen(payload)
<1>1. own \in files /\ own.base = base /\ own.pos = size /\ own.payload = payload
  OBVIOUS
<1>2. len \in Nat /\ len > 0
  BY FrameLenPositive
<1> HIDE DEF own
<1>3. ASSUME NEW p \in 0..((size + len) - 1) PROVE \E f \in files : Overlaps(f, base, p, 1)
  <2>1. CASE p < size
    <3>1. p \in 0..(size - 1)
      BY <1>2, <2>1
    <3> QED
      BY <3>1 DEF Filled
  <2>2. CASE ~(p < size)
    <3>1. Overlaps(own, base, p, 1)
      BY <1>1, <1>2, <2>2 DEF Overlaps
    <3> QED
      BY <1>1, <3>1
  <2> QED
    BY <2>1, <2>2
<1>4. ASSUME NEW f \in files, f.base = base, f.pos < size + len
      PROVE  f.pos + FrameLen(f.payload) <= size + len
  <2>1. f.pos \in Nat /\ FrameLen(f.payload) \in Nat /\ FrameLen(f.payload) > 0
    BY FrameTyped
  <2>2. CASE f.pos < size
    BY <1>2, <1>4, <2>1, <2>2 DEF Filled
  <2>3. CASE ~(f.pos < size)
    <3>1. Overlaps(f, own.base, own.pos, FrameLen(own.payload))
      BY <1>1, <1>2, <1>4, <2>1, <2>3 DEF Overlaps
    <3>2. f = own
      BY <1>1, <3>1 DEF Disjoint
    <3> QED
      BY <1>1, <1>2, <3>2
  <2> QED
    BY <2>2, <2>3
<1>5. \/ size + len <= MaxSegmentSize
      \/ \E f \in files : f.base = base /\ f.pos = 0 /\ FrameLen(f.payload) = size + len
  BY <1>1, <1>2
<1> QED
  BY <1>3, <1>4, <1>5 DEF Filled

\* The entries of a chain are typed, and no two have the same base.
LEMMA ChainEntries ==
  ASSUME NEW reg \in Seq(SegmentMeta), Chained(reg)
  PROVE  /\ Len(reg) \in Nat /\ Len(reg) \in 1..Len(reg)
         /\ \A i \in 1..Len(reg) : reg[i].base \in Nat /\ reg[i].size \in Nat
         /\ \A i, j \in 1..Len(reg) : reg[i].base = reg[j].base => i = j
<1>1. Len(reg) \in Nat /\ Len(reg) \in 1..Len(reg)
  BY DEF Chained
<1>2. \A i \in 1..Len(reg) : reg[i].base \in Nat /\ reg[i].size \in Nat
  <2>1. \A i \in 1..Len(reg) : reg[i] \in SegmentMeta
    BY ElementOfSeq
  <2> QED
    BY <2>1 DEF SegmentMeta
<1>3. ASSUME NEW i \in 1..Len(reg), NEW j \in 1..Len(reg), reg[i].base = reg[j].base PROVE i = j
  <2>1. (i < j => reg[i].base < reg[j].base) /\ (j < i => reg[j].base < reg[i].base)
    BY DEF Chained, Sorted
  <2>2. reg[i].base \in Nat /\ reg[j].base \in Nat
    BY <1>2
  <2> QED
    BY <1>1, <1>3, <2>1, <2>2
<1> QED
  BY <1>1, <1>2, <1>3

\* handle.write at the end of the last segment changes nothing below the size of
\* any segment.
LEMMA WriteAtEnd ==
  ASSUME NEW reg \in Seq(SegmentMeta), Chained(reg),
         NEW files \in SUBSET Frames, AllFilled(reg, files), NEW payload \in Payloads
  PROVE  LET new == WriteFrame(files, LastSegment(reg).base, LastSegment(reg).size, payload)
         IN  AllFilled(reg, new) /\ Below(reg, new) = Below(reg, files)
<1> DEFINE n == Len(reg)
           new == WriteFrame(files, reg[n].base, reg[n].size, payload)
<1>1. /\ n \in Nat /\ n \in 1..n
      /\ \A i \in 1..n : reg[i].base \in Nat /\ reg[i].size \in Nat
      /\ \A i, j \in 1..n : reg[i].base = reg[j].base => i = j
  BY ChainEntries
<1>2. ASSUME NEW i \in 1..n
      PROVE  /\ Filled(new, reg[i].base, reg[i].size)
             /\ \A f \in Frames : f.base = reg[i].base /\ f.pos < reg[i].size => (f \in new <=> f \in files)
  <2>1. reg[i].base # reg[n].base \/ reg[i].size <= reg[n].size
    BY <1>1
  <2>2. Filled(files, reg[i].base, reg[i].size)
    BY DEF AllFilled
  <2> QED
    BY <1>1, <2>1, <2>2, WriteKeepsFilled, WriteKeepsCommitted
<1>3. new \in SUBSET Frames
  BY <1>1 DEF WriteFrame, Frames
<1> HIDE DEF new
<1>4. AllFilled(reg, new)
  BY <1>2 DEF AllFilled
<1>5. Below(reg, new) = Below(reg, files)
  <2>1. ASSUME NEW f \in Frames, NEW i \in 1..n, reg[i].base = f.base, f.pos < reg[i].size
        PROVE  f \in new <=> f \in files
    BY <1>2, <2>1
  <2> QED
    BY <1>3, <2>1 DEF Below
<1> QED
  BY <1>4, <1>5 DEF new, LastSegment

\* Sealing changes no extent.
LEMMA SealAtEnd ==
  ASSUME NEW reg \in Seq(SegmentMeta), NEW new \in Seq(SegmentMeta), Len(new) = Len(reg), Len(reg) > 0,
         \A i \in 1..Len(reg) : i # Len(reg) => new[i] = reg[i],
         LastSegment(new).base = LastSegment(reg).base, LastSegment(new).size = LastSegment(reg).size,
         NEW files, AllFilled(reg, files)
  PROVE  AllFilled(new, files) /\ Below(new, files) = Below(reg, files)
<1>1. \A i \in 1..Len(reg) : new[i].base = reg[i].base /\ new[i].size = reg[i].size
  BY DEF LastSegment
<1> QED
  BY <1>1 DEF AllFilled, Below

\* A segment of size 0 holds nothing yet, whatever an earlier process left in
\* its file.
LEMMA EmptyFilled ==
  ASSUME NEW files \in SUBSET Frames, NEW base \in Nat
  PROVE  Filled(files, base, 0) /\ \A f \in files : ~(f.pos < 0)
<1>1. \A f \in files : ~(f.pos < 0)
  BY FrameTyped
<1>2. 0..(0 - 1) = {}
  OBVIOUS
<1> QED
  BY <1>1, <1>2, LogStoreAssumption DEF Filled

\* A new segment makes nothing readable.
LEMMA CreateAtEnd ==
  ASSUME NEW reg \in Seq(SegmentMeta), NEW new \in Seq(SegmentMeta), Len(new) = Len(reg) + 1,
         \A i \in 1..Len(reg) : new[i] = reg[i], NEW base \in Nat, LastSegment(new) = NewSegment(base),
         NEW files \in SUBSET Frames, AllFilled(reg, files)
  PROVE  AllFilled(new, files) /\ Below(new, files) = Below(reg, files)
<1> DEFINE n == Len(reg)
<1>1. n \in Nat /\ new[n + 1].base = base /\ new[n + 1].size = 0
  BY DEF LastSegment, NewSegment
<1>2. \A i \in 1..(n + 1) : i \in 1..n \/ i = n + 1
  BY <1>1
<1>3. \A i \in 1..n : i \in 1..(n + 1)
  BY <1>1
<1>4. AllFilled(new, files)
  BY <1>1, <1>2, EmptyFilled DEF AllFilled
<1>5. Below(new, files) = Below(reg, files)
  BY <1>1, <1>2, <1>3, EmptyFilled DEF Below
<1> QED
  BY <1>4, <1>5

\* The first segment of a topic makes nothing readable.
LEMMA CreateFirstEmpty ==
  ASSUME NEW files \in SUBSET Frames
  PROVE  LET new == CreateSegment(NoTopic, 0)
         IN  AllFilled(new, files) /\ Below(new, files) = {} /\ LatestOffset(new) = 0
<1> DEFINE new == CreateSegment(NoTopic, 0)
<1>1. Len(new) = 1 /\ new[1] = NewSegment(0)
  BY CreateFirst
<1> HIDE DEF new
<1>2. \A i \in 1..Len(new) : new[i].base = 0 /\ new[i].size = 0
  BY <1>1 DEF NewSegment
<1>3. LatestOffset(new) = 0
  BY <1>1 DEF LatestOffset, LastSegment, EndOffset, NewSegment
<1>4. AllFilled(new, files) /\ Below(new, files) = {}
  BY <1>2, EmptyFilled DEF AllFilled, Below
<1> QED
  BY <1>3, <1>4 DEF new

\* advance_offset over the frame at the end of the last segment makes exactly
\* that frame readable.
LEMMA AdvanceAtEnd ==
  ASSUME NEW reg \in Seq(SegmentMeta), Chained(reg), NEW files \in SUBSET Frames, Disjoint(files),
         AllFilled(reg, files), NEW payload \in Payloads,
         LET last == LastSegment(reg)
         IN  /\ [base |-> last.base, pos |-> last.size, payload |-> payload] \in files
             /\ last.size = 0 \/ last.size + FrameLen(payload) <= MaxSegmentSize
  PROVE  LET last == LastSegment(reg)
             new == AdvanceOffset(reg, last, FrameLen(payload))
         IN  /\ AllFilled(new, files)
             /\ Below(new, files) =
                  Below(reg, files) \cup {[base |-> last.base, pos |-> last.size, payload |-> payload]}
             /\ LatestOffset(new) = LatestOffset(reg) + FrameLen(payload)
<1> DEFINE n == Len(reg)
           len == FrameLen(payload)
           last == LastSegment(reg)
           new == AdvanceOffset(reg, last, len)
           own == [base |-> last.base, pos |-> last.size, payload |-> payload]
<1>1. /\ n \in Nat /\ n \in 1..n
      /\ \A i \in 1..n : reg[i].base \in Nat /\ reg[i].size \in Nat
      /\ \A i, j \in 1..n : reg[i].base = reg[j].base => i = j
  BY ChainEntries
<1>2. len \in Nat /\ len > 0
  BY FrameLenPositive
<1>3. /\ Len(new) = n
      /\ \A i \in 1..n : i # n => new[i] = reg[i]
      /\ LastSegment(new) = [base |-> last.base, size |-> last.size + len, state |-> last.state]
  BY <1>2, AdvanceKeepsChain
<1>4. /\ own \in files /\ own.base = last.base /\ own.pos = last.size /\ own.payload = payload
      /\ last.base \in Nat /\ last.size \in Nat /\ last = reg[n]
  BY <1>1 DEF LastSegment
<1> HIDE DEF new, len
<1>5. new[n].base = last.base /\ new[n].size = last.size + len
  BY <1>3 DEF LastSegment
<1>6. Filled(files, last.base, last.size + len)
  BY <1>1, <1>4, AdvanceKeepsFilled DEF AllFilled, len
<1> HIDE DEF own, last
<1>7. AllFilled(new, files)
  BY <1>3, <1>5, <1>6 DEF AllFilled
<1>8. LatestOffset(new) = LatestOffset(reg) + len
  BY <1>2, <1>3, <1>4, <1>5 DEF LatestOffset, LastSegment, EndOffset
<1>9. ASSUME NEW f \in files, f.base = last.base
      PROVE  f.pos < last.size + len <=> f.pos < last.size \/ f = own
  <2>1. f.pos \in Nat /\ FrameLen(f.payload) \in Nat /\ FrameLen(f.payload) > 0
    BY FrameTyped
  <2>2. ASSUME f.pos < last.size + len, ~(f.pos < last.size) PROVE f = own
    <3>1. Overlaps(f, own.base, own.pos, FrameLen(own.payload))
      BY <1>2, <1>4, <1>9, <2>1, <2>2 DEF Overlaps, len
    <3> QED
      BY <1>4, <3>1 DEF Disjoint
  <2> QED
    BY <1>2, <1>4, <2>1, <2>2
<1>10. Below(new, files) = Below(reg, files) \cup {own}
  <2>1. ASSUME NEW f \in files, NEW i \in 1..n, new[i].base = f.base, f.pos < new[i].size
        PROVE  f \in Below(reg, files) \/ f = own
    <3>1. CASE i = n
      BY <1>1, <1>4, <1>5, <1>9, <2>1, <3>1 DEF Below
    <3>2. CASE i # n
      BY <1>3, <2>1, <3>2 DEF Below
    <3> QED
      BY <3>1, <3>2
  <2>2. ASSUME NEW f \in files, NEW i \in 1..n, reg[i].base = f.base, f.pos < reg[i].size
        PROVE  f \in Below(new, files)
    <3>1. CASE i = n
      BY <1>1, <1>3, <1>4, <1>5, <1>9, <2>2, <3>1 DEF Below
    <3>2. CASE i # n
      BY <1>3, <2>2, <3>2 DEF Below
    <3> QED
      BY <3>1, <3>2
  <2>3. own \in Below(new, files)
    BY <1>1, <1>3, <1>4, <1>5, <1>9 DEF Below
  <2>4. Below(new, files) \subseteq Below(reg, files) \cup {own}
    BY <1>3, <2>1 DEF Below
  <2>5. Below(reg, files) \subseteq Below(new, files)
    BY <2>2 DEF Below
  <2> QED
    BY <2>3, <2>4, <2>5
<1> QED
  BY <1>7, <1>8, <1>10 DEF new, own, last, len

-----------------------------------------------------------------------------
\* A step that shows the callers of LogManager nothing new.
SameLog == Committed' = Committed /\ LogEnd' = LogEnd

\* The message at the head of a writer's batch is appended at the log end.
AppendsHead(w) ==
  /\ Committed' = Committed \cup {Written(wmeta[w], Head(wbatch[w]))}
  /\ Written(wmeta[w], Head(wbatch[w])) = <<LogEnd, Head(wbatch[w])>>
  /\ LogEnd' = LogEnd + FrameLen(Head(wbatch[w]))

\* The readable log of a topic that exists.
LEMMA CommittedIsBelow ==
  ASSUME registry # NoTopic
  PROVE  /\ Committed = {<<f.base + f.pos, f.payload>> : f \in Below(registry, disk)}
         /\ LogEnd = LatestOffset(registry)
BY DEF Committed, CommittedFrames, Below, LogEnd

\* The same of the next state.
LEMMA CommittedIsBelowNext ==
  ASSUME registry' # NoTopic
  PROVE  /\ Committed' = {<<f.base + f.pos, f.payload>> : f \in Below(registry', disk')}
         /\ LogEnd' = LatestOffset(registry')
BY DEF Committed, CommittedFrames, Below, LogEnd

\* Before create_segment there is nothing to read.
LEMMA NothingCommitted ==
  ASSUME registry = NoTopic PROVE Committed = {} /\ LogEnd = 0
BY DEF Committed, CommittedFrames, LogEnd

\* What neither the files nor the registry show cannot be read.
LEMMA UntouchedLog ==
  ASSUME UNCHANGED <<registry, disk>> PROVE SameLog
BY DEF SameLog, Committed, CommittedFrames, LogEnd

\* When the holder of the lock moves, what DiskInv says of the other writers is
\* void.
LEMMA HolderMovesFits ==
  ASSUME TypeOK, Exclusive, NEW w \in Writers, wpc[w] \in Critical,
         NEW pc \in WriterStates, wpc' = [wpc EXCEPT ![w] = pc],
         WriteFitsFor(w)'
  PROVE  \A v \in Writers : WriteFitsFor(v)'
<1> SUFFICES ASSUME NEW v \in Writers, v # w PROVE WriteFitsFor(v)'
  OBVIOUS
<1>1. wpc'[v] = wpc[v] /\ wpc[v] \notin Critical
  BY OthersWait DEF TypeOK
<1> QED
  BY <1>1 DEF WriteFitsFor, Critical

\* Steps of a holder of the lock that touch neither the registry nor a file.
LEMMA HolderLooks ==
  ASSUME IInv, DiskInv, NEW w \in Writers, wpc[w] \in Critical,
         NEW pc \in WriterStates, wpc' = [wpc EXCEPT ![w] = pc],
         UNCHANGED <<registry, disk>>, WriteFitsFor(w)'
  PROVE  DiskInv' /\ SameLog
<1>1. \A v \in Writers : WriteFitsFor(v)'
  BY HolderMovesFits DEF IInv
<1>2. Disjoint(disk') /\ (registry' # NoTopic => AllFilled(registry', disk'))
  BY DEF DiskInv
<1> QED
  BY <1>1, <1>2, UntouchedLog DEF DiskInv

\* create_segment for a topic that does not exist shows no message, not even
\* those a previous process left in the file of segment 0.
LEMMA FirstSegmentEmpty ==
  ASSUME TypeOK, registry = NoTopic, registry' = CreateSegment(registry, 0), disk' = disk
  PROVE  /\ registry' # NoTopic /\ AllFilled(registry', disk')
         /\ SameLog
<1>1. registry' # NoTopic
  BY FirstIsChain
<1>2. disk \in SUBSET Frames
  BY DEF TypeOK
<1>3. AllFilled(registry', disk) /\ Below(registry', disk) = {} /\ LatestOffset(registry') = 0
  BY <1>2, CreateFirstEmpty
<1>4. Committed' = {<<f.base + f.pos, f.payload>> : f \in {}} /\ LogEnd' = 0
  BY <1>1, <1>3, CommittedIsBelowNext
<1>5. Committed' = {}
  BY <1>4
<1> QED
  BY <1>1, <1>3, <1>4, <1>5, NothingCommitted DEF SameLog

\* advance_offset keeps DiskInv and appends the message at the log end.
LEMMA AdvanceDisk ==
  ASSUME IInv, DiskInv, NEW w \in Writers, Advance(w)
  PROVE  DiskInv' /\ AppendsHead(w)
<1> USE DEF IInv
<1>0. disk \in SUBSET Frames
  BY DEF TypeOK
<1> DEFINE payload == Head(wbatch[w])
           last == LastSegment(registry)
<1>1. registry # NoTopic /\ wmeta[w] = last
  BY DEF Advance, MetaCurrent, MetaCurrentFor
<1>2. payload \in Payloads /\ FrameLen(payload) \in Nat
  BY InWork DEF Advance
<1>3. registry \in Seq(SegmentMeta) /\ Chained(registry) /\ last.base \in Nat /\ last.size \in Nat
  BY <1>1, TopicIsList
<1>4. /\ [base |-> last.base, pos |-> last.size, payload |-> payload] \in disk
      /\ last.size = 0 \/ last.size + FrameLen(payload) <= MaxSegmentSize
  BY <1>1 DEF Advance, DiskInv, WriteFitsFor, OwnFrame
<1>5. registry' = AdvanceOffset(registry, last, FrameLen(payload)) /\ disk' = disk
  BY <1>1 DEF Advance
<1> HIDE DEF payload
<1>6. /\ registry' # NoTopic
      /\ AllFilled(registry', disk)
      /\ Below(registry', disk) =
           Below(registry, disk) \cup {[base |-> last.base, pos |-> last.size, payload |-> payload]}
      /\ LatestOffset(registry') = LatestOffset(registry) + FrameLen(payload)
  BY <1>0, <1>1, <1>2, <1>3, <1>4, <1>5, AdvanceAtEnd, AdvanceKeepsChain DEF DiskInv
<1>7. AppendsHead(w)
  <2>1. Written(wmeta[w], payload) = <<last.base + last.size, payload>>
        /\ LatestOffset(registry) = last.base + last.size
    BY <1>1 DEF Written, EndOffset, LatestOffset
  <2>2. Committed = {<<f.base + f.pos, f.payload>> : f \in Below(registry, disk)}
        /\ LogEnd = LatestOffset(registry)
    BY <1>1, CommittedIsBelow
  <2>3. Committed' = {<<f.base + f.pos, f.payload>> : f \in Below(registry', disk)}
        /\ LogEnd' = LatestOffset(registry')
    BY <1>5, <1>6, CommittedIsBelowNext
  <2>4. Committed' = Committed \cup {<<last.base + last.size, payload>>}
    <3> DEFINE own == [base |-> last.base, pos |-> last.size, payload |-> payload]
    <3>1. <<own.base + own.pos, own.payload>> = <<last.base + last.size, payload>>
      OBVIOUS
    <3> HIDE DEF own, last
    <3>2. Below(registry', disk) = Below(registry, disk) \cup {own}
      BY <1>6 DEF own, last
    <3> QED
      BY <2>2, <2>3, <3>1, <3>2
  <2> QED
    BY <1>6, <2>1, <2>2, <2>3, <2>4 DEF AppendsHead, payload
<1>8. PICK pc \in {"idle", "lock"} : wpc' = [wpc EXCEPT ![w] = pc]
  BY DEF Advance
<1>9. WriteFitsFor(w)'
  BY <1>8 DEF TypeOK, WriteFitsFor
<1>10. \A v \in Writers : WriteFitsFor(v)'
  BY <1>8, <1>9, HolderMovesFits DEF Advance, Critical, WriterStates
<1> QED
  BY <1>5, <1>6, <1>7, <1>10 DEF DiskInv

\* Every step of a writer keeps DiskInv; only advance_offset changes the log, and
\* it appends the message at the log end.
LEMMA WriterDisk ==
  ASSUME IInv, DiskInv, NEW w \in Writers, WriterStep(w) \/ \E batch \in Batches : Submit(w, batch)
  PROVE  DiskInv' /\ (SameLog \/ (Advance(w) /\ AppendsHead(w)))
<1> USE DEF IInv
<1>0. disk \in SUBSET Frames
  BY DEF TypeOK
<1>1. CASE Lock(w) \/ \E batch \in Batches : Submit(w, batch)
  <2>1. /\ UNCHANGED <<registry, disk, wmeta>>
        /\ \A v \in Writers : v # w => wpc'[v] = wpc[v] /\ wbatch'[v] = wbatch[v]
        /\ wpc'[w] \in {"lock", "get"}
    BY <1>1 DEF Lock, Submit, TypeOK
  <2>2. \A v \in Writers : WriteFitsFor(v)'
    <3> SUFFICES ASSUME NEW v \in Writers PROVE WriteFitsFor(v)'
      OBVIOUS
    <3>1. CASE v = w
      BY <2>1, <3>1 DEF WriteFitsFor
    <3>2. CASE v # w
      BY <2>1, <3>2 DEF DiskInv, WriteFitsFor, OwnFrame
    <3> QED
      BY <3>1, <3>2
  <2> QED
    BY <2>1, <2>2, UntouchedLog DEF DiskInv
<1>2. CASE GetMeta(w)
  <2>1. LastSegment(registry).size \in Nat
    BY <1>2, TopicIsList DEF GetMeta, CanGetLast
  <2>2. FrameLen(Head(wbatch[w])) \in Nat /\ MaxSegmentSize \in Nat
    BY <1>2, InWork, LogStoreAssumption DEF GetMeta
  <2>3. PICK pc \in {"rollget", "write"} :
          /\ wpc' = [wpc EXCEPT ![w] = pc]
          /\ pc = "write" => \/ LastSegment(registry).size = 0
                             \/ LastSegment(registry).size + FrameLen(Head(wbatch[w])) <= MaxSegmentSize
    <3> DEFINE rolls == ShouldRollover(LastSegment(registry), Head(wbatch[w])) /\ LastSegment(registry).size # 0
    <3>1. wpc' = [wpc EXCEPT ![w] = IF rolls THEN "rollget" ELSE "write"]
      BY <1>2 DEF GetMeta
    <3>2. ~rolls => \/ LastSegment(registry).size = 0
                    \/ LastSegment(registry).size + FrameLen(Head(wbatch[w])) <= MaxSegmentSize
      BY <2>1, <2>2 DEF ShouldRollover
    <3> HIDE DEF rolls
    <3> QED
      BY <3>1, <3>2
  <2>4. WriteFitsFor(w)'
    BY <1>2, <2>3 DEF GetMeta, TypeOK, WriteFitsFor
  <2> QED
    BY <1>2, <2>3, <2>4, HolderLooks DEF GetMeta, Critical, WriterStates
<1>3. CASE TopicMissing(w)
  <2>1. WriteFitsFor(w)'
    BY <1>3 DEF TopicMissing, TypeOK, WriteFitsFor
  <2> QED
    BY <1>3, <2>1, HolderLooks DEF TopicMissing, Critical, WriterStates
<1>4. CASE InitTopicRaises(w) \/ WriteRaises(w)
  <2>1. wpc' = [wpc EXCEPT ![w] = "idle"] /\ UNCHANGED <<registry, disk>> /\ wpc[w] \in Critical
    BY <1>4 DEF InitTopicRaises, WriteRaises, Abort, Critical
  <2>2. WriteFitsFor(w)'
    BY <2>1 DEF TypeOK, WriteFitsFor
  <2> QED
    BY <2>1, <2>2, HolderLooks DEF WriterStates
<1>5. CASE RollGet(w)
  <2>1. WriteFitsFor(w)'
    BY <1>5 DEF RollGet, TypeOK, WriteFitsFor
  <2> QED
    BY <1>5, <2>1, HolderLooks DEF RollGet, Critical, WriterStates
<1>6. CASE InitTopic(w)
  <2>1. registry = NoTopic
    BY <1>6, NoSecondAtZero DEF InitTopic, TypeOK, RegistryChained
  <2>2. registry' # NoTopic /\ AllFilled(registry', disk') /\ SameLog
    BY <1>6, <2>1, FirstSegmentEmpty DEF InitTopic
  <2>3. WriteFitsFor(w)'
    BY <1>6 DEF InitTopic, TypeOK, WriteFitsFor, NewSegment
  <2>4. \A v \in Writers : WriteFitsFor(v)'
    BY <1>6, <2>3, HolderMovesFits DEF InitTopic, Critical, WriterStates
  <2> QED
    BY <1>6, <2>2, <2>4 DEF InitTopic, DiskInv
<1>7. CASE RollSeal(w)
  <2>1. registry # NoTopic /\ wmeta[w] = LastSegment(registry)
    BY <1>7 DEF RollSeal, MetaCurrent, MetaCurrentFor
  <2>2. LastSegment(registry).state = ACTIVE
    BY <1>7, <2>1, HolderSeesActive DEF RollSeal, Critical
  <2>3. registry \in Seq(SegmentMeta) /\ Chained(registry) /\ Len(registry) > 0
    BY <2>1, TopicIsList DEF Chained
  <2>4. /\ registry' \in Seq(SegmentMeta) /\ registry' # NoTopic /\ Len(registry') = Len(registry)
        /\ \A i \in 1..Len(registry) : i # Len(registry) => registry'[i] = registry[i]
        /\ LastSegment(registry').base = LastSegment(registry).base
        /\ LastSegment(registry').size = LastSegment(registry).size
    BY <1>7, <2>1, <2>2, <2>3, SealKeepsChain DEF RollSeal
  <2>5. disk' = disk
    BY <1>7 DEF RollSeal
  <2>6. AllFilled(registry', disk) /\ Below(registry', disk) = Below(registry, disk)
    BY <2>1, <2>3, <2>4, SealAtEnd DEF DiskInv
  <2>7. LatestOffset(registry') = LatestOffset(registry)
    BY <2>4 DEF LatestOffset, EndOffset
  <2>8. SameLog
    BY <2>1, <2>4, <2>5, <2>6, <2>7, CommittedIsBelow, CommittedIsBelowNext DEF SameLog
  <2>9. WriteFitsFor(w)'
    BY <1>7 DEF RollSeal, TypeOK, WriteFitsFor
  <2>10. \A v \in Writers : WriteFitsFor(v)'
    BY <1>7, <2>9, HolderMovesFits DEF RollSeal, Critical, WriterStates
  <2> QED
    BY <2>5, <2>6, <2>8, <2>10 DEF DiskInv
<1>8. CASE RollCreate(w)
  <2> DEFINE base == EndOffset(wmeta[w])
  <2>1. /\ registry # NoTopic
        /\ base = EndOffset(LastSegment(registry)) /\ LastSegment(registry).size > 0
        /\ LastSegment(registry).state = SEALED
    BY <1>8 DEF RollCreate, MetaCurrent, MetaCurrentFor, EndOffset
  <2>2. registry \in Seq(SegmentMeta) /\ Chained(registry)
    BY <2>1, TopicIsList
  <2>3. /\ base \in Nat
        /\ registry' \in Seq(SegmentMeta) /\ registry' # NoTopic
        /\ LastSegment(registry') = NewSegment(base)
        /\ Len(registry') = Len(registry) + 1
        /\ \A i \in 1..Len(registry) : registry'[i] = registry[i]
    BY <1>8, <2>1, <2>2, CreateExtendsChain DEF RollCreate
  <2>4. disk' = disk /\ wmeta' = [wmeta EXCEPT ![w] = NewSegment(base)]
    BY <1>8 DEF RollCreate
  <2> HIDE DEF base
  <2>5. AllFilled(registry', disk) /\ Below(registry', disk) = Below(registry, disk)
    BY <1>0, <2>1, <2>2, <2>3, CreateAtEnd DEF DiskInv
  <2>6. LatestOffset(registry') = LatestOffset(registry)
    BY <2>1, <2>3 DEF LatestOffset, EndOffset, NewSegment
  <2>7. SameLog
    BY <2>1, <2>3, <2>4, <2>5, <2>6, CommittedIsBelow, CommittedIsBelowNext DEF SameLog
  <2>8. WriteFitsFor(w)'
    BY <1>8, <2>4 DEF RollCreate, TypeOK, WriteFitsFor, NewSegment
  <2>9. \A v \in Writers : WriteFitsFor(v)'
    BY <1>8, <2>8, HolderMovesFits DEF RollCreate, Critical, WriterStates
  <2> QED
    BY <2>4, <2>5, <2>7, <2>9 DEF DiskInv
<1>9. CASE WriteFile(w)
  <2>1. registry # NoTopic /\ wmeta[w] = LastSegment(registry) /\ Head(wbatch[w]) \in Payloads
    BY <1>9, InWork DEF WriteFile, MetaCurrent, MetaCurrentFor
  <2>2. /\ registry \in Seq(SegmentMeta) /\ Chained(registry)
        /\ wmeta[w].base \in Nat /\ wmeta[w].size \in Nat
    BY <2>1, TopicIsList
  <2>3. /\ disk' = WriteFrame(disk, wmeta[w].base, wmeta[w].size, Head(wbatch[w]))
        /\ UNCHANGED <<registry, wbatch, wmeta>>
    BY <1>9 DEF WriteFile
  <2>4. Disjoint(disk')
    BY <1>0, <2>1, <2>2, <2>3, WriteKeepsDisjoint DEF DiskInv
  <2>5. AllFilled(registry, disk') /\ Below(registry, disk') = Below(registry, disk)
    BY <1>0, <2>1, <2>2, <2>3, WriteAtEnd DEF DiskInv
  <2>6. SameLog
    BY <2>1, <2>3, <2>5, CommittedIsBelow, CommittedIsBelowNext DEF SameLog
  <2>7. WriteFitsFor(w)'
    BY <1>9, <2>3 DEF WriteFile, WriteFrame, TypeOK, DiskInv, WriteFitsFor, OwnFrame
  <2>8. \A v \in Writers : WriteFitsFor(v)'
    BY <1>9, <2>7, HolderMovesFits DEF WriteFile, Critical, WriterStates
  <2> QED
    BY <2>3, <2>4, <2>5, <2>6, <2>8 DEF DiskInv
<1>10. CASE Advance(w)
  BY <1>10, AdvanceDisk
<1> QED
  BY <1>1, <1>2, <1>3, <1>4, <1>5, <1>6, <1>7, <1>8, <1>9, <1>10 DEF WriterStep

\* The files are empty, or unread, when a process starts.
LEMMA InitDisk == Init => DiskInv
BY DEF Init, DiskInv, Disjoint, WriteFitsFor

\* Every step keeps DiskInv and is, to the callers of LogManager, an append at
\* the log end, a restart with an empty log, or nothing.
LEMMA NextDisk ==
  ASSUME IInv, DiskInv, [Next]_vars
  PROVE  /\ DiskInv'
         /\ \/ SameLog
            \/ \E w \in Writers : Advance(w) /\ AppendsHead(w)
            \/ Restart /\ Committed' = {} /\ LogEnd' = 0
<1>0. ASSUME UNCHANGED <<registry, disk, wpc, wbatch, wmeta>> PROVE DiskInv' /\ SameLog
  BY <1>0, UntouchedLog DEF DiskInv, WriteFitsFor, OwnFrame
<1>1. ASSUME NEW w \in Writers, WriterStep(w) \/ \E batch \in Batches : Submit(w, batch)
      PROVE  DiskInv' /\ (SameLog \/ (Advance(w) /\ AppendsHead(w)))
  BY <1>1, WriterDisk
<1>2. CASE CreateTopicCheck \/ CreateTopicRaises
  BY <1>0, <1>2 DEF CreateTopicCheck, CreateTopicRaises, writerVars
<1>3. CASE CreateTopic
  <2>1. registry = NoTopic
    BY <1>3, NoSecondAtZero DEF CreateTopic, IInv, TypeOK, RegistryChained
  <2>2. AllFilled(registry', disk') /\ SameLog
    BY <1>3, <2>1, FirstSegmentEmpty DEF CreateTopic, IInv
  <2> QED
    BY <1>3, <2>2 DEF CreateTopic, writerVars, DiskInv, WriteFitsFor, OwnFrame
<1>4. ASSUME NEW r \in Readers,
             \/ ReaderStep(r)
             \/ ReaderCall(r)
      PROVE  DiskInv' /\ SameLog
  BY <1>0, <1>4 DEF ReaderStep, ReaderCall, ReadGet, ReadInside, ReadCalc, ReadCopy, ReadLatest, SendFile, ReadReturn, writerVars
<1>5. CASE Tick
  BY <1>0, <1>5 DEF Tick, writerVars
<1>6. CASE Restart
  <2>1. registry' = NoTopic /\ disk' = disk /\ \A w \in Writers : wpc'[w] = "idle"
    BY <1>6 DEF Restart
  <2>2. DiskInv'
    BY <2>1 DEF DiskInv, WriteFitsFor
  <2>3. Committed' = {} /\ LogEnd' = 0
    BY <2>1 DEF Committed, CommittedFrames, LogEnd
  <2> QED
    BY <1>6, <2>2, <2>3
<1>7. CASE UNCHANGED vars
  BY <1>0, <1>7 DEF vars, writerVars
<1> QED
  BY <1>1, <1>2, <1>3, <1>4, <1>5, <1>6, <1>7 DEF Next

\* The files of a topic, for any writers, batches, payloads and bounds.
THEOREM DiskInvariant == Spec => []DiskInv
<1>1. IInv /\ DiskInv /\ [Next]_vars => DiskInv'
  BY NextDisk
<1> QED
  BY <1>1, InitDisk, LogStoreInvariant, PTL DEF Spec

\* The committed bytes of every segment are whole messages back to back, also in
\* a file that still holds frames of a previous process.
THEOREM CommittedFramesTile == Spec => []FramesTile
<1>1. DiskInv => FramesTile
  BY DEF DiskInv, AllFilled, Filled, Disjoint, FramesTile
<1> QED
  BY <1>1, DiskInvariant, PTL

\* A segment outgrows max_segment_size only by one message alone in it.
THEOREM SegmentsBounded == Spec => []SegmentBounded
<1>1. DiskInv => SegmentBounded
  BY DEF DiskInv, AllFilled, Filled, SegmentBounded
<1> QED
  BY <1>1, DiskInvariant, PTL

-----------------------------------------------------------------------------
\* The offsets write_batch has collected so far can be read.
DoneReadable == \A w \in Writers : \A i \in 1..Len(wdone[w]) : wdone[w][i] \in Committed

\* Only the end of a batch acknowledges, only advance_offset collects an offset.
LEMMA AcksUntouched ==
  ASSUME IInv, [Next]_vars
  PROVE  \/ \E w \in Writers : Advance(w)
         \/ Restart
         \/ /\ UNCHANGED <<acked, restarts>>
            /\ \A v \in Writers : wdone'[v] = wdone[v] \/ wdone'[v] = <<>>
<1> DEFINE Quiet == /\ UNCHANGED <<acked, restarts>>
                    /\ \A v \in Writers : wdone'[v] = wdone[v] \/ wdone'[v] = <<>>
<1>0. UNCHANGED <<acked, restarts, wdone>> => Quiet
  OBVIOUS
<1>1. ASSUME NEW w \in Writers, WriterStep(w) \/ \E batch \in Batches : Submit(w, batch), ~Advance(w)
      PROVE  Quiet
  <2>1. CASE InitTopicRaises(w) \/ WriteRaises(w)
    BY <2>1 DEF InitTopicRaises, WriteRaises, Abort, envVars, IInv, TypeOK
  <2>2. CASE ~(InitTopicRaises(w) \/ WriteRaises(w))
    <3>1. UNCHANGED <<acked, restarts, wdone>>
      BY <1>1, <2>2 DEF WriterStep, Submit, Lock, GetMeta, TopicMissing, InitTopic, RollGet, RollSeal,
         RollCreate, WriteFile, envVars
    <3> QED
      BY <1>0, <3>1
  <2> QED
    BY <2>1, <2>2
<1>2. ASSUME CreateTopicCheck \/ CreateTopic \/ CreateTopicRaises \/ Tick PROVE Quiet
  BY <1>0, <1>2 DEF CreateTopicCheck, CreateTopic, CreateTopicRaises, Tick, writerVars, envVars
<1>3. ASSUME NEW r \in Readers,
             \/ ReaderStep(r)
             \/ ReaderCall(r)
      PROVE  Quiet
  BY <1>0, <1>3 DEF ReaderStep, ReaderCall, ReadGet, ReadInside, ReadCalc, ReadCopy, ReadLatest, SendFile, ReadReturn, writerVars, envVars
<1>4. ASSUME UNCHANGED vars PROVE Quiet
  BY <1>0, <1>4 DEF vars, writerVars, envVars
<1> HIDE DEF Quiet
<1>5. (\E w \in Writers : Advance(w)) \/ Restart \/ Quiet
  BY <1>1, <1>2, <1>3, <1>4 DEF Next
<1> QED
  BY <1>5 DEF Quiet

\* Every offset write_batch collected or returned stays readable until the
\* process is restarted.
LEMMA NextAcks ==
  ASSUME IInv, DiskInv, DoneReadable, AckedReadable, [Next]_vars
  PROVE  DoneReadable' /\ AckedReadable'
<1>1. ASSUME NEW w \in Writers, Advance(w) PROVE DoneReadable' /\ AckedReadable'
  <2> DEFINE entry == Written(wmeta[w], Head(wbatch[w]))
  <2>1. Committed' = Committed \cup {entry}
    BY <1>1, AdvanceDisk DEF AppendsHead
  <2>2. /\ restarts' = restarts
        /\ acked' = acked \/ acked' = acked \cup {entry} \cup {wdone[w][i] : i \in 1..Len(wdone[w])}
        /\ wdone' = [wdone EXCEPT ![w] = <<>>] \/ wdone' = [wdone EXCEPT ![w] = Append(@, entry)]
    BY <1>1 DEF Advance, envVars
  <2> HIDE DEF entry
  <2>3. \A i \in 1..Len(wdone[w]) : wdone[w][i] \in Committed
    BY DEF DoneReadable
  <2>4. AckedReadable'
    <3>1. {wdone[w][i] : i \in 1..Len(wdone[w])} \subseteq Committed
      BY <2>3
    <3>2. restarts = 0 => acked \subseteq Committed
      BY DEF AckedReadable
    <3>3. restarts' = 0 => acked' \subseteq Committed'
      BY <2>1, <2>2, <3>1, <3>2
    <3> QED
      BY <3>3 DEF AckedReadable
  <2>5. ASSUME NEW v \in Writers, NEW i \in 1..Len(wdone'[v]) PROVE wdone'[v][i] \in Committed'
    <3>1. CASE wdone'[v] = wdone[v]
      BY <2>1, <3>1 DEF DoneReadable
    <3>2. CASE wdone'[v] = <<>>
      BY <3>2
    <3>3. CASE v = w /\ wdone'[v] = Append(wdone[w], entry)
      <4>1. wdone[w] \in Seq(Nat \X Payloads)
        BY DEF IInv, TypeOK
      <4>2. i \in 1..Len(wdone[w]) \/ i = Len(wdone[w]) + 1
        BY <3>3, <4>1
      <4> QED
        BY <2>1, <2>3, <3>3, <4>1, <4>2
    <3>4. wdone'[v] = wdone[v] \/ wdone'[v] = <<>> \/ (v = w /\ wdone'[v] = Append(wdone[w], entry))
      BY <2>2 DEF IInv, TypeOK
    <3> QED
      BY <3>1, <3>2, <3>3, <3>4
  <2> QED
    BY <2>4, <2>5 DEF DoneReadable
<1>2. CASE Restart
  <2>1. /\ restarts' # 0 /\ \A v \in Writers : wdone'[v] = <<>>
    BY <1>2 DEF Restart, IInv, TypeOK
  <2> QED
    BY <2>1 DEF DoneReadable, AckedReadable
<1>3. CASE /\ UNCHANGED <<acked, restarts>>
           /\ \A v \in Writers : wdone'[v] = wdone[v] \/ wdone'[v] = <<>>
  <2>1. CASE SameLog
    BY <1>3, <2>1 DEF SameLog, DoneReadable, AckedReadable
  <2> QED
    BY <1>1, <1>2, <2>1, NextDisk
<1> QED
  BY <1>1, <1>2, <1>3, AcksUntouched

\* Whatever fails in between, every offset append_batch returned reads back the
\* message it was returned for, until the process is restarted.
THEOREM AckedStaysReadable == Spec => []AckedReadable
<1>1. Init => DoneReadable /\ AckedReadable
  BY DEF Init, DoneReadable, AckedReadable
<1>2. IInv /\ DiskInv /\ (DoneReadable /\ AckedReadable) /\ [Next]_vars => (DoneReadable /\ AckedReadable)'
  BY NextAcks
<1> QED
  BY <1>1, <1>2, LogStoreInvariant, DiskInvariant, PTL DEF Spec

-----------------------------------------------------------------------------
\* The log LogManager shows its callers implements AbstractLog: a step of the
\* writers, readers, create_topic or the clock is an append at the log end or a
\* stutter, and a restart of the process is a restart of the abstract log.
THEOREM ImplementsAbstractLog == Spec => Refinement
<1>1. Init => Abs!Init
  BY NothingCommitted DEF Init, Abs!Init
<1>2. ASSUME IInv, DiskInv, [Next]_vars PROVE [Abs!Next]_<<Committed, LogEnd>>
  <2>1. CASE SameLog
    BY <2>1 DEF SameLog
  <2>2. ASSUME NEW w \in Writers, Advance(w), AppendsHead(w) PROVE Abs!Next
    <3>1. Head(wbatch[w]) \in Payloads
      BY <1>2, <2>2, InWork DEF IInv, Advance
    <3>2. Abs!Append(Head(wbatch[w]))
      BY <2>2 DEF AppendsHead, Abs!Append
    <3> QED
      BY <3>1, <3>2 DEF Abs!Next
  <2>3. CASE Restart /\ Committed' = {} /\ LogEnd' = 0
    BY <2>3 DEF Abs!Next, Abs!Restart
  <2> QED
    BY <1>2, <2>1, <2>2, <2>3, NextDisk
<1> QED
  BY <1>1, <1>2, LogStoreInvariant, DiskInvariant, PTL DEF Spec, Refinement, Abs!Spec

-----------------------------------------------------------------------------
(***************************************************************************)
(* Reads.  First the loop of _calc_read_size: that a function with its     *)
(* equation exists, and what every such function returns when it starts at *)
(* a message and stops within a segment.                                   *)
(***************************************************************************)

\* f is a loop over the states D: it stops in Stop with val, and goes on to next.
IsLoop(D, Stop, next, val, f) == f = [s \in D |-> IF s \in Stop THEN val[s] ELSE f[next[s]]]

\* A loop that goes from state to state until it stops has a function with its
\* equation, whether it stops or not: its value is taken at the stopping state
\* that lies in every set closed under the loop's body.
LEMMA LoopExists ==
  ASSUME NEW D, NEW Stop \in SUBSET D, NEW next \in [D -> D], NEW val
  PROVE  \E f : IsLoop(D, Stop, next, val, f)
<1> DEFINE Closed == {T \in SUBSET D : \A x \in T : x \in Stop \/ next[x] \in T}
           Reach(s) == {x \in D : \A T \in Closed : s \in T => x \in T}
           Last(s) == CHOOSE e : e \in Reach(s) /\ e \in Stop
           g == [s \in D |-> val[Last(s)]]
<1>1. ASSUME NEW s \in D PROVE s \in Reach(s) /\ Reach(s) \in Closed
  OBVIOUS
<1>2. ASSUME NEW s \in Stop PROVE Last(s) = s
  <2>1. {s} \in Closed
    OBVIOUS
  <2>2. \A e \in Reach(s) : e = s
    BY <2>1
  <2> QED BY <1>1, <2>2
<1>3. ASSUME NEW s \in D, s \notin Stop PROVE Last(s) = Last(next[s])
  <2> DEFINE both == {s} \cup Reach(next[s])
  <2>0. next[s] \in D
    OBVIOUS
  <2>1. next[s] \in Reach(next[s]) /\ Reach(next[s]) \in Closed
    BY <1>1, <2>0
  <2>2. Reach(s) \in Closed /\ s \in Reach(s)
    BY <1>1
  <2>3. both \in Closed /\ s \in both
    BY <2>1
  <2>4. \A x \in Reach(s) : x \in both
    BY <2>3
  <2>5. next[s] \in Reach(s)
    BY <1>3, <2>2
  <2>6. \A x \in Reach(next[s]) : x \in Reach(s)
    BY <2>2, <2>5
  <2> HIDE DEF Reach
  <2>7. \A e : (e \in Reach(s) /\ e \in Stop) <=> (e \in Reach(next[s]) /\ e \in Stop)
    BY <1>3, <2>4, <2>6
  <2> QED BY <2>7
<1> HIDE DEF Last
<1>4. ASSUME NEW s \in D PROVE g[s] = IF s \in Stop THEN val[s] ELSE g[next[s]]
  <2>0. next[s] \in D
    OBVIOUS
  <2>1. CASE s \in Stop
    BY <1>2, <2>1
  <2>2. CASE s \notin Stop
    BY <1>3, <2>0, <2>2
  <2> QED BY <2>1, <2>2
<1>5. g = [s \in D |-> IF s \in Stop THEN val[s] ELSE g[next[s]]]
  <2>1. g = [s \in D |-> g[s]]
    OBVIOUS
  <2> HIDE DEF g
  <2> QED BY <1>4, <2>1
<1> QED BY <1>5, Zenon DEF IsLoop

\* The loop of _calc_read_size, as a condition on the function that computes it.
Scans(files, base, pos, limit, f) ==
  f = [s \in ScanState |-> IF s.at >= pos + limit THEN s.batch ELSE f[ScanOne(files, base, limit, s)]]

\* The length read at any position is one of a message, or that of an empty one.
LEMMA LenAtTyped ==
  ASSUME NEW files \in SUBSET Frames, NEW base, NEW pos
  PROVE  FrameLenAt(files, base, pos) \in Nat
<1>1. CASE \E f \in files : f.base = base /\ f.pos = pos
  <2> DEFINE g == CHOOSE f \in files : f.base = base /\ f.pos = pos
  <2>1. g \in files
    BY <1>1
  <2>2. FrameLenAt(files, base, pos) = FrameLen(g.payload)
    BY <1>1 DEF FrameLenAt
  <2> HIDE DEF g
  <2> QED BY <2>1, <2>2, FrameTyped
<1>2. CASE ~\E f \in files : f.base = base /\ f.pos = pos
  BY <1>2 DEF FrameLenAt, PrefixSize
<1> QED BY <1>1, <1>2

\* The loop of _calc_read_size moves forward, if only by a prefix.
LEMMA LenAtPositive ==
  ASSUME NEW files \in SUBSET Frames, NEW base, NEW pos
  PROVE  FrameLenAt(files, base, pos) > 0
<1>1. CASE \E f \in files : f.base = base /\ f.pos = pos
  <2> DEFINE g == CHOOSE f \in files : f.base = base /\ f.pos = pos
  <2>1. g \in files
    BY <1>1
  <2>2. FrameLenAt(files, base, pos) = FrameLen(g.payload)
    BY <1>1 DEF FrameLenAt
  <2> HIDE DEF g
  <2> QED BY <2>1, <2>2, FrameTyped
<1>2. CASE ~\E f \in files : f.base = base /\ f.pos = pos
  BY <1>2 DEF FrameLenAt, PrefixSize
<1> QED BY <1>1, <1>2

\* _calc_read_size is the value of such a function.
LEMMA ScanIsLoop ==
  ASSUME NEW files \in SUBSET Frames, NEW base \in Nat, NEW pos \in Nat, NEW limit \in Nat
  PROVE  \E f : /\ Scans(files, base, pos, limit, f)
                /\ CalcReadSize(files, base, pos, limit) =
                     IF f[[at |-> pos, batch |-> 0]] = 0 THEN FrameLenAt(files, base, pos)
                                                         ELSE f[[at |-> pos, batch |-> 0]]
<1> DEFINE Stop == {s \in ScanState : s.at >= pos + limit}
           next == [s \in ScanState |-> ScanOne(files, base, limit, s)]
           val == [s \in ScanState |-> s.batch]
<1>1. ASSUME NEW s \in ScanState PROVE ScanOne(files, base, limit, s) \in ScanState
  <2>1. FrameLenAt(files, base, s.at) \in Nat
    BY LenAtTyped
  <2> QED BY <2>1 DEF ScanOne, ScanState
<1>2. next \in [ScanState -> ScanState] /\ Stop \in SUBSET ScanState
  BY <1>1
<1>3. /\ \A s \in ScanState : next[s] = ScanOne(files, base, limit, s) /\ val[s] = s.batch
      /\ \A s \in ScanState : s \in Stop <=> s.at >= pos + limit
  OBVIOUS
<1> HIDE DEF next, val, Stop
<1>4. PICK g : IsLoop(ScanState, Stop, next, val, g)
  BY <1>2, LoopExists
<1>5. Scans(files, base, pos, limit, g)
  BY <1>3, <1>4 DEF Scans, IsLoop
<1> DEFINE f == CHOOSE h : Scans(files, base, pos, limit, h)
<1>6. Scans(files, base, pos, limit, f)
  BY <1>5
<1>7. CalcReadSize(files, base, pos, limit) =
        IF f[[at |-> pos, batch |-> 0]] = 0 THEN FrameLenAt(files, base, pos)
                                            ELSE f[[at |-> pos, batch |-> 0]]
  BY Zenon DEF CalcReadSize, Scans
<1> QED BY <1>6, <1>7

\* The first two conjuncts of Filled: messages end to end, up to the size.
Tiled(files, base, size) ==
  /\ \A p \in 0..(size - 1) : \E f \in files : Overlaps(f, base, p, 1)
  /\ \A f \in files : f.base = base /\ f.pos < size => f.pos + FrameLen(f.payload) <= size

StartsAt(files, base, q) == \E f \in files : f.base = base /\ f.pos = q

\* The length read where a message starts is its length.
LEMMA LenAtFrame ==
  ASSUME NEW files \in SUBSET Frames, Disjoint(files), NEW f \in files
  PROVE  FrameLenAt(files, f.base, f.pos) = FrameLen(f.payload)
<1> DEFINE g == CHOOSE h \in files : h.base = f.base /\ h.pos = f.pos
<1>1. g \in files /\ g.base = f.base /\ g.pos = f.pos
  OBVIOUS
<1>2. FrameLenAt(files, f.base, f.pos) = FrameLen(g.payload)
  BY DEF FrameLenAt
<1> HIDE DEF g
<1>3. Overlaps(g, f.base, f.pos, FrameLen(f.payload))
  BY <1>1, FrameTyped DEF Overlaps
<1>4. f = g
  BY <1>1, <1>3 DEF Disjoint
<1> QED BY <1>2, <1>4

\* Where a message ends inside a tiled segment, the next one starts.
LEMMA NextStarts ==
  ASSUME NEW files \in SUBSET Frames, Disjoint(files), NEW base \in Nat, NEW size \in Nat,
         Tiled(files, base, size), NEW f \in files, f.base = base, f.pos < size
  PROVE  LET end == f.pos + FrameLen(f.payload)
         IN  /\ end \in Nat /\ end <= size /\ f.pos < end
             /\ end = size \/ StartsAt(files, base, end)
<1> DEFINE end == f.pos + FrameLen(f.payload)
<1>1. f.pos \in Nat /\ FrameLen(f.payload) \in Nat /\ FrameLen(f.payload) > 0
  BY FrameTyped
<1>2. end \in Nat /\ end <= size /\ f.pos < end
  BY <1>1 DEF Tiled
<1>3. ASSUME end # size PROVE StartsAt(files, base, end)
  <2>1. end \in 0..(size - 1)
    BY <1>2, <1>3
  <2>2. PICK h \in files : Overlaps(h, base, end, 1)
    BY <2>1 DEF Tiled
  <2>3. h.pos \in Nat /\ FrameLen(h.payload) \in Nat /\ FrameLen(h.payload) > 0
    BY FrameTyped
  <2>4. h.base = base /\ h.pos <= end /\ end < h.pos + FrameLen(h.payload)
    BY <1>2, <2>2, <2>3 DEF Overlaps
  <2>5. ASSUME h.pos # end PROVE FALSE
    <3>1. Overlaps(h, f.base, f.pos, FrameLen(f.payload))
      BY <1>1, <2>3, <2>4, <2>5 DEF Overlaps
    <3>2. f = h
      BY <3>1 DEF Disjoint
    <3> QED BY <1>1, <2>4, <3>2
  <2> QED BY <2>4, <2>5 DEF StartsAt
<1> QED BY <1>2, <1>3

\* What the loop returns from pos: a number of bytes within the limit after which
\* a message starts, or the segment ends, and the next message does not fit.
LargestFit(files, base, size, pos, limit, n) ==
  /\ n \in Nat /\ n <= limit
  /\ pos + n = size \/ StartsAt(files, base, pos + n)
  /\ \A f \in files : f.base = base /\ f.pos = pos + n => n + FrameLen(f.payload) > limit

\* The loop never skips a message and then takes a later one: the first that does
\* not fit is the last it looks at.
LEMMA ScanFits ==
  ASSUME NEW files \in SUBSET Frames, Disjoint(files), NEW base \in Nat, NEW size \in Nat,
         Tiled(files, base, size), NEW pos \in Nat, NEW limit \in Nat, pos + limit <= size,
         NEW f, Scans(files, base, pos, limit, f),
         StartsAt(files, base, pos)
  PROVE  LargestFit(files, base, size, pos, limit, f[[at |-> pos, batch |-> 0]])
<1> DEFINE Fit(n) == LargestFit(files, base, size, pos, limit, n)
           Sync == {s \in ScanState : /\ s.at = pos + s.batch /\ s.batch <= limit
                                      /\ s.at = size \/ StartsAt(files, base, s.at)}
           Wrong == {s \in Sync : ~Fit(f[s])}
           Left == {limit - s.batch : s \in Wrong}
<1>1. \A s \in ScanState :
        f[s] = IF s.at >= pos + limit THEN s.batch ELSE f[ScanOne(files, base, limit, s)]
  BY DEF Scans
<1>2. ASSUME NEW s \in Sync
      PROVE  \/ Fit(f[s])
             \/ \E t \in Sync : f[t] = f[s] /\ t.batch > s.batch
  <2>1. s \in ScanState /\ s.at \in Nat /\ s.batch \in Nat /\ s.at = pos + s.batch /\ s.batch <= limit
    BY DEF ScanState
  <2>2. CASE s.at >= pos + limit
    <3>1. f[s] = limit /\ s.batch = limit
      BY <1>1, <2>1, <2>2
    <3>2. \A g \in files : limit + FrameLen(g.payload) > limit
      BY FrameTyped
    <3> QED BY <2>1, <3>1, <3>2 DEF LargestFit
  <2>3. CASE ~(s.at >= pos + limit)
    <3>1. PICK g \in files : g.base = base /\ g.pos = s.at
      BY <2>1, <2>3 DEF StartsAt
    <3> DEFINE len == FrameLen(g.payload)
               t == ScanOne(files, base, limit, s)
    <3>2. len \in Nat /\ len > 0
      BY FrameTyped
    <3>3. FrameLenAt(files, base, s.at) = len
      BY <3>1, LenAtFrame
    <3>4. t = [at |-> s.at + len, batch |-> IF s.batch + len <= limit THEN s.batch + len ELSE s.batch]
      BY <3>3 DEF ScanOne
    <3>5. /\ s.at + len <= size
          /\ s.at + len = size \/ StartsAt(files, base, s.at + len)
      <4>1. g.pos < size
        BY <2>1, <2>3, <3>1
      <4> QED BY <3>1, <4>1, NextStarts
    <3> HIDE DEF len, t
    <3>6. f[s] = f[t]
      BY <1>1, <2>1, <2>3 DEF t
    <3>7. CASE s.batch + len <= limit
      <4>1. t \in ScanState /\ t.at = s.at + len /\ t.batch = s.batch + len
        BY <2>1, <3>2, <3>4, <3>7 DEF ScanState
      <4>2. t \in Sync
        BY <2>1, <3>2, <3>5, <3>7, <4>1
      <4> QED BY <2>1, <3>2, <3>6, <4>1, <4>2
    <3>8. CASE ~(s.batch + len <= limit)
      <4>1. t \in ScanState /\ t.at = s.at + len /\ t.batch = s.batch
        BY <2>1, <3>2, <3>4, <3>8 DEF ScanState
      <4>2. f[t] = s.batch
        BY <1>1, <2>1, <3>2, <3>8, <4>1
      <4>3. ASSUME NEW h \in files, h.base = base, h.pos = pos + s.batch
            PROVE  s.batch + FrameLen(h.payload) > limit
        <5>1. FrameLenAt(files, base, s.at) = FrameLen(h.payload)
          BY <2>1, <4>3, LenAtFrame
        <5> QED BY <2>1, <3>2, <3>3, <3>8, <5>1
      <4> QED BY <2>1, <3>6, <4>2, <4>3 DEF LargestFit
    <3> QED BY <3>7, <3>8
  <2> QED BY <2>2, <2>3
<1>3. ASSUME Wrong # {} PROVE FALSE
  <2>1. \A s \in Sync : limit - s.batch \in Nat /\ s.batch \in Nat
    BY DEF ScanState
  <2>2. Left \in SUBSET Nat /\ Left # {}
    BY <1>3, <2>1
  <2>3. PICK l \in Left : \A m \in Left : l <= m
    <3> HIDE DEF Left
    <3> QED BY <2>2, NatMin
  <2>4. PICK s \in Wrong : l = limit - s.batch
    OBVIOUS
  <2> HIDE DEF Fit
  <2>5. PICK t \in Sync : f[t] = f[s] /\ t.batch > s.batch
    BY <1>2, <2>4
  <2>6. t \in Wrong
    BY <2>4, <2>5
  <2>7. l <= limit - t.batch
    BY <2>3, <2>6
  <2> HIDE DEF Sync
  <2> QED BY <2>1, <2>4, <2>5, <2>7
<1>4. [at |-> pos, batch |-> 0] \in Sync
  BY DEF ScanState
<1> HIDE DEF Sync, Fit
<1>5. Fit(f[[at |-> pos, batch |-> 0]])
  BY <1>3, <1>4
<1> QED BY <1>5 DEF Fit

\* Whatever the file holds, the loop never takes more than the limit.
LEMMA ScanBounded ==
  ASSUME NEW files \in SUBSET Frames, NEW base \in Nat, NEW pos \in Nat, NEW limit \in Nat,
         NEW f, Scans(files, base, pos, limit, f)
  PROVE  f[[at |-> pos, batch |-> 0]] \in 0..limit
<1> DEFINE Small == {s \in ScanState : s.batch <= limit}
           Wrong == {s \in Small : f[s] \notin 0..limit}
           Left(s) == IF s.at >= pos + limit THEN 0 ELSE (pos + limit) - s.at
<1>1. \A s \in ScanState :
        f[s] = IF s.at >= pos + limit THEN s.batch ELSE f[ScanOne(files, base, limit, s)]
  BY DEF Scans
<1>2. ASSUME NEW s \in Wrong PROVE \E t \in Wrong : Left(t) < Left(s)
  <2>1. s \in ScanState /\ s.at \in Nat /\ s.batch \in Nat /\ s.batch <= limit
    BY DEF ScanState
  <2>2. s.at < pos + limit
    BY <1>1, <2>1
  <2> DEFINE len == FrameLenAt(files, base, s.at)
             t == ScanOne(files, base, limit, s)
  <2>3. len \in Nat /\ len > 0
    BY LenAtTyped, LenAtPositive
  <2>4. t = [at |-> s.at + len, batch |-> IF s.batch + len <= limit THEN s.batch + len ELSE s.batch]
    BY DEF ScanOne
  <2>5. f[s] = f[t]
    BY <1>1, <2>1, <2>2
  <2> HIDE DEF len, t
  <2>6. t \in Small /\ t.at = s.at + len
    BY <2>1, <2>3, <2>4 DEF ScanState
  <2>7. t \in Wrong
    BY <2>5, <2>6
  <2>8. Left(t) < Left(s)
    BY <2>1, <2>2, <2>3, <2>6
  <2> QED BY <2>7, <2>8
<1>3. \A s \in Small : Left(s) \in Nat
  BY DEF ScanState
<1> HIDE DEF Left
<1>4. ASSUME Wrong # {} PROVE FALSE
  <2> DEFINE Lefts == {Left(s) : s \in Wrong}
  <2>1. Lefts \in SUBSET Nat /\ Lefts # {}
    BY <1>3, <1>4
  <2>2. PICK l \in Lefts : \A m \in Lefts : l <= m
    <3> HIDE DEF Lefts
    <3> QED BY <2>1, NatMin
  <2>3. PICK s \in Wrong : l = Left(s)
    BY <2>2
  <2>4. PICK t \in Wrong : Left(t) < Left(s)
    BY <1>2, <2>3
  <2>5. l <= Left(t) /\ Left(t) \in Nat /\ l \in Nat
    BY <1>3, <2>1, <2>2, <2>4
  <2> QED BY <2>3, <2>4, <2>5
<1>5. [at |-> pos, batch |-> 0] \in Small
  BY DEF ScanState
<1> QED BY <1>4, <1>5

\* What _calc_read_size returns for a read that starts at a message: at least one
\* message, whole ones, as many as fit.
LEMMA CalcFits ==
  ASSUME NEW files \in SUBSET Frames, Disjoint(files), NEW base \in Nat, NEW size \in Nat,
         Tiled(files, base, size), NEW pos \in Nat, NEW limit \in Nat, pos + limit <= size,
         NEW first \in files, first.base = base, first.pos = pos, pos < size
  PROVE  LET n == CalcReadSize(files, base, pos, limit)
         IN  /\ n \in Nat /\ n > 0 /\ pos + n <= size
             /\ pos + n = size \/ StartsAt(files, base, pos + n)
             /\ n <= limit \/ n = FrameLen(first.payload)
             /\ \A f \in files : f.base = base /\ f.pos = pos + n => n + FrameLen(f.payload) > limit
<1> DEFINE n == CalcReadSize(files, base, pos, limit)
           len == FrameLen(first.payload)
<1>1. PICK f : /\ Scans(files, base, pos, limit, f)
               /\ n = IF f[[at |-> pos, batch |-> 0]] = 0 THEN FrameLenAt(files, base, pos)
                                                          ELSE f[[at |-> pos, batch |-> 0]]
  BY ScanIsLoop
<1> DEFINE m == f[[at |-> pos, batch |-> 0]]
<1>2. StartsAt(files, base, pos)
  BY DEF StartsAt
<1>3. LargestFit(files, base, size, pos, limit, m)
  BY <1>1, <1>2, ScanFits
<1>4. FrameLenAt(files, base, pos) = len
  BY LenAtFrame
<1>5. /\ len \in Nat /\ len > 0 /\ pos + len <= size
      /\ pos + len = size \/ StartsAt(files, base, pos + len)
  BY NextStarts, FrameTyped
<1>6. \A g \in files : FrameLen(g.payload) \in Nat /\ FrameLen(g.payload) > 0
  BY FrameTyped
<1>7. n = IF m = 0 THEN len ELSE m
  BY <1>1, <1>4
<1> HIDE DEF n, len, m
<1>8. CASE m = 0
  <2>1. 0 + len > limit
    BY <1>3, <1>8 DEF LargestFit, len
  <2> QED BY <1>5, <1>6, <1>7, <1>8, <2>1 DEF n, len
<1>9. CASE m # 0
  BY <1>3, <1>6, <1>7, <1>9 DEF LargestFit, n
<1> QED BY <1>8, <1>9

-----------------------------------------------------------------------------
(***************************************************************************)
(* ReadInv follows a reader from get_segment to its answer.  What it knows *)
(* of the file is about the messages below the size in its copy of the     *)
(* metadata; no writer touches these, so all of it still holds when the    *)
(* copy is stale.  What it chose and copied is exact when the mapping it   *)
(* scanned covers that size, and within it in any case.                    *)
(***************************************************************************)

\* The messages of a segment below the size in a copy of its metadata.
Known(files, meta) == {f \in files : f.base = meta.base /\ f.pos < meta.size}

\* The segment is still in the list and has not shrunk.
Held(reg, meta) == \E i \in 1..Len(reg) : reg[i].base = meta.base /\ meta.size <= reg[i].size

Requests == [offset : Nat, size : Nat, kind : {"bytes", "file"}]

\* The request starts at a message of the segment.
Asked(S, meta, req) ==
  /\ Tiled(S, meta.base, meta.size)
  /\ \E f \in S : meta.base + f.pos = req.offset

\* _calc_read_size's choice of next_offset.
Chosen(S, meta, req, next) ==
  /\ req.offset < next /\ next <= EndOffset(meta)
  /\ next = EndOffset(meta) \/ \E f \in S : meta.base + f.pos = next
  /\ \/ next - req.offset <= req.size
     \/ \E f \in S : meta.base + f.pos = req.offset /\ next = req.offset + FrameLen(f.payload)
  /\ \A f \in S : meta.base + f.pos = next => (next + FrameLen(f.payload)) - req.offset > req.size

\* The bytes a reader has copied.
Copied(S, meta, req, next) == Slice(S, meta.base, req.offset - meta.base, next - req.offset)

\* The mapping the reader scanned shows the whole segment as the reader knows it.
Covers(r) == rcap[r] >= rmeta[r].size

ReadingFor(r) ==
  rpc[r] \notin {"idle", "inside"} =>
    /\ registry # NoTopic /\ Held(registry, rmeta[r])
    /\ Asked(Known(disk, rmeta[r]), rmeta[r], rreq[r])
    /\ rpc[r] # "calc" =>
         /\ rnext[r] <= EndOffset(rmeta[r])
         /\ Covers(r) => Chosen(Known(disk, rmeta[r]), rmeta[r], rreq[r], rnext[r])
    /\ rpc[r] = "done" \/ (rpc[r] = "latest" /\ rreq[r].kind = "bytes") =>
         /\ rdata[r] \subseteq Copied(Known(disk, rmeta[r]), rmeta[r], rreq[r], rnext[r])
         /\ Covers(r) => rdata[r] = Copied(Known(disk, rmeta[r]), rmeta[r], rreq[r], rnext[r])
    /\ rpc[r] = "done" \/ (rpc[r] = "copy" /\ rreq[r].kind = "file") => rnext[r] <= rlatest[r]

ReadInv ==
  /\ rreq \in [Readers -> Requests]
  /\ rnext \in [Readers -> Nat]
  /\ \A r \in Readers : ReadingFor(r)

\* The segments of a chain follow one another up to the log end.
LEMMA ChainEnds ==
  ASSUME NEW reg \in Seq(SegmentMeta), Chained(reg), NEW i \in 1..Len(reg)
  PROVE  /\ EndOffset(reg[i]) \in Nat /\ EndOffset(reg[i]) <= LatestOffset(reg)
         /\ \A j \in 1..Len(reg) : i < j => EndOffset(reg[i]) <= reg[j].base
<1> DEFINE n == Len(reg)
<1>1. /\ n \in Nat /\ n \in 1..n
      /\ \A j \in 1..n : reg[j].base \in Nat /\ reg[j].size \in Nat
  BY ChainEntries
<1>2. ASSUME NEW j \in 1..n, i < j PROVE EndOffset(reg[i]) <= reg[j].base
  <2>1. i \in 1..(n - 1) /\ i + 1 \in 1..n
    BY <1>1, <1>2
  <2>2. reg[i + 1].base = EndOffset(reg[i])
    BY <2>1 DEF Chained
  <2>3. i + 1 = j \/ i + 1 < j
    BY <1>1, <1>2
  <2>4. reg[i + 1].base <= reg[j].base
    <3>1. CASE i + 1 = j
      BY <1>1, <2>1, <3>1
    <3>2. CASE i + 1 < j
      <4>1. reg[i + 1].base < reg[j].base
        BY <2>1, <3>2 DEF Chained, Sorted
      <4> QED BY <1>1, <2>1, <4>1
    <3> QED BY <2>3, <3>1, <3>2
  <2> QED BY <2>2, <2>4
<1>3. EndOffset(reg[i]) \in Nat
  BY <1>1 DEF EndOffset
<1>4. EndOffset(reg[i]) <= LatestOffset(reg)
  <2>1. i = n \/ i < n
    BY <1>1
  <2>2. CASE i = n
    BY <1>3, <2>2 DEF LatestOffset, LastSegment
  <2>3. CASE i < n
    <3>1. EndOffset(reg[i]) <= reg[n].base
      BY <1>1, <1>2, <2>3
    <3>2. LatestOffset(reg) = reg[n].base + reg[n].size
      BY DEF LatestOffset, LastSegment, EndOffset
    <3> QED BY <1>1, <1>3, <3>1, <3>2
  <2> QED BY <2>1, <2>2, <2>3
<1> QED BY <1>2, <1>3, <1>4

\* A list whose segments keep their bases and do not shrink keeps what is held.
LEMMA HeldStays ==
  ASSUME NEW reg \in Seq(SegmentMeta), NEW new \in Seq(SegmentMeta), Len(reg) <= Len(new),
         \A i \in 1..Len(reg) : new[i].base = reg[i].base /\ reg[i].size <= new[i].size,
         NEW meta \in SegmentMeta, Held(reg, meta)
  PROVE  Held(new, meta)
<1>1. PICK i \in 1..Len(reg) : reg[i].base = meta.base /\ meta.size <= reg[i].size
  BY DEF Held
<1>2. Len(reg) \in Nat /\ Len(new) \in Nat /\ i \in 1..Len(new)
  OBVIOUS
<1>3. reg[i] \in SegmentMeta /\ new[i] \in SegmentMeta
  BY <1>2, ElementOfSeq
<1>4. meta.size \in Nat /\ reg[i].size \in Nat /\ new[i].size \in Nat
  BY <1>3 DEF SegmentMeta
<1>5. new[i].base = meta.base /\ meta.size <= new[i].size
  BY <1>1, <1>4
<1> QED BY <1>2, <1>5 DEF Held

\* The messages a reader knows of are readable ones.
LEMMA KnownIsBelow ==
  ASSUME NEW reg \in Seq(SegmentMeta), NEW meta \in SegmentMeta, Held(reg, meta),
         NEW files \in SUBSET Frames
  PROVE  Known(files, meta) = {f \in Below(reg, files) : f.base = meta.base /\ f.pos < meta.size}
<1>1. PICK i \in 1..Len(reg) : reg[i].base = meta.base /\ meta.size <= reg[i].size
  BY DEF Held
<1>2. meta.size \in Nat /\ reg[i].size \in Nat
  <2>1. reg[i] \in SegmentMeta
    BY ElementOfSeq
  <2> QED BY <2>1 DEF SegmentMeta
<1>3. ASSUME NEW f \in files, f.base = meta.base, f.pos < meta.size PROVE f \in Below(reg, files)
  <2>1. f.pos \in Nat
    BY FrameTyped
  <2>2. f.pos < reg[i].size
    BY <1>1, <1>2, <1>3, <2>1
  <2> QED BY <1>1, <1>3, <2>2 DEF Below
<1>4. Below(reg, files) \subseteq files
  BY DEF Below
<1> QED BY <1>3, <1>4 DEF Known

\* No step but a restart takes a segment or a message from a reader that has a
\* copy of the segment's metadata.
LEMMA KnownStays ==
  ASSUME IInv, DiskInv, [Next]_vars, ~Restart, registry # NoTopic,
         NEW meta \in SegmentMeta, Held(registry, meta)
  PROVE  /\ registry' # NoTopic /\ Held(registry', meta)
         /\ Known(disk', meta) = Known(disk, meta)
<1> USE DEF IInv
<1>0. /\ disk \in SUBSET Frames
      /\ registry \in Seq(SegmentMeta) /\ Chained(registry) /\ Len(registry) > 0
      /\ Len(registry) \in Nat
      /\ \A i \in 1..Len(registry) : registry[i].base \in Nat /\ registry[i].size \in Nat
  BY TopicIsList, ChainEntries DEF TypeOK, Chained
<1>1. CASE UNCHANGED <<registry, disk>>
  BY <1>1
<1>2. ASSUME NEW w \in Writers, RollSeal(w)
      PROVE  registry' # NoTopic /\ Held(registry', meta) /\ disk' = disk
  <2>1. wmeta[w] = LastSegment(registry)
    BY <1>2 DEF RollSeal, MetaCurrent, MetaCurrentFor
  <2>2. LastSegment(registry).state = ACTIVE
    BY <1>2, HolderSeesActive DEF RollSeal, Critical
  <2>3. /\ registry' \in Seq(SegmentMeta) /\ registry' # NoTopic /\ Len(registry') = Len(registry)
        /\ \A i \in 1..Len(registry) : i # Len(registry) => registry'[i] = registry[i]
        /\ LastSegment(registry').base = LastSegment(registry).base
        /\ LastSegment(registry').size = LastSegment(registry).size
    BY <1>0, <1>2, <2>1, <2>2, SealKeepsChain DEF RollSeal
  <2>4. \A i \in 1..Len(registry) :
          registry'[i].base = registry[i].base /\ registry[i].size <= registry'[i].size
    BY <1>0, <2>3 DEF LastSegment
  <2>5. Held(registry', meta)
    <3>1. Len(registry) <= Len(registry')
      BY <1>0, <2>3
    <3> QED BY <1>0, <2>3, <2>4, <3>1, HeldStays, Zenon
  <2> QED BY <1>2, <2>3, <2>5 DEF RollSeal
<1>3. ASSUME NEW w \in Writers, RollCreate(w)
      PROVE  registry' # NoTopic /\ Held(registry', meta) /\ disk' = disk
  <2> DEFINE base == EndOffset(wmeta[w])
  <2>1. /\ base = EndOffset(LastSegment(registry)) /\ LastSegment(registry).size > 0
        /\ LastSegment(registry).state = SEALED
    BY <1>3 DEF RollCreate, MetaCurrent, MetaCurrentFor, EndOffset
  <2>2. /\ registry' \in Seq(SegmentMeta) /\ registry' # NoTopic
        /\ Len(registry') = Len(registry) + 1
        /\ \A i \in 1..Len(registry) : registry'[i] = registry[i]
    BY <1>0, <1>3, <2>1, CreateExtendsChain DEF RollCreate
  <2>3. \A i \in 1..Len(registry) :
          registry'[i].base = registry[i].base /\ registry[i].size <= registry'[i].size
    BY <1>0, <2>2
  <2>4. Held(registry', meta)
    BY <1>0, <2>2, <2>3, HeldStays
  <2> QED BY <1>3, <2>2, <2>4 DEF RollCreate
<1>4. ASSUME NEW w \in Writers, Advance(w)
      PROVE  registry' # NoTopic /\ Held(registry', meta) /\ disk' = disk
  <2> DEFINE len == FrameLen(Head(wbatch[w]))
  <2>1. wmeta[w] = LastSegment(registry)
    BY <1>4 DEF Advance, MetaCurrent, MetaCurrentFor
  <2>2. len \in Nat
    BY <1>4, InWork DEF Advance
  <2>3. registry' = AdvanceOffset(registry, LastSegment(registry), len)
    BY <1>4, <2>1 DEF Advance
  <2> HIDE DEF len
  <2>4. /\ registry' \in Seq(SegmentMeta) /\ registry' # NoTopic /\ Len(registry') = Len(registry)
        /\ \A i \in 1..Len(registry) : i # Len(registry) => registry'[i] = registry[i]
        /\ LastSegment(registry').base = LastSegment(registry).base
        /\ LastSegment(registry').size = LastSegment(registry).size + len
    BY <1>0, <2>2, <2>3, AdvanceKeepsChain
  <2>5. \A i \in 1..Len(registry) :
          registry'[i].base = registry[i].base /\ registry[i].size <= registry'[i].size
    BY <1>0, <2>2, <2>4 DEF LastSegment
  <2>6. Held(registry', meta)
    <3>1. Len(registry) <= Len(registry')
      BY <1>0, <2>4
    <3> QED BY <1>0, <2>4, <2>5, <3>1, HeldStays, Zenon
  <2> QED BY <1>4, <2>4, <2>6 DEF Advance
<1>5. ASSUME NEW w \in Writers, WriteFile(w)
      PROVE  registry' = registry /\ Known(disk', meta) = Known(disk, meta)
  <2>1. wmeta[w] = LastSegment(registry) /\ Head(wbatch[w]) \in Payloads
    BY <1>5, InWork DEF WriteFile, MetaCurrent, MetaCurrentFor
  <2>2. /\ disk' = WriteFrame(disk, wmeta[w].base, wmeta[w].size, Head(wbatch[w]))
        /\ registry' = registry
    BY <1>5 DEF WriteFile
  <2>3. Below(registry, disk') = Below(registry, disk)
    BY <1>0, <2>1, <2>2, WriteAtEnd DEF DiskInv
  <2>4. disk' \in SUBSET Frames
    BY NextIInv DEF TypeOK
  <2>5. /\ Known(disk, meta) = {f \in Below(registry, disk) : f.base = meta.base /\ f.pos < meta.size}
        /\ Known(disk', meta) = {f \in Below(registry, disk') : f.base = meta.base /\ f.pos < meta.size}
    BY <1>0, <2>4, KnownIsBelow, Zenon
  <2> QED BY <2>2, <2>3, <2>5
<1>6. ASSUME NEW w \in Writers, InitTopic(w) PROVE FALSE
  BY <1>0, <1>6, NoSecondAtZero DEF InitTopic
<1>7. CASE CreateTopic
  BY <1>0, <1>7, NoSecondAtZero DEF CreateTopic
<1>8. ASSUME NEW w \in Writers, WriterStep(w) \/ \E batch \in Batches : Submit(w, batch),
             ~(RollSeal(w) \/ RollCreate(w) \/ Advance(w) \/ WriteFile(w) \/ InitTopic(w))
      PROVE  UNCHANGED <<registry, disk>>
  BY <1>8 DEF WriterStep, Submit, Lock, GetMeta, TopicMissing, InitTopicRaises, RollGet, WriteRaises
<1>9. ASSUME CreateTopicCheck \/ CreateTopicRaises \/ Tick \/ UNCHANGED vars
      PROVE  UNCHANGED <<registry, disk>>
  BY <1>9 DEF CreateTopicCheck, CreateTopicRaises, Tick, vars
<1>10. ASSUME NEW r \in Readers,
              \/ ReaderStep(r)
              \/ ReaderCall(r)
       PROVE  UNCHANGED <<registry, disk>>
  BY <1>10 DEF ReaderStep, ReaderCall, ReadGet, ReadInside, ReadCalc, ReadCopy, ReadLatest, SendFile, ReadReturn
<1> QED
  BY <1>1, <1>2, <1>3, <1>4, <1>5, <1>6, <1>7, <1>8, <1>9, <1>10 DEF Next

\* Whether a segment is tiled is a matter of its own messages.
LEMMA TiledKnown ==
  ASSUME NEW files \in SUBSET Frames, NEW meta \in SegmentMeta
  PROVE  Tiled(Known(files, meta), meta.base, meta.size) <=> Tiled(files, meta.base, meta.size)
<1>0. meta.base \in Nat /\ meta.size \in Nat
  BY DEF SegmentMeta
<1>1. ASSUME NEW p \in 0..(meta.size - 1), NEW f \in files, Overlaps(f, meta.base, p, 1)
      PROVE  f \in Known(files, meta)
  <2>1. f.base = meta.base /\ f.pos < p + 1 /\ f.pos \in Nat
    BY <1>1, FrameTyped DEF Overlaps
  <2> QED BY <1>0, <2>1 DEF Known
<1>2. Known(files, meta) \subseteq files
  BY DEF Known
<1>3. \A f \in files : f \in Known(files, meta) <=> f.base = meta.base /\ f.pos < meta.size
  BY DEF Known
<1> QED BY <1>1, <1>2, <1>3 DEF Tiled

\* get_segment at an offset a consumer can know: the segment is tiled and a
\* message starts there.
LEMMA GetStarts ==
  ASSUME IInv, DiskInv, NEW offset \in KnownOffsets, CanGetSegment(registry, offset)
  PROVE  LET meta == GetSegment(registry, offset)
         IN  /\ registry # NoTopic /\ meta \in SegmentMeta /\ offset \in Nat
             /\ Held(registry, meta)
             /\ Tiled(Known(disk, meta), meta.base, meta.size)
             /\ \E f \in Known(disk, meta) : meta.base + f.pos = offset
<1> USE DEF IInv
<1> DEFINE k == FindSegmentIndex(registry, offset)
           meta == registry[k]
<1>1. /\ registry # NoTopic /\ k # 0 /\ offset < EndOffset(meta)
  BY DEF CanGetSegment, CanGetLast
<1>2. /\ registry \in Seq(SegmentMeta) /\ Chained(registry) /\ disk \in SUBSET Frames
      /\ Len(registry) \in Nat /\ offset \in Nat
      /\ \A i \in 1..Len(registry) : registry[i].base \in Nat /\ registry[i].size \in Nat
      /\ \A i \in 1..Len(registry) : Filled(disk, registry[i].base, registry[i].size)
  BY <1>1, TopicIsList, ChainEntries, KnownOffsetsNat DEF TypeOK, DiskInv, AllFilled
<1>3. k \in 1..Len(registry) /\ meta.base <= offset
  BY <1>1, <1>2, FindSegmentIndexFinds
<1>4. meta = GetSegment(registry, offset)
  BY DEF GetSegment
<1> HIDE DEF k
<1>5. meta \in SegmentMeta
  BY <1>2, <1>3, ElementOfSeq
<1>6. meta.base \in Nat /\ meta.size \in Nat /\ offset < meta.base + meta.size
  BY <1>1, <1>2, <1>3 DEF EndOffset
<1>7. Held(registry, meta)
  BY <1>3, <1>6 DEF Held
<1>8. Tiled(disk, meta.base, meta.size)
  BY <1>2, <1>3 DEF Filled, Tiled
<1> HIDE DEF meta
<1>9. Tiled(Known(disk, meta), meta.base, meta.size)
  BY <1>2, <1>5, <1>8, TiledKnown
<1>10. \E f \in Known(disk, meta) : meta.base + f.pos = offset
  <2>1. CASE offset = 0
    <3>1. meta.base = 0 /\ 0 \in 0..(meta.size - 1)
      BY <1>3, <1>6, <2>1 DEF meta
    <3>2. PICK f \in disk : Overlaps(f, meta.base, 0, 1)
      BY <1>8, <3>1 DEF Tiled
    <3>3. f.base = meta.base /\ f.pos = 0
      BY <1>2, <3>2, FrameTyped DEF Overlaps
    <3> QED BY <1>6, <2>1, <3>1, <3>3 DEF Known
  <2>2. CASE offset = LogEnd
    <3>1. EndOffset(meta) <= LogEnd /\ EndOffset(meta) \in Nat
      BY <1>1, <1>2, <1>3, ChainEnds DEF LogEnd, meta
    <3> QED BY <1>1, <1>2, <2>2, <3>1 DEF meta
  <2>3. ASSUME NEW e \in Committed, offset = e[1]
        PROVE  \E f \in Known(disk, meta) : meta.base + f.pos = offset
    <3>1. PICK f \in disk, i \in 1..Len(registry) :
            registry[i].base = f.base /\ f.pos < registry[i].size /\ offset = f.base + f.pos
      BY <1>1, <2>3 DEF Committed, CommittedFrames
    <3>2. f.pos \in Nat /\ f.base \in Nat
      BY <1>2, FrameTyped
    <3>3. offset < EndOffset(registry[i]) /\ registry[i].base <= offset
      BY <1>2, <3>1, <3>2 DEF EndOffset
    <3>4. (i < k => EndOffset(registry[i]) <= registry[k].base) /\ EndOffset(registry[i]) \in Nat
      BY <1>2, <1>3, ChainEnds
    <3>5. (k < i => EndOffset(registry[k]) <= registry[i].base) /\ EndOffset(registry[k]) \in Nat
      BY <1>2, <1>3, ChainEnds
    <3>6. ~(i < k)
      BY <1>2, <1>3, <3>3, <3>4 DEF meta
    <3>7. ~(k < i)
      BY <1>1, <1>2, <1>3, <3>3, <3>5 DEF meta
    <3>8. i = k
      BY <1>2, <1>3, <3>6, <3>7
    <3> QED BY <3>1, <3>8 DEF Known, meta
  <2> QED BY <2>1, <2>2, <2>3 DEF KnownOffsets
<1> QED BY <1>1, <1>2, <1>4, <1>5, <1>7, <1>9, <1>10

\* _calc_read_size chooses as many messages as fit.
LEMMA CalcChooses ==
  ASSUME NEW files \in SUBSET Frames, Disjoint(files), NEW meta \in SegmentMeta, NEW req \in Requests,
         Asked(Known(files, meta), meta, req)
  PROVE  LET next == req.offset + CalcReadSize(files, meta.base, req.offset - meta.base, ReadLimit(req, meta))
         IN  next \in Nat /\ Chosen(Known(files, meta), meta, req, next)
<1> DEFINE S == Known(files, meta)
           pos == req.offset - meta.base
           limit == ReadLimit(req, meta)
           n == CalcReadSize(files, meta.base, pos, limit)
           next == req.offset + n
<1>1. meta.base \in Nat /\ meta.size \in Nat /\ req.offset \in Nat /\ req.size \in Nat
  BY DEF SegmentMeta, Requests
<1>2. PICK first \in S : meta.base + first.pos = req.offset
  BY DEF Asked
<1>3. first \in files /\ first.base = meta.base /\ first.pos < meta.size /\ first.pos \in Nat
  BY <1>2, FrameTyped DEF Known
<1>4. pos = first.pos /\ pos \in Nat /\ pos < meta.size
  BY <1>1, <1>2, <1>3
<1>5. /\ limit \in Nat /\ pos + limit <= meta.size
      /\ limit = req.size \/ limit = meta.size - pos
      /\ limit <= req.size
  BY <1>1, <1>4 DEF ReadLimit, Min2, EndOffset
<1>6. Tiled(files, meta.base, meta.size)
  BY TiledKnown DEF Asked
<1> HIDE DEF pos, limit
<1>7. /\ n \in Nat /\ n > 0 /\ pos + n <= meta.size
      /\ pos + n = meta.size \/ StartsAt(files, meta.base, pos + n)
      /\ n <= limit \/ n = FrameLen(first.payload)
      /\ \A f \in files : f.base = meta.base /\ f.pos = pos + n => n + FrameLen(f.payload) > limit
  BY <1>1, <1>3, <1>4, <1>5, <1>6, CalcFits
<1> HIDE DEF n
<1>8. req.offset = meta.base + pos
  BY <1>2, <1>4
<1>9. next \in Nat /\ req.offset < next /\ next <= EndOffset(meta)
  BY <1>1, <1>4, <1>7, <1>8 DEF EndOffset
<1>10. next = EndOffset(meta) \/ \E f \in S : meta.base + f.pos = next
  <2>1. CASE pos + n = meta.size
    BY <1>1, <1>4, <1>7, <1>8, <2>1 DEF EndOffset
  <2>2. CASE pos + n # meta.size
    <3>1. PICK f \in files : f.base = meta.base /\ f.pos = pos + n
      BY <1>7, <2>2 DEF StartsAt
    <3>2. f \in S
      BY <1>1, <1>4, <1>7, <2>2, <3>1 DEF Known
    <3>3. meta.base + f.pos = next
      BY <1>1, <1>4, <1>7, <1>8, <3>1
    <3> QED BY <3>2, <3>3
  <2> QED BY <2>1, <2>2
<1>11. \/ next - req.offset <= req.size
       \/ \E f \in S : meta.base + f.pos = req.offset /\ next = req.offset + FrameLen(f.payload)
  <2>1. CASE n <= limit
    BY <1>1, <1>5, <1>7, <2>1
  <2>2. CASE n = FrameLen(first.payload)
    BY <1>2, <2>2
  <2> QED BY <1>7, <2>1, <2>2
<1>12. ASSUME NEW f \in S, meta.base + f.pos = next
       PROVE  (next + FrameLen(f.payload)) - req.offset > req.size
  <2>1. f \in files /\ f.base = meta.base /\ f.pos < meta.size
    BY DEF Known
  <2>2. f.pos \in Nat /\ FrameLen(f.payload) \in Nat
    BY <2>1, FrameTyped
  <2>3. f.pos = pos + n
    BY <1>1, <1>4, <1>7, <1>8, <1>12, <2>2
  <2>4. n + FrameLen(f.payload) > limit
    BY <1>7, <2>1, <2>3
  <2>5. f.pos + FrameLen(f.payload) <= meta.size
    BY <1>6, <2>1 DEF Tiled
  <2> QED BY <1>1, <1>4, <1>5, <1>7, <2>2, <2>3, <2>4, <2>5
<1> QED BY <1>9, <1>10, <1>11, <1>12 DEF Chosen, n, pos, limit

\* A mapping that covers the segment shows all its messages.
LEMMA ShownWhole ==
  ASSUME NEW files \in SUBSET Frames, NEW meta \in SegmentMeta, NEW cap \in Nat, cap >= meta.size,
         Tiled(Known(files, meta), meta.base, meta.size)
  PROVE  Known(Shown(files, cap), meta) = Known(files, meta)
<1>1. meta.size \in Nat
  BY DEF SegmentMeta
<1>2. ASSUME NEW f \in Known(files, meta) PROVE f.pos + PrefixSize <= cap
  <2>1. f \in files /\ f.base = meta.base /\ f.pos < meta.size
    BY DEF Known
  <2>2. f.pos \in Nat /\ FrameLen(f.payload) \in Nat /\ PrefixSize <= FrameLen(f.payload)
    BY <2>1, FrameTyped, FrameHasPrefix
  <2>3. f.pos + FrameLen(f.payload) <= meta.size
    BY <2>1 DEF Tiled
  <2> QED BY <1>1, <2>2, <2>3 DEF PrefixSize
<1> QED BY <1>2 DEF Known, Shown

\* Whatever the mapping shows, _calc_read_size stays within the segment.
LEMMA CalcWithin ==
  ASSUME NEW files \in SUBSET Frames, NEW cap, NEW meta \in SegmentMeta, NEW req \in Requests,
         Asked(Known(files, meta), meta, req)
  PROVE  LET next == req.offset
                       + CalcReadSize(Shown(files, cap), meta.base, req.offset - meta.base, ReadLimit(req, meta))
         IN  next \in Nat /\ next <= EndOffset(meta)
<1> DEFINE view == Shown(files, cap)
           pos == req.offset - meta.base
           limit == ReadLimit(req, meta)
           n == CalcReadSize(view, meta.base, pos, limit)
<1>1. meta.base \in Nat /\ meta.size \in Nat /\ req.offset \in Nat /\ req.size \in Nat
  BY DEF SegmentMeta, Requests
<1>2. PICK first \in Known(files, meta) : meta.base + first.pos = req.offset
  BY DEF Asked
<1>3. /\ first \in files /\ first.base = meta.base /\ first.pos < meta.size /\ first.pos \in Nat
      /\ FrameLen(first.payload) \in Nat /\ PrefixSize <= FrameLen(first.payload)
  BY <1>2, FrameTyped, FrameHasPrefix DEF Known
<1>4. pos = first.pos /\ pos \in Nat /\ req.offset = meta.base + pos
  BY <1>1, <1>2, <1>3
<1>5. limit \in Nat /\ pos + limit <= meta.size
  BY <1>1, <1>3, <1>4 DEF ReadLimit, Min2, EndOffset
<1>6. view \in SUBSET Frames /\ view \subseteq files
  BY DEF Shown
<1> HIDE DEF pos, limit, view
<1>7. PICK f : /\ Scans(view, meta.base, pos, limit, f)
               /\ n = IF f[[at |-> pos, batch |-> 0]] = 0 THEN FrameLenAt(view, meta.base, pos)
                                                          ELSE f[[at |-> pos, batch |-> 0]]
  BY <1>1, <1>4, <1>5, <1>6, ScanIsLoop
<1>8. f[[at |-> pos, batch |-> 0]] \in 0..limit
  BY <1>1, <1>4, <1>5, <1>6, <1>7, ScanBounded
<1>9. FrameLenAt(view, meta.base, pos) \in Nat /\ pos + FrameLenAt(view, meta.base, pos) <= meta.size
  <2>1. Tiled(files, meta.base, meta.size)
    BY TiledKnown DEF Asked
  <2>2. CASE \E g \in view : g.base = meta.base /\ g.pos = pos
    <3>1. PICK g \in view : g.base = meta.base /\ g.pos = pos /\ FrameLenAt(view, meta.base, pos) = FrameLen(g.payload)
      <4> DEFINE h == CHOOSE g \in view : g.base = meta.base /\ g.pos = pos
      <4>1. h \in view /\ h.base = meta.base /\ h.pos = pos
        BY <2>2
      <4>2. FrameLenAt(view, meta.base, pos) = FrameLen(h.payload)
        BY <2>2 DEF FrameLenAt
      <4> HIDE DEF h
      <4> QED BY <4>1, <4>2
    <3>2. pos + FrameLen(g.payload) <= meta.size /\ FrameLen(g.payload) \in Nat
      BY <1>3, <1>4, <1>6, <2>1, <3>1, FrameTyped DEF Tiled
    <3> QED BY <3>1, <3>2
  <2>3. CASE ~\E g \in view : g.base = meta.base /\ g.pos = pos
    <3>1. FrameLenAt(view, meta.base, pos) = PrefixSize
      BY <2>3 DEF FrameLenAt
    <3>2. pos + FrameLen(first.payload) <= meta.size
      BY <1>3, <1>4, <2>1 DEF Tiled
    <3> QED BY <1>1, <1>3, <1>4, <3>1, <3>2 DEF PrefixSize
  <2> QED BY <2>2, <2>3
<1> HIDE DEF n
<1>10. n \in Nat /\ pos + n <= meta.size
  BY <1>1, <1>4, <1>5, <1>7, <1>8, <1>9
<1>11. req.offset + n \in Nat /\ req.offset + n <= EndOffset(meta)
  BY <1>1, <1>4, <1>10 DEF EndOffset
<1> QED BY <1>11 DEF n, pos, limit, view

\* A shorter slice holds fewer messages.
LEMMA SliceShorter ==
  ASSUME NEW files \in SUBSET Frames, NEW base, NEW pos \in Int, NEW len \in Int, NEW less \in Int, less <= len
  PROVE  Slice(files, base, pos, less) \subseteq Slice(files, base, pos, len)
<1> DEFINE In(n) == {g \in files : /\ g.base = base /\ pos <= g.pos
                                   /\ g.pos + FrameLen(g.payload) <= pos + n}
<1>1. In(less) \subseteq In(len)
  BY FrameTyped
<1>2. /\ Slice(files, base, pos, less) = {<<f.base + f.pos, f.payload>> : f \in In(less)}
      /\ Slice(files, base, pos, len) = {<<f.base + f.pos, f.payload>> : f \in In(len)}
  BY Zenon DEF Slice
<1> HIDE DEF In
<1> QED BY <1>1, <1>2

\* What is copied are messages of the segment.
LEMMA SliceKnown ==
  ASSUME NEW files \in SUBSET Frames, NEW meta \in SegmentMeta, NEW req \in Requests, NEW next \in Nat,
         meta.base <= req.offset, next <= EndOffset(meta)
  PROVE  Slice(files, meta.base, req.offset - meta.base, next - req.offset)
           = Copied(Known(files, meta), meta, req, next)
<1>1. meta.base \in Nat /\ meta.size \in Nat /\ req.offset \in Nat
  BY DEF SegmentMeta, Requests
<1> DEFINE pos == req.offset - meta.base
           len == next - req.offset
           In(F) == {g \in F : g.base = meta.base /\ pos <= g.pos /\ g.pos + FrameLen(g.payload) <= pos + len}
<1>2. pos + len <= meta.size /\ pos \in Int /\ len \in Int
  BY <1>1 DEF EndOffset
<1> HIDE DEF pos, len
<1>3. ASSUME NEW g \in files, g.base = meta.base, g.pos + FrameLen(g.payload) <= pos + len
      PROVE  g \in Known(files, meta)
  <2>1. g.pos \in Nat /\ FrameLen(g.payload) \in Nat /\ FrameLen(g.payload) > 0
    BY FrameTyped
  <2>2. g.pos < meta.size
    BY <1>1, <1>2, <1>3, <2>1
  <2> QED BY <1>3, <2>2 DEF Known
<1>4. Known(files, meta) \subseteq files
  BY DEF Known
<1>5. In(files) = In(Known(files, meta))
  BY <1>3, <1>4
<1>6. /\ Slice(files, meta.base, pos, len) = {<<f.base + f.pos, f.payload>> : f \in In(files)}
      /\ Slice(Known(files, meta), meta.base, pos, len)
           = {<<f.base + f.pos, f.payload>> : f \in In(Known(files, meta))}
  BY Zenon DEF Slice
<1> HIDE DEF In
<1> QED BY <1>5, <1>6 DEF Copied, pos, len

\* A reader that does not step keeps what it has.
LEMMA ReadingStays ==
  ASSUME IInv, DiskInv, [Next]_vars, ~Restart, NEW r \in Readers, ReadingFor(r),
         rpc'[r] = rpc[r], rreq'[r] = rreq[r], rmeta'[r] = rmeta[r], rnext'[r] = rnext[r],
         rdata'[r] = rdata[r], rlatest'[r] = rlatest[r], rcap'[r] = rcap[r]
  PROVE  ReadingFor(r)'
<1> SUFFICES ASSUME rpc[r] \notin {"idle", "inside"} PROVE ReadingFor(r)'
  BY DEF ReadingFor
<1>1. registry # NoTopic /\ Held(registry, rmeta[r])
  BY DEF ReadingFor
<1>2. rmeta[r] \in SegmentMeta
  BY DEF IInv, TypeOK
<1>3. registry' # NoTopic /\ Held(registry', rmeta[r]) /\ Known(disk', rmeta[r]) = Known(disk, rmeta[r])
  BY <1>1, <1>2, KnownStays
<1> QED BY <1>3 DEF ReadingFor, Covers

\* The steps of a reader.
LEMMA ReaderReads ==
  ASSUME IInv, DiskInv, ReadInv, NEW r \in Readers,
         \/ ReaderStep(r)
         \/ ReaderCall(r)
  PROVE  /\ rreq' \in [Readers -> Requests] /\ rnext' \in [Readers -> Nat]
         /\ ReadingFor(r)'
         /\ \A q \in Readers : q # r =>
              /\ rpc'[q] = rpc[q] /\ rreq'[q] = rreq[q] /\ rmeta'[q] = rmeta[q]
              /\ rnext'[q] = rnext[q] /\ rdata'[q] = rdata[q] /\ rlatest'[q] = rlatest[q] /\ rcap'[q] = rcap[q]
<1> DEFINE meta == rmeta[r]
           req == rreq[r]
           S == Known(disk, meta)
<1>0. /\ rpc \in [Readers -> {"idle", "inside", "calc", "copy", "latest", "done"}]
      /\ rmeta \in [Readers -> SegmentMeta] /\ rdata \in [Readers -> SUBSET (Nat \X Payloads)]
      /\ rlatest \in [Readers -> Nat] /\ rcap \in [Readers -> Nat]
      /\ rreq \in [Readers -> Requests] /\ rnext \in [Readers -> Nat]
      /\ disk \in SUBSET Frames /\ Disjoint(disk) /\ ReadingFor(r)
  BY DEF IInv, TypeOK, DiskInv, ReadInv
<1>1. ASSUME NEW offset \in KnownOffsets, NEW size \in ReadSizes, NEW kind \in {"bytes", "file"},
             ReadGet(r, offset, size, kind)
      PROVE  /\ rreq' \in [Readers -> Requests] /\ rnext' = rnext
             /\ ReadingFor(r)'
  <2> DEFINE got == GetSegment(registry, offset)
             asks == [offset |-> offset, size |-> size, kind |-> kind]
  <2>1. /\ registry # NoTopic /\ got \in SegmentMeta /\ offset \in Nat
        /\ Held(registry, got)
        /\ Tiled(Known(disk, got), got.base, got.size)
        /\ \E f \in Known(disk, got) : got.base + f.pos = offset
    BY <1>1, GetStarts DEF ReadGet
  <2>2. asks \in Requests /\ asks.offset = offset
    BY <2>1, LogStoreAssumption DEF Requests
  <2>3. /\ rreq' = [rreq EXCEPT ![r] = asks] /\ rmeta' = [rmeta EXCEPT ![r] = got]
        /\ rpc' = [rpc EXCEPT ![r] = "calc"] /\ registry' = registry /\ disk' = disk /\ rnext' = rnext
    BY <1>1 DEF ReadGet
  <2> HIDE DEF got, asks
  <2>4. rreq'[r] = asks /\ rmeta'[r] = got /\ rpc'[r] = "calc" /\ rreq' \in [Readers -> Requests]
    BY <1>0, <2>2, <2>3
  <2>5. Asked(Known(disk, got), got, asks)
    BY <2>1, <2>2 DEF Asked
  <2> QED BY <2>1, <2>3, <2>4, <2>5 DEF ReadingFor
<1>2. ASSUME rpc[r] \notin {"idle", "inside"}
      PROVE  /\ meta \in SegmentMeta /\ req \in Requests /\ rnext[r] \in Nat
             /\ meta.base \in Nat /\ meta.size \in Nat /\ req.offset \in Nat
             /\ registry # NoTopic /\ Held(registry, meta) /\ Asked(S, meta, req)
             /\ meta.base <= req.offset
  <2>1. /\ meta \in SegmentMeta /\ req \in Requests /\ rnext[r] \in Nat
        /\ registry # NoTopic /\ Held(registry, meta) /\ Asked(S, meta, req)
    BY <1>0, <1>2 DEF ReadingFor
  <2>2. meta.base \in Nat /\ meta.size \in Nat /\ req.offset \in Nat
    BY <2>1 DEF SegmentMeta, Requests
  <2> HIDE DEF meta, req
  <2>3. PICK f \in S : meta.base + f.pos = req.offset
    BY <2>1 DEF Asked
  <2>4. f.pos \in Nat
    BY <1>0, <2>3, FrameTyped DEF Known
  <2> QED BY <2>1, <2>2, <2>3, <2>4
<1>3. ASSUME ReadCalc(r)
      PROVE  /\ rreq' = rreq /\ rnext' \in [Readers -> Nat]
             /\ ReadingFor(r)'
  <2>1. rpc[r] = "calc"
    BY <1>3 DEF ReadCalc
  <2>2. PICK cap \in MapLengths :
          /\ rcap' = [rcap EXCEPT ![r] = cap]
          /\ rnext' = [rnext EXCEPT ![r] = req.offset
                + CalcReadSize(Shown(disk, cap), meta.base, req.offset - meta.base, ReadLimit(req, meta))]
    BY <1>3 DEF ReadCalc
  <2> DEFINE view == Shown(disk, cap)
             next == req.offset + CalcReadSize(view, meta.base, req.offset - meta.base, ReadLimit(req, meta))
  <2>3. /\ rpc' = [rpc EXCEPT ![r] = IF rreq[r].kind = "bytes" THEN "copy" ELSE "latest"]
        /\ UNCHANGED <<registry, disk, rreq, rmeta>>
    BY <1>3 DEF ReadCalc
  <2>4. next \in Nat /\ next <= EndOffset(meta)
    BY <1>0, <1>2, <2>1, CalcWithin
  <2>5. cap \in Nat
    BY <2>2, LogStoreAssumption
  <2>6. ASSUME cap >= meta.size PROVE Chosen(S, meta, req, next)
    <3>1. /\ meta \in SegmentMeta /\ req \in Requests /\ Asked(S, meta, req)
          /\ disk \in SUBSET Frames /\ Disjoint(disk)
      BY <1>0, <1>2, <2>1
    <3>2. view \in SUBSET Frames /\ Disjoint(view)
      BY <3>1 DEF Shown, Disjoint
    <3> HIDE DEF meta, req
    <3>3. Known(view, meta) = S
      BY <2>5, <2>6, <3>1, ShownWhole DEF Asked
    <3> HIDE DEF view
    <3>4. Asked(Known(view, meta), meta, req)
      BY <3>1, <3>3
    <3>5. Chosen(Known(view, meta), meta, req, next)
      BY <3>1, <3>2, <3>4, CalcChooses
    <3> QED BY <3>3, <3>5
  <2>7. rnext' = [rnext EXCEPT ![r] = next]
    BY <2>2
  <2> HIDE DEF next
  <2>8. rnext' \in [Readers -> Nat] /\ rnext'[r] = next /\ rcap'[r] = cap
    BY <1>0, <2>2, <2>4, <2>7
  <2>9. \/ rpc'[r] = "copy" /\ rreq[r].kind = "bytes"
        \/ rpc'[r] = "latest" /\ rreq[r].kind # "bytes"
    BY <1>0, <2>3
  <2> QED BY <1>2, <2>1, <2>3, <2>4, <2>6, <2>8, <2>9 DEF ReadingFor, Covers
<1>4. ASSUME ReadCopy(r)
      PROVE  UNCHANGED <<rreq, rnext>> /\ ReadingFor(r)'
  <2> DEFINE pos == req.offset - meta.base
             len == rnext[r] - req.offset
  <2>1. rpc[r] = "copy" /\ req.kind = "bytes"
    BY <1>4 DEF ReadCopy
  <2>2. rnext[r] <= EndOffset(meta) /\ (Covers(r) => Chosen(S, meta, req, rnext[r]))
    BY <1>0, <2>1 DEF ReadingFor
  <2>3. Slice(disk, meta.base, pos, len) = Copied(S, meta, req, rnext[r])
    BY <1>0, <1>2, <2>1, <2>2, SliceKnown
  <2>4. PICK cap \in MapLengths :
          /\ cap >= rcap[r]
          /\ rdata' = [rdata EXCEPT ![r] = Slice(disk, meta.base, pos, Min2(len, cap - pos))]
    BY <1>4 DEF ReadCopy
  <2> DEFINE data == Slice(disk, meta.base, pos, Min2(len, cap - pos))
  <2>5. rpc' = [rpc EXCEPT ![r] = "latest"] /\ UNCHANGED <<registry, disk, rreq, rmeta, rnext, rlatest, rcap>>
    BY <1>4 DEF ReadCopy
  <2>6. /\ pos \in Int /\ len \in Int /\ cap \in Nat /\ rcap[r] \in Nat
        /\ Min2(len, cap - pos) \in Int /\ Min2(len, cap - pos) <= len
        /\ Covers(r) => Min2(len, cap - pos) = len
    <3>1. /\ req.offset \in Nat /\ meta.base \in Nat /\ meta.size \in Nat /\ rnext[r] \in Nat /\ rcap[r] \in Nat
      BY <1>0, <1>2, <2>1
    <3>2. cap \in Nat
      BY <2>4, LogStoreAssumption
    <3> QED BY <2>2, <2>4, <3>1, <3>2 DEF Min2, Covers, EndOffset
  <2> HIDE DEF pos, len
  <2>7. data \subseteq Copied(S, meta, req, rnext[r]) /\ (Covers(r) => data = Copied(S, meta, req, rnext[r]))
    BY <1>0, <2>3, <2>6, SliceShorter
  <2>8. rdata'[r] = data /\ rpc'[r] = "latest"
    BY <1>0, <2>4, <2>5
  <2> HIDE DEF data
  <2> QED BY <1>2, <2>1, <2>2, <2>5, <2>7, <2>8 DEF ReadingFor, Covers
<1>8. ASSUME SendFile(r)
      PROVE  UNCHANGED <<rreq, rnext>> /\ ReadingFor(r)'
  <2>1. rpc[r] = "copy" /\ req.kind = "file"
    BY <1>8 DEF SendFile
  <2>2. /\ rnext[r] <= EndOffset(meta) /\ (Covers(r) => Chosen(S, meta, req, rnext[r]))
        /\ rnext[r] <= rlatest[r]
    BY <1>0, <2>1 DEF ReadingFor
  <2>3. Slice(disk, meta.base, req.offset - meta.base, rnext[r] - req.offset) = Copied(S, meta, req, rnext[r])
    BY <1>0, <1>2, <2>1, <2>2, SliceKnown
  <2>4. /\ rdata' = [rdata EXCEPT ![r] = Copied(S, meta, req, rnext[r])]
        /\ rpc' = [rpc EXCEPT ![r] = "done"]
        /\ UNCHANGED <<registry, disk, rreq, rmeta, rnext, rlatest, rcap>>
    BY <1>8, <2>3 DEF SendFile
  <2>5. rdata'[r] = Copied(S, meta, req, rnext[r]) /\ rpc'[r] = "done"
    BY <1>0, <2>4
  <2> QED BY <1>2, <2>1, <2>2, <2>4, <2>5 DEF ReadingFor, Covers
<1>5. ASSUME ReadLatest(r)
      PROVE  UNCHANGED <<rreq, rnext>> /\ ReadingFor(r)'
  <2>1. rpc[r] = "latest"
    BY <1>5 DEF ReadLatest
  <2>2. /\ rnext[r] <= EndOffset(meta) /\ (Covers(r) => Chosen(S, meta, req, rnext[r]))
        /\ req.kind = "bytes" =>
             /\ rdata[r] \subseteq Copied(S, meta, req, rnext[r])
             /\ Covers(r) => rdata[r] = Copied(S, meta, req, rnext[r])
    BY <1>0, <2>1 DEF ReadingFor
  <2>3. /\ rlatest' = [rlatest EXCEPT ![r] = LatestOffset(registry)]
        /\ rpc' = [rpc EXCEPT ![r] = IF rreq[r].kind = "bytes" THEN "done" ELSE "copy"]
        /\ UNCHANGED <<registry, disk, rreq, rmeta, rnext, rdata, rcap>>
    BY <1>5 DEF ReadLatest
  <2>4. rlatest'[r] = LatestOffset(registry)
    BY <1>0, <2>3
  <2>5. rnext[r] <= LatestOffset(registry)
    <3>1. PICK i \in 1..Len(registry) : registry[i].base = meta.base /\ meta.size <= registry[i].size
      BY <1>2, <2>1 DEF Held
    <3>2. /\ registry \in Seq(SegmentMeta) /\ Chained(registry) /\ LatestOffset(registry) \in Nat
          /\ registry[i].size \in Nat
      BY <1>2, <2>1, TopicIsList, ChainEntries DEF IInv
    <3>3. EndOffset(registry[i]) <= LatestOffset(registry)
      BY <3>2, ChainEnds
    <3>4. rnext[r] <= EndOffset(meta)
      BY <2>2
    <3> HIDE DEF meta
    <3> QED BY <1>2, <2>1, <3>1, <3>2, <3>3, <3>4 DEF EndOffset
  <2>6. \/ rpc'[r] = "done" /\ req.kind = "bytes"
        \/ rpc'[r] = "copy" /\ req.kind = "file"
    BY <1>0, <1>2, <2>1, <2>3 DEF Requests
  <2> QED BY <1>2, <2>1, <2>2, <2>3, <2>4, <2>5, <2>6 DEF ReadingFor, Covers
<1>6. ASSUME ReadReturn(r)
      PROVE  /\ rreq' \in [Readers -> Requests] /\ rnext' \in [Readers -> Nat]
             /\ ReadingFor(r)'
  <2>1. NoRequest \in Requests
    BY DEF NoRequest, Requests
  <2>2. rpc'[r] = "idle"
    BY <1>0, <1>6 DEF ReadReturn
  <2> QED BY <1>0, <1>6, <2>1, <2>2 DEF ReadReturn, ReadingFor
<1>7. \A q \in Readers : q # r =>
        /\ rpc'[q] = rpc[q] /\ rreq'[q] = rreq[q] /\ rmeta'[q] = rmeta[q]
        /\ rnext'[q] = rnext[q] /\ rdata'[q] = rdata[q] /\ rlatest'[q] = rlatest[q] /\ rcap'[q] = rcap[q]
  BY <1>0 DEF ReaderStep, ReaderCall, ReadGet, ReadInside, ReadCalc, ReadCopy, ReadLatest, SendFile, ReadReturn
<1>9. ASSUME NEW offset, ReadInside(r, offset)
      PROVE  UNCHANGED <<rreq, rnext>> /\ ReadingFor(r)'
  <2>1. rpc'[r] = "inside" /\ UNCHANGED <<rreq, rnext>>
    BY <1>0, <1>9 DEF ReadInside
  <2> QED BY <2>1 DEF ReadingFor
<1> HIDE DEF meta, req, S
<1> QED
  BY <1>0, <1>1, <1>3, <1>4, <1>5, <1>6, <1>7, <1>8, <1>9 DEF ReaderStep, ReaderCall

\* Every step keeps what each reader knows.
LEMMA NextRead ==
  ASSUME IInv, DiskInv, ReadInv, [Next]_vars
  PROVE  ReadInv'
<1>1. CASE Restart
  <2>1. /\ rreq' = [r \in Readers |-> NoRequest] /\ rnext' = [r \in Readers |-> 0]
        /\ \A r \in Readers : rpc'[r] = "idle"
    BY <1>1 DEF Restart
  <2>2. NoRequest \in Requests
    BY DEF NoRequest, Requests
  <2> QED BY <2>1, <2>2 DEF ReadInv, ReadingFor
<1>2. ASSUME ~Restart, NEW r \in Readers,
             \/ ReaderStep(r)
             \/ ReaderCall(r)
      PROVE  ReadInv'
  <2>1. /\ rreq' \in [Readers -> Requests] /\ rnext' \in [Readers -> Nat]
        /\ ReadingFor(r)'
        /\ \A q \in Readers : q # r =>
             /\ rpc'[q] = rpc[q] /\ rreq'[q] = rreq[q] /\ rmeta'[q] = rmeta[q]
             /\ rnext'[q] = rnext[q] /\ rdata'[q] = rdata[q] /\ rlatest'[q] = rlatest[q] /\ rcap'[q] = rcap[q]
    BY <1>2, ReaderReads
  <2>2. ASSUME NEW q \in Readers PROVE ReadingFor(q)'
    <3>1. CASE q = r
      BY <2>1, <3>1
    <3>2. CASE q # r
      <4>1. ReadingFor(q)
        BY DEF ReadInv
      <4> QED BY <1>2, <2>1, <3>2, <4>1, ReadingStays
    <3> QED BY <3>1, <3>2
  <2> QED BY <2>1, <2>2 DEF ReadInv
<1>3. ASSUME ~Restart, UNCHANGED readerVars PROVE ReadInv'
  <2>1. UNCHANGED <<rpc, rreq, rmeta, rnext, rdata, rlatest, rcap>>
    BY <1>3 DEF readerVars
  <2>2. ASSUME NEW q \in Readers PROVE ReadingFor(q)'
    <3>1. ReadingFor(q)
      BY DEF ReadInv
    <3> QED BY <1>3, <2>1, <3>1, ReadingStays
  <2> QED BY <2>1, <2>2 DEF ReadInv
<1>4. ASSUME NEW w \in Writers, WriterStep(w) \/ \E batch \in Batches : Submit(w, batch)
      PROVE  UNCHANGED readerVars
  BY <1>4 DEF WriterStep, Submit, Lock, GetMeta, TopicMissing, InitTopic, InitTopicRaises, RollGet,
     RollSeal, RollCreate, WriteFile, WriteRaises, Advance
<1>5. ASSUME CreateTopicCheck \/ CreateTopic \/ CreateTopicRaises \/ Tick \/ UNCHANGED vars
      PROVE  UNCHANGED readerVars
  BY <1>5 DEF CreateTopicCheck, CreateTopic, CreateTopicRaises, Tick, vars
<1> QED
  BY <1>1, <1>2, <1>3, <1>4, <1>5 DEF Next

\* What a read knows of the segment it reads, for any interleaving with writers.
THEOREM ReadInvariant == Spec => []ReadInv
<1>1. Init => ReadInv
  <2> SUFFICES ASSUME Init PROVE ReadInv
    OBVIOUS
  <2>1. NoRequest \in Requests
    BY DEF NoRequest, Requests
  <2>2. /\ rreq = [r \in Readers |-> NoRequest] /\ rnext = [r \in Readers |-> 0]
        /\ \A r \in Readers : rpc[r] = "idle"
    BY DEF Init
  <2> QED BY <2>1, <2>2 DEF ReadInv, ReadingFor
<1>2. IInv /\ DiskInv /\ ReadInv /\ [Next]_vars => ReadInv'
  BY NextRead
<1> QED
  BY <1>1, <1>2, LogStoreInvariant, DiskInvariant, PTL DEF Spec

\* A read that ends as _calc_read_size chose returns exactly the messages from its
\* offset to next_offset.
LEMMA ChosenIsExact ==
  ASSUME NEW files \in SUBSET Frames, Disjoint(files), NEW meta \in SegmentMeta, NEW req \in Requests,
         NEW next \in Nat, Asked(Known(files, meta), meta, req),
         Chosen(Known(files, meta), meta, req, next)
  PROVE  LET data == Copied(Known(files, meta), meta, req, next)
         IN  /\ data # {}
             /\ data \subseteq {<<f.base + f.pos, f.payload>> : f \in Known(files, meta)}
             /\ \A o \in req.offset..(next - 1) :
                  \E e \in data : e[1] <= o /\ o < e[1] + FrameLen(e[2])
             /\ next - req.offset <= req.size \/ Cardinality(data) = 1
<1> DEFINE S == Known(files, meta)
           pos == req.offset - meta.base
           end == next - meta.base
           In == {g \in S : pos <= g.pos /\ g.pos + FrameLen(g.payload) <= end}
           Entry(f) == <<f.base + f.pos, f.payload>>
           data == {Entry(f) : f \in In}
<1>1. /\ meta.base \in Nat /\ meta.size \in Nat /\ req.offset \in Nat /\ req.size \in Nat
  BY DEF SegmentMeta, Requests
<1>2. \A f \in S : /\ f \in files /\ f.base = meta.base /\ f.pos < meta.size /\ f.base \in Nat
                   /\ f.pos \in Nat /\ FrameLen(f.payload) \in Nat /\ FrameLen(f.payload) > 0
  BY FrameTyped DEF Known
<1>3. PICK first \in S : meta.base + first.pos = req.offset
  BY DEF Asked
<1>4. /\ pos = first.pos /\ pos \in Nat /\ end \in Nat /\ pos < end /\ end <= meta.size
  BY <1>1, <1>2, <1>3 DEF Chosen, EndOffset
<1>5. Copied(S, meta, req, next) = data
  <2> DEFINE there == {g \in S : /\ g.base = meta.base /\ pos <= g.pos
                                 /\ g.pos + FrameLen(g.payload) <= pos + (next - req.offset)}
  <2>1. Copied(S, meta, req, next) = {Entry(f) : f \in there}
    BY Zenon DEF Copied, Slice
  <2>2. pos + (next - req.offset) = end
    BY <1>1
  <2>3. there = In
    BY <1>2, <2>2
  <2> HIDE DEF there, In, Entry
  <2> QED BY <2>1, <2>3
<1>6. ASSUME NEW g \in S, NEW h \in S, g.pos <= h.pos, h.pos < g.pos + FrameLen(g.payload)
      PROVE  g = h
  <2>1. Overlaps(g, h.base, h.pos, FrameLen(h.payload))
    BY <1>2, <1>6 DEF Overlaps
  <2> QED BY <1>2, <2>1 DEF Disjoint
<1>7. ASSUME NEW g \in S, g.pos < end PROVE g.pos + FrameLen(g.payload) <= end
  <2>1. g.pos + FrameLen(g.payload) <= meta.size
    BY <1>2 DEF Asked, Tiled
  <2>2. CASE next = EndOffset(meta)
    BY <1>1, <2>1, <2>2 DEF EndOffset
  <2>3. ASSUME NEW h \in S, meta.base + h.pos = next PROVE g.pos + FrameLen(g.payload) <= end
    <3>1. h.pos = end
      BY <1>1, <1>2, <2>3
    <3>2. ASSUME ~(g.pos + FrameLen(g.payload) <= end) PROVE FALSE
      <4>1. g = h
        BY <1>2, <1>4, <1>6, <1>7, <3>1, <3>2
      <4> QED BY <1>2, <1>7, <3>1, <4>1
    <3> QED BY <3>2
  <2> QED BY <2>2, <2>3 DEF Chosen
<1> HIDE DEF S, pos, end
<1>8. first \in In
  BY <1>2, <1>3, <1>4, <1>7
<1>9. data # {} /\ data \subseteq {Entry(f) : f \in S}
  BY <1>8
<1>10. ASSUME NEW o \in req.offset..(next - 1)
       PROVE  \E e \in data : e[1] <= o /\ o < e[1] + FrameLen(e[2])
  <2> DEFINE p == o - meta.base
  <2>1. o \in Int /\ pos <= p /\ p < end /\ p \in 0..(meta.size - 1)
    BY <1>1, <1>4 DEF pos, end
  <2>2. PICK g \in S : Overlaps(g, meta.base, p, 1)
    BY <2>1 DEF Asked, Tiled, S
  <2>3. g.pos <= p /\ p < g.pos + FrameLen(g.payload)
    BY <1>2, <2>1, <2>2 DEF Overlaps
  <2>4. pos <= g.pos
    <3>1. ASSUME g.pos < pos PROVE FALSE
      <4>1. g = first
        BY <1>2, <1>3, <1>4, <1>6, <2>1, <2>3, <3>1
      <4> QED BY <1>2, <1>4, <3>1, <4>1
    <3> QED BY <1>2, <1>4, <3>1
  <2>5. g \in In
    BY <1>2, <1>4, <1>7, <2>1, <2>3, <2>4
  <2>6. g.base + g.pos <= o /\ o < (g.base + g.pos) + FrameLen(g.payload)
    BY <1>1, <1>2, <2>1, <2>3
  <2> HIDE DEF In
  <2>7. Entry(g) \in data /\ Entry(g)[1] = g.base + g.pos /\ Entry(g)[2] = g.payload
    BY <2>5
  <2> HIDE DEF Entry, data
  <2>8. Entry(g)[1] <= o /\ o < Entry(g)[1] + FrameLen(Entry(g)[2])
    BY <2>6, <2>7
  <2> QED BY <2>7, <2>8
<1>11. next - req.offset <= req.size \/ Cardinality(data) = 1
  <2> SUFFICES ASSUME NEW f \in S, meta.base + f.pos = req.offset, next = req.offset + FrameLen(f.payload)
               PROVE  Cardinality(data) = 1
    BY DEF Chosen, S
  <2>1. f.pos = pos /\ end = f.pos + FrameLen(f.payload)
    BY <1>1, <1>2 DEF pos, end
  <2>2. \A g \in In : g = f
    BY <1>2, <1>6, <2>1
  <2>3. f \in In
    BY <1>2, <2>1
  <2>4. In = {f}
    BY <2>2, <2>3
  <2> HIDE DEF In
  <2>5. data = {Entry(f)}
    BY <2>4
  <2> QED BY <2>5, FS_Singleton
<1> QED BY <1>5, <1>9, <1>10, <1>11 DEF S

\* Every finished read returned only committed messages, through any mapping; if
\* the mapping covered the segment the reader knew, they fill exactly
\* [offset, next_offset), at least one, as many as fit, whatever was appended,
\* rolled over or failed since it asked for the segment.
THEOREM ReadsAreExact == Spec => []ReadsExact
<1>1. ASSUME IInv, DiskInv, ReadInv, NEW r \in Readers, rpc[r] = "done"
      PROVE  /\ rdata[r] \subseteq Committed
             /\ rnext[r] <= rlatest[r]
             /\ rcap[r] >= rmeta[r].size =>
                  /\ rdata[r] # {}
                  /\ \A o \in rreq[r].offset..(rnext[r] - 1) :
                       \E e \in rdata[r] : e[1] <= o /\ o < e[1] + FrameLen(e[2])
                  /\ rnext[r] - rreq[r].offset <= rreq[r].size \/ Cardinality(rdata[r]) = 1
                  /\ \A f \in disk :
                       /\ f.base = rmeta[r].base /\ f.base + f.pos = rnext[r]
                       /\ rnext[r] < EndOffset(rmeta[r])
                       => rnext[r] + FrameLen(f.payload) - rreq[r].offset > rreq[r].size
  <2> DEFINE S == Known(disk, rmeta[r])
  <2>1. /\ registry # NoTopic /\ Held(registry, rmeta[r])
        /\ Asked(S, rmeta[r], rreq[r])
        /\ rdata[r] \subseteq Copied(S, rmeta[r], rreq[r], rnext[r])
        /\ rnext[r] <= rlatest[r]
    BY <1>1 DEF ReadInv, ReadingFor
  <2>2. /\ rmeta[r] \in SegmentMeta /\ rreq[r] \in Requests /\ rnext[r] \in Nat
        /\ disk \in SUBSET Frames /\ Disjoint(disk) /\ registry \in Seq(SegmentMeta)
    BY <1>1, <2>1 DEF IInv, TypeOK, DiskInv, ReadInv
  <2>3. S \subseteq Below(registry, disk)
    BY <2>1, <2>2, KnownIsBelow
  <2>4. Copied(S, rmeta[r], rreq[r], rnext[r]) \subseteq {<<f.base + f.pos, f.payload>> : f \in S}
    BY DEF Copied, Slice
  <2>5. rdata[r] \subseteq Committed
    BY <2>1, <2>3, <2>4, CommittedIsBelow
  <2>6. ASSUME rcap[r] >= rmeta[r].size
        PROVE  /\ rdata[r] # {}
               /\ \A o \in rreq[r].offset..(rnext[r] - 1) :
                    \E e \in rdata[r] : e[1] <= o /\ o < e[1] + FrameLen(e[2])
               /\ rnext[r] - rreq[r].offset <= rreq[r].size \/ Cardinality(rdata[r]) = 1
               /\ \A f \in disk :
                    /\ f.base = rmeta[r].base /\ f.base + f.pos = rnext[r]
                    /\ rnext[r] < EndOffset(rmeta[r])
                    => rnext[r] + FrameLen(f.payload) - rreq[r].offset > rreq[r].size
    <3>1. /\ Chosen(S, rmeta[r], rreq[r], rnext[r])
          /\ rdata[r] = Copied(S, rmeta[r], rreq[r], rnext[r])
      BY <1>1, <2>6 DEF ReadInv, ReadingFor, Covers
    <3>2. /\ rdata[r] # {}
          /\ \A o \in rreq[r].offset..(rnext[r] - 1) :
               \E e \in rdata[r] : e[1] <= o /\ o < e[1] + FrameLen(e[2])
          /\ rnext[r] - rreq[r].offset <= rreq[r].size \/ Cardinality(rdata[r]) = 1
      BY <2>1, <2>2, <3>1, ChosenIsExact
    <3>3. ASSUME NEW f \in disk, f.base = rmeta[r].base, f.base + f.pos = rnext[r],
                 rnext[r] < EndOffset(rmeta[r])
          PROVE  rnext[r] + FrameLen(f.payload) - rreq[r].offset > rreq[r].size
      <4>1. /\ f.pos \in Nat /\ FrameLen(f.payload) \in Nat
            /\ rmeta[r].base \in Nat /\ rmeta[r].size \in Nat
            /\ rreq[r].offset \in Nat /\ rreq[r].size \in Nat
        BY <2>2, FrameTyped DEF SegmentMeta, Requests
      <4>2. f \in S
        BY <3>3, <4>1 DEF Known, EndOffset
      <4>3. (rnext[r] + FrameLen(f.payload)) - rreq[r].offset > rreq[r].size
        BY <3>1, <3>3, <4>2 DEF Chosen
      <4> QED BY <2>2, <4>1, <4>3
    <3> QED BY <3>2, <3>3
  <2> QED BY <2>1, <2>5, <2>6
<1>2. ASSUME IInv, DiskInv, ReadInv PROVE ReadsExact
  BY <1>1, <1>2 DEF ReadsExact
<1> QED
  BY <1>2, LogStoreInvariant, DiskInvariant, ReadInvariant, PTL
=============================================================================

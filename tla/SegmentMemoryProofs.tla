-------------------------- MODULE SegmentMemoryProofs --------------------------
(***************************************************************************)
(* The safety of SegmentMemory for any number of threads, segments and     *)
(* Entry objects and any sizes.                                            *)
(*                                                                         *)
(* Held says where an entry can be: in the cache, on the cleanup queue,    *)
(* with the cleanup thread or with an evictor, in one of them only, and    *)
(* that its reference count is the number of handles on it.  From it       *)
(* follow that no handle loses its mapping and that no mapping leaks.      *)
(*                                                                         *)
(* Keyed and Sized are about files.  Two entries can map one file at       *)
(* different lengths when the older one was pushed out of the cache while  *)
(* in use, and growth truncates the file to a length computed from one     *)
(* entry alone.  That never shortens the file, because the only writer of  *)
(* a segment grows through the newest mapping or through the one it took   *)
(* before that was made.  The keys of the cache have to tell the segments  *)
(* apart for this, which str(base_offset) does within one topic.           *)
(***************************************************************************)
EXTENDS SegmentMemory, SequenceTheorems, FiniteSetTheorems, WellFoundedInduction, TLAPS

-----------------------------------------------------------------------------
\* The cache and the cleanup queue hold no entry twice.
Distinct(q) == \A i, j \in 1..Len(q) : q[i] = q[j] => i = j

\* Popping an entry leaves the others in their order.
LEMMA WithoutDrops ==
  ASSUME NEW q \in Seq(Entries), Distinct(q), NEW e \in Entries, InSeq(e, q)
  PROVE  /\ Without(q, e) \in Seq(Entries) /\ Distinct(Without(q, e))
         /\ \A x : InSeq(x, Without(q, e)) <=> InSeq(x, q) /\ x # e
<1> DEFINE n == Len(q)
           at == CHOOSE i \in 1..n : q[i] = e
           w == [i \in 1..(n - 1) |-> IF i < at THEN q[i] ELSE q[i + 1]]
<1>1. Without(q, e) = w
  BY DEF Without
<1>2. n \in Nat /\ at \in 1..n /\ q[at] = e
  <2>1. \E i \in 1..n : q[i] = e
    BY DEF InSeq
  <2> QED
    BY <2>1
<1>3. n - 1 \in Nat
  BY <1>2
<1> HIDE DEF at
<1>4. \A i \in 1..n : q[i] \in Entries
  OBVIOUS
<1>5. \A i \in 1..(n - 1) : /\ i \in 1..n /\ i + 1 \in 1..n
                            /\ w[i] = IF i < at THEN q[i] ELSE q[i + 1]
  BY <1>2
<1>6. w \in [1..(n - 1) -> Entries]
  <2>1. \A i \in 1..(n - 1) : w[i] \in Entries
    BY <1>4, <1>5
  <2> QED
    BY <2>1
<1>7. w \in Seq(Entries) /\ Len(w) = n - 1
  BY <1>3, <1>6
<1> HIDE DEF w
<1>8. \A i, j \in 1..n : q[i] = q[j] => i = j
  BY DEF Distinct
<1>9. Distinct(w)
  <2> SUFFICES ASSUME NEW i \in 1..(n - 1), NEW j \in 1..(n - 1), w[i] = w[j]
               PROVE  i = j
    BY <1>7 DEF Distinct
  <2> DEFINE k == IF i < at THEN i ELSE i + 1
             l == IF j < at THEN j ELSE j + 1
  <2>1. k \in 1..n /\ l \in 1..n /\ w[i] = q[k] /\ w[j] = q[l]
    BY <1>5
  <2>2. k = l
    BY <2>1, <1>8
  <2> QED
    BY <2>2, <1>2
<1>10. ASSUME NEW x PROVE InSeq(x, w) <=> InSeq(x, q) /\ x # e
  <2>1. ASSUME InSeq(x, w) PROVE InSeq(x, q) /\ x # e
    <3>1. PICK i \in 1..(n - 1) : w[i] = x
      BY <2>1, <1>7 DEF InSeq
    <3> DEFINE k == IF i < at THEN i ELSE i + 1
    <3>2. k \in 1..n /\ k # at /\ q[k] = x
      BY <3>1, <1>2, <1>5
    <3> HIDE DEF k
    <3> QED
      BY <3>2, <1>2, <1>8 DEF InSeq
  <2>2. ASSUME InSeq(x, q), x # e PROVE InSeq(x, w)
    <3>1. PICK k \in 1..n : q[k] = x
      BY <2>2 DEF InSeq
    <3>2. k # at
      BY <3>1, <2>2, <1>2
    <3> DEFINE i == IF k < at THEN k ELSE k - 1
    <3>3. i \in 1..(n - 1) /\ w[i] = x
      BY <3>1, <3>2, <1>2, <1>5
    <3> HIDE DEF i
    <3> QED
      BY <3>3, <1>7 DEF InSeq
  <2> QED
    BY <2>1, <2>2
<1> QED
  BY <1>1, <1>7, <1>9, <1>10

\* An entry that was not in the sequence is put at its end.
LEMMA AppendAdds ==
  ASSUME NEW q \in Seq(Entries), Distinct(q), NEW e \in Entries, ~InSeq(e, q)
  PROVE  /\ Append(q, e) \in Seq(Entries) /\ Distinct(Append(q, e))
         /\ \A x : InSeq(x, Append(q, e)) <=> InSeq(x, q) \/ x = e
<1> DEFINE n == Len(q)
           w == Append(q, e)
<1>1. /\ n \in Nat /\ w \in Seq(Entries) /\ Len(w) = n + 1 /\ w[n + 1] = e
      /\ \A i \in 1..n : w[i] = q[i]
  OBVIOUS
<1> HIDE DEF w
<1>2. Distinct(w)
  <2>1. \A i \in 1..n : w[i] # e
    BY <1>1 DEF InSeq
  <2>2. \A i, j \in 1..n : w[i] = w[j] => i = j
    BY <1>1 DEF Distinct
  <2>3. \A i \in 1..(n + 1) : i \in 1..n \/ i = n + 1
    BY <1>1
  <2> QED
    BY <1>1, <2>1, <2>2, <2>3 DEF Distinct
<1>3. ASSUME NEW x PROVE InSeq(x, w) <=> InSeq(x, q) \/ x = e
  <2>1. \A i \in 1..(n + 1) : i \in 1..n \/ i = n + 1
    BY <1>1
  <2>2. \A i \in 1..n : i \in 1..(n + 1)
    BY <1>1
  <2>3. n + 1 \in 1..(n + 1)
    BY <1>1
  <2> QED
    BY <1>1, <2>1, <2>2, <2>3 DEF InSeq
<1> QED
  BY <1>1, <1>2, <1>3 DEF w

\* OrderedDict.move_to_end keeps the same entries.
LEMMA MoveToEnd ==
  ASSUME NEW q \in Seq(Entries), Distinct(q), NEW e \in Entries, InSeq(e, q)
  PROVE  /\ Append(Without(q, e), e) \in Seq(Entries) /\ Distinct(Append(Without(q, e), e))
         /\ \A x : InSeq(x, Append(Without(q, e), e)) <=> InSeq(x, q) \/ x = e
<1> DEFINE w == Without(q, e)
<1>1. /\ w \in Seq(Entries) /\ Distinct(w)
      /\ \A x : InSeq(x, w) <=> InSeq(x, q) /\ x # e
  BY WithoutDrops
<1> HIDE DEF w
<1>2. /\ Append(w, e) \in Seq(Entries) /\ Distinct(Append(w, e))
      /\ \A x : InSeq(x, Append(w, e)) <=> InSeq(x, w) \/ x = e
  BY <1>1, AppendAdds
<1> QED
  BY <1>1, <1>2 DEF w

\* Appending one sequence to another that shares no entry with it.
LEMMA ConcatJoins ==
  ASSUME NEW p \in Seq(Entries), NEW q \in Seq(Entries), Distinct(p), Distinct(q),
         \A x : ~(InSeq(x, p) /\ InSeq(x, q))
  PROVE  /\ p \o q \in Seq(Entries) /\ Distinct(p \o q)
         /\ \A x : InSeq(x, p \o q) <=> InSeq(x, p) \/ InSeq(x, q)
<1> DEFINE m == Len(p)
           n == Len(q)
           w == p \o q
<1>1. /\ m \in Nat /\ n \in Nat /\ w \in Seq(Entries) /\ Len(w) = m + n
      /\ \A i \in 1..(m + n) : w[i] = IF i <= m THEN p[i] ELSE q[i - m]
  BY ConcatProperties
<1> HIDE DEF w
<1>2. \A i \in 1..m : i \in 1..(m + n) /\ w[i] = p[i]
  BY <1>1
<1>3. \A i \in 1..n : i + m \in 1..(m + n) /\ w[i + m] = q[i]
  BY <1>1
<1>4. \A i \in 1..(m + n) : i \in 1..m \/ \E k \in 1..n : i = k + m
  <2> TAKE i \in 1..(m + n)
  <2>1. i \in 1..m \/ (i - m \in 1..n /\ i = (i - m) + m)
    BY <1>1
  <2> QED
    BY <2>1
<1>5. Distinct(w)
  <2> SUFFICES ASSUME NEW i \in 1..(m + n), NEW j \in 1..(m + n), w[i] = w[j]
               PROVE  i = j
    BY <1>1 DEF Distinct
  <2>1. CASE i \in 1..m /\ j \in 1..m
    BY <2>1, <1>2 DEF Distinct
  <2>2. ASSUME NEW k \in 1..n, NEW l \in 1..n, i = k + m, j = l + m PROVE i = j
    BY <2>2, <1>3 DEF Distinct
  <2>3. ASSUME i \in 1..m, NEW l \in 1..n, j = l + m PROVE FALSE
    <3>1. p[i] = q[l]
      BY <2>3, <1>2, <1>3
    <3> QED
      BY <2>3, <3>1 DEF InSeq
  <2>4. ASSUME j \in 1..m, NEW l \in 1..n, i = l + m PROVE FALSE
    <3>1. p[j] = q[l]
      BY <2>4, <1>2, <1>3
    <3> QED
      BY <2>4, <3>1 DEF InSeq
  <2> QED
    BY <2>1, <2>2, <2>3, <2>4, <1>4
<1>6. ASSUME NEW x PROVE InSeq(x, w) <=> InSeq(x, p) \/ InSeq(x, q)
  <2>1. ASSUME InSeq(x, w) PROVE InSeq(x, p) \/ InSeq(x, q)
    <3>1. PICK i \in 1..(m + n) : w[i] = x
      BY <2>1, <1>1 DEF InSeq
    <3>2. CASE i \in 1..m
      BY <3>1, <3>2, <1>2 DEF InSeq
    <3>3. ASSUME NEW k \in 1..n, i = k + m PROVE InSeq(x, q)
      BY <3>1, <3>3, <1>3 DEF InSeq
    <3> QED
      BY <3>2, <3>3, <1>4
  <2>2. InSeq(x, p) => InSeq(x, w)
    BY <1>1, <1>2 DEF InSeq
  <2>3. InSeq(x, q) => InSeq(x, w)
    <3> SUFFICES ASSUME NEW k \in 1..n, q[k] = x PROVE InSeq(x, w)
      BY DEF InSeq
    <3>1. k + m \in 1..(m + n) /\ w[k + m] = x
      BY <1>3
    <3> QED
      BY <3>1, <1>1 DEF InSeq
  <2> QED
    BY <2>1, <2>2, <2>3
<1> QED
  BY <1>1, <1>5, <1>6 DEF w

\* __cleanup_locked splits the cache: every entry is kept or evicted, none both.
LEMMA CleanupSplits ==
  ASSUME NEW q \in Seq(Entries), Distinct(q)
  PROVE  /\ Kept(q) \in Seq(Entries) /\ Distinct(Kept(q))
         /\ Evicted(q) \in Seq(Entries) /\ Distinct(Evicted(q))
         /\ \A x : InSeq(x, q) <=> InSeq(x, Kept(q)) \/ InSeq(x, Evicted(q))
         /\ \A x : ~(InSeq(x, Kept(q)) /\ InSeq(x, Evicted(q)))
<1> DEFINE n == Len(q)
           x == Excess(q)
           ke == Kept(q)
           ev == Evicted(q)
<1>1. n \in Nat /\ x \in 0..n
  BY MemoryAssumption DEF Excess, Max2
<1> HIDE DEF x
<1>2. /\ ev \in Seq(Entries) /\ Len(ev) = x
      /\ \A i \in 1..x : i \in 1..n /\ ev[i] = q[i]
  <2>1. ev = SubSeq(q, 1, x)
    BY DEF Evicted, x
  <2>2. 1 \in 1..(n + 1) /\ x \in (1 - 1)..n
    BY <1>1
  <2>3. ev = [i \in 1..x |-> q[i]]
    BY <2>1, <2>2, <1>1
  <2>4. \A i \in 1..x : i \in 1..n /\ q[i] \in Entries
    BY <1>1
  <2> QED
    BY <1>1, <2>3, <2>4
<1>3. /\ ke \in Seq(Entries) /\ Len(ke) = n - x
      /\ \A i \in 1..(n - x) : i + x \in 1..n /\ ke[i] = q[i + x]
  <2>1. ke = SubSeq(q, x + 1, n)
    BY DEF Kept, x
  <2>2. ke = [i \in 1..(n - x) |-> q[i + x]]
    BY <2>1, <1>1
  <2>3. \A i \in 1..(n - x) : i + x \in 1..n /\ q[i + x] \in Entries
    BY <1>1
  <2>4. n - x \in Nat
    BY <1>1
  <2> QED
    BY <2>2, <2>3, <2>4
<1> HIDE DEF ke, ev
<1>4. \A i, j \in 1..n : q[i] = q[j] => i = j
  BY DEF Distinct
<1>5. Distinct(ev)
  BY <1>2, <1>4 DEF Distinct
<1>6. Distinct(ke)
  <2> SUFFICES ASSUME NEW i \in 1..(n - x), NEW j \in 1..(n - x), ke[i] = ke[j]
               PROVE  i = j
    BY <1>3 DEF Distinct
  <2>1. i + x = j + x
    BY <1>3, <1>4
  <2> QED
    BY <2>1, <1>1
<1>7. ASSUME NEW y PROVE ~(InSeq(y, ke) /\ InSeq(y, ev))
  <2> SUFFICES ASSUME NEW i \in 1..(n - x), ke[i] = y, NEW j \in 1..x, ev[j] = y
               PROVE  FALSE
    BY <1>2, <1>3 DEF InSeq
  <2>1. i + x = j
    BY <1>2, <1>3, <1>4
  <2> QED
    BY <2>1, <1>1
<1>8. ASSUME NEW y PROVE InSeq(y, q) <=> InSeq(y, ke) \/ InSeq(y, ev)
  <2>1. ASSUME InSeq(y, q) PROVE InSeq(y, ke) \/ InSeq(y, ev)
    <3>1. PICK i \in 1..n : q[i] = y
      BY <2>1 DEF InSeq
    <3>2. CASE i <= x
      <4>1. i \in 1..x
        BY <3>2, <1>1
      <4> QED
        BY <4>1, <3>1, <1>2 DEF InSeq
    <3>3. CASE ~(i <= x)
      <4>1. i - x \in 1..(n - x) /\ (i - x) + x = i
        BY <3>3, <1>1
      <4>2. ke[i - x] = y
        BY <4>1, <3>1, <1>3
      <4> QED
        BY <4>1, <4>2, <1>3 DEF InSeq
    <3> QED
      BY <3>2, <3>3
  <2>2. InSeq(y, ev) => InSeq(y, q)
    BY <1>2 DEF InSeq
  <2>3. InSeq(y, ke) => InSeq(y, q)
    BY <1>3 DEF InSeq
  <2> QED
    BY <2>1, <2>2, <2>3
<1> QED
  BY <1>2, <1>3, <1>5, <1>6, <1>7, <1>8 DEF ke, ev

\* The cleanup thread takes the oldest entry of the queue.
LEMMA HeadLeaves ==
  ASSUME NEW q \in Seq(Entries), Distinct(q), q # <<>>
  PROVE  /\ Head(q) \in Entries /\ Tail(q) \in Seq(Entries) /\ Distinct(Tail(q))
         /\ InSeq(Head(q), q)
         /\ \A x : InSeq(x, Tail(q)) <=> InSeq(x, q) /\ x # Head(q)
<1> DEFINE n == Len(q)
           w == Tail(q)
<1>1. n \in Nat /\ n > 0 /\ Head(q) = q[1] /\ q[1] \in Entries
  OBVIOUS
<1>2. /\ w \in Seq(Entries) /\ Len(w) = n - 1
      /\ \A i \in 1..(n - 1) : i + 1 \in 1..n /\ w[i] = q[i + 1]
  BY <1>1
<1> HIDE DEF w
<1>3. \A i, j \in 1..n : q[i] = q[j] => i = j
  BY DEF Distinct
<1>4. Distinct(w)
  <2> SUFFICES ASSUME NEW i \in 1..(n - 1), NEW j \in 1..(n - 1), w[i] = w[j]
               PROVE  i = j
    BY <1>2 DEF Distinct
  <2>1. i + 1 = j + 1
    BY <1>2, <1>3
  <2> QED
    BY <2>1, <1>1
<1>5. 1 \in 1..n
  BY <1>1
<1>6. ASSUME NEW x PROVE InSeq(x, w) <=> InSeq(x, q) /\ x # q[1]
  <2>1. ASSUME NEW i \in 1..(n - 1), w[i] = x PROVE InSeq(x, q) /\ x # q[1]
    <3>1. i + 1 \in 1..n /\ q[i + 1] = x /\ i + 1 # 1
      BY <2>1, <1>1, <1>2
    <3> QED
      BY <3>1, <1>3, <1>5 DEF InSeq
  <2>2. ASSUME NEW i \in 1..n, q[i] = x, x # q[1] PROVE InSeq(x, w)
    <3>1. i - 1 \in 1..(n - 1) /\ (i - 1) + 1 = i
      BY <2>2, <1>1
    <3>2. w[i - 1] = x
      BY <3>1, <2>2, <1>2
    <3> QED
      BY <3>1, <3>2, <1>2 DEF InSeq
  <2> QED
    BY <2>1, <2>2, <1>2 DEF InSeq
<1> QED
  BY <1>1, <1>2, <1>4, <1>5, <1>6 DEF w, InSeq

-----------------------------------------------------------------------------
\* Where a user is, what it does and whether it has a handle go together.
UsersAt ==
  \A t \in Users :
    /\ pc[t] \in {"idle", "load", "using", "written", "advance"}
    /\ handle[t] # NoEntry <=> pc[t] \in {"load", "using", "written"}
    /\ pc[t] \in {"written", "advance"} => job[t].mode = "write"
    /\ pc[t] \in {"load", "using"} => job[t].mode \in {"read", "write"}
    /\ pc[t] = "idle" => job[t].mode = "none"

\* try_evict closes without looking again: what it popped has no reference.
EvictorsAt ==
  \A x \in Evictors :
    /\ pc[x] \in {"idle", "evict"}
    /\ handle[x] # NoEntry <=> pc[x] = "evict"
    /\ pc[x] = "evict" /\ job[x].mode # "force" => refcount[handle[x]] = 0

\* An entry is in the cache, on the queue, with the cleanup thread or with one
\* caller of an evict method, and in no two of these places.
OnePlace ==
  /\ Distinct(cache) /\ Distinct(queue)
  /\ \A e \in Entries :
       /\ InSeq(e, cache) => ~InSeq(e, queue)
       /\ InSeq(e, cache) \/ InSeq(e, queue) => cleaning # e
       /\ InSeq(e, cache) \/ InSeq(e, queue) \/ cleaning = e =>
            \A x \in Evictors : handle[x] # e
  /\ \A x, y \in Evictors : handle[x] = handle[y] /\ handle[x] # NoEntry => x = y

Holders(e) == {t \in Users : handle[t] = e}

\* The reference count is at least the number of handles; a load that raised
\* leaves it greater.
Counted == \A e \in Entries : refcount[e] >= Cardinality(Holders(e))

Placed(e) ==
  InSeq(e, cache) \/ InSeq(e, queue) \/ cleaning = e \/ \E x \in Evictors : handle[x] = e

\* Whoever uses an entry, or whatever it maps, someone is going to close it.
Tracked == \A e \in Entries : loaded[e] \/ Holders(e) # {} => Placed(e)

Held ==
  TypeOK /\ UsersAt /\ EvictorsAt /\ OnePlace /\ Counted /\ Tracked /\ NoUseAfterRelease

\* Finitely many threads can hold an entry.
LEMMA HoldersFinite ==
  ASSUME NEW e
  PROVE  IsFiniteSet(Holders(e)) /\ Cardinality(Holders(e)) \in Nat
BY MemoryAssumption, FS_Subset, FS_CardinalityType DEF Holders

\* A count of zero means that nobody holds the entry.
LEMMA NoneHolds ==
  ASSUME Counted, NEW e \in Entries, refcount[e] = 0
  PROVE  Holders(e) = {}
BY HoldersFinite, FS_EmptySet DEF Counted

\* An entry that was never used has some segment.
LEMMA AnySegmentTyped == AnySegment \in Segments
BY MemoryAssumption DEF AnySegment

\* What a thread does is recorded as it was asked.
LEMMA JobTyped ==
  ASSUME NEW m \in {"none", "read", "write", "try", "force"}, NEW s \in Segments, NEW n \in Nat
  PROVE  Job(m, s, n) \in Jobs /\ Job(m, s, n).mode = m /\ Job(m, s, n).seg = s /\ Job(m, s, n).size = n
BY DEF Job, Jobs

\* An idle thread has a job of no mode.
LEMMA NoJobTyped == NoJob \in Jobs /\ NoJob.mode = "none"
BY AnySegmentTyped, JobTyped DEF NoJob

\* acquire's critical section: entry e is now in the cache or, when the cache is
\* full, already on the queue; nothing else but evicted entries moves.
LEMMA AcquireMoves ==
  ASSUME TypeOK, OnePlace,
         NEW t, NEW m, NEW s, NEW n, NEW e \in Entries, NEW order \in Seq(Entries),
         Distinct(order), \A x : InSeq(x, order) <=> InSeq(x, cache) \/ x = e,
         ~InSeq(e, queue), TakeReference(t, m, s, n, e, order)
  PROVE  /\ cache' \in Seq(Entries) /\ queue' \in Seq(Entries)
         /\ Distinct(cache') /\ Distinct(queue')
         /\ \A x : InSeq(x, cache') => InSeq(x, cache) \/ x = e
         /\ \A x : InSeq(x, queue) => InSeq(x, queue')
         /\ \A x : InSeq(x, cache') => ~InSeq(x, queue')
         /\ \A x : InSeq(x, cache') \/ InSeq(x, queue') <=>
                     InSeq(x, cache) \/ InSeq(x, queue) \/ x = e
<1> DEFINE ke == Kept(order)
           ev == Evicted(order)
<1>1. cache' = ke /\ queue' = queue \o ev
  BY DEF TakeReference
<1>2. /\ ke \in Seq(Entries) /\ Distinct(ke) /\ ev \in Seq(Entries) /\ Distinct(ev)
      /\ \A x : InSeq(x, order) <=> InSeq(x, ke) \/ InSeq(x, ev)
      /\ \A x : ~(InSeq(x, ke) /\ InSeq(x, ev))
  BY CleanupSplits
<1> HIDE DEF ke, ev
<1>3. queue \in Seq(Entries) /\ Distinct(queue)
  BY DEF TypeOK, OnePlace
<1>4. \A x : InSeq(x, queue) => x \in Entries
  BY <1>3 DEF InSeq
<1>5. \A x : ~(InSeq(x, queue) /\ InSeq(x, order))
  BY <1>4 DEF OnePlace
<1>6. \A x : ~(InSeq(x, queue) /\ InSeq(x, ev))
  BY <1>2, <1>5
<1>7. /\ queue \o ev \in Seq(Entries) /\ Distinct(queue \o ev)
      /\ \A x : InSeq(x, queue \o ev) <=> InSeq(x, queue) \/ InSeq(x, ev)
  BY <1>2, <1>3, <1>6, ConcatJoins
<1> QED
  BY <1>1, <1>2, <1>5, <1>7

\* A thread takes a reference.
LEMMA AcquireHeld ==
  ASSUME Held, NEW t \in Users, NEW m \in {"read", "write"}, NEW s \in Segments, NEW n \in Nat,
         NEW e \in Entries, NEW order \in Seq(Entries),
         Distinct(order), \A x : InSeq(x, order) <=> InSeq(x, cache) \/ x = e,
         ~InSeq(e, queue), cleaning # e, \A x \in Evictors : handle[x] # e,
         refcount' \in [Entries -> Nat], \A f \in Entries : f # e => refcount'[f] = refcount[f],
         refcount'[e] >= Cardinality(Holders(e)) + 1, seg' \in [Entries -> Segments],
         second' \in SUBSET Entries,
         TakeReference(t, m, s, n, e, order)
  PROVE  Held'
<1>1. /\ cache' \in Seq(Entries) /\ queue' \in Seq(Entries)
      /\ Distinct(cache') /\ Distinct(queue')
      /\ \A x : InSeq(x, cache') => InSeq(x, cache) \/ x = e
      /\ \A x : InSeq(x, cache') => ~InSeq(x, queue')
      /\ \A x : InSeq(x, cache') \/ InSeq(x, queue') <=>
                  InSeq(x, cache) \/ InSeq(x, queue) \/ x = e
  BY AcquireMoves DEF Held
<1>2. /\ pc[t] = "idle" /\ pc' = [pc EXCEPT ![t] = "load"]
      /\ job' = [job EXCEPT ![t] = Job(m, s, n)]
      /\ handle' = [handle EXCEPT ![t] = e]
      /\ UNCHANGED <<cap, loaded, file, committed, cleaning>>
  BY DEF TakeReference
<1>3. t \in Threads /\ t \notin Evictors
  BY MemoryAssumption DEF Threads
<1>4. handle[t] = NoEntry
  BY <1>2 DEF Held, UsersAt
<1>5. \A f \in Entries : f # e => Holders(f)' = Holders(f)
  BY <1>2, <1>3, <1>4, MemoryAssumption DEF Holders, Held, TypeOK, Threads
<1>6. Holders(e)' = Holders(e) \cup {t} /\ t \notin Holders(e)
  BY <1>2, <1>3, <1>4, MemoryAssumption DEF Holders, Held, TypeOK, Threads
<1>7. Cardinality(Holders(e)') = Cardinality(Holders(e)) + 1
  <2>1. IsFiniteSet(Holders(e))
    BY HoldersFinite
  <2> QED
    BY <1>6, <2>1, FS_AddElement
<1>8. Counted'
  <2> SUFFICES ASSUME NEW f \in Entries PROVE refcount'[f] >= Cardinality(Holders(f)')
    BY DEF Counted
  <2>1. CASE f = e
    BY <2>1, <1>7
  <2>2. CASE f # e
    BY <2>2, <1>5 DEF Held, Counted
  <2> QED
    BY <2>1, <2>2
<1>9. TypeOK'
  <2>1. Job(m, s, n) \in Jobs
    BY JobTyped
  <2>2. refcount' \in [Entries -> Nat]
    OBVIOUS
  <2>3. job' \in [Threads -> Jobs]
    BY <1>2, <1>3, <2>1 DEF Held, TypeOK
  <2>4. /\ pc' \in [Threads -> {"idle", "load", "using", "written", "advance", "evict"}]
        /\ handle' \in [Threads -> Entries \cup {NoEntry}]
    BY <1>2, <1>3 DEF Held, TypeOK
  <2> QED
    BY <1>1, <1>2, <2>2, <2>3, <2>4 DEF Held, TypeOK
<1>10. UsersAt'
  <2>1. Job(m, s, n).mode = m
    BY JobTyped
  <2>2. e # NoEntry
    BY MemoryAssumption
  <2> SUFFICES ASSUME NEW u \in Users PROVE UsersAt!(u)'
    BY DEF UsersAt
  <2>3. CASE u = t
    BY <2>1, <2>2, <2>3, <1>2, <1>3 DEF Held, TypeOK
  <2>4. CASE u # t
    BY <2>4, <1>2, <1>3 DEF Held, TypeOK, UsersAt, Threads
  <2> QED
    BY <2>3, <2>4
<1>11. \A x \in Evictors : pc'[x] = pc[x] /\ job'[x] = job[x] /\ handle'[x] = handle[x]
  BY <1>2, <1>3 DEF Held, TypeOK, Threads
<1>12. EvictorsAt'
  <2> SUFFICES ASSUME NEW x \in Evictors PROVE EvictorsAt!(x)'
    BY DEF EvictorsAt
  <2>1. handle[x] \in Entries \cup {NoEntry}
    BY DEF Held, TypeOK, Threads
  <2>2. handle[x] # e
    OBVIOUS
  <2>3. handle[x] \in Entries => refcount'[handle[x]] = refcount[handle[x]]
    BY <2>2 DEF Held, TypeOK
  <2> QED
    BY <2>1, <2>3, <1>11 DEF Held, EvictorsAt
<1>13. OnePlace'
  <2>1. \A f \in Entries : InSeq(f, cache') \/ InSeq(f, queue') \/ cleaning = f =>
                             \A x \in Evictors : handle[x] # f
    BY <1>1 DEF Held, OnePlace
  <2>2. \A f \in Entries : InSeq(f, cache') \/ InSeq(f, queue') => cleaning # f
    BY <1>1 DEF Held, OnePlace
  <2> QED
    BY <2>1, <2>2, <1>1, <1>2, <1>11 DEF Held, OnePlace
<1>14. Tracked'
  <2> SUFFICES ASSUME NEW f \in Entries, loaded'[f] \/ Holders(f)' # {} PROVE Placed(f)'
    BY DEF Tracked
  <2>1. CASE f = e
    BY <2>1, <1>1 DEF Placed
  <2>2. CASE f # e
    <3>1. Placed(f)
      BY <2>2, <1>2, <1>5 DEF Held, Tracked
    <3> QED
      BY <3>1, <1>1, <1>2, <1>11 DEF Placed
  <2> QED
    BY <2>1, <2>2
<1>15. NoUseAfterRelease'
  BY <1>2, <1>3 DEF Held, NoUseAfterRelease, TypeOK, Threads
<1> QED
  BY <1>8, <1>9, <1>10, <1>12, <1>13, <1>14, <1>15 DEF Held

\* acquire of an entry in the cache moves it to the end.
LEMMA AcquireCachedHeld ==
  ASSUME Held, NEW t \in Users, NEW m \in {"read", "write"}, NEW s \in Segments, NEW n \in Nat,
         NEW e \in CachedFor(s), refcount' = [refcount EXCEPT ![e] = @ + 1],
         TakeReference(t, m, s, n, e, Append(Without(cache, e), e)), UNCHANGED <<seg, second>>
  PROVE  Held'
<1> DEFINE order == Append(Without(cache, e), e)
<1>1. e \in Entries /\ InSeq(e, cache)
  BY DEF CachedFor
<1>2. cache \in Seq(Entries) /\ Distinct(cache)
  BY DEF Held, TypeOK, OnePlace
<1>3. /\ order \in Seq(Entries) /\ Distinct(order)
      /\ \A x : InSeq(x, order) <=> InSeq(x, cache) \/ x = e
  BY <1>1, <1>2, MoveToEnd
<1>4. TakeReference(t, m, s, n, e, order)
  OBVIOUS
<1> HIDE DEF order
<1>5. ~InSeq(e, queue) /\ cleaning # e /\ \A x \in Evictors : handle[x] # e
  BY <1>1 DEF Held, OnePlace
<1>6. /\ second' \in SUBSET Entries
      /\ seg' \in [Entries -> Segments] /\ refcount' \in [Entries -> Nat]
      /\ \A f \in Entries : f # e => refcount'[f] = refcount[f]
  BY <1>1 DEF Held, TypeOK
<1>7. refcount'[e] >= Cardinality(Holders(e)) + 1
  BY <1>1, HoldersFinite DEF Held, TypeOK, Counted
<1> QED
  BY <1>1, <1>3, <1>4, <1>5, <1>6, <1>7, AcquireHeld

\* A new Entry object is in none of the places, and nobody holds it.
LEMMA GarbageFacts ==
  ASSUME Held, NEW e \in Entries, Garbage(e)
  PROVE  /\ ~InSeq(e, cache) /\ ~InSeq(e, queue) /\ cleaning # e
         /\ \A x \in Evictors : handle[x] # e
         /\ Holders(e) = {} /\ ~loaded[e]
<1>1. /\ ~InSeq(e, cache) /\ ~InSeq(e, queue) /\ cleaning # e
      /\ \A x \in Evictors : handle[x] # e
  BY DEF Garbage, Threads
<1>2. Holders(e) = {}
  BY DEF Garbage, Threads, Holders
<1>3. ~Placed(e)
  BY <1>1 DEF Placed
<1>4. ~loaded[e]
  BY <1>3 DEF Held, Tracked
<1> QED
  BY <1>1, <1>2, <1>4

\* acquire of a segment that is not in the cache makes an Entry for it.
LEMMA AcquireNewHeld ==
  ASSUME Held, NEW t \in Users, NEW m \in {"read", "write"}, NEW s \in Segments, NEW n \in Nat,
         NEW e \in Entries, Garbage(e), refcount' = [refcount EXCEPT ![e] = 1],
         seg' = [seg EXCEPT ![e] = s], second' \in SUBSET (second \cup {e}),
         TakeReference(t, m, s, n, e, Append(cache, e))
  PROVE  Held'
<1> DEFINE order == Append(cache, e)
<1>1. /\ ~InSeq(e, cache) /\ ~InSeq(e, queue) /\ cleaning # e
      /\ \A x \in Evictors : handle[x] # e
      /\ Holders(e) = {}
  BY GarbageFacts
<1>2. cache \in Seq(Entries) /\ Distinct(cache)
  BY DEF Held, TypeOK, OnePlace
<1>3. /\ order \in Seq(Entries) /\ Distinct(order)
      /\ \A x : InSeq(x, order) <=> InSeq(x, cache) \/ x = e
  BY <1>1, <1>2, AppendAdds
<1>4. /\ refcount' \in [Entries -> Nat] /\ seg' \in [Entries -> Segments]
      /\ second' \in SUBSET Entries
      /\ \A f \in Entries : f # e => refcount'[f] = refcount[f]
      /\ refcount'[e] >= Cardinality(Holders(e)) + 1
  BY <1>1, FS_EmptySet DEF Held, TypeOK
<1> HIDE DEF order
<1>5. TakeReference(t, m, s, n, e, order)
  BY DEF order
<1> QED
  BY <1>1, <1>3, <1>4, <1>5, AcquireHeld

\* A step that moves no entry and no handle.
LEMMA StaysHeld ==
  ASSUME Held, TypeOK', UsersAt', NoUseAfterRelease',
         UNCHANGED <<cache, queue, cleaning, refcount, handle>>,
         \A x \in Evictors : pc'[x] = pc[x] /\ job'[x] = job[x],
         \A e \in Entries : loaded'[e] => loaded[e] \/ Holders(e) # {}
  PROVE  Held'
<1>1. \A e : Holders(e)' = Holders(e) /\ Placed(e)' = Placed(e)
  BY DEF Holders, Placed
<1>2. Counted'
  BY <1>1 DEF Held, Counted
<1>3. Tracked'
  BY <1>1 DEF Held, Tracked
<1>4. OnePlace'
  BY DEF Held, OnePlace
<1>5. EvictorsAt'
  BY DEF Held, EvictorsAt
<1> QED
  BY <1>2, <1>3, <1>4, <1>5 DEF Held

\* What a user in a given place has.
LEMMA UserHas ==
  ASSUME Held, NEW t \in Users, pc[t] \in {"load", "using", "written"}
  PROVE  /\ t \in Threads /\ t \notin Evictors /\ handle[t] \in Entries
         /\ job[t] \in Jobs /\ job[t].seg \in Segments /\ job[t].size \in Nat
         /\ t \in Holders(handle[t])
<1>1. t \in Threads /\ t \notin Evictors
  BY MemoryAssumption DEF Threads
<1>2. handle[t] \in Entries /\ job[t] \in Jobs
  BY <1>1 DEF Held, TypeOK, UsersAt
<1> QED
  BY <1>1, <1>2 DEF Jobs, Holders

\* Entry.load.
LEMMA LoadHeld ==
  ASSUME Held, NEW t \in Users, Load(t)
  PROVE  Held'
<1> DEFINE e == handle[t]
           length == MapLength(e)
<1>1. /\ pc[t] = "load" /\ pc' = [pc EXCEPT ![t] = "using"]
      /\ loaded' = [loaded EXCEPT ![e] = TRUE]
      /\ UNCHANGED <<cache, seg, refcount, committed, queue, cleaning, job, handle, second>>
  BY DEF Load
<1>2. t \in Threads /\ t \notin Evictors /\ e \in Entries /\ t \in Holders(e)
  BY <1>1, UserHas
<1>3. seg[e] \in Segments /\ length \in Nat
  BY <1>2, MemoryAssumption DEF Held, TypeOK, MapLength
<1> HIDE DEF length
<1>4. cap' \in [Entries -> Nat] /\ file' \in [Segments -> Nat]
  <2>1. \/ UNCHANGED <<cap, file>>
        \/ cap' = [cap EXCEPT ![e] = length] /\ file' = [file EXCEPT ![seg[e]] = length]
    BY DEF Load, length
  <2>2. cap \in [Entries -> Nat] /\ file \in [Segments -> Nat]
    BY DEF Held, TypeOK
  <2>3. CASE UNCHANGED <<cap, file>>
    BY <2>2, <2>3
  <2>4. CASE cap' = [cap EXCEPT ![e] = length] /\ file' = [file EXCEPT ![seg[e]] = length]
    BY <1>3, <2>2, <2>4
  <2> QED
    BY <2>1, <2>3, <2>4
<1>5. TypeOK'
  BY <1>1, <1>2, <1>4 DEF Held, TypeOK
<1>6. UsersAt'
  BY <1>1, <1>2 DEF Held, TypeOK, UsersAt, Threads
<1>7. NoUseAfterRelease'
  <2> SUFFICES ASSUME NEW u \in Users, pc'[u] \in {"using", "written"}
               PROVE  loaded'[handle[u]]
    BY <1>1 DEF NoUseAfterRelease
  <2>1. u \in Threads /\ handle[u] \in Entries
    BY <1>1, <1>2, <1>6 DEF Held, TypeOK, UsersAt, Threads
  <2>2. CASE u = t
    BY <2>2, <1>1, <1>2 DEF Held, TypeOK
  <2>3. CASE u # t
    BY <2>1, <2>3, <1>1, <1>2 DEF Held, TypeOK, NoUseAfterRelease
  <2> QED
    BY <2>2, <2>3
<1>8. \A x \in Evictors : pc'[x] = pc[x] /\ job'[x] = job[x]
  BY <1>1, <1>2 DEF Held, TypeOK, Threads
<1>9. \A f \in Entries : loaded'[f] => loaded[f] \/ Holders(f) # {}
  BY <1>1, <1>2 DEF Held, TypeOK
<1> QED
  BY <1>1, <1>5, <1>6, <1>7, <1>8, <1>9, StaysHeld

\* Entry.write.
LEMMA WriteHeld ==
  ASSUME Held, NEW t \in Users, Write(t)
  PROVE  Held'
<1> DEFINE e == handle[t]
           required == committed[job[t].seg] + job[t].size
<1>1. /\ pc[t] = "using" /\ job[t].mode = "write" /\ pc' = [pc EXCEPT ![t] = "written"]
      /\ UNCHANGED <<cache, seg, refcount, loaded, committed, queue, cleaning, job, handle, second>>
  BY DEF Write
<1>2. /\ t \in Threads /\ t \notin Evictors /\ e \in Entries
      /\ job[t].seg \in Segments /\ job[t].size \in Nat
  BY <1>1, UserHas
<1>3. required \in Nat /\ seg[e] \in Segments /\ cap[e] \in Nat
  BY <1>2 DEF Held, TypeOK
<1>4. Grown(e, required) \in Nat
  BY <1>3, MemoryAssumption DEF Grown, Max2
<1>5. cap' \in [Entries -> Nat] /\ file' \in [Segments -> Nat]
  <2>1. \/ UNCHANGED <<cap, file>>
        \/ /\ cap' = [cap EXCEPT ![e] = Grown(e, required)]
           /\ file' = [file EXCEPT ![seg[e]] = Grown(e, required)]
    BY DEF Write, Grow
  <2>2. cap \in [Entries -> Nat] /\ file \in [Segments -> Nat]
    BY DEF Held, TypeOK
  <2>3. CASE UNCHANGED <<cap, file>>
    BY <2>2, <2>3
  <2>4. CASE /\ cap' = [cap EXCEPT ![e] = Grown(e, required)]
             /\ file' = [file EXCEPT ![seg[e]] = Grown(e, required)]
    BY <1>3, <1>4, <2>2, <2>4
  <2> QED
    BY <2>1, <2>3, <2>4
<1>6. TypeOK'
  BY <1>1, <1>2, <1>5 DEF Held, TypeOK
<1>7. UsersAt'
  BY <1>1, <1>2 DEF Held, TypeOK, UsersAt, Threads
<1>8. NoUseAfterRelease'
  BY <1>1, <1>2 DEF Held, TypeOK, NoUseAfterRelease, Threads
<1>9. \A x \in Evictors : pc'[x] = pc[x] /\ job'[x] = job[x]
  BY <1>1, <1>2 DEF Held, TypeOK, Threads
<1>10. \A f \in Entries : loaded'[f] => loaded[f]
  BY <1>1
<1> QED
  BY <1>1, <1>6, <1>7, <1>8, <1>9, <1>10, StaysHeld

\* advance_offset, after the handle was released.
LEMMA AdvanceHeld ==
  ASSUME Held, NEW t \in Users, Advance(t)
  PROVE  Held'
<1>1. /\ pc[t] = "advance" /\ pc' = [pc EXCEPT ![t] = "idle"]
      /\ committed' = [committed EXCEPT ![job[t].seg] = @ + job[t].size]
      /\ job' = [job EXCEPT ![t] = NoJob]
      /\ UNCHANGED <<cache, seg, refcount, loaded, cap, file, queue, cleaning, handle, second>>
  BY DEF Advance, entryVars
<1>2. t \in Threads /\ t \notin Evictors
  BY MemoryAssumption DEF Threads
<1>3. job[t].seg \in Segments /\ job[t].size \in Nat
  BY <1>2 DEF Held, TypeOK, Jobs
<1>4. NoJob \in Jobs /\ NoJob.mode = "none"
  BY NoJobTyped
<1>5. committed' \in [Segments -> Nat]
  BY <1>1, <1>3 DEF Held, TypeOK
<1>6. job' \in [Threads -> Jobs]
  BY <1>1, <1>2, <1>4 DEF Held, TypeOK
<1>7. TypeOK'
  BY <1>1, <1>2, <1>5, <1>6 DEF Held, TypeOK
<1>8. UsersAt'
  <2> SUFFICES ASSUME NEW u \in Users PROVE UsersAt!(u)'
    BY DEF UsersAt
  <2>1. CASE u = t
    BY <2>1, <1>1, <1>2, <1>4 DEF Held, TypeOK, UsersAt
  <2>2. CASE u # t
    BY <2>2, <1>1, <1>2 DEF Held, TypeOK, UsersAt, Threads
  <2> QED
    BY <2>1, <2>2
<1>9. NoUseAfterRelease'
  BY <1>1, <1>2 DEF Held, TypeOK, NoUseAfterRelease, Threads
<1>10. \A x \in Evictors : pc'[x] = pc[x] /\ job'[x] = job[x]
  BY <1>1, <1>2 DEF Held, TypeOK, Threads
<1>11. \A f \in Entries : loaded'[f] => loaded[f]
  BY <1>1
<1> QED
  BY <1>1, <1>7, <1>8, <1>9, <1>10, <1>11, StaysHeld

\* _release_entry takes one handle and one reference away.
LEMMA ReleaseHeld ==
  ASSUME Held, NEW t \in Users, Release(t)
  PROVE  Held'
<1>0. PICK e \in Entries : e = handle[t]
  <2>1. pc[t] \in {"load", "using", "written"}
    BY DEF Release
  <2> QED
    BY <2>1, UserHas
<1> DEFINE to == IF job[t].mode = "write" THEN "advance" ELSE "idle"
           next == IF job[t].mode = "write" THEN job[t] ELSE NoJob
<1>1. /\ (pc[t] = "using" /\ job[t].mode = "read") \/ pc[t] = "written"
      /\ refcount' = [refcount EXCEPT ![e] = @ - 1]
      /\ handle' = [handle EXCEPT ![t] = NoEntry]
      /\ pc' = [pc EXCEPT ![t] = to]
      /\ UNCHANGED <<cache, seg, loaded, cap, file, committed, queue, cleaning, second>>
  BY <1>0 DEF Release
<1>2. /\ t \in Threads /\ t \notin Evictors /\ e = handle[t]
      /\ job[t] \in Jobs /\ t \in Holders(e)
  BY <1>0, <1>1, UserHas
<1>3. job' = [job EXCEPT ![t] = next]
  BY <1>2 DEF Release, Held, TypeOK
<1>4. next \in Jobs /\ (to = "advance" => next.mode = "write") /\ (to = "idle" => next.mode = "none")
  BY <1>2, NoJobTyped
<1>5. to \in {"advance", "idle"}
  OBVIOUS
<1> HIDE DEF next, to
<1>6. \A f \in Entries : f # e => Holders(f)' = Holders(f)
  BY <1>1, <1>2, MemoryAssumption DEF Holders, Held, TypeOK, Threads
<1>7. Holders(e)' = Holders(e) \ {t}
  BY <1>1, <1>2, MemoryAssumption DEF Holders, Held, TypeOK, Threads
<1>8. Cardinality(Holders(e)') = Cardinality(Holders(e)) - 1
  <2>1. IsFiniteSet(Holders(e))
    BY HoldersFinite
  <2> QED
    BY <1>2, <1>7, <2>1, FS_RemoveElement
<1>9. Counted'
  <2> SUFFICES ASSUME NEW f \in Entries PROVE refcount'[f] >= Cardinality(Holders(f)')
    BY DEF Counted
  <2>1. CASE f = e
    BY <2>1, <1>1, <1>8, HoldersFinite DEF Held, Counted, TypeOK
  <2>2. CASE f # e
    BY <2>2, <1>1, <1>2, <1>6 DEF Held, Counted, TypeOK
  <2> QED
    BY <2>1, <2>2
<1>10. TypeOK'
  <2>1. refcount' \in [Entries -> Nat]
    <3>1. ASSUME NEW f \in Entries PROVE refcount'[f] \in Nat
      <4>1. IsFiniteSet(Holders(f)')
        BY MemoryAssumption, FS_Subset DEF Holders
      <4>2. Cardinality(Holders(f)') \in Nat /\ refcount'[f] >= Cardinality(Holders(f)')
        BY <4>1, <1>9, FS_CardinalityType DEF Counted
      <4>3. refcount'[f] \in Int
        BY <1>1, <1>2 DEF Held, TypeOK
      <4> QED
        BY <4>2, <4>3
    <3>2. refcount' \in [Entries -> Int]
      BY <1>1, <1>2 DEF Held, TypeOK
    <3> QED
      BY <3>1, <3>2
  <2>2. job' \in [Threads -> Jobs]
    BY <1>2, <1>3, <1>4 DEF Held, TypeOK
  <2>3. pc' \in [Threads -> {"idle", "load", "using", "written", "advance", "evict"}]
    BY <1>1, <1>2, <1>5 DEF Held, TypeOK
  <2> QED
    BY <1>1, <1>2, <2>1, <2>2, <2>3 DEF Held, TypeOK
<1>11. UsersAt'
  <2> SUFFICES ASSUME NEW u \in Users PROVE UsersAt!(u)'
    BY DEF UsersAt
  <2>1. CASE u = t
    BY <2>1, <1>1, <1>2, <1>3, <1>4, <1>5 DEF Held, TypeOK
  <2>2. CASE u # t
    BY <2>2, <1>1, <1>2, <1>3 DEF Held, TypeOK, UsersAt, Threads
  <2> QED
    BY <2>1, <2>2
<1>12. \A x \in Evictors : pc'[x] = pc[x] /\ job'[x] = job[x] /\ handle'[x] = handle[x]
  BY <1>1, <1>2, <1>3 DEF Held, TypeOK, Threads
<1>13. EvictorsAt'
  <2> SUFFICES ASSUME NEW x \in Evictors PROVE EvictorsAt!(x)'
    BY DEF EvictorsAt
  <2>1. handle[x] \in Entries \cup {NoEntry}
    BY DEF Held, TypeOK, Threads
  <2>2. ASSUME handle[x] \in Entries, refcount[handle[x]] = 0
        PROVE  refcount'[handle[x]] = 0
    <3>1. Holders(handle[x]) = {}
      BY <2>2, NoneHolds DEF Held
    <3>2. handle[x] # e
      BY <3>1, <1>2
    <3> QED
      BY <2>2, <3>2, <1>1, <1>2 DEF Held, TypeOK
  <2> QED
    BY <2>1, <2>2, <1>12 DEF Held, EvictorsAt
<1>14. OnePlace'
  BY <1>1, <1>12 DEF Held, OnePlace
<1>15. Tracked'
  <2>1. \A f \in Entries : Placed(f) => Placed(f)'
    BY <1>1, <1>12 DEF Placed
  <2>2. \A f \in Entries : Holders(f)' # {} => Holders(f) # {}
    BY <1>6, <1>7
  <2> QED
    BY <1>1, <2>1, <2>2 DEF Held, Tracked
<1>16. NoUseAfterRelease'
  BY <1>1, <1>2, <1>5 DEF Held, TypeOK, NoUseAfterRelease, Threads
<1> QED
  BY <1>9, <1>10, <1>11, <1>13, <1>14, <1>15, <1>16 DEF Held

\* A load that raises takes the handle away and leaves the reference.
LEMMA LoadRaisesHeld ==
  ASSUME Held, NEW t \in Users, LoadRaises(t)
  PROVE  Held'
<1>1. /\ pc[t] = "load" /\ pc' = [pc EXCEPT ![t] = "idle"]
      /\ job' = [job EXCEPT ![t] = NoJob] /\ handle' = [handle EXCEPT ![t] = NoEntry]
      /\ UNCHANGED <<cache, seg, refcount, committed, queue, cleaning, second>>
  BY DEF LoadRaises
<1>0. PICK e \in Entries : e = handle[t]
  BY <1>1, UserHas
<1>2. t \in Threads /\ t \notin Evictors /\ t \in Holders(e)
  BY <1>0, <1>1, UserHas
<1>3. PICK length \in Nat : length = MapLength(e)
  BY <1>0, MemoryAssumption DEF Held, TypeOK, MapLength
<1>4. /\ file' = file \/ file' = [file EXCEPT ![seg[e]] = length]
      /\ cap' = cap \/ cap' = [cap EXCEPT ![e] = length]
      /\ loaded' = loaded \/ loaded' = [loaded EXCEPT ![e] = TRUE]
  BY <1>0, <1>3 DEF LoadRaises
<1>5. \A f \in Entries : Holders(f)' \subseteq Holders(f)
  BY <1>1, <1>2, MemoryAssumption DEF Holders, Held, TypeOK, Threads
<1>6. Counted'
  <2> SUFFICES ASSUME NEW f \in Entries PROVE refcount'[f] >= Cardinality(Holders(f)')
    BY DEF Counted
  <2>1. IsFiniteSet(Holders(f)) /\ Cardinality(Holders(f)) \in Nat
    BY HoldersFinite
  <2>2. Cardinality(Holders(f)') <= Cardinality(Holders(f)) /\ Cardinality(Holders(f)') \in Nat
    BY <1>5, <2>1, FS_Subset, FS_CardinalityType
  <2> QED BY <1>1, <2>1, <2>2 DEF Held, Counted, TypeOK
<1>7. TypeOK'
  <2>1. cap' \in [Entries -> Nat] /\ file' \in [Segments -> Nat] /\ loaded' \in [Entries -> BOOLEAN]
    <3>1. /\ cap \in [Entries -> Nat] /\ file \in [Segments -> Nat]
          /\ loaded \in [Entries -> BOOLEAN]
      BY DEF Held, TypeOK
    <3>2. cap' \in [Entries -> Nat]
      BY <1>4, <3>1
    <3>3. file' \in [Segments -> Nat]
      BY <1>4, <3>1
    <3>4. loaded' \in [Entries -> BOOLEAN]
      BY <1>4, <3>1
    <3> QED BY <3>2, <3>3, <3>4
  <2>2. job' \in [Threads -> Jobs]
    BY <1>1, <1>2, NoJobTyped DEF Held, TypeOK
  <2>3. /\ pc' \in [Threads -> {"idle", "load", "using", "written", "advance", "evict"}]
        /\ handle' \in [Threads -> Entries \cup {NoEntry}]
    BY <1>1, <1>2 DEF Held, TypeOK
  <2> QED BY <1>1, <2>1, <2>2, <2>3 DEF Held, TypeOK
<1>8. UsersAt'
  <2> SUFFICES ASSUME NEW u \in Users PROVE UsersAt!(u)'
    BY DEF UsersAt
  <2>1. CASE u = t
    BY <2>1, <1>1, <1>2, NoJobTyped DEF Held, TypeOK
  <2>2. CASE u # t
    BY <2>2, <1>1, <1>2 DEF Held, TypeOK, UsersAt, Threads
  <2> QED BY <2>1, <2>2
<1>9. \A x \in Evictors : pc'[x] = pc[x] /\ job'[x] = job[x] /\ handle'[x] = handle[x]
  BY <1>1, <1>2 DEF Held, TypeOK, Threads
<1>10. EvictorsAt'
  BY <1>1, <1>9 DEF Held, EvictorsAt
<1>11. OnePlace'
  BY <1>1, <1>9 DEF Held, OnePlace
<1>12. \A f \in Entries : loaded'[f] => loaded[f] \/ Holders(f) # {}
  BY <1>2, <1>4 DEF Held, TypeOK
<1>13. Tracked'
  <2>1. \A f \in Entries : Placed(f) => Placed(f)'
    BY <1>1, <1>9 DEF Placed
  <2> QED
    BY <1>5, <1>12, <2>1 DEF Held, Tracked
<1>14. NoUseAfterRelease'
  <2> SUFFICES ASSUME NEW u \in Users, pc'[u] \in {"using", "written"}
               PROVE  loaded'[handle'[u]]
    BY DEF NoUseAfterRelease
  <2>1. u # t /\ pc[u] = pc'[u] /\ handle'[u] = handle[u]
    BY <1>1, <1>2 DEF Held, TypeOK, Threads
  <2>2. handle[u] \in Entries /\ loaded[handle[u]]
    BY <2>1, UserHas DEF Held, NoUseAfterRelease
  <2> QED BY <1>4, <2>1, <2>2 DEF Held, TypeOK
<1> QED
  BY <1>6, <1>7, <1>8, <1>10, <1>11, <1>13, <1>14 DEF Held

\* try_evict and force_evict take an entry out of the cache.
LEMMA EvictPopHeld ==
  ASSUME Held, NEW t \in Evictors, NEW m \in {"try", "force"}, NEW s \in Segments,
         EvictPop(t, m, s)
  PROVE  Held'
<1>1. PICK e \in CachedFor(s) :
        /\ pc[t] = "idle" /\ (m = "try" => refcount[e] = 0)
        /\ cache' = Without(cache, e)
        /\ pc' = [pc EXCEPT ![t] = "evict"]
        /\ job' = [job EXCEPT ![t] = Job(m, s, 0)]
        /\ handle' = [handle EXCEPT ![t] = e]
        /\ UNCHANGED <<seg, refcount, loaded, cap, file, committed, queue, cleaning, second>>
  BY DEF EvictPop, entryVars
<1>2. e \in Entries /\ InSeq(e, cache) /\ e # NoEntry
  BY MemoryAssumption DEF CachedFor
<1>3. t \in Threads /\ t \notin Users /\ handle[t] = NoEntry
  BY <1>1, MemoryAssumption DEF Threads, Held, EvictorsAt
<1>4. /\ cache' \in Seq(Entries) /\ Distinct(cache')
      /\ \A x : InSeq(x, cache') <=> InSeq(x, cache) /\ x # e
  <2>1. cache \in Seq(Entries) /\ Distinct(cache)
    BY DEF Held, TypeOK, OnePlace
  <2> QED
    BY <1>1, <1>2, <2>1, WithoutDrops
<1>5. Job(m, s, 0) \in Jobs /\ Job(m, s, 0).mode = m
  BY JobTyped
<1>6. TypeOK'
  <2>1. job' \in [Threads -> Jobs]
    BY <1>1, <1>3, <1>5 DEF Held, TypeOK
  <2>2. /\ pc' \in [Threads -> {"idle", "load", "using", "written", "advance", "evict"}]
        /\ handle' \in [Threads -> Entries \cup {NoEntry}]
    BY <1>1, <1>2, <1>3 DEF Held, TypeOK
  <2> QED
    BY <1>1, <1>4, <2>1, <2>2 DEF Held, TypeOK
<1>7. \A u \in Users : pc'[u] = pc[u] /\ job'[u] = job[u] /\ handle'[u] = handle[u]
  BY <1>1, <1>3 DEF Held, TypeOK, Threads
<1>8. \A f : Holders(f)' = Holders(f)
  BY <1>7 DEF Holders
<1>9. UsersAt' /\ NoUseAfterRelease' /\ Counted'
  <2>1. UsersAt'
    BY <1>7 DEF Held, UsersAt
  <2>2. NoUseAfterRelease'
    BY <1>1, <1>7 DEF Held, NoUseAfterRelease
  <2>3. Counted'
    BY <1>1, <1>8 DEF Held, Counted
  <2> QED
    BY <2>1, <2>2, <2>3
<1>10. \A x \in Evictors : x # t => pc'[x] = pc[x] /\ job'[x] = job[x] /\ handle'[x] = handle[x]
  BY <1>1, <1>3 DEF Held, TypeOK, Threads
<1>11. pc'[t] = "evict" /\ job'[t] = Job(m, s, 0) /\ handle'[t] = e
  BY <1>1, <1>3 DEF Held, TypeOK
<1>12. EvictorsAt'
  <2> SUFFICES ASSUME NEW x \in Evictors PROVE EvictorsAt!(x)'
    BY DEF EvictorsAt
  <2>1. CASE x = t
    BY <2>1, <1>1, <1>2, <1>5, <1>11
  <2>2. CASE x # t
    BY <2>2, <1>1, <1>10 DEF Held, EvictorsAt
  <2> QED
    BY <2>1, <2>2
<1>13. OnePlace'
  <2>1. \A x \in Evictors : handle[x] # e
    BY <1>2 DEF Held, OnePlace
  <2>2. ASSUME NEW f \in Entries, InSeq(f, cache') \/ InSeq(f, queue) \/ cleaning = f,
               NEW x \in Evictors
        PROVE  handle'[x] # f
    <3>1. f # e /\ handle[x] # f
      BY <2>2, <1>2, <1>4 DEF Held, OnePlace
    <3> QED
      BY <3>1, <1>10, <1>11
  <2>3. \A x, y \in Evictors : handle'[x] = handle'[y] /\ handle'[x] # NoEntry => x = y
    BY <2>1, <1>10, <1>11 DEF Held, OnePlace
  <2> QED
    BY <2>2, <2>3, <1>1, <1>4 DEF Held, OnePlace
<1>14. Tracked'
  <2>1. ASSUME NEW f \in Entries, Placed(f) PROVE Placed(f)'
    <3>1. CASE f = e
      BY <3>1, <1>11 DEF Placed
    <3>2. CASE f # e
      <4>1. ASSUME NEW x \in Evictors, handle[x] = f PROVE handle'[x] = f
        <5>1. x # t
          BY <4>1, <1>3, MemoryAssumption
        <5> QED
          BY <4>1, <5>1, <1>10
      <4> QED
        BY <2>1, <3>2, <4>1, <1>1, <1>4 DEF Placed
    <3> QED
      BY <3>1, <3>2
  <2> QED
    BY <2>1, <1>1, <1>8 DEF Held, Tracked
<1> QED
  BY <1>6, <1>9, <1>12, <1>13, <1>14 DEF Held

\* Entry.release on an entry that nobody holds: the users notice nothing.
LEMMA CloseHeld ==
  ASSUME Held, NEW e \in Entries, refcount[e] = 0, Unmap(e),
         \A u \in Users : pc'[u] = pc[u] /\ job'[u] = job[u] /\ handle'[u] = handle[u],
         \A f \in Entries : f # e /\ Placed(f) => Placed(f)'
  PROVE  /\ UsersAt' /\ NoUseAfterRelease' /\ Counted' /\ Tracked'
         /\ seg' \in [Entries -> Segments] /\ loaded' \in [Entries -> BOOLEAN]
         /\ cap' \in [Entries -> Nat]
<1>1. \A f : Holders(f)' = Holders(f)
  BY DEF Holders
<1>2. Holders(e) = {}
  BY NoneHolds DEF Held
<1>3. /\ loaded' = [loaded EXCEPT ![e] = FALSE] /\ cap' = [cap EXCEPT ![e] = 0]
      /\ seg' = [seg EXCEPT ![e] = AnySegment] /\ UNCHANGED <<cache, refcount, file, committed>>
  BY DEF Unmap
<1>4. /\ seg' \in [Entries -> Segments] /\ loaded' \in [Entries -> BOOLEAN]
      /\ cap' \in [Entries -> Nat]
  BY <1>3, AnySegmentTyped DEF Held, TypeOK
<1>5. UsersAt'
  BY DEF Held, UsersAt
<1>6. NoUseAfterRelease'
  <2> SUFFICES ASSUME NEW u \in Users, pc[u] \in {"using", "written"} PROVE loaded'[handle[u]]
    BY DEF NoUseAfterRelease
  <2>1. handle[u] \in Entries /\ u \in Holders(handle[u]) /\ loaded[handle[u]]
    BY UserHas DEF Held, NoUseAfterRelease
  <2>2. handle[u] # e
    BY <2>1, <1>2
  <2> QED
    BY <2>1, <2>2, <1>3 DEF Held, TypeOK
<1>7. Counted'
  BY <1>1, <1>3 DEF Held, Counted
<1>8. Tracked'
  <2> SUFFICES ASSUME NEW f \in Entries, loaded'[f] \/ Holders(f)' # {} PROVE Placed(f)'
    BY DEF Tracked
  <2>1. f # e
    BY <1>1, <1>2, <1>3 DEF Held, TypeOK
  <2>2. loaded[f] \/ Holders(f) # {}
    BY <2>1, <1>1, <1>3 DEF Held, TypeOK
  <2> QED
    BY <2>1, <2>2 DEF Held, Tracked
<1> QED
  BY <1>4, <1>5, <1>6, <1>7, <1>8

\* The end of try_evict and force_evict.
LEMMA EvictCloseHeld ==
  ASSUME Held, NEW t \in Evictors, EvictClose(t)
  PROVE  Held'
<1>1. t \in Threads /\ t \notin Users /\ pc[t] = "evict"
  BY MemoryAssumption DEF Threads, EvictClose
<1>2. PICK e \in Entries : e = handle[t]
  BY <1>1 DEF Held, TypeOK, EvictorsAt
<1>3. /\ Unmap(e) /\ pc' = [pc EXCEPT ![t] = "idle"] /\ job' = [job EXCEPT ![t] = NoJob]
      /\ handle' = [handle EXCEPT ![t] = NoEntry] /\ UNCHANGED <<queue, cleaning>>
  BY <1>2 DEF EvictClose
<1>4. refcount[e] = 0
  BY <1>1, <1>2 DEF EvictClose, Held, EvictorsAt
<1>5. \A u \in Users : pc'[u] = pc[u] /\ job'[u] = job[u] /\ handle'[u] = handle[u]
  BY <1>1, <1>3 DEF Held, TypeOK, Threads
<1>6. \A x \in Evictors : x # t => pc'[x] = pc[x] /\ job'[x] = job[x] /\ handle'[x] = handle[x]
  BY <1>1, <1>3 DEF Held, TypeOK, Threads
<1>7. pc'[t] = "idle" /\ handle'[t] = NoEntry
  BY <1>1, <1>3 DEF Held, TypeOK
<1>8. UNCHANGED <<cache, refcount, file, committed>>
  BY <1>3 DEF Unmap
<1>9. \A f \in Entries : f # e /\ Placed(f) => Placed(f)'
  <2> SUFFICES ASSUME NEW f \in Entries, f # e, Placed(f) PROVE Placed(f)'
    OBVIOUS
  <2>1. ASSUME NEW x \in Evictors, handle[x] = f PROVE handle'[x] = f
    BY <2>1, <1>2, <1>6
  <2> QED
    BY <2>1, <1>3, <1>8 DEF Placed
<1>10. /\ UsersAt' /\ NoUseAfterRelease' /\ Counted' /\ Tracked'
       /\ seg' \in [Entries -> Segments] /\ loaded' \in [Entries -> BOOLEAN]
       /\ cap' \in [Entries -> Nat]
  BY <1>3, <1>4, <1>5, <1>9, CloseHeld
<1>11. TypeOK'
  <2>1. job' \in [Threads -> Jobs]
    BY <1>1, <1>3, NoJobTyped DEF Held, TypeOK
  <2>2. /\ pc' \in [Threads -> {"idle", "load", "using", "written", "advance", "evict"}]
        /\ handle' \in [Threads -> Entries \cup {NoEntry}]
    BY <1>1, <1>3 DEF Held, TypeOK
  <2>3. second' \subseteq Entries
    BY <1>3 DEF Unmap, Held, TypeOK
  <2> QED
    BY <1>3, <1>8, <1>10, <2>1, <2>2, <2>3 DEF Held, TypeOK
<1>12. EvictorsAt'
  <2> SUFFICES ASSUME NEW x \in Evictors PROVE EvictorsAt!(x)'
    BY DEF EvictorsAt
  <2>1. CASE x = t
    BY <2>1, <1>7
  <2>2. CASE x # t
    BY <2>2, <1>6, <1>8 DEF Held, EvictorsAt
  <2> QED
    BY <2>1, <2>2
<1>13. OnePlace'
  <2>1. \A x \in Evictors : handle'[x] = handle[x] \/ handle'[x] = NoEntry
    BY <1>6, <1>7
  <2>2. ASSUME NEW f \in Entries, InSeq(f, cache) \/ InSeq(f, queue) \/ cleaning = f,
               NEW x \in Evictors
        PROVE  handle'[x] # f
    BY <2>1, <2>2, MemoryAssumption DEF Held, OnePlace
  <2>3. \A x, y \in Evictors : handle'[x] = handle'[y] /\ handle'[x] # NoEntry => x = y
    BY <2>1 DEF Held, OnePlace
  <2> QED
    BY <2>2, <2>3, <1>3, <1>8 DEF Held, OnePlace
<1> QED
  BY <1>10, <1>11, <1>12, <1>13 DEF Held

\* The cleanup thread takes an entry from the queue.
LEMMA CleanerTakeHeld ==
  ASSUME Held, CleanerTake
  PROVE  Held'
<1>1. /\ cleaning = NoEntry /\ queue # <<>> /\ cleaning' = Head(queue) /\ queue' = Tail(queue)
      /\ UNCHANGED <<cache, seg, refcount, loaded, cap, file, committed, pc, job, handle, second>>
  BY DEF CleanerTake, entryVars, threadVars
<1>2. /\ cleaning' \in Entries /\ queue' \in Seq(Entries) /\ Distinct(queue')
      /\ InSeq(cleaning', queue)
      /\ \A x : InSeq(x, queue') <=> InSeq(x, queue) /\ x # cleaning'
  <2>1. queue \in Seq(Entries) /\ Distinct(queue)
    BY DEF Held, TypeOK, OnePlace
  <2> QED
    BY <1>1, <2>1, HeadLeaves
<1>3. \A f : Holders(f)' = Holders(f)
  BY <1>1 DEF Holders
<1>4. TypeOK'
  BY <1>1, <1>2 DEF Held, TypeOK
<1>5. UsersAt' /\ EvictorsAt' /\ NoUseAfterRelease' /\ Counted'
  BY <1>1, <1>3 DEF Held, UsersAt, EvictorsAt, NoUseAfterRelease, Counted
<1>6. OnePlace'
  <2>1. \A f \in Entries : /\ InSeq(f, cache) => ~InSeq(f, queue')
                           /\ InSeq(f, cache) \/ InSeq(f, queue') => cleaning' # f
    BY <1>2 DEF Held, OnePlace
  <2>2. \A f \in Entries : InSeq(f, cache) \/ InSeq(f, queue') \/ cleaning' = f =>
                             \A x \in Evictors : handle[x] # f
    BY <1>2 DEF Held, OnePlace
  <2> QED
    BY <1>1, <1>2, <2>1, <2>2 DEF Held, OnePlace
<1>7. Tracked'
  <2>1. \A f \in Entries : Placed(f) => Placed(f)'
    BY <1>1, <1>2, MemoryAssumption DEF Placed
  <2> QED
    BY <1>1, <1>3, <2>1 DEF Held, Tracked
<1> QED
  BY <1>4, <1>5, <1>6, <1>7 DEF Held

\* The cleanup thread closes it.
LEMMA CleanerCloseHeld ==
  ASSUME Held, CleanerClose
  PROVE  Held'
<1>1. PICK e \in Entries : e = cleaning
  BY DEF Held, TypeOK, CleanerClose
<1>2. /\ refcount[e] = 0 /\ Unmap(e) /\ cleaning' = NoEntry
      /\ UNCHANGED <<queue, pc, job, handle>>
  BY <1>1 DEF CleanerClose, threadVars
<1>3. UNCHANGED <<cache, refcount, file, committed>> /\ second' = second \ {e}
  BY <1>2 DEF Unmap
<1>4. \A f \in Entries : f # e /\ Placed(f) => Placed(f)'
  BY <1>1, <1>2, <1>3 DEF Placed
<1>5. /\ UsersAt' /\ NoUseAfterRelease' /\ Counted' /\ Tracked'
      /\ seg' \in [Entries -> Segments] /\ loaded' \in [Entries -> BOOLEAN]
      /\ cap' \in [Entries -> Nat]
  BY <1>2, <1>4, CloseHeld
<1>6. TypeOK'
  BY <1>2, <1>3, <1>5 DEF Held, TypeOK
<1>7. EvictorsAt'
  BY <1>2, <1>3 DEF Held, EvictorsAt
<1>8. OnePlace'
  BY <1>2, <1>3, MemoryAssumption DEF Held, OnePlace
<1> QED
  BY <1>5, <1>6, <1>7, <1>8 DEF Held

\* An empty cache satisfies the invariant.
LEMMA InitHeld == Init => Held
<1> SUFFICES ASSUME Init PROVE Held
  OBVIOUS
<1>1. TypeOK
  BY NoJobTyped, AnySegmentTyped DEF Init, TypeOK
<1>2. \A e : ~InSeq(e, <<>>)
  BY DEF InSeq
<1>3. UsersAt /\ EvictorsAt /\ NoUseAfterRelease
  BY NoJobTyped DEF Init, UsersAt, EvictorsAt, NoUseAfterRelease, Threads
<1>4. OnePlace
  BY <1>2, MemoryAssumption DEF Init, OnePlace, Distinct, Threads
<1>5. \A e \in Entries : Holders(e) = {}
  BY MemoryAssumption DEF Init, Holders, Threads
<1>6. Counted
  <2>1. \A e \in Entries : Cardinality(Holders(e)) = 0
    BY <1>5, FS_EmptySet
  <2> QED BY <2>1 DEF Init, Counted
<1>7. Tracked
  BY <1>5 DEF Init, Tracked
<1> QED
  BY <1>1, <1>3, <1>4, <1>6, <1>7 DEF Held

\* The steps of acquire by a reader and by a writer.
LEMMA AcquireCases ==
  ASSUME TypeOK, NEW t \in Users, NEW s \in Segments,
         AcquireToRead(t, s) \/ \E n \in Lengths : AcquireToWrite(t, s, n)
  PROVE  \E m \in {"read", "write"}, n \in Nat :
           /\ AcquireCached(t, m, s, n) \/ AcquireNew(t, m, s, n)
           /\ m = "read" => n = committed[s]
           /\ m = "write" => \A u \in Users : ~(job[u].mode = "write" /\ job[u].seg = s)
<1>1. CASE AcquireToRead(t, s)
  <2>1. committed[s] \in Nat
    BY DEF TypeOK
  <2> QED
    BY <1>1, <2>1, Zenon DEF AcquireToRead
<1>2. ASSUME NEW n \in Lengths, AcquireToWrite(t, s, n)
      PROVE  /\ n \in Nat /\ (AcquireCached(t, "write", s, n) \/ AcquireNew(t, "write", s, n))
             /\ \A u \in Users : ~(job[u].mode = "write" /\ job[u].seg = s)
  BY <1>2, MemoryAssumption DEF AcquireToWrite
<1> QED
  BY <1>1, <1>2

\* Every step of every thread keeps it.
LEMMA NextHeld == Held /\ [Next]_vars => Held'
<1> SUFFICES ASSUME Held, [Next]_vars PROVE Held'
  OBVIOUS
<1>1. CASE UNCHANGED vars
  <2>1. UNCHANGED <<cache, seg, refcount, loaded, cap, file, committed, queue, cleaning, pc, job, handle, second>>
    BY <1>1 DEF vars, entryVars, threadVars
  <2>2. TypeOK' /\ UsersAt' /\ NoUseAfterRelease'
    BY <2>1 DEF Held, TypeOK, UsersAt, NoUseAfterRelease
  <2> QED
    BY <2>1, <2>2, StaysHeld
<1>2. ASSUME NEW t \in Users, UserStep(t) PROVE Held'
  BY <1>2, LoadHeld, LoadRaisesHeld, WriteHeld, ReleaseHeld, AdvanceHeld DEF UserStep
<1>3. ASSUME NEW t \in Users, NEW s \in Segments,
             AcquireToRead(t, s) \/ \E n \in Lengths : AcquireToWrite(t, s, n)
      PROVE  Held'
  <2>1. PICK m \in {"read", "write"}, n \in Nat : AcquireCached(t, m, s, n) \/ AcquireNew(t, m, s, n)
    BY <1>3, AcquireCases DEF Held
  <2>2. CASE AcquireCached(t, m, s, n)
    <3>1. PICK e \in CachedFor(s) :
            /\ refcount' = [refcount EXCEPT ![e] = @ + 1]
            /\ TakeReference(t, m, s, n, e, Append(Without(cache, e), e))
            /\ UNCHANGED <<seg, second>>
      BY <2>2, Zenon DEF AcquireCached
    <3> QED
      BY <3>1, AcquireCachedHeld
  <2>3. CASE AcquireNew(t, m, s, n)
    <3>1. PICK e \in Entries :
            /\ Garbage(e) /\ refcount' = [refcount EXCEPT ![e] = 1]
            /\ seg' = [seg EXCEPT ![e] = s] /\ second' \in SUBSET (second \cup {e})
            /\ TakeReference(t, m, s, n, e, Append(cache, e))
      BY <2>3 DEF AcquireNew
    <3> QED
      BY <3>1, AcquireNewHeld
  <2> QED
    BY <2>1, <2>2, <2>3
<1>4. ASSUME NEW t \in Evictors, EvictClose(t) PROVE Held'
  BY <1>4, EvictCloseHeld
<1>5. ASSUME NEW t \in Evictors, NEW m \in {"try", "force"}, NEW s \in Segments, EvictPop(t, m, s)
      PROVE  Held'
  BY <1>5, EvictPopHeld
<1>6. CASE CleanerTake
  BY <1>6, CleanerTakeHeld
<1>7. CASE CleanerClose
  BY <1>7, CleanerCloseHeld
<1> QED
  BY <1>1, <1>2, <1>3, <1>4, <1>5, <1>6, <1>7, Zenon DEF Next

\* In every state the variables have their types, each entry is in one place at
\* most, and Entry._refcount counts every handle on it.
THEOREM MemoryInvariant == Spec => []Held
<1>1. Init => Held
  BY InitHeld
<1>2. Held /\ [Next]_vars => Held'
  BY NextHeld
<1> QED
  BY <1>1, <1>2, PTL DEF Spec

\* A thread between acquire and release never finds its mapping closed, whoever
\* evicts the entry meanwhile.
THEOREM HandleStaysMapped == Spec => []NoUseAfterRelease
<1>1. Held => NoUseAfterRelease
  BY DEF Held
<1> QED
  BY <1>1, MemoryInvariant, PTL

\* Every open mapping is in the cache, on the cleanup queue or with the thread
\* that closes it: eviction of an entry in use leaks nothing.
THEOREM MappingsAreClosed == Spec => []NoLeak
<1>1. Held => NoLeak
  BY DEF Held, Tracked, Placed, NoLeak
<1> QED
  BY <1>1, MemoryInvariant, PTL

-----------------------------------------------------------------------------
\* The segments at hand have different ids, so the cache tells them apart.
IdsDistinct == \A s1, s2 \in Segments : GetId(s1) = GetId(s2) => s1 = s2

\* __cache is a dict: one entry under a key.
OnePerKey ==
  \A e, f \in Entries :
    InSeq(e, cache) /\ InSeq(f, cache) /\ GetId(seg[e]) = GetId(seg[f]) => e = f

\* The contract's "Writes to a segment MUST be externally serialized".
OneWriter ==
  \A t, u \in Users :
    job[t].mode = "write" /\ job[u].mode = "write" /\ job[t].seg = job[u].seg => t = u

\* A handle is on the file of the segment asked for.
HandleOnOwnFile ==
  \A t \in Users : handle[t] # NoEntry => seg[handle[t]] = job[t].seg

\* Every handle, and every cached entry, is on the segment its key names.
Keyed == OnePerKey /\ HandleOnOwnFile /\ OneWriter

\* A step that gives no thread another entry or segment.
LEMMA StaysKeyed ==
  ASSUME Held, Keyed,
         \A f \in Entries : InSeq(f, cache') => InSeq(f, cache) /\ seg'[f] = seg[f],
         \A u \in Users : handle'[u] # NoEntry =>
            handle'[u] = handle[u] /\ job'[u] = job[u] /\ seg'[handle[u]] = seg[handle[u]],
         \A u \in Users : job'[u].mode = "write" => job'[u] = job[u]
  PROVE  Keyed'
<1>1. OnePerKey'
  BY DEF Keyed, OnePerKey
<1>2. HandleOnOwnFile'
  BY DEF Keyed, HandleOnOwnFile
<1>3. OneWriter'
  BY DEF Keyed, OneWriter
<1> QED
  BY <1>1, <1>2, <1>3 DEF Keyed

\* What acquire does, whether it finds an entry or makes one.
Acquires(t, m, s, n, e) ==
  /\ pc[t] = "idle" /\ pc' = [pc EXCEPT ![t] = "load"]
  /\ job' = [job EXCEPT ![t] = Job(m, s, n)] /\ handle' = [handle EXCEPT ![t] = e]
  /\ UNCHANGED <<cap, loaded, file, committed>>
  /\ m = "write" => \A u \in Users : ~(job[u].mode = "write" /\ job[u].seg = s)
  /\ \A x : InSeq(x, cache') => InSeq(x, cache) \/ x = e
  /\ seg'[e] = s /\ \A f \in Entries : f # e => seg'[f] = seg[f]
  /\ \A f \in Entries : InSeq(f, cache) /\ f # e => GetId(seg[f]) # GetId(s)
  /\ \A u \in Users : handle[u] = e => seg[e] = s
  /\ InSeq(e, cache) => seg[e] = s
  /\ loaded[e] => seg[e] = s /\ InSeq(e, cache)
  /\ m = "read" => n = committed[s]
  /\ second \subseteq second' /\ (InSeq(e, cache) \/ e \in second' \/ ~HasWriter(s))

\* Both ways through acquire do that.
LEMMA AcquireDoes ==
  ASSUME IdsDistinct, Held, Keyed, NEW t \in Users, NEW s \in Segments,
         AcquireToRead(t, s) \/ \E n \in Lengths : AcquireToWrite(t, s, n)
  PROVE  \E m \in {"read", "write"}, n \in Nat, e \in Entries : Acquires(t, m, s, n, e)
<1>1. PICK m \in {"read", "write"}, n \in Nat :
        /\ AcquireCached(t, m, s, n) \/ AcquireNew(t, m, s, n)
        /\ m = "read" => n = committed[s]
        /\ m = "write" => \A u \in Users : ~(job[u].mode = "write" /\ job[u].seg = s)
  BY AcquireCases DEF Held
<1>2. cache \in Seq(Entries) /\ Distinct(cache) /\ TypeOK /\ OnePlace
  BY DEF Held, TypeOK, OnePlace
<1>3. CASE AcquireCached(t, m, s, n)
  <2>1. PICK e \in CachedFor(s) :
          /\ TakeReference(t, m, s, n, e, Append(Without(cache, e), e))
          /\ UNCHANGED <<seg, second>>
    BY <1>3, Zenon DEF AcquireCached
  <2>2. e \in Entries /\ InSeq(e, cache) /\ GetId(seg[e]) = GetId(s)
    BY DEF CachedFor
  <2>3. seg[e] = s
    BY <2>2 DEF IdsDistinct, Held, TypeOK
  <2> DEFINE order == Append(Without(cache, e), e)
  <2>4. /\ order \in Seq(Entries) /\ Distinct(order)
        /\ \A x : InSeq(x, order) <=> InSeq(x, cache) \/ x = e
    BY <1>2, <2>2, MoveToEnd
  <2>5. TakeReference(t, m, s, n, e, order)
    BY <2>1
  <2> HIDE DEF order
  <2>6. ~InSeq(e, queue)
    BY <2>2 DEF Held, OnePlace
  <2>7. \A x : InSeq(x, cache') => InSeq(x, cache) \/ x = e
    BY <1>2, <2>2, <2>4, <2>5, <2>6, AcquireMoves
  <2>8. \A f \in Entries : InSeq(f, cache) /\ f # e => GetId(seg[f]) # GetId(s)
    BY <2>2, <2>3 DEF Keyed, OnePerKey
  <2>9. Acquires(t, m, s, n, e)
    BY <1>1, <2>1, <2>2, <2>3, <2>7, <2>8 DEF Acquires, TakeReference
  <2> QED
    BY <2>2, <2>9
<1>4. CASE AcquireNew(t, m, s, n)
  <2>1. PICK e \in Entries :
          /\ Garbage(e) /\ seg' = [seg EXCEPT ![e] = s]
          /\ TakeReference(t, m, s, n, e, Append(cache, e))
          /\ second' = IF HasWriter(s) THEN second \cup {e} ELSE second
    BY <1>4, Zenon DEF AcquireNew
  <2>2. /\ ~InSeq(e, cache) /\ ~InSeq(e, queue) /\ Holders(e) = {} /\ ~loaded[e]
    BY <2>1, GarbageFacts
  <2> DEFINE order == Append(cache, e)
  <2>3. /\ order \in Seq(Entries) /\ Distinct(order)
        /\ \A x : InSeq(x, order) <=> InSeq(x, cache) \/ x = e
    BY <1>2, <2>2, AppendAdds
  <2>4. TakeReference(t, m, s, n, e, order)
    BY <2>1
  <2> HIDE DEF order
  <2>5. \A x : InSeq(x, cache') => InSeq(x, cache) \/ x = e
    BY <1>2, <2>2, <2>3, <2>4, AcquireMoves
  <2>6. \A f \in Entries : InSeq(f, cache) => GetId(seg[f]) # GetId(s)
    BY <1>4 DEF AcquireNew, CachedFor
  <2>7. \A u \in Users : handle[u] # e
    BY <2>2 DEF Holders
  <2>8. seg'[e] = s /\ \A f \in Entries : f # e => seg'[f] = seg[f]
    BY <2>1 DEF Held, TypeOK
  <2>9. Acquires(t, m, s, n, e)
    BY <1>1, <2>1, <2>2, <2>4, <2>5, <2>6, <2>7, <2>8 DEF Acquires, TakeReference
  <2> QED
    BY <2>9
<1> QED
  BY <1>1, <1>3, <1>4

\* The entry acquired is the only one in the cache for the segment asked for.
LEMMA AcquireKeyed ==
  ASSUME Held, Keyed, NEW t \in Users, NEW m \in {"read", "write"}, NEW s \in Segments,
         NEW n \in Nat, NEW e \in Entries, Acquires(t, m, s, n, e)
  PROVE  Keyed'
<1>1. t \in Threads
  BY DEF Threads
<1>2. /\ job'[t].mode = m /\ job'[t].seg = s /\ handle'[t] = e
      /\ \A u \in Users : u # t => job'[u] = job[u] /\ handle'[u] = handle[u]
  BY <1>1, JobTyped DEF Acquires, Held, TypeOK, Threads
<1>3. OnePerKey'
  BY DEF Acquires, Keyed, OnePerKey
<1>4. HandleOnOwnFile'
  <2> SUFFICES ASSUME NEW u \in Users, handle'[u] # NoEntry PROVE seg'[handle'[u]] = job'[u].seg
    BY DEF HandleOnOwnFile
  <2>1. CASE u = t
    BY <2>1, <1>2 DEF Acquires
  <2>2. CASE u # t
    <3>1. handle[u] \in Entries
      BY <2>2, <1>2 DEF Held, TypeOK, Threads
    <3> QED
      BY <2>2, <3>1, <1>2 DEF Acquires, Keyed, HandleOnOwnFile
  <2> QED
    BY <2>1, <2>2
<1>5. OneWriter'
  BY <1>2 DEF Acquires, Keyed, OneWriter
<1> QED
  BY <1>3, <1>4, <1>5 DEF Keyed

\* Closing an entry that nobody holds and that is not in the cache.
LEMMA CloseElsewhere ==
  ASSUME Held, NEW e \in Entries, refcount[e] = 0, ~InSeq(e, cache), Unmap(e)
  PROVE  /\ cache' = cache /\ file' = file /\ committed' = committed
         /\ \A f \in Entries : f # e => /\ seg'[f] = seg[f] /\ cap'[f] = cap[f]
                                        /\ loaded'[f] = loaded[f]
         /\ ~loaded'[e]
         /\ \A u \in Users : handle[u] # e
<1>1. Holders(e) = {}
  BY NoneHolds DEF Held
<1> QED
  BY <1>1 DEF Unmap, Holders, Held, TypeOK

\* try_evict and force_evict close an entry that nobody holds.
LEMMA EvictCloseDoes ==
  ASSUME Held, NEW t \in Evictors, EvictClose(t)
  PROVE  /\ \E e \in Entries : refcount[e] = 0 /\ ~InSeq(e, cache) /\ Unmap(e)
         /\ \A u \in Users : pc'[u] = pc[u] /\ job'[u] = job[u] /\ handle'[u] = handle[u]
<1>1. t \in Threads /\ t \notin Users /\ pc[t] = "evict"
  BY MemoryAssumption DEF Threads, EvictClose
<1>2. handle[t] \in Entries
  BY <1>1 DEF Held, TypeOK, EvictorsAt
<1>3. refcount[handle[t]] = 0 /\ ~InSeq(handle[t], cache) /\ Unmap(handle[t])
  BY <1>1, <1>2 DEF EvictClose, Held, EvictorsAt, OnePlace
<1>4. \A u \in Users : pc'[u] = pc[u] /\ job'[u] = job[u] /\ handle'[u] = handle[u]
  BY <1>1 DEF EvictClose, Held, TypeOK, Threads
<1> QED
  BY <1>2, <1>3, <1>4

\* So does the cleanup thread.
LEMMA CleanerCloseDoes ==
  ASSUME Held, CleanerClose
  PROVE  /\ \E e \in Entries : refcount[e] = 0 /\ ~InSeq(e, cache) /\ Unmap(e)
         /\ \A u \in Users : pc'[u] = pc[u] /\ job'[u] = job[u] /\ handle'[u] = handle[u]
<1>1. cleaning \in Entries
  BY DEF Held, TypeOK, CleanerClose
<1>2. refcount[cleaning] = 0 /\ ~InSeq(cleaning, cache) /\ Unmap(cleaning)
  BY <1>1 DEF CleanerClose, Held, OnePlace
<1>3. \A u \in Users : pc'[u] = pc[u] /\ job'[u] = job[u] /\ handle'[u] = handle[u]
  BY DEF CleanerClose, threadVars
<1> QED
  BY <1>1, <1>2, <1>3

\* Popping an entry touches neither its mapping nor any handle.
LEMMA EvictPopDoes ==
  ASSUME Held, NEW t \in Evictors, NEW m \in {"try", "force"}, NEW s \in Segments,
         EvictPop(t, m, s)
  PROVE  /\ \A x : InSeq(x, cache') => InSeq(x, cache)
         /\ \A u \in Users : pc'[u] = pc[u] /\ job'[u] = job[u] /\ handle'[u] = handle[u]
         /\ UNCHANGED <<seg, loaded, cap, file, committed>>
<1>1. PICK e \in CachedFor(s) :
        /\ cache' = Without(cache, e)
        /\ pc' = [pc EXCEPT ![t] = "evict"]
        /\ job' = [job EXCEPT ![t] = Job(m, s, 0)]
        /\ handle' = [handle EXCEPT ![t] = e]
        /\ UNCHANGED <<seg, refcount, loaded, cap, file, committed>>
  BY DEF EvictPop, entryVars
<1>2. \A x : InSeq(x, cache') => InSeq(x, cache)
  <2>1. cache \in Seq(Entries) /\ Distinct(cache)
    BY DEF Held, TypeOK, OnePlace
  <2>2. e \in Entries /\ InSeq(e, cache)
    BY DEF CachedFor
  <2> QED
    BY <1>1, <2>1, <2>2, WithoutDrops
<1>3. t \in Threads /\ t \notin Users
  BY MemoryAssumption DEF Threads
<1>4. \A u \in Users : pc'[u] = pc[u] /\ job'[u] = job[u] /\ handle'[u] = handle[u]
  BY <1>1, <1>3 DEF Held, TypeOK, Threads
<1> QED
  BY <1>1, <1>2, <1>4

\* Load, Write and Release leave the entries' segments, and a writer its job.
LEMMA UserStepKeyed ==
  ASSUME Held, Keyed, NEW t \in Users, UserStep(t)
  PROVE  Keyed'
<1>1. t \in Threads /\ NoJob.mode = "none"
  BY NoJobTyped DEF Threads
<1>2. cache' = cache /\ seg' = seg
  BY DEF UserStep, Load, LoadRaises, Write, Release, Advance, entryVars
<1>3. /\ handle' = handle \/ handle' = [handle EXCEPT ![t] = NoEntry]
      /\ job' = job \/ job' = [job EXCEPT ![t] = NoJob]
      /\ job' # job => handle'[t] = NoEntry
  <2>1. CASE Load(t) \/ Write(t)
    BY <2>1 DEF Load, Write
  <2>2. CASE Release(t)
    <3>1. handle' = [handle EXCEPT ![t] = NoEntry]
      BY <2>2 DEF Release
    <3>2. job' = job \/ job' = [job EXCEPT ![t] = NoJob]
      BY <2>2, <1>1 DEF Release, Held, TypeOK
    <3> QED
      BY <1>1, <3>1, <3>2 DEF Held, TypeOK
  <2>3. CASE Advance(t)
    BY <2>3 DEF Advance, Held, UsersAt
  <2>4. CASE LoadRaises(t)
    BY <1>1, <2>4 DEF LoadRaises, Held, TypeOK
  <2> QED
    BY <2>1, <2>2, <2>3, <2>4 DEF UserStep
<1>4. \A u \in Users : /\ handle'[u] # NoEntry => handle'[u] = handle[u] /\ job'[u] = job[u]
                       /\ job'[u].mode = "write" => job'[u] = job[u]
  <2> TAKE u \in Users
  <2>1. u \in Threads
    BY DEF Threads
  <2>2. CASE u = t
    BY <1>1, <1>3, <2>2 DEF Held, TypeOK
  <2>3. CASE u # t
    BY <1>1, <1>3, <2>1, <2>3 DEF Held, TypeOK
  <2> QED
    BY <2>2, <2>3
<1> QED
  BY <1>2, <1>4, StaysKeyed

\* Every step keeps keys and segments together.
LEMMA NextKeyed ==
  ASSUME IdsDistinct, Held, Keyed, [Next]_vars
  PROVE  Keyed'
<1>1. CASE UNCHANGED vars
  <2>1. UNCHANGED <<cache, seg, job, handle>>
    BY <1>1 DEF vars, entryVars, threadVars
  <2> QED
    BY <2>1, StaysKeyed
<1>2. ASSUME NEW t \in Users, UserStep(t) PROVE Keyed'
  BY <1>2, UserStepKeyed
<1>3. ASSUME NEW t \in Users, NEW s \in Segments,
             AcquireToRead(t, s) \/ \E n \in Lengths : AcquireToWrite(t, s, n)
      PROVE  Keyed'
  BY <1>3, AcquireDoes, AcquireKeyed
<1>4. ASSUME NEW e \in Entries, refcount[e] = 0, ~InSeq(e, cache), Unmap(e),
             \A u \in Users : pc'[u] = pc[u] /\ job'[u] = job[u] /\ handle'[u] = handle[u]
      PROVE  Keyed'
  <2>1. /\ cache' = cache /\ \A f \in Entries : f # e => seg'[f] = seg[f]
        /\ \A u \in Users : handle[u] # e
    BY <1>4, CloseElsewhere
  <2>2. \A u \in Users : handle[u] \in Entries \cup {NoEntry}
    BY DEF Held, TypeOK, Threads
  <2> QED
    BY <1>4, <2>1, <2>2, StaysKeyed
<1>5. ASSUME NEW t \in Evictors, EvictClose(t) PROVE Keyed'
  BY <1>4, <1>5, EvictCloseDoes
<1>6. ASSUME NEW t \in Evictors, NEW m \in {"try", "force"}, NEW s \in Segments, EvictPop(t, m, s)
      PROVE  Keyed'
  <2>1. /\ \A x : InSeq(x, cache') => InSeq(x, cache)
        /\ \A u \in Users : pc'[u] = pc[u] /\ job'[u] = job[u] /\ handle'[u] = handle[u]
        /\ seg' = seg
    BY <1>6, EvictPopDoes
  <2> QED
    BY <2>1, StaysKeyed
<1>7. CASE CleanerTake
  <2>1. UNCHANGED <<cache, seg, job, handle>>
    BY <1>7 DEF CleanerTake, entryVars, threadVars
  <2> QED
    BY <2>1, StaysKeyed
<1>8. CASE CleanerClose
  BY <1>4, <1>8, CleanerCloseDoes
<1> QED
  BY <1>1, <1>2, <1>3, <1>5, <1>6, <1>7, <1>8, Zenon DEF Next

\* At the start there is nothing to confuse.
LEMMA InitKeyed == Init => Keyed
<1> SUFFICES ASSUME Init PROVE Keyed
  OBVIOUS
<1>1. OnePerKey
  BY DEF Init, OnePerKey, InSeq
<1>2. HandleOnOwnFile /\ OneWriter
  BY NoJobTyped DEF Init, HandleOnOwnFile, OneWriter, Threads
<1> QED
  BY <1>1, <1>2 DEF Keyed

-----------------------------------------------------------------------------
\* A writer that has not written yet, and one whose bytes are written but not
\* committed.
ToWrite(t) == job[t].mode = "write" /\ pc[t] \in {"load", "using"}
Pending(t) == pc[t] \in {"written", "advance"}

\* The entries through which the file can still grow.
Writable(e) == InSeq(e, cache) \/ \E t \in Users : ToWrite(t) /\ handle[t] = e

\* No mapping is longer than its file.
Mapped ==
  /\ \A s \in Segments : file[s] = 0 \/ InitSize <= file[s]
  /\ \A e \in Entries : loaded[e] => InitSize <= file[seg[e]] /\ cap[e] <= file[seg[e]]

\* What growth through an entry gives is at least the length the file has.
GrowthCovers(e) ==
  \/ file[seg[e]] <= SizeInc + cap[e]
  \/ file[seg[e]] <= committed[seg[e]]
  \/ \E u \in Users : /\ Pending(u) /\ job[u].seg = seg[e]
                      /\ file[seg[e]] <= committed[seg[e]] + job[u].size

\* So it is through every entry the file can grow through.
NoSlack == \A e \in Entries : loaded[e] /\ Writable(e) => GrowthCovers(e)

\* While a writer has still to write through an entry that left the cache, the
\* entry that took its place maps the whole file.
Fresh ==
  \A t \in Users : ToWrite(t) =>
    \A e \in Entries :
      InSeq(e, cache) /\ seg[e] = job[t].seg /\ e # handle[t] /\ loaded[e] =>
        cap[e] = file[seg[e]]

\* The file has what is committed and what is about to be.
Covers ==
  /\ \A s \in Segments : committed[s] <= file[s]
  /\ \A t \in Users : Pending(t) => committed[job[t].seg] + job[t].size <= file[job[t].seg]

\* The lengths of files and mappings are right.
Sized == Mapped /\ NoSlack /\ Fresh /\ Covers

\* This step shortens no file.
NoShrink == \A s \in Segments : file'[s] >= file[s]

\* A step that touches neither files nor mappings, except to close some.
LEMMA StaysSized ==
  ASSUME Held, Sized, UNCHANGED <<file, committed>>,
         \A f \in Entries : InSeq(f, cache') => InSeq(f, cache),
         \A f \in Entries : loaded'[f] => loaded[f] /\ seg'[f] = seg[f] /\ cap'[f] = cap[f],
         \A u \in Users : ToWrite(u)' => ToWrite(u) /\ job'[u] = job[u] /\ handle'[u] = handle[u],
         \A u \in Users : Pending(u)' <=> Pending(u),
         \A u \in Users : Pending(u) => job'[u] = job[u]
  PROVE  Sized' /\ NoShrink
<1>1. Mapped'
  BY DEF Sized, Mapped
<1>2. \A f \in Entries : Writable(f)' => Writable(f)
  BY DEF Writable
<1>3. NoSlack'
  <2> SUFFICES ASSUME NEW f \in Entries, loaded'[f], Writable(f)' PROVE GrowthCovers(f)'
    BY DEF NoSlack
  <2>1. GrowthCovers(f)
    BY <1>2 DEF Sized, NoSlack
  <2> QED
    BY <2>1 DEF GrowthCovers
<1>4. Fresh'
  BY DEF Sized, Fresh
<1>5. Covers'
  BY DEF Sized, Covers
<1>6. NoShrink
  BY DEF NoShrink, Held, TypeOK
<1> QED
  BY <1>1, <1>3, <1>4, <1>5, <1>6 DEF Sized

\* acquire gives a thread the entry in the cache, or one that is not mapped yet.
LEMMA AcquireSized ==
  ASSUME Held, Keyed, Sized, NEW t \in Users, NEW m \in {"read", "write"}, NEW s \in Segments,
         NEW n \in Nat, NEW e \in Entries, Acquires(t, m, s, n, e)
  PROVE  Sized' /\ NoShrink
<1>1. t \in Threads /\ Users \subseteq Threads
  BY DEF Threads
<1>2. /\ pc'[t] = "load" /\ job'[t].mode = m /\ job'[t].seg = s /\ handle'[t] = e
      /\ \A u \in Users : u # t => pc'[u] = pc[u] /\ job'[u] = job[u] /\ handle'[u] = handle[u]
      /\ pc[t] = "idle"
  BY <1>1, JobTyped DEF Acquires, Held, TypeOK
<1>3. UNCHANGED <<cap, loaded, file, committed>>
  BY DEF Acquires
<1>4. \A f \in Entries : loaded[f] => seg'[f] = seg[f]
  BY DEF Acquires
<1>5. \A f \in Entries : loaded[f] /\ InSeq(f, cache') => InSeq(f, cache)
  BY DEF Acquires
<1>6. \A u \in Users : /\ Pending(u)' <=> Pending(u)
                       /\ Pending(u) => job'[u] = job[u]
                       /\ u # t /\ ToWrite(u)' => ToWrite(u)
  BY <1>2 DEF Pending, ToWrite
<1>7. Mapped'
  BY <1>3, <1>4 DEF Sized, Mapped
<1>8. NoSlack'
  <2> SUFFICES ASSUME NEW f \in Entries, loaded'[f], Writable(f)' PROVE GrowthCovers(f)'
    BY DEF NoSlack
  <2>1. Writable(f)
    <3>1. loaded[f] /\ (f = e => InSeq(e, cache))
      BY <1>3 DEF Acquires
    <3>2. CASE InSeq(f, cache')
      BY <1>5, <3>1, <3>2 DEF Writable
    <3>3. ASSUME NEW u \in Users, ToWrite(u)', handle'[u] = f PROVE Writable(f)
      BY <1>2, <1>6, <3>1, <3>3 DEF Writable
    <3> QED
      BY <3>2, <3>3 DEF Writable
  <2>2. GrowthCovers(f)
    BY <2>1, <1>3 DEF Sized, NoSlack
  <2> QED
    BY <2>2, <1>3, <1>4, <1>6 DEF GrowthCovers
<1>9. Fresh'
  <2> SUFFICES ASSUME NEW u \in Users, ToWrite(u)', NEW f \in Entries,
                      InSeq(f, cache'), seg'[f] = job'[u].seg, f # handle'[u], loaded'[f]
               PROVE  cap[f] = file[seg[f]]
    BY <1>3, <1>4 DEF Fresh
  <2>1. loaded[f] /\ InSeq(f, cache) /\ seg'[f] = seg[f]
    BY <1>3, <1>4, <1>5
  <2>2. CASE u = t
    <3>1. f # e /\ seg[f] = s
      BY <2>1, <2>2, <1>2
    <3> QED
      BY <2>1, <3>1 DEF Acquires
  <2>3. CASE u # t
    <3>1. ToWrite(u) /\ seg[f] = job[u].seg /\ f # handle[u]
      BY <2>1, <2>3, <1>2, <1>6
    <3> QED
      BY <2>1, <3>1 DEF Sized, Fresh
  <2> QED
    BY <2>2, <2>3
<1>10. Covers'
  BY <1>3, <1>6 DEF Sized, Covers
<1>11. NoShrink
  BY <1>3 DEF NoShrink, Held, TypeOK
<1> QED
  BY <1>7, <1>8, <1>9, <1>10, <1>11 DEF Sized

\* A file created or mapped at its length: only the first load of all changes it.
LEMMA MapsSized ==
  ASSUME Held, Sized, NEW e \in Entries, ~loaded[e], NEW s \in Segments, s = seg[e],
         NEW length \in Nat, length = MapLength(e),
         file' = [file EXCEPT ![s] = length], UNCHANGED <<cache, seg, committed>>,
         \/ UNCHANGED <<cap, loaded>>
         \/ cap' = [cap EXCEPT ![e] = length] /\ loaded' = [loaded EXCEPT ![e] = TRUE],
         \A u \in Users : ToWrite(u)' => ToWrite(u) /\ job'[u] = job[u] /\ handle'[u] = handle[u],
         \A u \in Users : Pending(u)' <=> Pending(u),
         \A u \in Users : Pending(u) => job'[u] = job[u]
  PROVE  Sized' /\ NoShrink
<1>1. /\ file'[s] = length
      /\ \A r \in Segments : r # s => file'[r] = file[r]
      /\ \A f \in Entries : f # e => cap'[f] = cap[f] /\ loaded'[f] = loaded[f]
      /\ loaded'[e] => cap'[e] = length
  BY DEF Held, TypeOK
<1>2. \A f \in Entries : Writable(f)' => Writable(f)
  BY DEF Writable
<1>3. /\ file \in [Segments -> Nat] /\ cap \in [Entries -> Nat] /\ seg \in [Entries -> Segments]
      /\ committed \in [Segments -> Nat] /\ InitSize \in Nat /\ SizeInc \in Nat
  BY MemoryAssumption DEF Held, TypeOK
<1>4. length >= file[s] /\ InitSize <= length
  BY <1>3 DEF Sized, Mapped, MapLength
<1>5. \A f \in Entries : loaded[f] /\ seg[f] = s => length = file[s]
  BY <1>3 DEF Sized, Mapped, MapLength
<1>6. \A f \in Entries : loaded[f] => file'[seg[f]] = file[seg[f]]
  BY <1>1, <1>3, <1>5
<1>7. NoShrink
  BY <1>1, <1>3, <1>4 DEF NoShrink
<1>8. Mapped'
  <2>1. \A r \in Segments : file'[r] = 0 \/ InitSize <= file'[r]
    BY <1>1, <1>4 DEF Sized, Mapped
  <2>2. ASSUME NEW f \in Entries, loaded'[f]
        PROVE  InitSize <= file'[seg[f]] /\ cap'[f] <= file'[seg[f]]
    <3>1. CASE f = e
      BY <2>2, <3>1, <1>1, <1>4
    <3>2. CASE f # e
      BY <2>2, <3>2, <1>1, <1>6 DEF Sized, Mapped
    <3> QED
      BY <3>1, <3>2
  <2> QED
    BY <2>1, <2>2 DEF Mapped
<1>9. NoSlack'
  <2> SUFFICES ASSUME NEW f \in Entries, loaded'[f], Writable(f)' PROVE GrowthCovers(f)'
    BY DEF NoSlack
  <2>1. CASE f = e
    <3>1. file'[seg'[f]] <= SizeInc + cap'[f]
      BY <2>1, <1>1, <1>3
    <3> QED
      BY <3>1 DEF GrowthCovers
  <2>2. CASE f # e
    <3>1. loaded[f] /\ GrowthCovers(f)
      BY <2>2, <1>1, <1>2 DEF Sized, NoSlack
    <3> QED
      BY <2>2, <3>1, <1>1, <1>6 DEF GrowthCovers
  <2> QED
    BY <2>1, <2>2
<1>10. Fresh'
  <2> SUFFICES ASSUME NEW u \in Users, ToWrite(u), NEW f \in Entries,
                      InSeq(f, cache), seg[f] = job[u].seg, f # handle[u], loaded'[f]
               PROVE  cap'[f] = file'[seg[f]]
    BY DEF Fresh
  <2>1. CASE f = e
    BY <2>1, <1>1
  <2>2. CASE f # e
    BY <2>2, <1>1, <1>6 DEF Sized, Fresh
  <2> QED
    BY <2>1, <2>2
<1>11. Covers'
  <2>1. \A r \in Segments : committed[r] <= file'[r]
    BY <1>1, <1>3, <1>4 DEF Sized, Covers
  <2>2. ASSUME NEW u \in Users, Pending(u)
        PROVE  committed[job[u].seg] + job[u].size <= file'[job[u].seg]
    <3>1. job[u].seg \in Segments /\ job[u].size \in Nat
      BY DEF Held, TypeOK, Jobs, Threads
    <3>2. committed[job[u].seg] + job[u].size <= file[job[u].seg]
      BY <2>2 DEF Sized, Covers
    <3>3. file'[job[u].seg] >= file[job[u].seg] /\ file'[job[u].seg] \in Nat
      BY <3>1, <1>1, <1>3, <1>7 DEF NoShrink
    <3> QED
      BY <3>1, <3>2, <3>3, <1>3
  <2> QED
    BY <2>1, <2>2 DEF Covers
<1> QED
  BY <1>7, <1>8, <1>9, <1>10, <1>11 DEF Sized

\* load, whether it maps the file, finds it mapped or raises.
LEMMA LoadSized ==
  ASSUME Held, Keyed, Sized, NEW t \in Users, Load(t) \/ LoadRaises(t)
  PROVE  Sized' /\ NoShrink
<1>1. /\ pc[t] = "load" /\ UNCHANGED <<cache, seg, committed>>
      /\ \/ pc' = [pc EXCEPT ![t] = "using"] /\ UNCHANGED <<job, handle>>
         \/ pc' = [pc EXCEPT ![t] = "idle"] /\ job' = [job EXCEPT ![t] = NoJob]
            /\ handle' = [handle EXCEPT ![t] = NoEntry]
  BY DEF Load, LoadRaises
<1>2. t \in Threads /\ Users \subseteq Threads
  BY DEF Threads
<1>3. PICK e \in Entries : e = handle[t]
  BY <1>1, UserHas
<1>4. PICK s \in Segments : s = seg[e]
  BY DEF Held, TypeOK
<1>5. PICK length \in Nat : length = MapLength(e)
  BY <1>4, MemoryAssumption DEF Held, TypeOK, MapLength
<1>6. \/ UNCHANGED <<cap, file, loaded>>
      \/ loaded[e] /\ UNCHANGED <<cap, file>> /\ loaded' = [loaded EXCEPT ![e] = TRUE]
      \/ /\ ~loaded[e] /\ file' = [file EXCEPT ![s] = length]
         /\ \/ UNCHANGED <<cap, loaded>>
            \/ cap' = [cap EXCEPT ![e] = length] /\ loaded' = [loaded EXCEPT ![e] = TRUE]
  BY <1>3, <1>4, <1>5 DEF Load, LoadRaises
<1>7. \A u \in Users : /\ ToWrite(u)' => ToWrite(u) /\ job'[u] = job[u] /\ handle'[u] = handle[u]
                       /\ Pending(u)' <=> Pending(u)
                       /\ Pending(u) => job'[u] = job[u]
  <2> TAKE u \in Users
  <2>1. CASE u = t
    BY <2>1, <1>1, <1>2 DEF ToWrite, Pending, Held, TypeOK
  <2>2. CASE u # t
    BY <2>2, <1>1, <1>2 DEF ToWrite, Pending, Held, TypeOK
  <2> QED BY <2>1, <2>2
<1>8. CASE UNCHANGED <<cap, file, loaded>>
  BY <1>1, <1>7, <1>8, StaysSized
<1>10. CASE loaded[e] /\ UNCHANGED <<cap, file>> /\ loaded' = [loaded EXCEPT ![e] = TRUE]
  <2>1. UNCHANGED <<cap, file, loaded>>
    BY <1>10 DEF Held, TypeOK
  <2> QED
    BY <1>8, <2>1
<1>9. CASE /\ ~loaded[e] /\ file' = [file EXCEPT ![s] = length]
           /\ \/ UNCHANGED <<cap, loaded>>
              \/ cap' = [cap EXCEPT ![e] = length] /\ loaded' = [loaded EXCEPT ![e] = TRUE]
  BY <1>1, <1>4, <1>5, <1>7, <1>9, MapsSized
<1> QED
  BY <1>6, <1>8, <1>9, <1>10

\* write, with or without growth: the file is at least as long as what is written
\* and, because no other entry was mapped at a greater length than growth gives,
\* at least as long as it was.
LEMMA WriteSized ==
  ASSUME Held, Keyed, Sized, NEW t \in Users, Write(t)
  PROVE  Sized' /\ NoShrink
<1>1. pc[t] = "using" /\ job[t].mode = "write" /\ pc' = [pc EXCEPT ![t] = "written"]
  BY DEF Write
<1>2. t \in Threads /\ Users \subseteq Threads
  BY DEF Threads
<1>3. PICK e \in Entries : e = handle[t]
  BY <1>1, UserHas
<1>4. PICK s \in Segments : s = job[t].seg
  BY <1>1, UserHas
<1>5. seg[e] = s /\ loaded[e] /\ job[t].size \in Nat
  BY <1>1, <1>3, <1>4, UserHas, MemoryAssumption DEF Held, NoUseAfterRelease, Keyed, HandleOnOwnFile
<1>6. /\ file \in [Segments -> Nat] /\ cap \in [Entries -> Nat] /\ seg \in [Entries -> Segments]
      /\ committed \in [Segments -> Nat] /\ InitSize \in Nat /\ SizeInc \in Nat
  BY MemoryAssumption DEF Held, TypeOK
<1>7. PICK required \in Nat : required = committed[s] + job[t].size
  BY <1>5, <1>6
<1>8. PICK g \in Nat : g = Grown(e, required)
  BY <1>6, MemoryAssumption DEF Grown, Max2
<1>9. /\ UNCHANGED <<cache, seg, loaded, committed, job, handle>>
      /\ \/ required <= cap[e] /\ UNCHANGED <<cap, file>>
         \/ required > cap[e] /\ cap' = [cap EXCEPT ![e] = g] /\ file' = [file EXCEPT ![s] = g]
  <2>1. cap[e] \in Nat
    BY <1>6
  <2> QED
    BY <1>3, <1>4, <1>5, <1>7, <1>8, <2>1 DEF Write, Grow
<1>10. /\ ToWrite(t) /\ ~ToWrite(t)' /\ ~Pending(t) /\ Pending(t)'
       /\ \A u \in Users : u # t => (ToWrite(u)' <=> ToWrite(u)) /\ (Pending(u)' <=> Pending(u))
  BY <1>1, <1>2, <1>9 DEF ToWrite, Pending, Held, TypeOK
<1>11. ASSUME NEW u \in Users, u # t, ToWrite(u) \/ Pending(u) PROVE job[u].seg # s
  <2>1. job[u].mode = "write"
    BY <1>11 DEF ToWrite, Pending, Held, UsersAt
  <2> QED
    BY <2>1, <1>1, <1>4, <1>11 DEF Keyed, OneWriter
<1>12. \A f : Writable(f)' => Writable(f)
  BY <1>9, <1>10 DEF Writable
<1>13. committed[s] <= required /\ cap[e] <= file[s] /\ InitSize <= file[s]
  BY <1>5, <1>6, <1>7 DEF Sized, Mapped
<1>14. CASE required <= cap[e] /\ UNCHANGED <<cap, file>>
  <2>1. Mapped' /\ NoShrink
    BY <1>9, <1>14, <1>6 DEF Sized, Mapped, NoShrink
  <2>2. NoSlack'
    <3> SUFFICES ASSUME NEW f \in Entries, loaded'[f], Writable(f)' PROVE GrowthCovers(f)'
      BY DEF NoSlack
    <3>1. GrowthCovers(f)
      BY <1>9, <1>12 DEF Sized, NoSlack
    <3> QED
      BY <3>1, <1>9, <1>10, <1>14 DEF GrowthCovers
  <2>3. Fresh'
    BY <1>9, <1>10, <1>14 DEF Sized, Fresh
  <2>4. Covers'
    <3>1. required <= file[s]
      BY <1>6, <1>13, <1>14
    <3>2. ASSUME NEW u \in Users, Pending(u)'
          PROVE  committed[job[u].seg] + job[u].size <= file[job[u].seg]
      BY <3>1, <3>2, <1>4, <1>7, <1>10 DEF Sized, Covers
    <3> QED
      BY <3>2, <1>9, <1>14 DEF Sized, Covers
  <2> QED
    BY <2>1, <2>2, <2>3, <2>4 DEF Sized
<1>15. CASE cap' = [cap EXCEPT ![e] = g] /\ file' = [file EXCEPT ![s] = g]
  <2>1. /\ file'[s] = g /\ cap'[e] = g
        /\ \A r \in Segments : r # s => file'[r] = file[r]
        /\ \A f \in Entries : f # e => cap'[f] = cap[f]
    BY <1>15, <1>6
  <2>2. g >= required /\ g >= SizeInc + cap[e] /\ (g = required \/ g = SizeInc + cap[e])
    BY <1>6, <1>8 DEF Grown, Max2
  <2>3. g >= file[s]
    <3>1. GrowthCovers(e)
      BY <1>3, <1>5, <1>10 DEF Sized, NoSlack, Writable
    <3>2. ~\E u \in Users : Pending(u) /\ job[u].seg = s
      BY <1>10, <1>11
    <3>3. file[s] <= SizeInc + cap[e] \/ file[s] <= committed[s]
      BY <3>1, <3>2, <1>5 DEF GrowthCovers
    <3> QED
      BY <3>3, <2>2, <1>6, <1>13
  <2>4. NoShrink
    BY <2>1, <2>3, <1>6 DEF NoShrink
  <2>5. Mapped'
    <3>1. \A r \in Segments : file'[r] = 0 \/ InitSize <= file'[r]
      BY <2>1, <2>3, <1>6, <1>13 DEF Sized, Mapped
    <3>2. ASSUME NEW f \in Entries, loaded[f]
          PROVE  InitSize <= file'[seg[f]] /\ cap'[f] <= file'[seg[f]]
      <4>1. InitSize <= file[seg[f]] /\ cap[f] <= file[seg[f]] /\ seg[f] \in Segments
        BY <3>2, <1>6 DEF Sized, Mapped
      <4>2. CASE f = e
        BY <4>1, <4>2, <2>1, <2>3, <1>5, <1>6
      <4>3. CASE f # e /\ seg[f] = s
        BY <4>1, <4>3, <2>1, <2>3, <1>6
      <4>4. CASE f # e /\ seg[f] # s
        BY <4>1, <4>4, <2>1
      <4> QED
        BY <4>2, <4>3, <4>4
    <3> QED
      BY <3>1, <3>2, <1>9 DEF Mapped
  <2>6. NoSlack'
    <3> SUFFICES ASSUME NEW f \in Entries, loaded'[f], Writable(f)' PROVE GrowthCovers(f)'
      BY DEF NoSlack
    <3>1. loaded[f] /\ Writable(f) /\ GrowthCovers(f) /\ seg[f] \in Segments
      BY <1>6, <1>9, <1>12 DEF Sized, NoSlack
    <3>2. CASE f = e
      <4>1. file'[seg'[f]] <= SizeInc + cap'[f]
        BY <3>2, <1>5, <1>6, <1>9, <2>1
      <4> QED
        BY <4>1 DEF GrowthCovers
    <3>3. CASE f # e /\ seg[f] = s
      <4>1. InSeq(f, cache)
        <5>1. ASSUME NEW u \in Users, ToWrite(u)', handle'[u] = f PROVE FALSE
          <6>1. u # t /\ ToWrite(u) /\ handle[u] = f
            BY <5>1, <1>9, <1>10
          <6>2. job[u].seg = s
            BY <6>1, <3>3, MemoryAssumption DEF Keyed, HandleOnOwnFile
          <6> QED
            BY <6>1, <6>2, <1>11
        <5> QED
          BY <5>1, <1>9 DEF Writable
      <4>2. cap[f] = file[s]
        BY <4>1, <3>1, <3>3, <1>3, <1>4, <1>10 DEF Sized, Fresh
      <4>3. CASE g = required
        <5>1. Pending(t)' /\ job'[t].seg = seg'[f] /\ file'[seg'[f]] <= committed'[seg'[f]] + job'[t].size
          BY <4>3, <3>3, <1>4, <1>7, <1>9, <1>10, <2>1
        <5> QED
          BY <5>1 DEF GrowthCovers
      <4>4. CASE g = SizeInc + cap[e]
        <5>1. file'[seg'[f]] <= SizeInc + cap'[f]
          BY <4>2, <4>4, <3>3, <1>6, <1>9, <1>13, <2>1
        <5> QED
          BY <5>1 DEF GrowthCovers
      <4> QED
        BY <4>3, <4>4, <2>2
    <3>4. CASE f # e /\ seg[f] # s
      <4>1. file'[seg'[f]] = file[seg[f]] /\ cap'[f] = cap[f]
        BY <3>1, <3>4, <1>9, <2>1
      <4> QED
        BY <3>1, <4>1, <1>9, <1>10 DEF GrowthCovers
    <3> QED
      BY <3>2, <3>3, <3>4
  <2>7. Fresh'
    <3> SUFFICES ASSUME NEW u \in Users, ToWrite(u)', NEW f \in Entries,
                        InSeq(f, cache), seg[f] = job[u].seg, f # handle[u], loaded[f]
                 PROVE  cap'[f] = file'[seg[f]]
      BY <1>9 DEF Fresh
    <3>1. u # t /\ ToWrite(u)
      BY <1>10
    <3>2. seg[f] # s /\ seg[f] \in Segments
      BY <3>1, <1>6, <1>11
    <3>3. f # e
      BY <3>2, <1>5
    <3>4. cap[f] = file[seg[f]]
      BY <3>1 DEF Sized, Fresh
    <3> QED
      BY <3>2, <3>3, <3>4, <2>1
  <2>8. Covers'
    <3>1. \A r \in Segments : committed[r] <= file'[r]
      <4> TAKE r \in Segments
      <4>1. committed[r] <= file[r]
        BY DEF Sized, Covers
      <4> QED
        BY <4>1, <2>1, <2>3, <1>6
    <3>2. ASSUME NEW u \in Users, Pending(u)'
          PROVE  committed[job[u].seg] + job[u].size <= file'[job[u].seg]
      <4>1. CASE u = t
        BY <4>1, <1>4, <1>7, <2>1, <2>2
      <4>2. CASE u # t
        <5>1. Pending(u) /\ job[u].seg # s /\ job[u].seg \in Segments
          BY <3>2, <4>2, <1>2, <1>10, <1>11 DEF Held, TypeOK, Jobs
        <5> QED
          BY <5>1, <2>1 DEF Sized, Covers
      <4> QED
        BY <4>1, <4>2
    <3> QED
      BY <3>1, <3>2, <1>9 DEF Covers
  <2> QED
    BY <2>4, <2>5, <2>6, <2>7, <2>8 DEF Sized
<1> QED
  BY <1>9, <1>14, <1>15

\* release keeps a writer's bytes pending.
LEMMA ReleaseSized ==
  ASSUME Held, Keyed, Sized, NEW t \in Users, Release(t)
  PROVE  Sized' /\ NoShrink
<1>1. t \in Threads /\ Users \subseteq Threads
  BY DEF Threads
<1>2. UNCHANGED <<cache, seg, loaded, cap, file, committed>>
  BY DEF Release
<1>3. \A u \in Users : u # t => pc'[u] = pc[u] /\ job'[u] = job[u] /\ handle'[u] = handle[u]
  BY <1>1 DEF Release, Held, TypeOK
<1>4. \/ pc[t] = "using" /\ job[t].mode = "read" /\ pc'[t] = "idle"
      \/ pc[t] = "written" /\ job[t].mode = "write" /\ pc'[t] = "advance" /\ job'[t] = job[t]
  BY <1>1 DEF Release, Held, TypeOK, UsersAt
<1>5. \A u \in Users : /\ ToWrite(u)' => ToWrite(u) /\ job'[u] = job[u] /\ handle'[u] = handle[u]
                       /\ Pending(u)' <=> Pending(u)
                       /\ Pending(u) => job'[u] = job[u]
  BY <1>3, <1>4 DEF ToWrite, Pending
<1> QED
  BY <1>2, <1>5, StaysSized

\* advance_offset commits what the one writer of the segment has written.
LEMMA AdvanceSized ==
  ASSUME Held, Keyed, Sized, NEW t \in Users, Advance(t)
  PROVE  Sized' /\ NoShrink
<1>1. t \in Threads /\ Users \subseteq Threads
  BY DEF Threads
<1>2. PICK s \in Segments : s = job[t].seg
  BY <1>1 DEF Held, TypeOK, Jobs
<1>3. PICK n \in Nat : n = job[t].size
  BY <1>1 DEF Held, TypeOK, Jobs
<1>4. /\ file \in [Segments -> Nat] /\ committed \in [Segments -> Nat] /\ cap \in [Entries -> Nat]
      /\ seg \in [Entries -> Segments]
  BY DEF Held, TypeOK
<1>5. /\ UNCHANGED <<cache, seg, loaded, cap, file, handle>>
      /\ committed'[s] = committed[s] + n
      /\ \A r \in Segments : r # s => committed'[r] = committed[r]
      /\ pc[t] = "advance" /\ pc'[t] = "idle" /\ job[t].mode = "write" /\ job'[t].mode = "none"
      /\ \A u \in Users : u # t => pc'[u] = pc[u] /\ job'[u] = job[u]
  BY <1>1, <1>2, <1>3, NoJobTyped DEF Advance, entryVars, Held, TypeOK, UsersAt
<1>6. /\ Pending(t) /\ ~Pending(t)' /\ ~ToWrite(t)'
      /\ \A u \in Users : u # t => (ToWrite(u)' <=> ToWrite(u)) /\ (Pending(u)' <=> Pending(u))
  BY <1>5 DEF ToWrite, Pending
<1>7. ASSUME NEW u \in Users, u # t, Pending(u) PROVE job[u].seg # s
  <2>1. job[u].mode = "write"
    BY <1>7 DEF Pending, Held, UsersAt
  <2> QED
    BY <2>1, <1>2, <1>5, <1>7 DEF Keyed, OneWriter
<1>8. \A f : Writable(f)' => Writable(f)
  BY <1>5, <1>6 DEF Writable
<1>9. Mapped' /\ NoShrink
  BY <1>4, <1>5 DEF Sized, Mapped, NoShrink
<1>10. NoSlack'
  <2> SUFFICES ASSUME NEW f \in Entries, loaded'[f], Writable(f)' PROVE GrowthCovers(f)'
    BY DEF NoSlack
  <2>1. GrowthCovers(f) /\ seg[f] \in Segments
    BY <1>4, <1>5, <1>8 DEF Sized, NoSlack
  <2>2. CASE file[seg[f]] <= SizeInc + cap[f]
    BY <2>2, <1>5 DEF GrowthCovers
  <2>3. CASE file[seg[f]] <= committed[seg[f]]
    <3>1. file'[seg'[f]] <= committed'[seg'[f]]
      BY <2>1, <2>3, <1>4, <1>5
    <3> QED
      BY <3>1 DEF GrowthCovers
  <2>4. ASSUME NEW u \in Users, Pending(u), job[u].seg = seg[f],
               file[seg[f]] <= committed[seg[f]] + job[u].size
        PROVE  GrowthCovers(f)'
    <3>1. CASE u = t
      <4>1. file'[seg'[f]] <= committed'[seg'[f]]
        BY <2>4, <3>1, <1>2, <1>3, <1>5
      <4> QED
        BY <4>1 DEF GrowthCovers
    <3>2. CASE u # t
      <4>1. seg[f] # s
        BY <2>4, <3>2, <1>7
      <4>2. Pending(u)' /\ job'[u].seg = seg'[f] /\ file'[seg'[f]] <= committed'[seg'[f]] + job'[u].size
        BY <2>1, <2>4, <3>2, <4>1, <1>5, <1>6
      <4> QED
        BY <4>2 DEF GrowthCovers
    <3> QED
      BY <3>1, <3>2
  <2> QED
    BY <2>1, <2>2, <2>3, <2>4 DEF GrowthCovers
<1>11. Fresh'
  <2>1. \A u \in Users : ToWrite(u)' => ToWrite(u) /\ job'[u] = job[u]
    BY <1>5, <1>6
  <2> QED
    BY <2>1, <1>5 DEF Sized, Fresh
<1>12. Covers'
  <2>1. committed[s] + n <= file[s]
    BY <1>2, <1>3, <1>6 DEF Sized, Covers
  <2>2. \A r \in Segments : committed'[r] <= file[r]
    BY <2>1, <1>5 DEF Sized, Covers
  <2>3. ASSUME NEW u \in Users, Pending(u)'
        PROVE  committed'[job'[u].seg] + job'[u].size <= file[job'[u].seg]
    <3>1. u # t /\ Pending(u) /\ job'[u] = job[u]
      BY <2>3, <1>5, <1>6
    <3>2. job[u].seg # s /\ job[u].seg \in Segments
      BY <3>1, <1>1, <1>7 DEF Held, TypeOK, Jobs
    <3> QED
      BY <3>1, <3>2, <1>5 DEF Sized, Covers
  <2> QED
    BY <2>2, <2>3, <1>5 DEF Covers
<1> QED
  BY <1>9, <1>10, <1>11, <1>12 DEF Sized

\* Every step keeps the lengths right and shortens no file.
LEMMA NextSized ==
  ASSUME IdsDistinct, Held, Keyed, Sized, [Next]_vars
  PROVE  Sized' /\ NoShrink
<1>1. ASSUME UNCHANGED <<seg, loaded, cap, file, committed>>,
             \A f \in Entries : InSeq(f, cache') => InSeq(f, cache),
             \A u \in Users : pc'[u] = pc[u] /\ job'[u] = job[u] /\ handle'[u] = handle[u]
      PROVE  Sized' /\ NoShrink
  BY <1>1, StaysSized DEF ToWrite, Pending
<1>2. CASE UNCHANGED vars
  <2>1. UNCHANGED <<cache, seg, loaded, cap, file, committed, pc, job, handle>>
    BY <1>2 DEF vars, entryVars, threadVars
  <2> QED
    BY <2>1, <1>1
<1>3. ASSUME NEW t \in Users, UserStep(t) PROVE Sized' /\ NoShrink
  BY <1>3, LoadSized, WriteSized, ReleaseSized, AdvanceSized DEF UserStep
<1>4. ASSUME NEW t \in Users, NEW s \in Segments,
             AcquireToRead(t, s) \/ \E n \in Lengths : AcquireToWrite(t, s, n)
      PROVE  Sized' /\ NoShrink
  BY <1>4, AcquireDoes, AcquireSized
<1>5. ASSUME NEW e \in Entries, refcount[e] = 0, ~InSeq(e, cache), Unmap(e),
             \A u \in Users : pc'[u] = pc[u] /\ job'[u] = job[u] /\ handle'[u] = handle[u]
      PROVE  Sized' /\ NoShrink
  <2>1. /\ cache' = cache /\ file' = file /\ committed' = committed
        /\ \A f \in Entries : f # e => /\ seg'[f] = seg[f] /\ cap'[f] = cap[f]
                                       /\ loaded'[f] = loaded[f]
        /\ ~loaded'[e]
    BY <1>5, CloseElsewhere
  <2>2. \A f \in Entries : loaded'[f] => loaded[f] /\ seg'[f] = seg[f] /\ cap'[f] = cap[f]
    BY <2>1
  <2> QED
    BY <1>5, <2>1, <2>2, StaysSized DEF ToWrite, Pending
<1>6. ASSUME NEW t \in Evictors, EvictClose(t) PROVE Sized' /\ NoShrink
  BY <1>5, <1>6, EvictCloseDoes
<1>7. ASSUME NEW t \in Evictors, NEW m \in {"try", "force"}, NEW s \in Segments, EvictPop(t, m, s)
      PROVE  Sized' /\ NoShrink
  <2>1. /\ \A x : InSeq(x, cache') => InSeq(x, cache)
        /\ \A u \in Users : pc'[u] = pc[u] /\ job'[u] = job[u] /\ handle'[u] = handle[u]
        /\ UNCHANGED <<seg, loaded, cap, file, committed>>
    BY <1>7, EvictPopDoes
  <2> QED
    BY <2>1, <1>1
<1>8. CASE CleanerTake
  <2>1. UNCHANGED <<cache, seg, loaded, cap, file, committed, pc, job, handle>>
    BY <1>8 DEF CleanerTake, entryVars, threadVars
  <2> QED
    BY <2>1, <1>1
<1>9. CASE CleanerClose
  BY <1>5, <1>9, CleanerCloseDoes
<1> QED
  BY <1>2, <1>3, <1>4, <1>6, <1>7, <1>8, <1>9, Zenon DEF Next

\* At the start there is no file.
LEMMA InitSized == Init => Sized
<1> SUFFICES ASSUME Init PROVE Sized
  OBVIOUS
<1>1. Mapped /\ NoSlack
  BY DEF Init, Mapped, NoSlack
<1>2. Fresh /\ Covers
  BY NoJobTyped DEF Init, Fresh, Covers, ToWrite, Pending, Threads
<1> QED
  BY <1>1, <1>2 DEF Sized

-----------------------------------------------------------------------------
\* A writer between acquire and release.
Writes(t) == job[t].mode = "write" /\ handle[t] # NoEntry

\* A segment is written to through its cached entry only, if no writer held an older
\* entry when that one was made.
WrittenThrough ==
  \A t \in Users, e \in Entries :
    InSeq(e, cache) /\ e \notin second /\ Writes(t) /\ job[t].seg = seg[e] => handle[t] = e

\* So that entry's mapping has what is committed and what is about to be.
CachedCovers ==
  \A e \in Entries :
    InSeq(e, cache) /\ e \notin second /\ loaded[e] =>
      /\ committed[seg[e]] <= cap[e]
      /\ \A t \in Users : Pending(t) /\ job[t].seg = seg[e] =>
           committed[seg[e]] + job[t].size <= cap[e]

\* What a reader was told of is committed, and within the mapping it got.
ToldIsMapped ==
  \A t \in Users : job[t].mode = "read" =>
    /\ job[t].size <= committed[job[t].seg]
    /\ handle[t] \in Entries /\ handle[t] \notin second /\ loaded[handle[t]] =>
         job[t].size <= cap[handle[t]]

Full == WrittenThrough /\ CachedCovers /\ ToldIsMapped

\* A step that commits nothing, maps nothing and hands out nothing.
LEMMA StaysFull ==
  ASSUME Full, committed' = committed,
         \A f \in Entries : InSeq(f, cache') => InSeq(f, cache) /\ seg'[f] = seg[f],
         \A f \in Entries : loaded'[f] => loaded[f] /\ cap'[f] = cap[f],
         \A f \in Entries : f \notin second' /\ (InSeq(f, cache) \/ \E u \in Users : handle[u] = f)
                              => f \notin second,
         \A u \in Users : Writes(u)' => Writes(u) /\ job'[u] = job[u] /\ handle'[u] = handle[u],
         \A u \in Users : Pending(u)' => Pending(u) /\ job'[u] = job[u],
         \A u \in Users : job'[u].mode = "read" => job'[u] = job[u] /\ handle'[u] = handle[u]
  PROVE  Full'
<1>1. WrittenThrough'
  BY DEF Full, WrittenThrough
<1>2. CachedCovers'
  BY DEF Full, CachedCovers
<1>3. ToldIsMapped'
  BY DEF Full, ToldIsMapped
<1> QED
  BY <1>1, <1>2, <1>3 DEF Full

\* acquire gives a reader an entry that has what is committed, or one that is not
\* mapped yet, and makes the cached entry the one to write through.
LEMMA AcquireFull ==
  ASSUME Held, Keyed, Full, NEW t \in Users, NEW m \in {"read", "write"}, NEW s \in Segments,
         NEW n \in Nat, NEW e \in Entries, Acquires(t, m, s, n, e)
  PROVE  Full'
<1>1. t \in Threads /\ Users \subseteq Threads
  BY DEF Threads
<1>2. /\ pc'[t] = "load" /\ job'[t].mode = m /\ job'[t].seg = s /\ job'[t].size = n /\ handle'[t] = e
      /\ \A u \in Users : u # t => pc'[u] = pc[u] /\ job'[u] = job[u] /\ handle'[u] = handle[u]
      /\ pc[t] = "idle"
  BY <1>1, JobTyped DEF Acquires, Held, TypeOK
<1>3. UNCHANGED <<cap, loaded, committed>> /\ second \subseteq second'
  BY DEF Acquires
<1>4. \A f \in Entries : f # e => seg'[f] = seg[f] /\ (InSeq(f, cache') => InSeq(f, cache))
  BY DEF Acquires
<1>5. WrittenThrough'
  <2> SUFFICES ASSUME NEW u \in Users, NEW f \in Entries, InSeq(f, cache'), f \notin second',
                      Writes(u)', job'[u].seg = seg'[f]
               PROVE  handle'[u] = f
    BY DEF WrittenThrough
  <2>1. CASE f # e
    <3>1. InSeq(f, cache) /\ seg'[f] = seg[f] /\ f \notin second
      BY <2>1, <1>3, <1>4
    <3>2. u # t
      BY <2>1, <3>1, <1>2 DEF Acquires
    <3> QED
      BY <3>1, <3>2, <1>2 DEF Full, WrittenThrough, Writes
  <2>2. CASE f = e /\ u # t
    <3>1. seg'[f] = s /\ Writes(u) /\ job[u].seg = s
      BY <2>2, <1>2 DEF Acquires, Writes
    <3>2. HasWriter(s)
      BY <3>1 DEF HasWriter, Writes
    <3>3. InSeq(e, cache) /\ f \notin second
      BY <2>2, <3>2, <1>3 DEF Acquires
    <3>4. seg[e] = s
      BY <3>3 DEF Acquires
    <3> QED
      BY <2>2, <3>1, <3>3, <3>4, <1>2 DEF Full, WrittenThrough
  <2>3. CASE f = e /\ u = t
    BY <2>3, <1>2
  <2> QED
    BY <2>1, <2>2, <2>3
<1>6. CachedCovers'
  <2> SUFFICES ASSUME NEW f \in Entries, InSeq(f, cache'), f \notin second', loaded[f]
               PROVE  /\ committed[seg'[f]] <= cap[f]
                      /\ \A u \in Users : Pending(u)' /\ job'[u].seg = seg'[f] =>
                           committed[seg'[f]] + job'[u].size <= cap[f]
    BY <1>3 DEF CachedCovers
  <2>1. InSeq(f, cache) /\ seg'[f] = seg[f] /\ f \notin second
    BY <1>3, <1>4 DEF Acquires
  <2>2. \A u \in Users : Pending(u)' => Pending(u) /\ job'[u] = job[u]
    BY <1>2 DEF Pending
  <2> QED
    BY <2>1, <2>2 DEF Full, CachedCovers
<1>7. ToldIsMapped'
  <2> SUFFICES ASSUME NEW u \in Users, job'[u].mode = "read"
               PROVE  /\ job'[u].size <= committed[job'[u].seg]
                      /\ handle'[u] \in Entries /\ handle'[u] \notin second' /\ loaded[handle'[u]] =>
                           job'[u].size <= cap[handle'[u]]
    BY <1>3 DEF ToldIsMapped
  <2>1. CASE u = t
    <3>1. n = committed[s] /\ (loaded[e] => seg[e] = s /\ InSeq(e, cache))
      BY <2>1, <1>2 DEF Acquires
    <3>2. committed[s] \in Nat
      BY DEF Held, TypeOK
    <3>3. e \notin second' /\ loaded[e] => n <= cap[e]
      BY <3>1, <1>3 DEF Full, CachedCovers
    <3> QED
      BY <2>1, <3>1, <3>2, <3>3, <1>2
  <2>2. CASE u # t
    BY <2>2, <1>2, <1>3 DEF Full, ToldIsMapped
  <2> QED
    BY <2>1, <2>2
<1> QED
  BY <1>5, <1>6, <1>7 DEF Full

\* load maps the whole file, which has what is committed.
LEMMA LoadFull ==
  ASSUME Held, Keyed, Sized, Sized', Full, NEW t \in Users, Load(t) \/ LoadRaises(t)
  PROVE  Full'
<1>1. /\ pc[t] = "load" /\ UNCHANGED <<cache, seg, committed, second>>
      /\ \/ pc' = [pc EXCEPT ![t] = "using"] /\ UNCHANGED <<job, handle>>
         \/ pc' = [pc EXCEPT ![t] = "idle"] /\ job' = [job EXCEPT ![t] = NoJob]
            /\ handle' = [handle EXCEPT ![t] = NoEntry]
  BY DEF Load, LoadRaises
<1>2. t \in Threads /\ Users \subseteq Threads
  BY DEF Threads
<1>3. PICK e \in Entries : e = handle[t]
  BY <1>1, UserHas
<1>4. PICK s \in Segments : s = seg[e]
  BY DEF Held, TypeOK
<1>5. /\ file \in [Segments -> Nat] /\ cap \in [Entries -> Nat] /\ seg \in [Entries -> Segments]
      /\ committed \in [Segments -> Nat] /\ loaded \in [Entries -> BOOLEAN]
  BY DEF Held, TypeOK
<1>6. \A f \in Entries :
        loaded'[f] => \/ loaded[f] /\ cap'[f] = cap[f]
                      \/ cap'[f] = file'[seg[f]]
  BY <1>3, <1>5 DEF Load, LoadRaises
<1>7. \A u \in Users : /\ Writes(u)' => Writes(u) /\ job'[u] = job[u] /\ handle'[u] = handle[u]
                       /\ Pending(u)' => Pending(u) /\ job'[u] = job[u]
                       /\ Pending(u) => Pending(u)'
                       /\ job'[u].mode = "read" => job'[u] = job[u] /\ handle'[u] = handle[u]
  <2> TAKE u \in Users
  <2>1. CASE u = t
    BY <2>1, <1>1, <1>2, NoJobTyped DEF Writes, Pending, Held, TypeOK
  <2>2. CASE u # t
    BY <2>2, <1>1, <1>2 DEF Writes, Pending, Held, TypeOK
  <2> QED
    BY <2>1, <2>2
<1>8. WrittenThrough'
  BY <1>1, <1>7 DEF Full, WrittenThrough
<1>9. CachedCovers'
  <2> SUFFICES ASSUME NEW f \in Entries, InSeq(f, cache), f \notin second, loaded'[f]
               PROVE  /\ committed[seg[f]] <= cap'[f]
                      /\ \A u \in Users : Pending(u)' /\ job'[u].seg = seg[f] =>
                           committed[seg[f]] + job'[u].size <= cap'[f]
    BY <1>1 DEF CachedCovers
  <2>1. CASE loaded[f] /\ cap'[f] = cap[f]
    BY <2>1, <1>7 DEF Full, CachedCovers
  <2>2. CASE cap'[f] = file'[seg[f]]
    BY <2>2, <1>1, <1>5 DEF Sized, Covers
  <2> QED
    BY <2>1, <2>2, <1>6
<1>10. ToldIsMapped'
  <2> SUFFICES ASSUME NEW u \in Users, job'[u].mode = "read"
               PROVE  /\ job[u].size <= committed[job[u].seg]
                      /\ handle[u] \in Entries /\ handle[u] \notin second /\ loaded'[handle[u]] =>
                           job[u].size <= cap'[handle[u]]
    BY <1>1, <1>7 DEF ToldIsMapped
  <2>1. job[u].mode = "read" /\ job[u].size <= committed[job[u].seg]
    BY <1>7 DEF Full, ToldIsMapped
  <2>2. ASSUME handle[u] \in Entries, handle[u] \notin second, loaded'[handle[u]]
        PROVE  job[u].size <= cap'[handle[u]]
    <3>1. CASE loaded[handle[u]] /\ cap'[handle[u]] = cap[handle[u]]
      BY <2>1, <2>2, <3>1 DEF Full, ToldIsMapped
    <3>2. CASE cap'[handle[u]] = file'[seg[handle[u]]]
      <4>1. handle[u] # NoEntry
        BY <2>2, MemoryAssumption
      <4>2. seg[handle[u]] = job[u].seg
        BY <4>1 DEF Keyed, HandleOnOwnFile
      <4>3. PICK r \in Segments : r = job[u].seg
        BY <1>2 DEF Held, TypeOK, Jobs
      <4>4. PICK n \in Nat : n = job[u].size
        BY <1>2 DEF Held, TypeOK, Jobs
      <4>5. committed[r] <= file'[r] /\ file'[r] \in Nat
        <5>1. committed[r] <= file'[r]
          BY <1>1 DEF Sized, Covers
        <5>2. file'[r] \in Nat
          <6>1. Held'
            BY LoadHeld, LoadRaisesHeld
          <6> QED
            BY <6>1 DEF Held, TypeOK
        <5> QED
          BY <5>1, <5>2
      <4>6. n <= committed[r] /\ committed[r] \in Nat
        BY <2>1, <4>3, <4>4, <1>5
      <4> QED
        BY <3>2, <4>2, <4>3, <4>4, <4>5, <4>6
    <3> QED
      BY <2>2, <3>1, <3>2, <1>6
  <2> QED
    BY <2>1, <2>2
<1> QED
  BY <1>8, <1>9, <1>10 DEF Full

\* write goes through the cached entry, or one that left the cache, and then the
\* cached one is a second entry.
LEMMA WriteFull ==
  ASSUME Held, Keyed, Full, NEW t \in Users, Write(t)
  PROVE  Full'
<1>1. /\ pc[t] = "using" /\ job[t].mode = "write" /\ pc' = [pc EXCEPT ![t] = "written"]
      /\ UNCHANGED <<cache, seg, loaded, committed, job, handle, second>>
  BY DEF Write
<1>2. t \in Threads /\ Users \subseteq Threads
  BY DEF Threads
<1>3. PICK e \in Entries : e = handle[t]
  BY <1>1, UserHas
<1>4. PICK s \in Segments : s = job[t].seg
  BY <1>1, UserHas
<1>5. seg[e] = s /\ job[t].size \in Nat /\ e # NoEntry
  BY <1>1, <1>3, <1>4, UserHas, MemoryAssumption DEF Keyed, HandleOnOwnFile
<1>6. /\ cap \in [Entries -> Nat] /\ seg \in [Entries -> Segments]
      /\ committed \in [Segments -> Nat] /\ SizeInc \in Nat
  BY MemoryAssumption DEF Held, TypeOK
<1>7. PICK required \in Nat : required = committed[s] + job[t].size
  BY <1>5, <1>6
<1>8. /\ required <= cap'[e] /\ cap[e] <= cap'[e] /\ cap'[e] \in Nat
      /\ \A f \in Entries : f # e => cap'[f] = cap[f]
  <2>1. Grown(e, required) \in Nat /\ Grown(e, required) >= required /\ Grown(e, required) >= cap[e]
    BY <1>6 DEF Grown, Max2
  <2>2. \/ required <= cap[e] /\ cap' = cap
        \/ cap' = [cap EXCEPT ![e] = Grown(e, required)]
    BY <1>3, <1>4, <1>6, <1>7 DEF Write, Grow
  <2> QED
    BY <2>1, <2>2, <1>6
<1>9. \A u \in Users : u # t => (Pending(u)' <=> Pending(u))
  BY <1>1, <1>2 DEF Pending, Held, TypeOK
<1>10. ASSUME NEW u \in Users, u # t, Pending(u) PROVE job[u].seg # s
  <2>1. job[u].mode = "write"
    BY <1>10 DEF Pending, Held, UsersAt
  <2> QED
    BY <2>1, <1>1, <1>4, <1>10 DEF Keyed, OneWriter
<1>11. WrittenThrough'
  BY <1>1 DEF Full, WrittenThrough, Writes
<1>12. CachedCovers'
  <2> SUFFICES ASSUME NEW f \in Entries, InSeq(f, cache), f \notin second, loaded[f]
               PROVE  /\ committed[seg[f]] <= cap'[f]
                      /\ \A u \in Users : Pending(u)' /\ job[u].seg = seg[f] =>
                           committed[seg[f]] + job[u].size <= cap'[f]
    BY <1>1 DEF CachedCovers
  <2>1. CASE seg[f] = s
    <3>1. f = e
      BY <2>1, <1>1, <1>3, <1>4, <1>5 DEF Full, WrittenThrough, Writes
    <3>2. committed[s] <= required
      BY <1>5, <1>6, <1>7
    <3>3. committed[s] <= cap'[f]
      BY <3>1, <3>2, <1>6, <1>8
    <3>4. ASSUME NEW u \in Users, Pending(u)', job[u].seg = s
          PROVE  committed[s] + job[u].size <= cap'[f]
      <4>1. u = t
        BY <3>4, <1>9, <1>10
      <4> QED
        BY <4>1, <3>1, <1>7, <1>8
    <3> QED
      BY <2>1, <3>3, <3>4
  <2>2. CASE seg[f] # s
    <3>1. f # e
      BY <2>2, <1>5
    <3>2. ASSUME NEW u \in Users, Pending(u)', job[u].seg = seg[f] PROVE Pending(u)
      BY <2>2, <3>2, <1>4, <1>9
    <3> QED
      BY <3>1, <3>2, <1>8 DEF Full, CachedCovers
  <2> QED
    BY <2>1, <2>2
<1>13. ToldIsMapped'
  <2> SUFFICES ASSUME NEW u \in Users, job[u].mode = "read",
                      handle[u] \in Entries, handle[u] \notin second, loaded[handle[u]]
               PROVE  job[u].size <= cap'[handle[u]]
    BY <1>1 DEF Full, ToldIsMapped
  <2>1. job[u].size <= cap[handle[u]]
    BY DEF Full, ToldIsMapped
  <2>2. job[u].size \in Nat
    BY <1>2 DEF Held, TypeOK, Jobs
  <2>3. CASE handle[u] = e
    BY <2>1, <2>2, <2>3, <1>6, <1>8
  <2>4. CASE handle[u] # e
    BY <2>1, <2>4, <1>8
  <2> QED
    BY <2>3, <2>4
<1> QED
  BY <1>11, <1>12, <1>13 DEF Full

\* advance_offset commits what the cached entry has.
LEMMA AdvanceFull ==
  ASSUME Held, Keyed, Full, NEW t \in Users, Advance(t)
  PROVE  Full'
<1>1. t \in Threads /\ Users \subseteq Threads
  BY DEF Threads
<1>2. PICK s \in Segments : s = job[t].seg
  BY <1>1 DEF Held, TypeOK, Jobs
<1>3. PICK n \in Nat : n = job[t].size
  BY <1>1 DEF Held, TypeOK, Jobs
<1>4. committed \in [Segments -> Nat] /\ cap \in [Entries -> Nat] /\ seg \in [Entries -> Segments]
  BY DEF Held, TypeOK
<1>5. /\ UNCHANGED <<cache, seg, loaded, cap, handle, second>>
      /\ committed'[s] = committed[s] + n
      /\ \A r \in Segments : r # s => committed'[r] = committed[r]
      /\ pc[t] = "advance" /\ pc'[t] = "idle" /\ job[t].mode = "write" /\ job'[t].mode = "none"
      /\ \A u \in Users : u # t => pc'[u] = pc[u] /\ job'[u] = job[u]
  BY <1>1, <1>2, <1>3, NoJobTyped DEF Advance, entryVars, Held, TypeOK, UsersAt
<1>6. /\ Pending(t) /\ ~Pending(t)'
      /\ \A u \in Users : u # t => (Pending(u)' <=> Pending(u))
  BY <1>5 DEF Pending
<1>7. ASSUME NEW u \in Users, u # t, Pending(u) PROVE job[u].seg # s
  <2>1. job[u].mode = "write"
    BY <1>7 DEF Pending, Held, UsersAt
  <2> QED
    BY <2>1, <1>2, <1>5, <1>7 DEF Keyed, OneWriter
<1>8. WrittenThrough'
  <2>1. \A u \in Users : Writes(u)' => Writes(u) /\ job'[u] = job[u]
    BY <1>5 DEF Writes
  <2> QED
    BY <2>1, <1>5 DEF Full, WrittenThrough
<1>9. CachedCovers'
  <2> SUFFICES ASSUME NEW f \in Entries, InSeq(f, cache), f \notin second, loaded[f]
               PROVE  /\ committed'[seg[f]] <= cap[f]
                      /\ \A u \in Users : Pending(u)' /\ job'[u].seg = seg[f] =>
                           committed'[seg[f]] + job'[u].size <= cap[f]
    BY <1>5 DEF CachedCovers
  <2>1. CASE seg[f] = s
    <3>1. committed[s] + n <= cap[f]
      BY <2>1, <1>2, <1>3, <1>6 DEF Full, CachedCovers
    <3>2. ASSUME NEW u \in Users, Pending(u)', job'[u].seg = s PROVE FALSE
      BY <3>2, <1>5, <1>6, <1>7
    <3> QED
      BY <2>1, <3>1, <3>2, <1>5
  <2>2. CASE seg[f] # s
    <3>1. \A u \in Users : Pending(u)' => Pending(u) /\ job'[u] = job[u]
      BY <1>5, <1>6
    <3>2. committed'[seg[f]] = committed[seg[f]]
      BY <2>2, <1>4, <1>5
    <3> QED
      BY <3>1, <3>2 DEF Full, CachedCovers
  <2> QED
    BY <2>1, <2>2
<1>10. ToldIsMapped'
  <2> SUFFICES ASSUME NEW u \in Users, job'[u].mode = "read"
               PROVE  /\ job[u].mode = "read" /\ job'[u] = job[u]
                      /\ job[u].size <= committed'[job[u].seg]
    BY <1>5 DEF Full, ToldIsMapped
  <2>1. job'[u] = job[u] /\ job[u].mode = "read"
    BY <1>5
  <2>2. job[u].size <= committed[job[u].seg]
    BY <2>1 DEF Full, ToldIsMapped
  <2>3. job[u].seg \in Segments /\ job[u].size \in Nat
    BY <1>1 DEF Held, TypeOK, Jobs
  <2>4. committed[job[u].seg] <= committed'[job[u].seg] /\ committed'[job[u].seg] \in Nat
    BY <2>3, <1>4, <1>5
  <2> QED
    BY <2>1, <2>2, <2>3, <2>4, <1>4
<1> QED
  BY <1>8, <1>9, <1>10 DEF Full

\* release gives up a handle and nothing else.
LEMMA ReleaseFull ==
  ASSUME Held, Full, NEW t \in Users, Release(t)
  PROVE  Full'
<1>1. t \in Threads /\ Users \subseteq Threads
  BY DEF Threads
<1>2. UNCHANGED <<cache, seg, loaded, cap, committed, second>>
  BY DEF Release
<1>3. \A u \in Users : u # t => pc'[u] = pc[u] /\ job'[u] = job[u] /\ handle'[u] = handle[u]
  BY <1>1 DEF Release, Held, TypeOK
<1>4. /\ handle'[t] = NoEntry
      /\ \/ pc'[t] = "idle" /\ job'[t].mode = "none"
         \/ pc[t] = "written" /\ job[t].mode = "write" /\ job'[t] = job[t]
  BY <1>1, NoJobTyped DEF Release, Held, TypeOK, UsersAt
<1>5. \A u \in Users : /\ Writes(u)' => Writes(u) /\ job'[u] = job[u] /\ handle'[u] = handle[u]
                       /\ Pending(u)' => Pending(u) /\ job'[u] = job[u]
                       /\ job'[u].mode = "read" => job'[u] = job[u] /\ handle'[u] = handle[u]
  BY <1>3, <1>4 DEF Writes, Pending
<1> QED
  BY <1>2, <1>5, StaysFull

\* Every step keeps it.
LEMMA NextFull ==
  ASSUME IdsDistinct, Held, Keyed, Sized, Full, [Next]_vars
  PROVE  Full'
<1>1. ASSUME UNCHANGED <<seg, loaded, cap, committed, second>>,
             \A f \in Entries : InSeq(f, cache') => InSeq(f, cache),
             \A u \in Users : pc'[u] = pc[u] /\ job'[u] = job[u] /\ handle'[u] = handle[u]
      PROVE  Full'
  BY <1>1, StaysFull DEF Writes, Pending
<1>2. CASE UNCHANGED vars
  <2>1. UNCHANGED <<cache, seg, loaded, cap, committed, pc, job, handle, second>>
    BY <1>2 DEF vars, entryVars, threadVars
  <2> QED
    BY <2>1, <1>1
<1>3. ASSUME NEW t \in Users, UserStep(t) PROVE Full'
  BY <1>3, LoadSized, LoadFull, WriteFull, ReleaseFull, AdvanceFull DEF UserStep
<1>4. ASSUME NEW t \in Users, NEW s \in Segments,
             AcquireToRead(t, s) \/ \E n \in Lengths : AcquireToWrite(t, s, n)
      PROVE  Full'
  BY <1>4, AcquireDoes, AcquireFull
<1>5. ASSUME NEW e \in Entries, refcount[e] = 0, ~InSeq(e, cache), Unmap(e),
             \A u \in Users : pc'[u] = pc[u] /\ job'[u] = job[u] /\ handle'[u] = handle[u]
      PROVE  Full'
  <2>1. /\ cache' = cache /\ committed' = committed
        /\ \A f \in Entries : f # e => /\ seg'[f] = seg[f] /\ cap'[f] = cap[f]
                                       /\ loaded'[f] = loaded[f]
        /\ ~loaded'[e] /\ \A u \in Users : handle[u] # e
    BY <1>5, CloseElsewhere
  <2>2. second' = second \ {e}
    BY <1>5 DEF Unmap
  <2>3. \A f \in Entries : loaded'[f] => loaded[f] /\ cap'[f] = cap[f]
    BY <2>1
  <2>4. \A f \in Entries : InSeq(f, cache') => InSeq(f, cache) /\ seg'[f] = seg[f]
    BY <1>5, <2>1
  <2>5. \A f \in Entries : f \notin second' /\ (InSeq(f, cache) \/ \E u \in Users : handle[u] = f)
                              => f \notin second
    BY <1>5, <2>1, <2>2
  <2> QED
    BY <1>5, <2>1, <2>3, <2>4, <2>5, StaysFull DEF Writes, Pending
<1>6. ASSUME NEW t \in Evictors, EvictClose(t) PROVE Full'
  BY <1>5, <1>6, EvictCloseDoes
<1>7. ASSUME NEW t \in Evictors, NEW m \in {"try", "force"}, NEW s \in Segments, EvictPop(t, m, s)
      PROVE  Full'
  <2>1. /\ \A x : InSeq(x, cache') => InSeq(x, cache)
        /\ \A u \in Users : pc'[u] = pc[u] /\ job'[u] = job[u] /\ handle'[u] = handle[u]
        /\ UNCHANGED <<seg, loaded, cap, committed>>
    BY <1>7, EvictPopDoes
  <2>2. second' = second
    BY <1>7 DEF EvictPop
  <2> QED
    BY <2>1, <2>2, <1>1
<1>8. CASE CleanerTake
  <2>1. UNCHANGED <<cache, seg, loaded, cap, committed, pc, job, handle, second>>
    BY <1>8 DEF CleanerTake, entryVars, threadVars
  <2> QED
    BY <2>1, <1>1
<1>9. CASE CleanerClose
  BY <1>5, <1>9, CleanerCloseDoes
<1> QED
  BY <1>2, <1>3, <1>4, <1>6, <1>7, <1>8, <1>9, Zenon DEF Next

\* At the start nobody has a handle and nothing is mapped.
LEMMA InitFull == Init => Full
BY NoJobTyped DEF Init, Full, WrittenThrough, CachedCovers, ToldIsMapped, Writes, Threads

-----------------------------------------------------------------------------
\* A non-empty set of naturals has a least element.
LEMMA NatMin ==
  ASSUME NEW S \in SUBSET Nat, S # {}
  PROVE  \E x \in S : \A y \in S : x <= y
<1>1. PICK x \in S : \A y \in S : ~(<<y, x>> \in OpToRel(<, Nat))
  BY WFMin, NatLessThanWellFounded
<1>2. ASSUME NEW y \in S PROVE ~(y < x)
  BY <1>1, Zenon DEF OpToRel
<1> QED
  BY <1>2

\* Dropping the last digit makes a number smaller.
LEMMA DivideByTen ==
  ASSUME NEW n \in Nat, ~(n < 10)
  PROVE  n \div 10 \in Nat /\ n \div 10 < n /\ n % 10 \in 0..9
OBVIOUS

\* What names and numbers are written with.
Chars == STRING \cup {Digit(d) : d \in 0..9}

\* Each digit is one character, and they are ten different ones.
LEMMA DigitIsCharacter ==
  ASSUME NEW d \in 0..9
  PROVE  Digit(d) \in Chars
BY Zenon DEF Chars

LEMMA DigitsDiffer ==
  ASSUME NEW c \in 0..9, NEW d \in 0..9, Digit(c) = Digit(d)
  PROVE  c = d
BY DEF Digit

\* A last digit adds one character.
LEMMA DigitAppended ==
  ASSUME NEW s \in Seq(Chars), NEW d \in 0..9
  PROVE  Append(s, Digit(d)) \in Seq(Chars) /\ Len(Append(s, Digit(d))) = Len(s) + 1
BY DigitIsCharacter

\* One digit is a string of length one.
LEMMA OneDigit ==
  ASSUME NEW n \in Nat, n < 10
  PROVE  <<Digit(n)>> \in Seq(Chars) /\ Len(<<Digit(n)>>) = 1
<1>1. n \in 0..9
  OBVIOUS
<1>2. Digit(n) \in Chars
  BY <1>1, DigitIsCharacter
<1> QED
  BY <1>2

\* The last digit and the others determine the number.
LEMMA QuotientAndRest ==
  ASSUME NEW n \in Nat, NEW m \in Nat, n \div 10 = m \div 10, n % 10 = m % 10
  PROVE  n = m
OBVIOUS

\* str(base_offset), as a condition on the function that computes it, and its
\* beginnings.
IsDigits(f) == f = [n \in Nat |-> IF n < 10 THEN <<Digit(n)>> ELSE Append(f[n \div 10], Digit(n % 10))]

DigitsUpTo(k) ==
  {f \in [0..k -> Seq(Chars)] :
     \A n \in 0..k : f[n] = IF n < 10 THEN <<Digit(n)>> ELSE Append(f[n \div 10], Digit(n % 10))}

\* Every beginning can be extended by one.
LEMMA DigitsUpToExist ==
  ASSUME NEW k \in Nat
  PROVE  DigitsUpTo(k) # {}
<1> DEFINE Bad == {j \in Nat : DigitsUpTo(j) = {}}
<1> SUFFICES ASSUME Bad # {} PROVE FALSE
  OBVIOUS
<1>1. PICK j \in Bad : \A i \in Bad : j <= i
  <2>1. Bad \in SUBSET Nat
    OBVIOUS
  <2> HIDE DEF Bad
  <2> QED
    BY <2>1, NatMin
<1>2. j \in Nat /\ DigitsUpTo(j) = {}
  OBVIOUS
<1>3. CASE j = 0
  <2> DEFINE f == [n \in 0..0 |-> <<Digit(n)>>]
  <2>1. \A n \in 0..0 : n = 0 /\ <<Digit(n)>> \in Seq(Chars)
    BY OneDigit
  <2>2. f \in DigitsUpTo(0)
    BY <2>1 DEF DigitsUpTo
  <2> QED
    BY <2>2, <1>2, <1>3
<1>4. CASE j # 0
  <2>1. j - 1 \in Nat /\ j - 1 \notin Bad
    BY <1>1, <1>2, <1>4
  <2>2. PICK f \in [0..(j - 1) -> Seq(Chars)] :
          \A n \in 0..(j - 1) : f[n] = IF n < 10 THEN <<Digit(n)>> ELSE Append(f[n \div 10], Digit(n % 10))
    BY <2>1 DEF DigitsUpTo
  <2> DEFINE last == IF j < 10 THEN <<Digit(j)>> ELSE Append(f[j \div 10], Digit(j % 10))
             h == [n \in 0..j |-> IF n = j THEN last ELSE f[n]]
  <2>3. \A n \in 0..j : n # j => n \in 0..(j - 1)
    BY <1>2
  <2>4. \A n \in 0..j : ~(n < 10) => n \div 10 \in 0..(j - 1) /\ n \div 10 \in 0..j /\ n \div 10 # j /\ n % 10 \in 0..9
    <3> TAKE n \in 0..j
    <3> HAVE ~(n < 10)
    <3>1. n \in Nat /\ n <= j
      BY <1>2
    <3>2. n \div 10 \in Nat /\ n \div 10 < n /\ n % 10 \in 0..9
      BY <3>1, DivideByTen
    <3> QED
      BY <1>2, <3>1, <3>2
  <2>5. last \in Seq(Chars)
    <3>1. CASE j < 10
      BY <1>2, <3>1, OneDigit
    <3>2. CASE ~(j < 10)
      <4>1. f[j \div 10] \in Seq(Chars) /\ j % 10 \in 0..9
        BY <3>2, <2>4, <1>2
      <4> QED
        BY <3>2, <4>1, DigitAppended
    <3> QED
      BY <3>1, <3>2
  <2> HIDE DEF last
  <2>6. h \in [0..j -> Seq(Chars)]
    BY <2>3, <2>5
  <2>7. ASSUME NEW n \in 0..j
        PROVE  h[n] = IF n < 10 THEN <<Digit(n)>> ELSE Append(h[n \div 10], Digit(n % 10))
    <3>1. ~(n < 10) => h[n \div 10] = f[n \div 10]
      BY <2>4
    <3>2. CASE n = j
      BY <3>1, <3>2 DEF last
    <3>3. CASE n # j
      BY <3>1, <3>3, <2>2, <2>3
    <3> QED
      BY <3>2, <3>3
  <2>8. h \in DigitsUpTo(j)
    <3> HIDE DEF h
    <3> QED
      BY <2>6, <2>7 DEF DigitsUpTo
  <2> QED
    BY <2>8, <1>2
<1> QED
  BY <1>3, <1>4

\* Two beginnings agree where both are defined.
LEMMA DigitsUpToAgree ==
  ASSUME NEW k \in Nat, NEW l \in Nat, NEW f \in DigitsUpTo(k), NEW g \in DigitsUpTo(l),
         NEW m \in Nat, m <= k, m <= l
  PROVE  f[m] = g[m]
<1> DEFINE Bad == {n \in Nat : n <= k /\ n <= l /\ f[n] # g[n]}
<1> SUFFICES ASSUME Bad # {} PROVE FALSE
  OBVIOUS
<1>1. PICK n \in Bad : \A i \in Bad : n <= i
  <2>1. Bad \in SUBSET Nat
    OBVIOUS
  <2> HIDE DEF Bad
  <2> QED
    BY <2>1, NatMin
<1>2. n \in 0..k /\ n \in 0..l /\ f[n] # g[n] /\ n \in Nat
  OBVIOUS
<1>3. /\ f[n] = IF n < 10 THEN <<Digit(n)>> ELSE Append(f[n \div 10], Digit(n % 10))
      /\ g[n] = IF n < 10 THEN <<Digit(n)>> ELSE Append(g[n \div 10], Digit(n % 10))
  BY <1>2 DEF DigitsUpTo
<1>4. ~(n < 10)
  BY <1>2, <1>3
<1>5. n \div 10 \in Nat /\ n \div 10 < n
  BY <1>2, <1>4, DivideByTen
<1>6. f[n \div 10] = g[n \div 10]
  <2>1. n \div 10 \notin Bad
    BY <1>1, <1>2, <1>5
  <2>2. n \div 10 <= k /\ n \div 10 <= l
    BY <1>2, <1>5
  <2> QED
    BY <2>1, <2>2, <1>5
<1> QED
  BY <1>2, <1>3, <1>4, <1>6

\* So the recursive definition of the digits has a solution.
LEMMA DigitsDefined == IsDigits(Digits)
<1> DEFINE F(n) == CHOOSE f : f \in DigitsUpTo(n)
           g == [n \in Nat |-> F(n)[n]]
<1>1. \A n \in Nat : F(n) \in DigitsUpTo(n)
  BY DigitsUpToExist
<1> HIDE DEF F
<1>2. ASSUME NEW n \in Nat
      PROVE  g[n] = IF n < 10 THEN <<Digit(n)>> ELSE Append(g[n \div 10], Digit(n % 10))
  <2>1. n \in 0..n
    OBVIOUS
  <2>2. F(n)[n] = IF n < 10 THEN <<Digit(n)>> ELSE Append(F(n)[n \div 10], Digit(n % 10))
    BY <1>1, <2>1 DEF DigitsUpTo
  <2>3. CASE n < 10
    BY <2>2, <2>3
  <2>4. CASE ~(n < 10)
    <3>1. n \div 10 \in Nat /\ n \div 10 <= n /\ n \div 10 <= n \div 10
      BY <2>4, DivideByTen
    <3>2. F(n)[n \div 10] = F(n \div 10)[n \div 10]
      BY <1>1, <3>1, DigitsUpToAgree
    <3> QED
      BY <2>2, <2>4, <3>1, <3>2
  <2> QED
    BY <2>3, <2>4
<1>3. g = [n \in Nat |-> g[n]]
  OBVIOUS
<1> HIDE DEF g
<1>4. IsDigits(g)
  BY <1>2, <1>3, Zenon DEF IsDigits
<1>5. Digits = CHOOSE f : IsDigits(f)
  BY Zenon DEF Digits, IsDigits
<1> QED
  BY <1>4, <1>5, Zenon

\* What str does with one digit more.
LEMMA DigitsStep ==
  ASSUME NEW n \in Nat
  PROVE  Digits[n] = IF n < 10 THEN <<Digit(n)>> ELSE Append(Digits[n \div 10], Digit(n % 10))
BY DigitsDefined, Zenon DEF IsDigits

\* A number has at least one digit.
LEMMA DigitsTyped ==
  ASSUME NEW n \in Nat
  PROVE  Digits[n] \in Seq(Chars) /\ Len(Digits[n]) >= 1
<1> DEFINE Bad == {j \in Nat : ~(Digits[j] \in Seq(Chars) /\ Len(Digits[j]) >= 1)}
<1> SUFFICES ASSUME Bad # {} PROVE FALSE
  OBVIOUS
<1>1. PICK j \in Bad : \A i \in Bad : j <= i
  <2>1. Bad \in SUBSET Nat
    OBVIOUS
  <2> HIDE DEF Bad
  <2> QED
    BY <2>1, NatMin
<1>2. j \in Nat /\ ~(Digits[j] \in Seq(Chars) /\ Len(Digits[j]) >= 1)
  OBVIOUS
<1>3. CASE j < 10
  <2>1. Digits[j] = <<Digit(j)>>
    BY <1>2, <1>3, DigitsStep
  <2> QED
    BY <1>2, <1>3, <2>1, OneDigit
<1>4. CASE ~(j < 10)
  <2>1. j \div 10 \in Nat /\ j \div 10 < j /\ j % 10 \in 0..9
    BY <1>2, <1>4, DivideByTen
  <2>2. Digits[j \div 10] \in Seq(Chars)
    BY <1>1, <1>2, <2>1
  <2>3. Digits[j] = Append(Digits[j \div 10], Digit(j % 10))
    BY <1>2, <1>4, DigitsStep
  <2> HIDE DEF Bad
  <2>4. Len(Digits[j]) = Len(Digits[j \div 10]) + 1 /\ Digits[j] \in Seq(Chars)
    BY <2>1, <2>2, <2>3, DigitAppended
  <2> QED
    BY <1>2, <2>2, <2>4
<1> QED
  BY <1>3, <1>4

\* Different offsets have different digits.
LEMMA DigitsInjective ==
  ASSUME NEW a \in Nat, NEW b \in Nat, Digits[a] = Digits[b]
  PROVE  a = b
<1> DEFINE Bad == {n \in Nat : \E m \in Nat : m # n /\ Digits[m] = Digits[n]}
<1> SUFFICES ASSUME Bad # {} PROVE FALSE
  OBVIOUS
<1>1. PICK n \in Bad : \A i \in Bad : n <= i
  <2>1. Bad \in SUBSET Nat
    OBVIOUS
  <2> HIDE DEF Bad
  <2> QED
    BY <2>1, NatMin
<1>2. n \in Nat
  OBVIOUS
<1>3. PICK m \in Nat : m # n /\ Digits[m] = Digits[n]
  OBVIOUS
<1>4. ASSUME NEW k \in Nat, ~(k < 10)
      PROVE  /\ k \div 10 \in Nat /\ k \div 10 < k /\ k % 10 \in 0..9
             /\ Digits[k \div 10] \in Seq(Chars) /\ Len(Digits[k \div 10]) >= 1
             /\ Digits[k] = Append(Digits[k \div 10], Digit(k % 10))
  BY <1>4, DivideByTen, DigitsTyped, DigitsStep
<1>5. \A k \in Nat : k < 10 => Digits[k] = <<Digit(k)>>
  BY DigitsStep
<1>6. CASE n < 10 /\ m < 10
  <2>1. n \in 0..9 /\ m \in 0..9 /\ Digit(n) = Digit(m)
    BY <1>2, <1>3, <1>5, <1>6
  <2> QED
    BY <2>1, <1>3, DigitsDiffer
<1>7. ASSUME NEW k \in Nat, NEW l \in Nat, k < 10, ~(l < 10), Digits[k] = Digits[l] PROVE FALSE
  <2>1. Len(Digits[k]) = 1
    BY <1>5, <1>7, OneDigit
  <2>2. Len(Digits[l]) = Len(Digits[l \div 10]) + 1
    BY <1>4, <1>7, DigitAppended
  <2>3. PICK i \in Nat : i = Len(Digits[l \div 10]) /\ i >= 1
    <3>1. Digits[l \div 10] \in Seq(Chars) /\ Len(Digits[l \div 10]) >= 1
      BY <1>4, <1>7
    <3> QED
      BY <3>1
  <2>4. Len(Digits[k]) = Len(Digits[l])
    BY <1>7, Zenon
  <2>5. 1 = i + 1
    BY <2>1, <2>2, <2>3, <2>4, Zenon
  <2> QED
    BY <2>3, <2>5
<1>8. CASE ~(n < 10) /\ ~(m < 10)
  <2> DEFINE p == n \div 10
             q == m \div 10
  <2>1. /\ p \in Nat /\ p < n /\ q \in Nat /\ n % 10 \in 0..9 /\ m % 10 \in 0..9
        /\ Digits[p] \in Seq(Chars) /\ Digits[q] \in Seq(Chars)
        /\ Append(Digits[p], Digit(n % 10)) = Append(Digits[q], Digit(m % 10))
    BY <1>2, <1>3, <1>4, <1>8
  <2> HIDE DEF p, q
  <2>2. Digits[p] = Digits[q] /\ n % 10 = m % 10
    <3>1. PICK c \in Chars, d \in Chars : c = Digit(n % 10) /\ d = Digit(m % 10)
      BY <2>1, DigitIsCharacter
    <3>2. Append(Digits[p], c) = Append(Digits[q], d)
      BY <2>1, <3>1
    <3>3. PICK s \in Seq(Chars), r \in Seq(Chars) : s = Digits[p] /\ r = Digits[q]
      BY <2>1
    <3>4. Append(s, c) = Append(r, d)
      BY <3>2, <3>3
    <3>5. s = r /\ c = d
      BY <3>4, AppendInjective
    <3>6. Digit(n % 10) = Digit(m % 10)
      BY <3>1, <3>5
    <3> QED
      BY <2>1, <3>3, <3>5, <3>6, DigitsDiffer
  <2>3. p # q
    BY <1>2, <1>3, <2>2, QuotientAndRest DEF p, q
  <2>4. p \in Bad
    BY <2>1, <2>2, <2>3
  <2> QED
    BY <1>1, <1>2, <2>1, <2>4
<1> QED
  BY <1>2, <1>3, <1>6, <1>7, <1>8

\* No two topics have a name and offsets that give the same id, as the topics "a"
\* and "a1" have at the offsets 10 and 0.  It holds when there is one topic.
TopicsApart == \A s1, s2 \in Segments : GetId(s1) = GetId(s2) => s1.topic = s2.topic

\* A sequence over a set is one over a larger set.
LEMMA SeqOfMore ==
  ASSUME NEW S, NEW C, S \subseteq C, NEW s \in Seq(S)
  PROVE  s \in Seq(C)
<1>1. Len(s) \in Nat /\ s \in [1..Len(s) -> S]
  OBVIOUS
<1>2. s \in [1..Len(s) -> C]
  BY <1>1
<1> QED
  BY <1>1, <1>2

\* What follows the same name is the same.
LEMMA CancelName ==
  ASSUME NEW name \in Seq(Chars), NEW a \in Seq(Chars), NEW b \in Seq(Chars), name \o a = name \o b
  PROVE  a = b
<1>1. /\ Len(name) \in Nat /\ Len(a) \in Nat /\ Len(b) \in Nat
      /\ Len(name \o a) = Len(name) + Len(a) /\ Len(name \o b) = Len(name) + Len(b)
  OBVIOUS
<1>2. Len(a) = Len(b)
  BY <1>1
<1>3. ASSUME NEW i \in 1..Len(a) PROVE a[i] = b[i]
  <2>1. (name \o a)[Len(name) + i] = a[i]
    OBVIOUS
  <2>2. (name \o b)[Len(name) + i] = b[i]
    BY <1>2
  <2> QED
    BY <2>1, <2>2
<1> QED
  BY <1>2, <1>3, SeqEqual

\* Within a topic the id determines the segment.
LEMMA IdsAreDistinct == TopicsApart => IdsDistinct
<1> SUFFICES ASSUME TopicsApart, NEW s1 \in Segments, NEW s2 \in Segments, GetId(s1) = GetId(s2)
             PROVE  s1 = s2
  BY DEF IdsDistinct
<1>1. /\ s1 \in [topic : Seq(STRING), base : Nat] /\ s2 \in [topic : Seq(STRING), base : Nat]
      /\ s1.topic = s2.topic
  BY MemoryAssumption DEF TopicsApart
<1> DEFINE name == s1.topic
           a == Digits[s1.base]
           b == Digits[s2.base]
<1>2. name \o a = name \o b
  BY <1>1 DEF GetId
<1>3. name \in Seq(Chars) /\ a \in Seq(Chars) /\ b \in Seq(Chars)
  <2>1. name \in Seq(Chars)
    <3>1. name \in Seq(STRING) /\ STRING \subseteq Chars
      BY <1>1 DEF Chars
    <3> HIDE DEF name
    <3> QED
      BY <3>1, SeqOfMore
  <2> QED
    BY <1>1, <2>1, DigitsTyped
<1>4. a = b
  <2> HIDE DEF name, a, b
  <2> QED
    BY <1>2, <1>3, CancelName
<1>5. s1.base = s2.base
  BY <1>1, <1>4, DigitsInjective
<1> QED
  BY <1>1, <1>5

-----------------------------------------------------------------------------
\* With keys that tell the segments apart, keys and lengths are right in every
\* state and no step shortens a file.
LEMMA FilesInvariant ==
  ASSUME TopicsApart
  PROVE  Spec => [](Held /\ Keyed /\ Sized) /\ [][NoShrink]_vars
<1>1. Init => Held /\ Keyed /\ Sized
  BY InitHeld, InitKeyed, InitSized
<1>2. Held /\ Keyed /\ Sized /\ [Next]_vars => (Held /\ Keyed /\ Sized)' /\ [NoShrink]_vars
  BY IdsAreDistinct, NextHeld, NextKeyed, NextSized
<1> QED
  BY <1>1, <1>2, PTL DEF Spec

\* No committed byte is cut off, however entries of one file come and go and
\* whichever of them grows it.
THEOREM CommittedBytesKept ==
  ASSUME TopicsApart
  PROVE  Spec => []FileCoversCommitted
<1>1. Held /\ Sized => FileCoversCommitted
  BY DEF Held, TypeOK, Sized, Covers, FileCoversCommitted
<1> QED
  BY <1>1, FilesInvariant, PTL

\* A reader's mapping has every byte its SegmentMeta counts, whatever was evicted,
\* mapped anew and grown meanwhile, unless its entry was made while a writer held an
\* older one of the segment.
THEOREM ReaderMapsCommitted ==
  ASSUME TopicsApart
  PROVE  Spec => []MapsCommitted
<1>1. Init => Full
  BY InitFull
<1>2. Held /\ Keyed /\ Sized /\ Full /\ [Next]_vars => Full'
  BY IdsAreDistinct, NextFull
<1>3. Held /\ Full => MapsCommitted
  <2> SUFFICES ASSUME Held, Full, NEW t \in Users, pc[t] = "using", job[t].mode = "read",
                      handle[t] \notin second
               PROVE  cap[handle[t]] >= job[t].size
    BY DEF MapsCommitted
  <2>1. handle[t] \in Entries /\ job[t].size \in Nat
    BY UserHas
  <2>2. loaded[handle[t]] /\ cap[handle[t]] \in Nat
    BY <2>1 DEF Held, NoUseAfterRelease, TypeOK
  <2> QED
    BY <2>1, <2>2 DEF Full, ToldIsMapped
<1> QED
  BY <1>1, <1>2, <1>3, FilesInvariant, PTL DEF Spec

\* truncate(new_capacity) never makes a file shorter than it is, so it never cuts
\* the file under the mapping of another entry.
THEOREM GrowthOnlyGrows ==
  ASSUME TopicsApart
  PROVE  Spec => [][\A s \in Segments : file'[s] >= file[s]]_vars
<1>1. [NoShrink]_vars => [\A s \in Segments : file'[s] >= file[s]]_vars
  BY DEF NoShrink
<1> QED
  BY <1>1, FilesInvariant, PTL
=============================================================================

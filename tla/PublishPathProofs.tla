-------------------------- MODULE PublishPathProofs --------------------------
(***************************************************************************)
(* The path of a published message, for any clients, finitely many threads *)
(* and any bounds: types, whose offsets publishers are told, whom close    *)
(* leaves waiting, that a request is in one place at a time, and that one  *)
(* thread keeps the order.                                                 *)
(*                                                                         *)
(* PathInv is the invariant behind the last two: it lists the places a     *)
(* request can be in, from the queue to the log, and how their contents    *)
(* are ordered.                                                            *)
(***************************************************************************)
EXTENDS PublishPath, SequenceTheorems, FiniteSetTheorems, TLAPS

FutureState == {"none", "pending", "result", "cancelled", "failed"}
HandlerState == {"new", "ready", "waiting", "replicating", "left", "dead"}
Batch == [reqs : Seq(Nat), offsets : Seq(Nat)]

\* TypeOK in four parts, as the actions touch them.
ClientsOK ==
  /\ handler \in [Clients -> HandlerState] /\ awaits \in [Clients -> Nat]
  /\ phase \in {"running", "stopping", "cancelled", "shutdown", "closed", "aborted"}
WriterOK ==
  /\ queue \in Seq(Nat) /\ batch \in Seq(Nat) /\ jobs \in Seq(Seq(Nat))
  /\ collector \in {"none", "running", "cancelled"}
PoolOK ==
  /\ pool \in SUBSET Workers /\ thread \in [Workers -> Batch] /\ log \in Seq(Nat)
  /\ raised \subseteq Nat /\ faults \in Nat
LoopOK ==
  /\ future \in Seq(FutureState)
  /\ scheduled \subseteq Nat \X Nat /\ answers \subseteq Nat \X Nat

LEMMA TypeParts == TypeOK <=> ClientsOK /\ WriterOK /\ PoolOK /\ LoopOK
  BY DEF TypeOK, ClientsOK, WriterOK, PoolOK, LoopOK, FutureState, HandlerState, Batch

LEMMA NextCommandType == NextCommand \in HandlerState
  BY DEF NextCommand, HandlerState

\* A function on 1..Len(s) is a sequence.
LEMMA SeqOfFunction ==
  ASSUME NEW S, NEW n \in Nat, NEW f \in [1..n -> S]
  PROVE  f \in Seq(S) /\ Len(f) = n
  OBVIOUS

LEMMA FlushType ==
  ASSUME WriterOK, NEW b \in Seq(Nat), Flush(b)
  PROVE  jobs' \in Seq(Seq(Nat)) /\ batch' \in Seq(Nat)
  BY DEF WriterOK, Flush

LEMMA ClientType ==
  ASSUME TypeOK, NEW c \in Clients,
         \/ Register(c) \/ Leave(c) \/ Die(c) \/ Resume(c) \/ Replicated(c)
         \/ \E acks \in {0, 1} : Publish(c, acks)
  PROVE  TypeOK'
<1> USE TypeParts
<1>1. CASE Register(c) \/ Leave(c) \/ Replicated(c)
  <2>1. ClientsOK'
    BY <1>1, NextCommandType DEF Register, Leave, Replicated, ClientsOK, HandlerState
  <2>2. UNCHANGED <<future, queue, collector, batch, pool, jobs, thread, log, raised, faults,
                    scheduled, answers>>
    BY <1>1 DEF Register, Leave, Replicated, writerVars, poolVars
  <2> QED BY <2>1, <2>2 DEF TypeOK, ClientsOK, HandlerState
<1>2. CASE Die(c) \/ Resume(c)
  <2>1. ClientsOK'
    BY <1>2, NextCommandType DEF Die, Resume, ClientsOK, HandlerState
  <2>2. UNCHANGED <<future, queue, collector, batch, pool, jobs, thread, log, raised, faults,
                    scheduled, answers>>
    BY <1>2 DEF Die, Resume, writerVars, poolVars
  <2> QED BY <2>1, <2>2 DEF TypeOK, ClientsOK, HandlerState
<1>3. ASSUME NEW acks \in {0, 1}, Publish(c, acks) PROVE TypeOK'
  <2>1. ClientsOK'
    <3>1. Len(future) + 1 \in Nat
      BY DEF LoopOK
    <3>2. CASE acks = 0
      BY <1>3, <3>2, NextCommandType DEF Publish, ClientsOK
    <3>3. CASE acks # 0
      BY <1>3, <3>1, <3>3 DEF Publish, ClientsOK, HandlerState
    <3> QED BY <3>2, <3>3
  <2>2. future' \in Seq(FutureState)
    BY <1>3 DEF Publish, LoopOK, FutureState
  <2>3. queue' \in Seq(Nat) /\ collector' \in {"none", "running", "cancelled"}
    BY <1>3 DEF Publish, Submit, WriterOK, LoopOK
  <2>4. UNCHANGED <<batch, pool, jobs, thread, log, raised, faults, scheduled, answers>>
    BY <1>3 DEF Publish, poolVars
  <2> QED BY <2>1, <2>2, <2>3, <2>4 DEF TypeOK, ClientsOK, HandlerState, FutureState
<1> QED BY <1>1, <1>2, <1>3

LEMMA CollectType ==
  ASSUME TypeOK, Collects
  PROVE  TypeOK'
<1> USE TypeParts
<1>1. queue # <<>> => Head(queue) \in Nat /\ Tail(queue) \in Seq(Nat)
  BY DEF WriterOK
<1>2. CASE CollectFirst
  <2>1. queue' \in Seq(Nat) /\ batch' \in Seq(Nat)
    BY <1>1, <1>2 DEF CollectFirst
  <2>2. UNCHANGED <<handler, awaits, phase, future, collector, pool, jobs, thread, log, raised,
                    faults, scheduled, answers>>
    BY <1>2 DEF CollectFirst, clientVars, poolVars
  <2> QED BY <2>1, <2>2 DEF TypeOK
<1>3. ASSUME NEW full \in BOOLEAN, CollectNext(full) PROVE TypeOK'
  <2> DEFINE b == Append(batch, Head(queue))
  <2>1. queue' \in Seq(Nat) /\ b \in Seq(Nat)
    BY <1>1, <1>3 DEF CollectNext, WriterOK
  <2>2. Flush(b) \/ (batch' = b /\ UNCHANGED jobs)
    BY <1>3 DEF CollectNext
  <2>3. jobs' \in Seq(Seq(Nat)) /\ batch' \in Seq(Nat)
    BY <2>1, <2>2, FlushType DEF WriterOK
  <2>4. UNCHANGED <<handler, awaits, phase, future, collector, pool, thread, log, raised,
                    faults, scheduled, answers>>
    BY <1>3 DEF CollectNext, clientVars
  <2> QED BY <2>1, <2>3, <2>4 DEF TypeOK
<1>4. CASE Timeout
  <2>1. jobs' \in Seq(Seq(Nat)) /\ batch' \in Seq(Nat)
    BY <1>4, FlushType DEF Timeout, WriterOK
  <2>2. UNCHANGED <<handler, awaits, phase, future, queue, collector, pool, thread, log, raised,
                    faults, scheduled, answers>>
    BY <1>4 DEF Timeout, clientVars
  <2> QED BY <2>1, <2>2 DEF TypeOK
<1> QED BY <1>2, <1>3, <1>4 DEF Collects

\* What a pool thread has of its batch is a well-typed batch.
LEMMA ThreadType ==
  ASSUME TypeOK, NEW t \in Workers, ThreadStep(t)
  PROVE  TypeOK'
<1> USE TypeParts
<1>0. thread[t] \in Batch /\ Free \in Batch
  BY DEF PoolOK, Free, Batch
<1>1. CASE Begin(t)
  <2>1. Head(jobs) \in Seq(Nat) /\ jobs' \in Seq(Seq(Nat))
    BY <1>1 DEF Begin, WriterOK
  <2>2. [reqs |-> Head(jobs), offsets |-> <<>>] \in Batch
    BY <2>1 DEF Batch
  <2>3. thread' \in [Workers -> Batch]
    BY <1>1, <2>2 DEF Begin, PoolOK
  <2>4. UNCHANGED <<handler, awaits, phase, future, queue, collector, batch, pool, log, raised,
                    faults, scheduled, answers>>
    BY <1>1 DEF Begin, clientVars, writerVars
  <2> QED BY <2>1, <2>3, <2>4 DEF TypeOK, Batch
<1>2. CASE AppendMessage(t)
  <2>1. /\ thread[t].reqs \in Seq(Nat) /\ thread[t].offsets \in Seq(Nat)
        /\ Len(thread[t].offsets) < Len(thread[t].reqs)
    BY <1>0, <1>2 DEF AppendMessage, Appending, Batch
  <2>2. thread[t].reqs[Len(thread[t].offsets) + 1] \in Nat
    <3>1. Len(thread[t].offsets) \in Nat /\ Len(thread[t].reqs) \in Nat
      BY <2>1, LenProperties
    <3>2. Len(thread[t].offsets) + 1 \in 1..Len(thread[t].reqs)
      BY <2>1, <3>1
    <3> QED BY <2>1, <3>2, ElementOfSeq
  <2>3. log' \in Seq(Nat) /\ Len(log) + 1 \in Nat
    BY <1>2, <2>2 DEF AppendMessage, PoolOK
  <2>4. Append(thread[t].offsets, Len(log) + 1) \in Seq(Nat)
    BY <2>1, <2>3
  <2>5. thread' \in [Workers -> Batch]
    BY <1>0, <1>2, <2>4 DEF AppendMessage, PoolOK, Batch
  <2>6. UNCHANGED <<handler, awaits, phase, future, queue, collector, batch, pool, jobs, raised,
                    faults, scheduled, answers>>
    BY <1>2 DEF AppendMessage, clientVars, writerVars
  <2> QED BY <2>3, <2>5, <2>6 DEF TypeOK, Batch
<1>3. CASE AppendRaises(t)
  <2>1. thread' \in [Workers -> Batch] /\ faults' \in Nat
    BY <1>0, <1>3 DEF AppendRaises, PoolOK
  <2>2. thread[t].reqs \in Seq(Nat)
    BY <1>0 DEF Batch
  <2>3. raised' \subseteq Nat
    BY <1>3, <2>2 DEF AppendRaises, PoolOK
  <2>4. UNCHANGED <<handler, awaits, phase, future, queue, collector, batch, pool, jobs, log,
                    scheduled, answers>>
    BY <1>3 DEF AppendRaises, clientVars, writerVars
  <2> QED BY <2>1, <2>3, <2>4 DEF TypeOK, Batch
<1>4. CASE Schedule(t) /\ Results(t) \subseteq Nat \X Nat
  <2>1. thread' \in [Workers -> Batch] /\ scheduled' \subseteq Nat \X Nat
    BY <1>0, <1>4 DEF Schedule, PoolOK, LoopOK
  <2>2. UNCHANGED <<handler, awaits, phase, future, queue, collector, batch, pool, jobs, log, raised,
                    faults, answers>>
    BY <1>4 DEF Schedule, clientVars, writerVars
  <2> QED BY <2>1, <2>2 DEF TypeOK, Batch
<1>5. Schedule(t) => Results(t) \subseteq Nat \X Nat
  <2> SUFFICES ASSUME Schedule(t), NEW i \in 1..Len(thread[t].reqs)
               PROVE  <<thread[t].reqs[i], thread[t].offsets[i]>> \in Nat \X Nat
    BY DEF Results
  <2>1. /\ thread[t].reqs \in Seq(Nat) /\ thread[t].offsets \in Seq(Nat)
        /\ ~(Len(thread[t].offsets) < Len(thread[t].reqs))
    BY <1>0 DEF Schedule, Appending, Batch
  <2>2. Len(thread[t].offsets) \in Nat /\ Len(thread[t].reqs) \in Nat
    BY <2>1, LenProperties
  <2>3. i \in 1..Len(thread[t].offsets)
    BY <2>1, <2>2
  <2>4. thread[t].reqs[i] \in Nat /\ thread[t].offsets[i] \in Nat
    BY <2>1, <2>3, ElementOfSeq
  <2> QED BY <2>4
<1> QED BY <1>1, <1>2, <1>3, <1>4, <1>5 DEF ThreadStep

LEMMA LoopType ==
  ASSUME TypeOK, SetResult \/ CloseBegin \/ CloseStep
  PROVE  TypeOK'
<1> USE TypeParts
<1>0. Len(future) \in Nat /\ \A r \in 1..Len(future) : future[r] \in FutureState
  BY DEF LoopOK
<1>1. CASE SetResult
  <2>1. scheduled' \subseteq Nat \X Nat /\ answers' \subseteq Nat \X Nat
    BY <1>1 DEF SetResult, LoopOK
  <2>2. PICK s \in scheduled :
          future' = [future EXCEPT ![s[1]] = "result"] \/ future' = future
    BY <1>1 DEF SetResult
  <2>3. future' \in Seq(FutureState)
    BY <2>2 DEF LoopOK, FutureState
  <2>4. UNCHANGED <<handler, awaits, phase, queue, collector, batch, pool, jobs, thread, log,
                    raised, faults>>
    BY <1>1 DEF SetResult, clientVars, writerVars, poolVars
  <2> QED BY <2>1, <2>3, <2>4 DEF TypeOK, FutureState
<1>2. CASE CloseBegin \/ JoinRaises \/ ShutdownDone
  <2>1. /\ phase' \in {"stopping", "aborted", "closed"}
        /\ UNCHANGED <<handler, awaits, future, queue, collector, batch, pool, jobs, thread, log,
                       raised, faults, scheduled, answers>>
    BY <1>2 DEF CloseBegin, JoinRaises, ShutdownDone, writerVars, poolVars
  <2> QED BY <2>1 DEF TypeOK
<1>3. CASE CancelHandlers
  <2>1. future' \in [1..Len(future) -> FutureState]
    BY <1>0, <1>3 DEF CancelHandlers, FutureState
  <2>2. future' \in Seq(FutureState)
    BY <1>0, <2>1, SeqOfFunction
  <2>3. /\ handler' \in [Clients -> HandlerState] /\ awaits' \in [Clients -> Nat]
        /\ phase' = "cancelled"
    BY <1>3 DEF CancelHandlers, HandlerState
  <2>4. UNCHANGED <<queue, collector, batch, pool, jobs, thread, log, raised, faults, scheduled,
                    answers>>
    BY <1>3 DEF CancelHandlers, writerVars, poolVars
  <2> QED BY <2>2, <2>3, <2>4 DEF TypeOK, FutureState, HandlerState
<1>4. CASE CloseWriter
  <2>1. PICK last \in 0..Len(queue) :
          /\ queue' = SubSeq(queue, last + 1, Len(queue))
          /\ future' = [r \in 1..Len(future) |->
                          IF future[r] = "pending" /\ \E i \in 1..last : queue[i] = r
                          THEN "failed" ELSE future[r]]
    BY <1>4 DEF CloseWriter
  <2>2. queue' \in Seq(Nat)
    BY <2>1 DEF WriterOK
  <2>3. future' \in [1..Len(future) -> FutureState]
    BY <1>0, <2>1 DEF FutureState
  <2>4. future' \in Seq(FutureState)
    BY <1>0, <2>3, SeqOfFunction
  <2>5. /\ collector' = "cancelled" /\ batch' = <<>> /\ phase' \in {"shutdown", "aborted"}
        /\ UNCHANGED <<handler, awaits, pool, jobs, thread, log, raised, faults, scheduled, answers>>
    BY <1>4 DEF CloseWriter, poolVars
  <2>6. batch' \in Seq(Nat)
    BY <2>5
  <2>7. WriterOK' /\ ClientsOK' /\ PoolOK' /\ LoopOK'
    BY <2>2, <2>4, <2>5, <2>6 DEF WriterOK, ClientsOK, PoolOK, LoopOK
  <2> QED BY <2>7 DEF TypeOK, ClientsOK, WriterOK, PoolOK, LoopOK, FutureState, HandlerState, Batch
<1> QED BY <1>1, <1>2, <1>3, <1>4 DEF CloseStep

LEMMA TypeStep == TypeOK /\ [Next]_vars => TypeOK'
<1> SUFFICES ASSUME TypeOK, [Next]_vars PROVE TypeOK'
  OBVIOUS
<1>1. CASE UNCHANGED vars
  BY <1>1 DEF TypeOK, vars, clientVars, writerVars, poolVars
<1>2. ASSUME NEW c \in Clients,
             \/ Register(c) \/ Leave(c) \/ Die(c) \/ Resume(c) \/ Replicated(c)
             \/ \E acks \in {0, 1} : Publish(c, acks)
      PROVE  TypeOK'
  BY <1>2, ClientType
<1>3. CASE Collects
  BY <1>3, CollectType
<1>4. CASE SetResult \/ CloseBegin \/ CloseStep
  BY <1>4, LoopType
<1>5. ASSUME NEW t \in Workers, ThreadStep(t) PROVE TypeOK'
  BY <1>5, ThreadType
<1> QED BY <1>1, <1>2, <1>3, <1>4, <1>5 DEF Next

LEMMA InitType == Init => TypeOK
  BY PublishAssumption DEF Init, TypeOK, Free

\* The state of the publish path keeps its type.
THEOREM PublishTypeOK == Spec => []TypeOK
  BY InitType, TypeStep, PTL DEF Spec

-----------------------------------------------------------------------------
(* Offsets *)

\* Offset o is where the log has request r.
Lies(r, o) == o \in 1..Len(log) /\ log[o] = r

\* Every offset on its way to a publisher - in a thread's hands, scheduled on the
\* event loop or delivered - is where that publisher's message lies.
Owned ==
  /\ \A t \in Workers :
       /\ Len(thread[t].offsets) <= Len(thread[t].reqs)
       /\ \A i \in 1..Len(thread[t].offsets) : Lies(thread[t].reqs[i], thread[t].offsets[i])
  /\ \A s \in scheduled : Lies(s[1], s[2])
  /\ \A a \in answers : Lies(a[1], a[2])

\* The log only grows, so what lies in it stays where it is.
LEMMA LiesStays ==
  ASSUME TypeOK, [Next]_vars, NEW r, NEW o, Lies(r, o)
  PROVE  Lies(r, o)'
<1>1. log' = log \/ \E t \in Workers : AppendMessage(t)
  BY DEF Next, vars, Register, Leave, Die, Resume, Replicated, Publish, Collects, CollectFirst,
         Timeout, CollectNext, SetResult, CloseBegin, CloseStep, CancelHandlers, JoinRaises,
         CloseWriter, ShutdownDone, ThreadStep, Begin, AppendRaises, Schedule, poolVars
<1>2. CASE log' = log
  BY <1>2 DEF Lies
<1>3. ASSUME NEW t \in Workers, AppendMessage(t) PROVE Lies(r, o)'
  <2>1. PICK e : log' = Append(log, e)
    BY <1>3 DEF AppendMessage
  <2>2. log \in Seq(Nat) /\ log' \in Seq(Nat)
    BY TypeStep DEF TypeOK
  <2>3. Len(log) \in Nat /\ Len(log') = Len(log) + 1 /\ \A i \in 1..Len(log) : log'[i] = log[i]
    BY <2>1, <2>2
  <2> QED BY <2>3 DEF Lies
<1> QED BY <1>1, <1>2, <1>3

\* The part of Owned about one thread.
Holds(t) ==
  /\ Len(thread[t].offsets) <= Len(thread[t].reqs)
  /\ \A i \in 1..Len(thread[t].offsets) : Lies(thread[t].reqs[i], thread[t].offsets[i])

LEMMA HoldsStays ==
  ASSUME TypeOK, [Next]_vars, NEW t \in Workers, Holds(t), thread'[t] = thread[t]
  PROVE  Holds(t)'
  BY LiesStays DEF Holds

LEMMA FreeHolds ==
  ASSUME NEW t \in Workers, NEW reqs \in Seq(Nat),
         thread'[t] = [reqs |-> reqs, offsets |-> <<>>]
  PROVE  Holds(t)'
<1>1. thread'[t].offsets = <<>> /\ thread'[t].reqs = reqs
  OBVIOUS
<1>2. Len(thread'[t].offsets) = 0 /\ Len(thread'[t].reqs) \in Nat
  BY <1>1, EmptySeq, LenProperties
<1> QED BY <1>2 DEF Holds

LEMMA OwnedStep == TypeOK /\ Owned /\ [Next]_vars => Owned'
<1> SUFFICES ASSUME TypeOK, Owned, [Next]_vars PROVE Owned'
  OBVIOUS
<1>0. TypeOK' /\ \A t \in Workers : Holds(t)
  BY TypeStep DEF Owned, Holds
<1>a. ASSUME \A t \in Workers : Holds(t)',
             \A s \in scheduled' : Lies(s[1], s[2])', \A a \in answers' : Lies(a[1], a[2])'
      PROVE  Owned'
  BY <1>a DEF Owned, Holds
<1>b. /\ \A s \in scheduled : Lies(s[1], s[2])'
      /\ \A a \in answers : Lies(a[1], a[2])'
  BY LiesStays DEF Owned
<1>1. CASE UNCHANGED <<thread, scheduled, answers>>
  BY <1>0, <1>1, <1>a, <1>b, HoldsStays
<1>2. ASSUME NEW t \in Workers, Begin(t) PROVE Owned'
  <2>1. Head(jobs) \in Seq(Nat)
    BY <1>2 DEF Begin, TypeOK
  <2>2. thread'[t] = [reqs |-> Head(jobs), offsets |-> <<>>]
    BY <1>2 DEF Begin, TypeOK
  <2>3. Holds(t)'
    BY <2>1, <2>2, FreeHolds
  <2>4. \A u \in Workers \ {t} : thread'[u] = thread[u]
    BY <1>2 DEF Begin, TypeOK
  <2> QED BY <1>0, <1>2, <1>a, <1>b, <2>3, <2>4, HoldsStays DEF Begin
<1>3. ASSUME NEW t \in Workers, thread' = [thread EXCEPT ![t] = Free] PROVE \A u \in Workers : Holds(u)'
  <2>1. thread'[t] = [reqs |-> <<>>, offsets |-> <<>>]
    BY <1>3 DEF TypeOK, Free
  <2>2. Holds(t)'
    BY <2>1, EmptySeq, FreeHolds
  <2>3. \A u \in Workers \ {t} : thread'[u] = thread[u]
    BY <1>3 DEF TypeOK
  <2> QED BY <1>0, <2>2, <2>3, HoldsStays
<1>4. ASSUME NEW t \in Workers, AppendRaises(t) PROVE Owned'
  BY <1>3, <1>4, <1>a, <1>b DEF AppendRaises
<1>5. ASSUME NEW t \in Workers, AppendMessage(t) PROVE Owned'
  <2> DEFINE b == thread[t] n == Len(thread[t].offsets)
  <2>1. /\ b.reqs \in Seq(Nat) /\ b.offsets \in Seq(Nat) /\ log \in Seq(Nat)
        /\ n < Len(b.reqs) /\ n \in Nat /\ Len(b.reqs) \in Nat /\ Len(log) \in Nat
    BY <1>5, LenProperties DEF AppendMessage, Appending, TypeOK
  <2>2. thread'[t] = [thread[t] EXCEPT !.offsets = Append(@, Len(log) + 1)]
    BY <1>5 DEF AppendMessage, TypeOK
  <2>3. thread'[t].reqs = b.reqs /\ thread'[t].offsets = Append(b.offsets, Len(log) + 1)
    BY <2>2 DEF TypeOK
  <2>4. log' = Append(log, b.reqs[n + 1])
    BY <1>5 DEF AppendMessage
  <2>5. Len(log') = Len(log) + 1 /\ log'[Len(log) + 1] = b.reqs[n + 1]
    <3>1. n + 1 \in 1..Len(b.reqs)
      BY <2>1
    <3>2. b.reqs[n + 1] \in Nat
      BY <2>1, <3>1, ElementOfSeq
    <3> QED BY <2>1, <2>4, <3>2
  <2>6. /\ Len(thread'[t].offsets) = n + 1
        /\ \A i \in 1..n : thread'[t].offsets[i] = b.offsets[i]
        /\ thread'[t].offsets[n + 1] = Len(log) + 1
    BY <2>1, <2>3
  <2>7. PICK r, o : r = b.reqs[n + 1] /\ o = Len(log) + 1
    OBVIOUS
  <2>8. Holds(t)'
    <3>1. Lies(r, o)'
      BY <2>1, <2>5, <2>7 DEF Lies
    <3>2. Len(thread'[t].offsets) <= Len(thread'[t].reqs)
      BY <2>1, <2>3, <2>6
    <3>3. ASSUME NEW i \in 1..Len(thread'[t].offsets)
          PROVE  Lies(thread[t].reqs[i], thread[t].offsets[i])'
      <4>1. CASE i = n + 1
        BY <2>3, <2>6, <2>7, <3>1, <4>1 DEF Lies
      <4>2. CASE i # n + 1
        <5>1. i \in 1..n
          BY <2>1, <2>6, <4>2
        <5>2. PICK q, p : q = b.reqs[i] /\ p = b.offsets[i]
          OBVIOUS
        <5>3. Lies(q, p)
          BY <1>0, <5>1, <5>2 DEF Holds
        <5>4. Lies(q, p)'
          BY <5>3, LiesStays
        <5> QED BY <2>3, <2>6, <5>1, <5>2, <5>4 DEF Lies
      <4> QED BY <4>1, <4>2
    <3> QED BY <3>2, <3>3 DEF Holds
  <2>9. \A u \in Workers \ {t} : thread'[u] = thread[u]
    BY <1>5 DEF AppendMessage, TypeOK
  <2> QED BY <1>0, <1>5, <1>a, <1>b, <2>8, <2>9, HoldsStays DEF AppendMessage
<1>6. ASSUME NEW t \in Workers, Schedule(t) PROVE Owned'
  <2>1. ASSUME NEW s \in Results(t) PROVE Lies(s[1], s[2])'
    <3>1. PICK i \in 1..Len(thread[t].reqs) : s = <<thread[t].reqs[i], thread[t].offsets[i]>>
      BY DEF Results
    <3>2. i \in 1..Len(thread[t].offsets)
      <4>1. thread[t].reqs \in Seq(Nat) /\ thread[t].offsets \in Seq(Nat)
        BY DEF TypeOK
      <4>2. Len(thread[t].offsets) \in Nat /\ Len(thread[t].reqs) \in Nat
        BY <4>1, LenProperties
      <4> QED BY <1>6, <4>2 DEF Schedule, Appending
    <3>3. Lies(thread[t].reqs[i], thread[t].offsets[i])
      BY <1>0, <3>2 DEF Holds
    <3>4. Lies(s[1], s[2])
      BY <3>1, <3>3
    <3> QED BY <3>4, LiesStays
  <2>2. scheduled' = scheduled \cup Results(t) /\ answers' = answers
    BY <1>6 DEF Schedule
  <2> QED BY <1>3, <1>6, <1>a, <1>b, <2>1, <2>2 DEF Schedule
<1>7. CASE SetResult
  <2>1. thread' = thread /\ scheduled' \subseteq scheduled /\ answers' \subseteq answers \cup scheduled
    BY <1>7 DEF SetResult, poolVars
  <2> QED BY <1>0, <1>a, <1>b, <2>1, HoldsStays
<1> QED
  BY <1>1, <1>2, <1>4, <1>5, <1>6, <1>7
  DEF Next, vars, Register, Leave, Die, Resume, Replicated, Publish, Collects, CollectFirst,
      Timeout, CollectNext, CloseBegin, CloseStep, CancelHandlers, JoinRaises, CloseWriter,
      ShutdownDone, ThreadStep, poolVars

\* The offset _flush_batch gives a publisher is that of its own message, for any
\* number of pool threads and batches.
THEOREM OffsetsAreOwn == Spec => []OffsetIsOwn
<1>1. Init => Owned
  <2>1. Len(<<>>) = 0
    OBVIOUS
  <2> QED BY <2>1 DEF Init, Owned, Free
<1>2. Owned => OffsetIsOwn
  BY DEF Owned, Lies, OffsetIsOwn
<1> QED BY <1>1, <1>2, InitType, TypeStep, OwnedStep, PTL DEF Spec

-----------------------------------------------------------------------------
(* Who is left waiting *)

\* A pending callback has a handler that awaits it, and from the time the handlers
\* were cancelled none of them does anything.
Awaited ==
  /\ \A r \in 1..Len(future) :
       future[r] = "pending" => \E c \in Clients : handler[c] = "waiting" /\ awaits[c] = r
  /\ phase \notin {"running", "stopping"} => \A c \in Clients : handler[c] \in {"left", "dead"}

LEMMA AwaitedStep == TypeOK /\ Awaited /\ [Next]_vars => Awaited'
<1> SUFFICES ASSUME TypeOK, Awaited, [Next]_vars PROVE Awaited'
  OBVIOUS
<1>0. Len(future) \in Nat /\ future \in Seq(FutureState)
  BY DEF TypeOK, FutureState
<1>1. CASE UNCHANGED <<handler, awaits, future, phase>>
  BY <1>1 DEF Awaited
<1>2. ASSUME NEW c \in Clients, Register(c) \/ Leave(c) \/ Replicated(c) PROVE Awaited'
  <2>1. /\ handler[c] # "waiting" /\ handler[c] \notin {"left", "dead"}
        /\ \A d \in Clients \ {c} : handler'[d] = handler[d]
        /\ UNCHANGED <<awaits, future, phase>>
    BY <1>2 DEF Register, Leave, Replicated, TypeOK
  <2> QED BY <2>1 DEF Awaited
<1>3. ASSUME NEW c \in Clients, Die(c) \/ Resume(c) PROVE Awaited'
  <2>1. /\ handler[c] # "waiting" \/ future[awaits[c]] = "result"
        /\ handler[c] \notin {"left", "dead"}
        /\ \A d \in Clients \ {c} : handler'[d] = handler[d] /\ awaits'[d] = awaits[d]
        /\ UNCHANGED <<future, phase>>
    BY <1>3 DEF Die, Resume, TypeOK
  <2> QED BY <2>1 DEF Awaited
<1>4. ASSUME NEW c \in Clients, NEW acks \in {0, 1}, Publish(c, acks) PROVE Awaited'
  <2>1. /\ handler[c] = "ready" /\ phase' = phase
        /\ \A d \in Clients \ {c} : handler'[d] = handler[d] /\ awaits'[d] = awaits[d]
    BY <1>4 DEF Publish, TypeOK
  <2>2. CASE acks = 0
    <3>1. future' = Append(future, "none")
      BY <1>4, <2>2 DEF Publish
    <3>2. /\ Len(future') = Len(future) + 1 /\ future'[Len(future) + 1] = "none"
          /\ \A r \in 1..Len(future) : future'[r] = future[r]
      BY <1>0, <3>1 DEF FutureState
    <3> QED BY <1>0, <2>1, <3>2 DEF Awaited
  <2>3. CASE acks # 0
    <3>1. /\ future' = Append(future, "pending")
          /\ handler'[c] = "waiting" /\ awaits'[c] = Len(future) + 1
      BY <1>4, <2>3 DEF Publish, TypeOK
    <3>2. Len(future') = Len(future) + 1 /\ \A r \in 1..Len(future) : future'[r] = future[r]
      BY <1>0, <3>1 DEF FutureState
    <3> QED BY <1>0, <2>1, <3>1, <3>2 DEF Awaited
  <2> QED BY <2>2, <2>3
<1>5. CASE SetResult
  <2>1. /\ UNCHANGED <<handler, awaits, phase>>
        /\ \E s \in scheduled : future' = [future EXCEPT ![s[1]] = "result"] \/ future' = future
    BY <1>5 DEF SetResult, clientVars
  <2>2. Len(future') = Len(future) /\ \A r \in 1..Len(future) : future'[r] = "pending" => future[r] = "pending"
    BY <1>0, <2>1 DEF FutureState
  <2> QED BY <2>1, <2>2 DEF Awaited
<1>6. CASE CloseBegin \/ JoinRaises \/ ShutdownDone
  <2>1. UNCHANGED <<handler, awaits, future>> /\ (phase' \in {"running", "stopping"} \/ phase \notin {"running", "stopping"})
    BY <1>6 DEF CloseBegin, JoinRaises, ShutdownDone
  <2> QED BY <2>1 DEF Awaited
<1>7. CASE CancelHandlers
  <2>1. \A c \in Clients : handler'[c] \in {"left", "dead"}
    BY <1>7 DEF CancelHandlers
  <2>2. future' \in Seq(FutureState) /\ future' \in [1..Len(future) -> FutureState]
    BY <1>0, <1>7, TypeStep DEF CancelHandlers, TypeOK, FutureState
  <2>3. Len(future') = Len(future)
    BY <1>0, <2>2, SeqOfFunction
  <2>4. \A r \in 1..Len(future) : future'[r] # "pending"
    BY <1>7 DEF CancelHandlers, Awaited
  <2> QED BY <2>1, <2>3, <2>4 DEF Awaited
<1>8. CASE CloseWriter
  <2>1. PICK last \in 0..Len(queue) :
          future' = [r \in 1..Len(future) |->
                       IF future[r] = "pending" /\ \E i \in 1..last : queue[i] = r
                       THEN "failed" ELSE future[r]]
    BY <1>8 DEF CloseWriter
  <2>2. future' \in [1..Len(future) -> FutureState]
    BY <1>0, <2>1 DEF FutureState
  <2>3. Len(future') = Len(future)
    BY <1>0, <2>2, SeqOfFunction
  <2>4. \A r \in 1..Len(future) : future'[r] = "pending" => future[r] = "pending"
    BY <2>1
  <2>5. UNCHANGED <<handler, awaits>> /\ phase = "cancelled"
    BY <1>8 DEF CloseWriter
  <2> QED BY <2>3, <2>4, <2>5 DEF Awaited
<1> QED
  BY <1>1, <1>2, <1>3, <1>4, <1>5, <1>6, <1>7, <1>8
  DEF Next, vars, clientVars, Collects, CollectFirst, Timeout, CollectNext, CloseStep, ThreadStep,
      Begin, AppendMessage, AppendRaises, Schedule

\* Broker.close leaves no publisher waiting, whatever the writer had in its queue,
\* in its batch or in the pool when the handlers were cancelled.
THEOREM CloseLeavesNone == Spec => []ClosedLeavesNone
<1>1. Init => Awaited
  BY DEF Init, Awaited
<1>2. TypeOK /\ Awaited => ClosedLeavesNone
  BY DEF Awaited, ClosedLeavesNone
<1> QED BY <1>1, <1>2, InitType, TypeStep, AwaitedStep, PTL DEF Spec

-----------------------------------------------------------------------------
(***************************************************************************)
(* Where the messages are.  Requests stand in one line in the order of     *)
(* their numbers: what threads have begun or appended, then the executor's *)
(* jobs, the collector's batch, the queue.  Within what has begun, threads *)
(* hold different requests and the log has each once.                      *)
(***************************************************************************)

In(s) == {s[i] : i \in 1..Len(s)}
Increasing(s) == \A i, j \in 1..Len(s) : i < j => s[i] < s[j]
Before(S, T) == \A x \in S, y \in T : x < y

\* The requests of a thread's batch that are not in the log yet.
ToAppend(t) == {thread[t].reqs[i] : i \in (Len(thread[t].offsets) + 1)..Len(thread[t].reqs)}

EachIncreasing ==
  /\ Increasing(queue) /\ Increasing(batch)
  /\ \A n \in 1..Len(jobs) : Increasing(jobs[n])
  /\ \A t \in Workers : Increasing(thread[t].reqs)

Ranked ==
  /\ Before(In(batch), In(queue))
  /\ \A n \in 1..Len(jobs) : Before(In(jobs[n]), In(batch)) /\ Before(In(jobs[n]), In(queue))
  /\ \A m, n \in 1..Len(jobs) : m < n => Before(In(jobs[m]), In(jobs[n]))

\* What threads have begun or appended is before T.
BegunBefore(T) == Before(In(log), T) /\ \A t \in Workers : Before(In(thread[t].reqs), T)

BegunFirst ==
  /\ BegunBefore(In(queue)) /\ BegunBefore(In(batch))
  /\ \A n \in 1..Len(jobs) : BegunBefore(In(jobs[n]))

Numbered ==
  /\ In(queue) \subseteq 1..Len(future) /\ In(batch) \subseteq 1..Len(future)
  /\ \A n \in 1..Len(jobs) : In(jobs[n]) \subseteq 1..Len(future)
  /\ In(log) \subseteq 1..Len(future)
  /\ \A t \in Workers : In(thread[t].reqs) \subseteq 1..Len(future)

Line == EachIncreasing /\ Ranked /\ BegunFirst /\ Numbered

Apart ==
  /\ \A t, u \in Workers : t # u => In(thread[t].reqs) \cap In(thread[u].reqs) = {}
  /\ \A i, j \in 1..Len(log) : log[i] = log[j] => i = j
  /\ \A t \in Workers : ToAppend(t) \cap In(log) = {}

\* Request r has not been lost.
Somewhere(r) ==
  \/ r \in In(queue) \/ r \in In(batch) \/ (\E n \in 1..Len(jobs) : r \in In(jobs[n]))
  \/ (\E t \in Workers : r \in ToAppend(t)) \/ r \in In(log) \/ r \in raised

NoneLost == collector = "cancelled" \/ \A r \in 1..Len(future) : Somewhere(r)

\* Facts about the elements of sequences.
LEMMA InAppend ==
  ASSUME NEW S, NEW s \in Seq(S), NEW e \in S
  PROVE  In(Append(s, e)) = In(s) \cup {e}
<1>1. /\ Len(Append(s, e)) = Len(s) + 1 /\ Len(s) \in Nat
      /\ \A i \in 1..Len(s) : Append(s, e)[i] = s[i]
      /\ Append(s, e)[Len(s) + 1] = e
  OBVIOUS
<1>2. \A i \in 1..(Len(s) + 1) : i \in 1..Len(s) \/ i = Len(s) + 1
  BY <1>1
<1>3. 1..Len(s) \subseteq 1..(Len(s) + 1) /\ Len(s) + 1 \in 1..(Len(s) + 1)
  BY <1>1
<1> QED BY <1>1, <1>2, <1>3 DEF In

LEMMA InHeadTail ==
  ASSUME NEW S, NEW s \in Seq(S), s # <<>>
  PROVE  /\ In(s) = {Head(s)} \cup In(Tail(s)) /\ Head(s) \in S /\ Tail(s) \in Seq(S)
         /\ Len(Tail(s)) = Len(s) - 1 /\ \A i \in 1..Len(Tail(s)) : i + 1 \in 1..Len(s) /\ Tail(s)[i] = s[i + 1]
<1>1. /\ Len(s) \in Nat /\ Len(s) > 0 /\ Len(Tail(s)) = Len(s) - 1 /\ Tail(s) \in Seq(S)
      /\ Head(s) = s[1] /\ Head(s) \in S
      /\ \A i \in 1..Len(Tail(s)) : Tail(s)[i] = s[i + 1]
  BY EmptySeq, HeadTailProperties, LenProperties
<1>2. \A i \in 1..Len(Tail(s)) : i + 1 \in 1..Len(s)
  BY <1>1
<1>3. \A i \in 1..Len(s) : i = 1 \/ (i - 1 \in 1..Len(Tail(s)) /\ s[i] = Tail(s)[i - 1])
  BY <1>1
<1>4. 1 \in 1..Len(s)
  BY <1>1
<1> QED BY <1>1, <1>2, <1>3, <1>4 DEF In

LEMMA InSome ==
  ASSUME NEW S, NEW s \in Seq(S)
  PROVE  In(s) \subseteq S /\ Len(s) \in Nat
  BY ElementOfSeq, LenProperties DEF In

LEMMA InEmpty == In(<<>>) = {} /\ Increasing(<<>>)
  BY EmptySeq DEF In, Increasing

LEMMA InOne ==
  ASSUME NEW e PROVE In(<<e>>) = {e} /\ Increasing(<<e>>)
  BY DEF In, Increasing

LEMMA IncreasingAppend ==
  ASSUME NEW s \in Seq(Nat), NEW e \in Nat, Increasing(s), Before(In(s), {e})
  PROVE  Increasing(Append(s, e))
<1>1. /\ Len(Append(s, e)) = Len(s) + 1 /\ Len(s) \in Nat
      /\ \A i \in 1..Len(s) : Append(s, e)[i] = s[i] /\ s[i] < e
      /\ Append(s, e)[Len(s) + 1] = e
  BY DEF Before, In
<1>2. \A i \in 1..(Len(s) + 1) : i \in 1..Len(s) \/ i = Len(s) + 1
  BY <1>1
<1> QED BY <1>1, <1>2 DEF Increasing

LEMMA IncreasingTail ==
  ASSUME NEW s \in Seq(Nat), s # <<>>, Increasing(s)
  PROVE  Increasing(Tail(s)) /\ Before({Head(s)}, In(Tail(s)))
<1>1. /\ Len(s) \in Nat /\ Len(s) > 0 /\ Len(Tail(s)) = Len(s) - 1 /\ Head(s) = s[1]
      /\ \A i \in 1..Len(Tail(s)) : i + 1 \in 1..Len(s) /\ Tail(s)[i] = s[i + 1]
  BY InHeadTail, EmptySeq, LenProperties
<1>2. Increasing(Tail(s))
  BY <1>1 DEF Increasing
<1>3. \A i \in 1..Len(Tail(s)) : s[1] < Tail(s)[i]
  BY <1>1 DEF Increasing
<1> QED BY <1>1, <1>2, <1>3 DEF Before, In

LEMMA SubSeqIn ==
  ASSUME NEW s \in Seq(Nat), NEW k \in 0..Len(s)
  PROVE  LET u == SubSeq(s, k + 1, Len(s))
         IN  u \in Seq(Nat) /\ In(u) \subseteq In(s) /\ (Increasing(s) => Increasing(u))
<1> DEFINE u == SubSeq(s, k + 1, Len(s))
<1>1. /\ u \in Seq(Nat) /\ Len(u) = Len(s) - k /\ Len(s) \in Nat /\ k \in Nat
      /\ \A i \in 1..Len(u) : u[i] = s[i + k]
  <2>1. Len(s) \in Nat /\ k \in Nat /\ k <= Len(s)
    BY LenProperties
  <2>2. u = [i \in 1..(Len(s) - k) |-> s[i + k]]
    BY <2>1
  <2>3. \A i \in 1..(Len(s) - k) : i + k \in 1..Len(s)
    BY <2>1
  <2>4. Len(s) - k \in Nat /\ u \in [1..(Len(s) - k) -> Nat]
    <3>1. \A i \in 1..Len(s) : s[i] \in Nat
      BY ElementOfSeq
    <3>2. \A i \in 1..(Len(s) - k) : s[i + k] \in Nat
      BY <2>3, <3>1
    <3> HIDE DEF u
    <3> QED BY <2>1, <2>2, <3>2
  <2>5. u \in Seq(Nat) /\ Len(u) = Len(s) - k
    BY <2>4, SeqOfFunction
  <2> QED BY <2>1, <2>2, <2>5
<1> HIDE DEF u
<1>2. \A i \in 1..Len(u) : i + k \in 1..Len(s)
  BY <1>1
<1>3. In(u) \subseteq In(s)
  BY <1>1, <1>2 DEF In
<1>4. ASSUME Increasing(s) PROVE Increasing(u)
  <2> SUFFICES ASSUME NEW i \in 1..Len(u), NEW j \in 1..Len(u), i < j PROVE u[i] < u[j]
    BY DEF Increasing
  <2>1. i + k \in 1..Len(s) /\ j + k \in 1..Len(s) /\ i + k < j + k
    BY <1>1, <1>2
  <2>2. s[i + k] < s[j + k]
    BY <1>4, <2>1 DEF Increasing
  <2> QED BY <1>1, <2>2
<1> QED BY <1>1, <1>3, <1>4 DEF u

\* Cancelling handlers and draining the queue end callbacks, and make none.
LEMMA CloseLen ==
  ASSUME TypeOK, CancelHandlers \/ CloseWriter
  PROVE  Len(future') = Len(future)
<1>0. Len(future) \in Nat /\ future \in Seq(FutureState)
  BY DEF TypeOK, FutureState
<1>1. \E f \in [1..Len(future) -> FutureState] : future' = f
  <2>1. CASE CancelHandlers
    BY <1>0, <2>1 DEF CancelHandlers, FutureState
  <2>2. CASE CloseWriter
    <3>1. PICK last \in 0..Len(queue) :
            future' = [r \in 1..Len(future) |->
                         IF future[r] = "pending" /\ \E i \in 1..last : queue[i] = r
                         THEN "failed" ELSE future[r]]
      BY <2>2 DEF CloseWriter
    <3> QED BY <1>0, <3>1 DEF FutureState
  <2> QED BY <2>1, <2>2
<1> QED BY <1>0, <1>1, SeqOfFunction

\* Only a publish makes a new request.
LEMMA FutureLen ==
  ASSUME TypeOK, [Next]_vars
  PROVE  \/ \E c \in Clients, acks \in {0, 1} : Publish(c, acks)
         \/ Len(future') = Len(future)
<1>0. Len(future) \in Nat /\ future \in Seq(FutureState)
  BY DEF TypeOK, FutureState
<1>1. CASE UNCHANGED future
  BY <1>1
<1>2. CASE SetResult
  <2>1. PICK r : future' = [future EXCEPT ![r] = "result"] \/ future' = future
    BY <1>2 DEF SetResult
  <2> QED BY <1>0, <2>1 DEF FutureState
<1>3. CASE CancelHandlers \/ CloseWriter
  BY <1>3, CloseLen
<1> QED
  BY <1>1, <1>2, <1>3
  DEF Next, vars, Register, Leave, Die, Resume, Replicated, Collects, CollectFirst,
      Timeout, CollectNext, CloseBegin, CloseStep, JoinRaises, ShutdownDone, ThreadStep, Begin,
      AppendMessage, AppendRaises, Schedule

\* The values of the line are natural numbers.
LEMMA LineTyped ==
  ASSUME TypeOK
  PROVE  /\ In(queue) \subseteq Nat /\ In(batch) \subseteq Nat /\ In(log) \subseteq Nat
         /\ \A n \in 1..Len(jobs) : jobs[n] \in Seq(Nat) /\ In(jobs[n]) \subseteq Nat
         /\ \A t \in Workers : thread[t].reqs \in Seq(Nat) /\ In(thread[t].reqs) \subseteq Nat
         /\ Len(jobs) \in Nat /\ Len(future) \in Nat
<1>1. \A n \in 1..Len(jobs) : jobs[n] \in Seq(Nat)
  BY ElementOfSeq DEF TypeOK
<1>2. \A t \in Workers : thread[t].reqs \in Seq(Nat)
  BY DEF TypeOK
<1> QED BY <1>1, <1>2, InSome DEF TypeOK

\* A published request goes to the end of the line.
LEMMA PublishLine ==
  ASSUME TypeOK, Line, NEW c \in Clients, NEW acks \in {0, 1}, Publish(c, acks)
  PROVE  Line' /\ In(queue') = In(queue) \cup {Len(future) + 1} /\ Len(future') = Len(future) + 1
<1> DEFINE n == Len(future)
<1>0. n \in Nat /\ queue \in Seq(Nat) /\ future \in Seq(FutureState)
  BY DEF TypeOK, FutureState
<1>1. queue' = Append(queue, n + 1) /\ UNCHANGED <<batch, jobs, thread, log>>
  BY DEF Publish, Submit, poolVars
<1>2. Len(future') = n + 1
  <2>1. \E e \in FutureState : future' = Append(future, e)
    BY DEF Publish, FutureState
  <2> QED BY <1>0, <2>1
<1>3. In(queue') = In(queue) \cup {n + 1}
  BY <1>0, <1>1, InAppend
<1>4. \A x \in 1..n : x < n + 1 /\ x \in 1..(n + 1)
  BY <1>0
<1> USE DEF Line
<1>5. Increasing(queue')
  <2>1. Before(In(queue), {n + 1})
    BY <1>4 DEF Numbered, Before
  <2> QED BY <1>0, <1>1, <2>1, IncreasingAppend DEF EachIncreasing
<1>6. EachIncreasing'
  BY <1>1, <1>5 DEF EachIncreasing
<1>7. Ranked'
  BY <1>1, <1>3, <1>4 DEF Ranked, Numbered, Before
<1>8. BegunFirst'
  BY <1>1, <1>3, <1>4 DEF BegunFirst, BegunBefore, Numbered, Before
<1>9. Numbered'
  BY <1>0, <1>1, <1>2, <1>3, <1>4 DEF Numbered
<1> QED BY <1>2, <1>3, <1>6, <1>7, <1>8, <1>9

\* The collector takes the head of the queue to the end of its batch.
LEMMA TakeLine ==
  ASSUME TypeOK, Line, queue # <<>>, queue' = Tail(queue), batch' = Append(batch, Head(queue)),
         UNCHANGED <<jobs, thread, log>>, Len(future') = Len(future)
  PROVE  /\ Line' /\ In(queue) = {Head(queue)} \cup In(queue') /\ In(batch') = In(batch) \cup {Head(queue)}
<1> USE DEF Line
<1>0. queue \in Seq(Nat) /\ batch \in Seq(Nat)
  BY DEF TypeOK
<1>1. In(queue) = {Head(queue)} \cup In(queue') /\ Head(queue) \in Nat
  BY <1>0, InHeadTail
<1>2. In(batch') = In(batch) \cup {Head(queue)}
  BY <1>0, <1>1, InAppend
<1>3. Increasing(queue') /\ Before({Head(queue)}, In(queue'))
  BY <1>0, IncreasingTail DEF EachIncreasing
<1>4. Increasing(batch')
  <2>1. Before(In(batch), {Head(queue)})
    BY <1>1 DEF Ranked, Before
  <2> QED BY <1>0, <1>1, <2>1, IncreasingAppend DEF EachIncreasing
<1>5. EachIncreasing'
  BY <1>3, <1>4 DEF EachIncreasing
<1>6. Ranked'
  BY <1>1, <1>2, <1>3 DEF Ranked, Before
<1>7. BegunFirst'
  BY <1>1, <1>2 DEF BegunFirst, BegunBefore, Before
<1>8. Numbered'
  BY <1>1, <1>2 DEF Numbered
<1> QED BY <1>1, <1>2, <1>5, <1>6, <1>7, <1>8

\* executor.submit puts a batch behind the other jobs.
LEMMA FlushLine ==
  ASSUME TypeOK, Line, NEW b \in Seq(Nat), Increasing(b), In(b) \subseteq In(batch) \cup In(queue),
         queue' \in Seq(Nat), In(queue') \subseteq In(queue), Increasing(queue'), Before(In(b), In(queue')),
         Flush(b), UNCHANGED <<thread, log>>, Len(future') = Len(future)
  PROVE  /\ Line' /\ In(batch') = {}
         /\ Len(jobs') = Len(jobs) + 1 /\ jobs'[Len(jobs) + 1] = b /\ \A n \in 1..Len(jobs) : jobs'[n] = jobs[n]
<1> USE DEF Line
<1> DEFINE k == Len(jobs)
<1>0. k \in Nat /\ In(batch') = {} /\ Increasing(batch')
  BY InEmpty, LenProperties DEF TypeOK, Flush
<1>1. /\ Len(jobs') = k + 1 /\ jobs'[k + 1] = b
      /\ \A n \in 1..k : jobs'[n] = jobs[n]
  BY DEF TypeOK, Flush
<1>2. \A n \in 1..(k + 1) : n \in 1..k \/ n = k + 1
  BY <1>0
<1>3. EachIncreasing'
  BY <1>0, <1>1, <1>2 DEF EachIncreasing
<1>4. Ranked'
  <2>1. ASSUME NEW n \in 1..(k + 1) PROVE Before(In(jobs'[n]), In(queue'))
    BY <1>1, <1>2 DEF Ranked, Before
  <2>2. ASSUME NEW m \in 1..(k + 1), NEW n \in 1..(k + 1), m < n PROVE Before(In(jobs'[m]), In(jobs'[n]))
    <3>1. m \in 1..k
      BY <1>0, <2>2
    <3>2. CASE n \in 1..k
      BY <1>1, <2>2, <3>1, <3>2 DEF Ranked
    <3>3. CASE n = k + 1
      BY <1>1, <3>1, <3>3 DEF Ranked, Before
    <3> QED BY <1>2, <3>2, <3>3
  <2>3. ASSUME NEW S PROVE Before(In(batch'), S) /\ Before(S, In(batch'))
    BY <1>0 DEF Before
  <2> QED BY <1>1, <2>1, <2>2, <2>3 DEF Ranked
<1>5. BegunFirst'
  <2>1. ASSUME NEW n \in 1..(k + 1) PROVE BegunBefore(In(jobs[n]))'
    BY <1>1, <1>2 DEF BegunFirst, BegunBefore, Before
  <2>2. BegunBefore(In(queue))' /\ BegunBefore(In(batch))'
    BY <1>0 DEF BegunFirst, BegunBefore, Before
  <2> QED BY <1>1, <2>1, <2>2 DEF BegunFirst
<1>6. Numbered'
  BY <1>0, <1>1, <1>2 DEF Numbered
<1> QED BY <1>0, <1>1, <1>3, <1>4, <1>5, <1>6

\* The steps of the collector, and where its requests go.
LEMMA CollectLine ==
  ASSUME TypeOK, Line, Collects
  PROVE  /\ Line' /\ UNCHANGED <<thread, log, raised, collector, pool>> /\ Len(future') = Len(future)
         /\ \A r : r \in In(queue) \/ r \in In(batch) \/ (\E n \in 1..Len(jobs) : r \in In(jobs[n]))
              => r \in In(queue') \/ r \in In(batch') \/ (\E n \in 1..Len(jobs') : r \in In(jobs'[n]))
<1>0. /\ queue \in Seq(Nat) /\ batch \in Seq(Nat) /\ Len(jobs) \in Nat
      /\ UNCHANGED <<thread, log, raised, collector, pool, future>>
  BY LenProperties DEF TypeOK, Collects, CollectFirst, CollectNext, Timeout, poolVars
<1>1. queue # <<>> => /\ In(queue) = {Head(queue)} \cup In(Tail(queue)) /\ Head(queue) \in Nat
                      /\ Tail(queue) \in Seq(Nat)
  BY <1>0, InHeadTail
<1>2. CASE queue # <<>> /\ queue' = Tail(queue) /\ batch' = Append(batch, Head(queue)) /\ jobs' = jobs
  BY <1>0, <1>2, TakeLine
<1>3. ASSUME NEW b \in Seq(Nat), Increasing(b), queue' \in Seq(Nat),
             In(b) \cup In(queue') = In(batch) \cup In(queue), In(queue') \subseteq In(queue),
             Increasing(queue'), Before(In(b), In(queue')), Flush(b)
      PROVE  Line' /\ \A r : r \in In(queue) \/ r \in In(batch) \/ (\E n \in 1..Len(jobs) : r \in In(jobs[n]))
                        => r \in In(queue') \/ r \in In(batch') \/ (\E n \in 1..Len(jobs') : r \in In(jobs'[n]))
  <2>1. /\ Line'
        /\ Len(jobs') = Len(jobs) + 1 /\ jobs'[Len(jobs) + 1] = b /\ \A n \in 1..Len(jobs) : jobs'[n] = jobs[n]
    BY <1>0, <1>3, FlushLine
  <2>2. Len(jobs) + 1 \in 1..(Len(jobs) + 1) /\ 1..Len(jobs) \subseteq 1..(Len(jobs) + 1)
    BY <1>0
  <2> QED BY <1>3, <2>1, <2>2
<1>4. CASE CollectFirst
  <2>1. batch = <<>> /\ queue # <<>> /\ queue' = Tail(queue) /\ batch' = <<Head(queue)>> /\ jobs' = jobs
    BY <1>4 DEF CollectFirst, poolVars
  <2>2. batch' = Append(batch, Head(queue))
    BY <1>1, <2>1
  <2> QED BY <1>2, <2>1, <2>2
<1>5. ASSUME NEW full \in BOOLEAN, CollectNext(full)
      PROVE  \/ queue # <<>> /\ queue' = Tail(queue) /\ batch' = Append(batch, Head(queue)) /\ jobs' = jobs
             \/ queue # <<>> /\ queue' = Tail(queue) /\ Flush(Append(batch, Head(queue)))
  BY <1>5 DEF CollectNext
<1>6. CASE queue # <<>> /\ queue' = Tail(queue) /\ Flush(Append(batch, Head(queue)))
  <2> DEFINE b == Append(batch, Head(queue))
  <2>1. In(b) = In(batch) \cup {Head(queue)} /\ b \in Seq(Nat)
    BY <1>0, <1>1, <1>6, InAppend
  <2>2. Increasing(queue') /\ Before({Head(queue)}, In(queue'))
    BY <1>0, <1>6, IncreasingTail DEF Line, EachIncreasing
  <2>3. Before(In(batch), {Head(queue)})
    BY <1>1, <1>6 DEF Line, Ranked, Before
  <2>4. Increasing(b)
    BY <1>0, <1>1, <1>6, <2>3, IncreasingAppend DEF Line, EachIncreasing
  <2>5. Before(In(b), In(queue'))
    BY <1>1, <1>6, <2>1, <2>2 DEF Line, Ranked, Before
  <2> HIDE DEF b
  <2>6. In(b) \cup In(queue') = In(batch) \cup In(queue) /\ In(queue') \subseteq In(queue)
        /\ queue' \in Seq(Nat)
    BY <1>1, <1>6, <2>1
  <2> QED BY <1>0, <1>3, <1>6, <2>1, <2>2, <2>4, <2>5, <2>6 DEF b
<1>7. CASE Timeout
  <2>1. Flush(batch) /\ queue' = queue
    BY <1>7 DEF Timeout
  <2>2. Increasing(batch) /\ Increasing(queue') /\ Before(In(batch), In(queue'))
    BY <2>1 DEF Line, EachIncreasing, Ranked
  <2> QED BY <1>0, <1>3, <2>1, <2>2
<1> QED BY <1>0, <1>2, <1>4, <1>5, <1>6, <1>7 DEF Collects

\* What a thread has to append is of its batch.
LEMMA ToAppendIn ==
  ASSUME TypeOK, NEW t \in Workers
  PROVE  /\ Len(thread[t].offsets) \in Nat /\ Len(thread[t].reqs) \in Nat
         /\ ToAppend(t) \subseteq In(thread[t].reqs)
         /\ thread[t] = Free => ToAppend(t) = {} /\ In(thread[t].reqs) = {}
<1>1. thread[t].reqs \in Seq(Nat) /\ thread[t].offsets \in Seq(Nat)
  BY DEF TypeOK
<1>2. Len(thread[t].offsets) \in Nat /\ Len(thread[t].reqs) \in Nat
  BY <1>1, LenProperties
<1>3. ToAppend(t) \subseteq In(thread[t].reqs)
  BY <1>2 DEF ToAppend, In
<1>4. ASSUME thread[t] = Free PROVE In(thread[t].reqs) = {}
  BY <1>4, InEmpty DEF Free
<1> QED BY <1>2, <1>3, <1>4

\* A thread begins the first job.
LEMMA BeginLine ==
  ASSUME TypeOK, Line, Apart, NEW t \in Workers, Begin(t)
  PROVE  /\ Line' /\ Apart'
         /\ ToAppend(t)' = In(jobs[1])
         /\ \A u \in Workers \ {t} : ToAppend(u)' = ToAppend(u)
         /\ ToAppend(t) = {}
         /\ \A n \in 1..Len(jobs) : n = 1 \/ (n - 1 \in 1..Len(jobs') /\ jobs[n] = jobs'[n - 1])
         /\ UNCHANGED <<queue, batch, log, raised, collector, pool>> /\ Len(future') = Len(future)
         /\ t \in pool /\ 1 \in 1..Len(jobs)
<1> USE DEF Line
<1>0. /\ UNCHANGED <<queue, batch, log, raised, collector, pool, future>>
      /\ jobs # <<>> /\ jobs' = Tail(jobs) /\ t \in pool /\ thread[t] = Free
      /\ thread' = [thread EXCEPT ![t] = [reqs |-> Head(jobs), offsets |-> <<>>]]
  BY DEF Begin, writerVars
<1>1. /\ Len(jobs) \in Nat /\ Len(jobs) > 0 /\ Len(jobs') = Len(jobs) - 1 /\ Head(jobs) = jobs[1]
      /\ \A n \in 1..Len(jobs') : jobs'[n] = jobs[n + 1]
  BY <1>0, EmptySeq, HeadTailProperties, LenProperties DEF TypeOK
<1>2. /\ \A n \in 1..Len(jobs') : n + 1 \in 1..Len(jobs) /\ 1 < n + 1
      /\ 1 \in 1..Len(jobs)
      /\ \A n \in 1..Len(jobs) : n = 1 \/ (n - 1 \in 1..Len(jobs') /\ jobs[n] = jobs'[n - 1])
  BY <1>1
<1>3. /\ thread'[t].reqs = jobs[1] /\ thread'[t].offsets = <<>>
      /\ \A u \in Workers \ {t} : thread'[u] = thread[u]
  BY <1>0, <1>1 DEF TypeOK
<1>4. EachIncreasing'
  BY <1>0, <1>1, <1>2, <1>3 DEF EachIncreasing
<1>5. Ranked'
  <2>1. ASSUME NEW m \in 1..Len(jobs'), NEW n \in 1..Len(jobs'), m < n PROVE Before(In(jobs'[m]), In(jobs'[n]))
    <3>1. m + 1 < n + 1
      BY <1>1, <2>1
    <3> QED BY <1>1, <1>2, <3>1 DEF Ranked
  <2> QED BY <1>0, <1>1, <1>2, <2>1 DEF Ranked
<1>6. BegunFirst'
  <2>1. ASSUME NEW u \in Workers, NEW n \in 1..Len(jobs')
        PROVE  /\ Before(In(thread'[u].reqs), In(queue)) /\ Before(In(thread'[u].reqs), In(batch))
               /\ Before(In(thread'[u].reqs), In(jobs'[n]))
    <3>1. CASE u = t
      BY <1>1, <1>2, <1>3, <3>1 DEF Ranked
    <3>2. CASE u # t
      BY <1>1, <1>2, <1>3, <3>2 DEF BegunFirst, BegunBefore
    <3> QED BY <3>1, <3>2
  <2>2. ASSUME NEW u \in Workers
        PROVE  Before(In(thread'[u].reqs), In(queue)) /\ Before(In(thread'[u].reqs), In(batch))
    <3>1. CASE u = t
      BY <1>2, <1>3, <3>1 DEF Ranked
    <3>2. CASE u # t
      BY <1>3, <3>2 DEF BegunFirst, BegunBefore
    <3> QED BY <3>1, <3>2
  <2>3. \A n \in 1..Len(jobs') : Before(In(log), In(jobs'[n]))
    BY <1>1, <1>2 DEF BegunFirst, BegunBefore
  <2> QED BY <1>0, <2>1, <2>2, <2>3 DEF BegunFirst, BegunBefore
<1>7. Numbered'
  BY <1>0, <1>1, <1>2, <1>3 DEF Numbered
<1>8. ToAppend(t)' = In(jobs[1]) /\ \A u \in Workers \ {t} : ToAppend(u)' = ToAppend(u)
  BY <1>3, EmptySeq DEF ToAppend, In
<1>9. ASSUME NEW x \in In(jobs[1])
      PROVE  x \notin In(log) /\ \A u \in Workers : x \notin In(thread[u].reqs)
  <2>1. x \in Nat
    BY <1>2, LineTyped
  <2>2. ~(x < x)
    BY <2>1
  <2> QED BY <1>2, <2>2 DEF BegunFirst, BegunBefore, Before
<1>10. Apart'
  <2>1. ASSUME NEW u \in Workers, NEW v \in Workers, u # v
        PROVE  In(thread'[u].reqs) \cap In(thread'[v].reqs) = {}
    BY <1>3, <1>9, <2>1 DEF Apart
  <2>2. ASSUME NEW u \in Workers PROVE ToAppend(u)' \cap In(log) = {}
    BY <1>8, <1>9 DEF Apart
  <2> QED BY <1>0, <2>1, <2>2 DEF Apart
<1> QED BY <1>0, <1>2, <1>4, <1>5, <1>6, <1>7, <1>8, <1>10, ToAppendIn

\* A thread appends the next message of its batch.
LEMMA AppendLine ==
  ASSUME TypeOK, Line, Apart, NEW t \in Workers, AppendMessage(t)
  PROVE  /\ Line' /\ Apart'
         /\ \E x \in Nat : /\ log' = Append(log, x) /\ In(log') = In(log) \cup {x}
                           /\ x \in ToAppend(t) /\ ToAppend(t) = {x} \cup ToAppend(t)'
                           /\ Before({x}, ToAppend(t)')
         /\ \A u \in Workers \ {t} : ToAppend(u)' = ToAppend(u)
         /\ UNCHANGED <<queue, batch, jobs, raised, collector, pool>> /\ Len(future') = Len(future)
         /\ thread[t] # Free /\ \A u \in Workers \ {t} : thread'[u] = thread[u]
<1> USE DEF Line
<1> DEFINE n == Len(thread[t].offsets)
           x == thread[t].reqs[n + 1]
<1>0. /\ UNCHANGED <<queue, batch, jobs, raised, collector, pool, future>>
      /\ log' = Append(log, x) /\ n < Len(thread[t].reqs)
      /\ thread' = [thread EXCEPT ![t].offsets = Append(@, Len(log) + 1)]
  BY DEF AppendMessage, Appending, writerVars
<1>1. /\ thread[t].reqs \in Seq(Nat) /\ thread[t].offsets \in Seq(Nat) /\ log \in Seq(Nat)
      /\ n \in Nat /\ Len(thread[t].reqs) \in Nat /\ Len(log) \in Nat
  BY LenProperties DEF TypeOK
<1>2. n + 1 \in 1..Len(thread[t].reqs) /\ x \in In(thread[t].reqs)
  <2>1. n + 1 \in 1..Len(thread[t].reqs)
    BY <1>0, <1>1
  <2> QED BY <2>1 DEF In
<1>3. x \in Nat
  BY <1>2, LineTyped
<1>4. /\ thread'[t].reqs = thread[t].reqs /\ Len(thread'[t].offsets) = n + 1
      /\ \A u \in Workers \ {t} : thread'[u] = thread[u]
  BY <1>0, <1>1 DEF TypeOK
<1>5. In(log') = In(log) \cup {x}
  <2> HIDE DEF x
  <2>1. In(Append(log, x)) = In(log) \cup {x}
    BY <1>1, <1>3, InAppend
  <2> QED BY <1>0, <2>1
<1>6. /\ x \in ToAppend(t) /\ ToAppend(t) = {x} \cup ToAppend(t)'
      /\ Before({x}, ToAppend(t)')
  <2>1. (n + 1)..Len(thread[t].reqs) = {n + 1} \cup ((n + 1) + 1)..Len(thread[t].reqs)
    BY <1>1, <1>2
  <2>2. ToAppend(t)' = {thread[t].reqs[i] : i \in ((n + 1) + 1)..Len(thread[t].reqs)}
    BY <1>4 DEF ToAppend
  <2>3. \A i \in ((n + 1) + 1)..Len(thread[t].reqs) : x < thread[t].reqs[i]
    BY <1>1, <1>2 DEF EachIncreasing, Increasing
  <2> QED BY <2>1, <2>2, <2>3 DEF ToAppend, Before
<1>7. \A u \in Workers \ {t} : ToAppend(u)' = ToAppend(u)
  BY <1>4 DEF ToAppend
<1>8. \A u \in Workers : thread'[u].reqs = thread[u].reqs
  BY <1>4
<1> HIDE DEF x
<1>9. Line'
  <2>1. EachIncreasing' /\ Ranked'
    BY <1>0, <1>8 DEF EachIncreasing, Ranked
  <2>2. BegunFirst'
    BY <1>0, <1>2, <1>5, <1>8 DEF BegunFirst, BegunBefore, Before
  <2>3. Numbered'
    BY <1>0, <1>2, <1>5, <1>8 DEF Numbered
  <2> QED BY <2>1, <2>2, <2>3
<1>10. Apart'
  <2>1. ASSUME NEW u \in Workers PROVE ToAppend(u)' \cap In(log') = {}
    <3>1. CASE u = t
      <4>1. x \notin ToAppend(t)'
        BY <1>3, <1>6 DEF Before
      <4> QED BY <1>5, <1>6, <3>1, <4>1 DEF Apart
    <3>2. CASE u # t
      BY <1>2, <1>5, <1>7, <3>2, ToAppendIn DEF Apart
    <3> QED BY <3>1, <3>2
  <2>2. x \notin In(log)
    BY <1>6 DEF Apart
  <2>3. \A i, j \in 1..Len(log') : log'[i] = log'[j] => i = j
    <3>1. /\ Len(log') = Len(log) + 1 /\ log'[Len(log) + 1] = x
          /\ \A i \in 1..Len(log) : log'[i] = log[i] /\ log[i] # x
      BY <1>0, <1>1, <1>3, <2>2 DEF In
    <3>2. \A i \in 1..(Len(log) + 1) : i \in 1..Len(log) \/ i = Len(log) + 1
      BY <1>1
    <3> QED BY <3>1, <3>2 DEF Apart
  <2> QED BY <1>8, <2>1, <2>3 DEF Apart
<1>11. thread[t] # Free
  BY <1>0, <1>1, EmptySeq DEF Free
<1> QED BY <1>0, <1>3, <1>4, <1>5, <1>6, <1>7, <1>9, <1>10, <1>11

\* A thread gives up its batch, done or failed.
LEMMA FreeLine ==
  ASSUME TypeOK, Line, Apart, NEW t \in Workers, thread' = [thread EXCEPT ![t] = Free],
         UNCHANGED <<queue, batch, jobs, log, future>>
  PROVE  /\ Line' /\ Apart' /\ ToAppend(t)' = {}
         /\ \A u \in Workers \ {t} : ToAppend(u)' = ToAppend(u)
         /\ \A u \in Workers \ {t} : thread'[u] = thread[u]
         /\ thread'[t] = Free
<1> USE DEF Line
<1>1. thread'[t] = Free /\ \A u \in Workers \ {t} : thread'[u] = thread[u]
  BY DEF TypeOK
<1>2. In(thread'[t].reqs) = {} /\ Increasing(thread'[t].reqs) /\ ToAppend(t)' = {}
  BY <1>1, InEmpty, EmptySeq DEF Free, ToAppend
<1>3. \A u \in Workers \ {t} : ToAppend(u)' = ToAppend(u)
  BY <1>1 DEF ToAppend
<1>4. EachIncreasing' /\ Ranked'
  BY <1>1, <1>2 DEF EachIncreasing, Ranked
<1>5. BegunFirst'
  BY <1>1, <1>2 DEF BegunFirst, BegunBefore, Before
<1>6. Numbered'
  BY <1>1, <1>2 DEF Numbered
<1>7. Apart'
  BY <1>1, <1>2, <1>3 DEF Apart
<1> QED BY <1>1, <1>2, <1>3, <1>4, <1>5, <1>6, <1>7

\* A pool of one thread appends in the order of submission; threads the pool does
\* not have never work.
Single ==
  /\ \A t \in Workers : t \notin pool => thread[t] = Free
  /\ Cardinality(pool) = 1 => Increasing(log) /\ \A t \in Workers : Before(In(log), ToAppend(t))

\* One request after the other: the inductive invariant of the path.
PathInv == Line /\ Apart /\ NoneLost /\ Single

LEMMA OneThread ==
  ASSUME TypeOK, Cardinality(pool) = 1, NEW t \in pool, NEW u \in pool
  PROVE  t = u
<1>1. IsFiniteSet(pool)
  BY PublishAssumption, FS_Subset DEF TypeOK
<1>2. PICK x : pool = {x}
  BY <1>1, FS_Singleton
<1> QED BY <1>2

LEMMA InitPath == Init => PathInv
<1> SUFFICES ASSUME Init PROVE PathInv
  OBVIOUS
<1>0. /\ queue = <<>> /\ batch = <<>> /\ jobs = <<>> /\ log = <<>> /\ future = <<>>
      /\ \A t \in Workers : thread[t] = Free
  BY DEF Init
<1>1. /\ In(queue) = {} /\ In(batch) = {} /\ In(log) = {} /\ Len(jobs) = 0 /\ Len(future) = 0
      /\ Increasing(queue) /\ Increasing(batch) /\ Increasing(log) /\ Len(log) = 0
  BY <1>0, InEmpty, EmptySeq
<1>2. \A t \in Workers : In(thread[t].reqs) = {} /\ Increasing(thread[t].reqs) /\ ToAppend(t) = {}
  BY <1>0, InEmpty, EmptySeq DEF Free, ToAppend
<1>3. 1..0 = {}
  OBVIOUS
<1>4. EachIncreasing /\ Ranked
  BY <1>1, <1>2, <1>3 DEF EachIncreasing, Ranked, Before
<1>5. BegunFirst /\ Numbered
  BY <1>1, <1>2, <1>3 DEF BegunFirst, BegunBefore, Numbered, Before
<1>6. Apart /\ NoneLost
  BY <1>1, <1>2, <1>3 DEF Apart, NoneLost
<1>7. Single
  BY <1>0, <1>1, <1>2 DEF Single, Before
<1> QED BY <1>4, <1>5, <1>6, <1>7 DEF PathInv, Line

\* Each step of a pool thread keeps the requests apart, in line and accounted for.
LEMMA ThreadPath ==
  ASSUME TypeOK, PathInv, NEW t \in Workers, ThreadStep(t)
  PROVE  PathInv'
<1> USE DEF PathInv
<1>1. CASE Begin(t)
  <2>0. /\ Line' /\ Apart'
        /\ ToAppend(t)' = In(jobs[1]) /\ ToAppend(t) = {}
        /\ \A u \in Workers \ {t} : ToAppend(u)' = ToAppend(u)
        /\ \A n \in 1..Len(jobs) : n = 1 \/ (n - 1 \in 1..Len(jobs') /\ jobs[n] = jobs'[n - 1])
        /\ UNCHANGED <<queue, batch, log, raised, collector, pool>> /\ Len(future') = Len(future)
        /\ t \in pool /\ 1 \in 1..Len(jobs)
    BY <1>1, BeginLine
  <2>1. NoneLost'
    <3> SUFFICES ASSUME NEW r, Somewhere(r) PROVE Somewhere(r)'
      BY <2>0 DEF NoneLost
    <3>1. ASSUME NEW n \in 1..Len(jobs), r \in In(jobs[n]) PROVE Somewhere(r)'
      BY <2>0, <3>1 DEF Somewhere
    <3>2. ASSUME NEW u \in Workers, r \in ToAppend(u) PROVE Somewhere(r)'
      BY <2>0, <3>2 DEF Somewhere
    <3> QED BY <2>0, <3>1, <3>2 DEF Somewhere
  <2>2. \A u \in Workers : u \notin pool' => thread'[u] = Free
    BY <1>1, <2>0 DEF Single, Begin, TypeOK
  <2>3. Before(In(log), ToAppend(t)')
    BY <2>0 DEF Line, BegunFirst, BegunBefore
  <2>4. Single'
    BY <2>0, <2>2, <2>3 DEF Single
  <2> QED BY <2>0, <2>1, <2>4
<1>2. CASE AppendMessage(t)
  <2>0. /\ Line' /\ Apart'
        /\ \A u \in Workers \ {t} : ToAppend(u)' = ToAppend(u)
        /\ UNCHANGED <<queue, batch, jobs, raised, collector, pool>> /\ Len(future') = Len(future)
        /\ thread[t] # Free /\ \A u \in Workers \ {t} : thread'[u] = thread[u]
    BY <1>2, AppendLine
  <2>1. PICK x \in Nat : /\ log' = Append(log, x) /\ In(log') = In(log) \cup {x}
                         /\ x \in ToAppend(t) /\ ToAppend(t) = {x} \cup ToAppend(t)'
                         /\ Before({x}, ToAppend(t)')
    BY <1>2, AppendLine
  <2>2. NoneLost'
    <3> SUFFICES ASSUME NEW r, Somewhere(r) PROVE Somewhere(r)'
      BY <2>0 DEF NoneLost
    <3>1. ASSUME NEW u \in Workers, r \in ToAppend(u) PROVE Somewhere(r)'
      BY <2>0, <2>1, <3>1 DEF Somewhere
    <3> QED BY <2>0, <2>1, <3>1 DEF Somewhere
  <2>3. \A u \in Workers : u \notin pool' => thread'[u] = Free
    BY <2>0 DEF Single
  <2>4. ASSUME Cardinality(pool) = 1
        PROVE  Increasing(log') /\ \A u \in Workers : Before(In(log'), ToAppend(u)')
    <3>1. Increasing(log) /\ \A u \in Workers : Before(In(log), ToAppend(u))
      BY <2>4 DEF Single
    <3>2. Increasing(log')
      <4>1. Before(In(log), {x})
        BY <2>1, <3>1 DEF Before
      <4> QED BY <2>1, <3>1, <4>1, IncreasingAppend DEF TypeOK
    <3>3. Before(In(log'), ToAppend(t)')
      BY <2>1, <3>1 DEF Before
    <3>4. ASSUME NEW u \in Workers, u # t PROVE ToAppend(u)' = {}
      <4>1. t \in pool /\ u \notin pool
        BY <2>0, <2>4, <3>4, OneThread DEF Single
      <4>2. thread[u] = Free
        BY <4>1 DEF Single
      <4> QED BY <2>0, <3>4, <4>2, ToAppendIn
    <3> QED BY <3>2, <3>3, <3>4 DEF Before
  <2>5. Single'
    BY <2>0, <2>3, <2>4 DEF Single
  <2> QED BY <2>0, <2>2, <2>5
<1>3. CASE AppendRaises(t) \/ Schedule(t)
  <2>0. /\ thread' = [thread EXCEPT ![t] = Free]
        /\ UNCHANGED <<queue, batch, jobs, log, collector, pool, future>>
        /\ raised \subseteq raised'
    BY <1>3 DEF AppendRaises, Schedule, writerVars
  <2>1. /\ Line' /\ Apart' /\ ToAppend(t)' = {}
        /\ \A u \in Workers \ {t} : ToAppend(u)' = ToAppend(u)
        /\ \A u \in Workers \ {t} : thread'[u] = thread[u]
        /\ thread'[t] = Free
    BY <2>0, FreeLine
  <2>2. ToAppend(t) \subseteq raised'
    <3>1. CASE AppendRaises(t)
      <4>1. raised' = raised \cup In(thread[t].reqs)
        BY <3>1 DEF AppendRaises, In
      <4> QED BY <4>1, ToAppendIn
    <3>2. CASE Schedule(t)
      <4>1. ~(Len(thread[t].offsets) < Len(thread[t].reqs))
        BY <3>2 DEF Schedule, Appending
      <4>2. (Len(thread[t].offsets) + 1)..Len(thread[t].reqs) = {}
        BY <4>1, ToAppendIn
      <4> QED BY <4>2 DEF ToAppend
    <3> QED BY <1>3, <3>1, <3>2
  <2>3. NoneLost'
    <3> SUFFICES ASSUME NEW r, Somewhere(r) PROVE Somewhere(r)'
      BY <2>0 DEF NoneLost
    <3>1. ASSUME NEW u \in Workers, r \in ToAppend(u) PROVE Somewhere(r)'
      BY <2>1, <2>2, <3>1 DEF Somewhere
    <3> QED BY <2>0, <3>1 DEF Somewhere
  <2>4. Single'
    BY <2>0, <2>1 DEF Single, Before
  <2> QED BY <2>1, <2>3, <2>4
<1> QED BY <1>1, <1>2, <1>3 DEF ThreadStep

\* Every step keeps the requests apart, in line and accounted for.
LEMMA NextPath == TypeOK /\ PathInv /\ [Next]_vars => PathInv'
<1> SUFFICES ASSUME TypeOK, PathInv, [Next]_vars PROVE PathInv'
  OBVIOUS
<1> USE DEF PathInv
<1>1. ASSUME UNCHANGED <<queue, batch, jobs, thread, log, raised, collector, pool>>, Len(future') = Len(future)
      PROVE  PathInv'
  <2>1. \A t \in Workers : ToAppend(t)' = ToAppend(t)
    BY <1>1 DEF ToAppend
  <2>2. EachIncreasing' /\ Ranked' /\ BegunFirst' /\ Numbered'
    BY <1>1 DEF Line, EachIncreasing, Ranked, BegunFirst, BegunBefore, Numbered
  <2>3. \A r : Somewhere(r) => Somewhere(r)'
    BY <1>1, <2>1 DEF Somewhere
  <2>4. NoneLost'
    BY <1>1, <2>3 DEF NoneLost
  <2>5. Apart' /\ Single'
    BY <1>1, <2>1 DEF Apart, Single
  <2> QED BY <2>2, <2>4, <2>5 DEF Line
<1>2. ASSUME NEW c \in Clients, NEW acks \in {0, 1}, Publish(c, acks) PROVE PathInv'
  <2>0. Line' /\ In(queue') = In(queue) \cup {Len(future) + 1} /\ Len(future') = Len(future) + 1
    BY <1>2, PublishLine
  <2>1. UNCHANGED <<batch, jobs, thread, log, raised, pool>> /\ (collector = "cancelled" => collector' = "cancelled")
    BY <1>2 DEF Publish, Submit, poolVars
  <2>2. \A t \in Workers : ToAppend(t)' = ToAppend(t)
    BY <2>1 DEF ToAppend
  <2>3. NoneLost'
    <3>1. \A r \in 1..(Len(future) + 1) : r \in 1..Len(future) \/ r = Len(future) + 1
      BY LineTyped
    <3>2. \A r : Somewhere(r) => Somewhere(r)'
      BY <2>0, <2>1, <2>2 DEF Somewhere
    <3>3. \A r : r = Len(future) + 1 => Somewhere(r)'
      BY <2>0 DEF Somewhere
    <3> QED BY <2>0, <2>1, <3>1, <3>2, <3>3 DEF NoneLost
  <2>4. Apart' /\ Single'
    BY <2>1, <2>2 DEF Apart, Single
  <2> QED BY <2>0, <2>3, <2>4
<1>3. CASE Collects
  <2>0. /\ Line' /\ UNCHANGED <<thread, log, raised, collector, pool>> /\ Len(future') = Len(future)
        /\ \A r : r \in In(queue) \/ r \in In(batch) \/ (\E n \in 1..Len(jobs) : r \in In(jobs[n]))
              => r \in In(queue') \/ r \in In(batch') \/ (\E n \in 1..Len(jobs') : r \in In(jobs'[n]))
    BY <1>3, CollectLine
  <2>1. \A t \in Workers : ToAppend(t)' = ToAppend(t)
    BY <2>0 DEF ToAppend
  <2>2. \A r : Somewhere(r) => Somewhere(r)'
    BY <2>0, <2>1 DEF Somewhere
  <2>3. NoneLost' /\ Apart' /\ Single'
    BY <2>0, <2>1, <2>2 DEF NoneLost, Apart, Single
  <2> QED BY <2>0, <2>3
<1>4. CASE CloseWriter
  <2>1. PICK last \in 0..Len(queue) : queue' = SubSeq(queue, last + 1, Len(queue))
    BY <1>4 DEF CloseWriter
  <2>2. /\ collector' = "cancelled" /\ batch' = <<>>
        /\ UNCHANGED <<pool, jobs, thread, log, raised>>
    BY <1>4 DEF CloseWriter, poolVars
  <2>3. In(queue') \subseteq In(queue) /\ Increasing(queue')
    BY <2>1, SubSeqIn DEF TypeOK, Line, EachIncreasing
  <2>4. In(batch') = {} /\ Increasing(batch')
    BY <2>2, InEmpty
  <2>5. Len(future') = Len(future)
    BY <1>4, CloseLen
  <2>6. \A t \in Workers : ToAppend(t)' = ToAppend(t)
    BY <2>2 DEF ToAppend
  <2>7. EachIncreasing' /\ Ranked'
    BY <2>2, <2>3, <2>4 DEF Line, EachIncreasing, Ranked, Before
  <2>8. BegunFirst' /\ Numbered'
    BY <2>2, <2>3, <2>4, <2>5 DEF Line, BegunFirst, BegunBefore, Numbered, Before
  <2>9. NoneLost' /\ Apart' /\ Single'
    BY <2>2, <2>6 DEF NoneLost, Apart, Single
  <2> QED BY <2>7, <2>8, <2>9 DEF Line
<1>5. ASSUME NEW t \in Workers, ThreadStep(t) PROVE PathInv'
  BY <1>5, ThreadPath
<1>6. \/ UNCHANGED <<queue, batch, jobs, thread, log, raised, collector, pool>>
      \/ \E c \in Clients, acks \in {0, 1} : Publish(c, acks)
      \/ Collects \/ CloseWriter \/ \E t \in Workers : ThreadStep(t)
  BY DEF Next, vars, Register, Leave, Die, Resume, Replicated, SetResult, CloseBegin, CloseStep,
         CancelHandlers, JoinRaises, ShutdownDone, clientVars, writerVars, poolVars
<1> QED BY <1>1, <1>2, <1>3, <1>4, <1>5, <1>6, FutureLen

\* The requests on the publish path, for any clients, threads, batches and faults.
THEOREM PathInvariant == Spec => []PathInv
  BY InitPath, InitType, TypeStep, NextPath, PTL DEF Spec

\* A request of an increasing sequence of numbers is in it once.
LEMMA IncreasingOnce ==
  ASSUME NEW s \in Seq(Nat), Increasing(s), NEW i \in 1..Len(s), NEW j \in 1..Len(s), s[i] = s[j]
  PROVE  i = j
<1>1. s[i] \in Nat /\ Len(s) \in Nat
  BY ElementOfSeq, LenProperties
<1>2. ~(i < j) /\ ~(j < i)
  BY <1>1 DEF Increasing
<1> QED BY <1>1, <1>2

\* The regions of the line a request can be in exclude each other.
LEMMA OneRegion ==
  ASSUME TypeOK, PathInv, NEW r \in Nat
  PROVE  /\ r \in In(queue) =>
              /\ r \notin In(batch) /\ r \notin In(log)
              /\ \A n \in 1..Len(jobs) : r \notin In(jobs[n])
              /\ \A t \in Workers : r \notin In(thread[t].reqs)
         /\ r \in In(batch) =>
              /\ r \notin In(log) /\ \A n \in 1..Len(jobs) : r \notin In(jobs[n])
              /\ \A t \in Workers : r \notin In(thread[t].reqs)
         /\ \A n \in 1..Len(jobs) : r \in In(jobs[n]) =>
              /\ r \notin In(log) /\ \A t \in Workers : r \notin In(thread[t].reqs)
         /\ \A m, n \in 1..Len(jobs) : r \in In(jobs[m]) /\ r \in In(jobs[n]) => m = n
         /\ \A t \in Workers : r \in ToAppend(t) => r \notin In(log) /\ r \in In(thread[t].reqs)
         /\ \A t, u \in Workers : r \in In(thread[t].reqs) /\ r \in In(thread[u].reqs) => t = u
<1> USE DEF PathInv, Line
<1>0. ~(r < r)
  OBVIOUS
<1>1. \A S, T : Before(S, T) => ~(r \in S /\ r \in T)
  BY <1>0 DEF Before
<1>2. \A m, n \in 1..Len(jobs) : r \in In(jobs[m]) /\ r \in In(jobs[n]) => m = n
  <2> SUFFICES ASSUME NEW m \in 1..Len(jobs), NEW n \in 1..Len(jobs), r \in In(jobs[m]), r \in In(jobs[n])
               PROVE  m = n
    OBVIOUS
  <2>1. ~(m < n) /\ ~(n < m)
    BY <1>1 DEF Ranked
  <2> QED BY <2>1
<1>3. \A t \in Workers : ToAppend(t) \subseteq In(thread[t].reqs)
  BY ToAppendIn
<1>4. \A T : BegunBefore(T) /\ r \in T => r \notin In(log) /\ \A t \in Workers : r \notin In(thread[t].reqs)
  BY <1>1 DEF BegunBefore
<1>5. r \in In(queue) =>
        /\ r \notin In(batch) /\ r \notin In(log)
        /\ \A n \in 1..Len(jobs) : r \notin In(jobs[n])
        /\ \A t \in Workers : r \notin In(thread[t].reqs)
  BY <1>1, <1>4 DEF Ranked, BegunFirst
<1>6. r \in In(batch) =>
        /\ r \notin In(log) /\ \A n \in 1..Len(jobs) : r \notin In(jobs[n])
        /\ \A t \in Workers : r \notin In(thread[t].reqs)
  BY <1>1, <1>4 DEF Ranked, BegunFirst
<1>7. \A n \in 1..Len(jobs) : r \in In(jobs[n]) =>
        /\ r \notin In(log) /\ \A t \in Workers : r \notin In(thread[t].reqs)
  BY <1>4 DEF BegunFirst
<1>8. \A t \in Workers : r \in ToAppend(t) => r \notin In(log) /\ r \in In(thread[t].reqs)
  BY <1>3 DEF Apart
<1>9. \A t, u \in Workers : r \in In(thread[t].reqs) /\ r \in In(thread[u].reqs) => t = u
  BY DEF Apart
<1> QED BY <1>2, <1>5, <1>6, <1>7, <1>8, <1>9

\* The places of request r, region by region.
InQueue(r, p) == \E i \in 1..Len(queue) : queue[i] = r /\ p = <<"queue", i>>
InBatch(r, p) == \E i \in 1..Len(batch) : batch[i] = r /\ p = <<"batch", i>>
InJob(r, p) == \E n \in 1..Len(jobs) : \E i \in 1..Len(jobs[n]) : jobs[n][i] = r /\ p = <<"job", n, i>>
InThread(r, p) ==
  \E t \in Workers : \E i \in (Len(thread[t].offsets) + 1)..Len(thread[t].reqs) :
    thread[t].reqs[i] = r /\ p = <<t, i>>
InLog(r, p) == \E i \in 1..Len(log) : log[i] = r /\ p = <<"log", i>>

LEMMA PlacesAre ==
  ASSUME NEW r, NEW p
  PROVE  p \in Places(r) <=> InQueue(r, p) \/ InBatch(r, p) \/ InJob(r, p) \/ InThread(r, p) \/ InLog(r, p)
<1> DEFINE Q == {<<"queue", i>> : i \in {j \in 1..Len(queue) : queue[j] = r}}
           B == {<<"batch", i>> : i \in {j \in 1..Len(batch) : batch[j] = r}}
           Jn(n) == {<<"job", n, i>> : i \in {j \in 1..Len(jobs[n]) : jobs[n][j] = r}}
           J == UNION {Jn(n) : n \in 1..Len(jobs)}
           Tt(t) == {<<t, i>> : i \in {j \in (Len(thread[t].offsets) + 1)..Len(thread[t].reqs) :
                                          thread[t].reqs[j] = r}}
           T == UNION {Tt(t) : t \in Workers}
           L == {<<"log", i>> : i \in {j \in 1..Len(log) : log[j] = r}}
<1>1. p \in Places(r) <=> p \in Q \/ p \in B \/ p \in J \/ p \in T \/ p \in L
  <2>1. Places(r) = Q \cup B \cup J \cup T \cup L
    BY DEF Places
  <2> HIDE DEF Q, B, J, T, L
  <2> QED BY <2>1
<1>2. p \in Q <=> InQueue(r, p)
  BY Zenon DEF InQueue
<1>3. p \in B <=> InBatch(r, p)
  BY Zenon DEF InBatch
<1>4. p \in J <=> InJob(r, p)
  <2>1. p \in J <=> \E n \in 1..Len(jobs) : p \in Jn(n)
    BY Zenon
  <2>2. ASSUME NEW n \in 1..Len(jobs)
        PROVE  p \in Jn(n) <=> \E i \in 1..Len(jobs[n]) : jobs[n][i] = r /\ p = <<"job", n, i>>
    BY Zenon
  <2> HIDE DEF J, Jn
  <2> QED BY <2>1, <2>2, Zenon DEF InJob
<1>5. p \in T <=> InThread(r, p)
  <2>1. p \in T <=> \E t \in Workers : p \in Tt(t)
    BY Zenon
  <2>2. ASSUME NEW t \in Workers
        PROVE  p \in Tt(t) <=> \E i \in (Len(thread[t].offsets) + 1)..Len(thread[t].reqs) :
                                  thread[t].reqs[i] = r /\ p = <<t, i>>
    BY Zenon
  <2> HIDE DEF T, Tt
  <2> QED BY <2>1, <2>2, Zenon DEF InThread
<1>6. p \in L <=> InLog(r, p)
  BY Zenon DEF InLog
<1> HIDE DEF Q, B, J, T, L
<1> QED BY <1>1, <1>2, <1>3, <1>4, <1>5, <1>6

\* A request has at most one place.
LEMMA OnePlace ==
  ASSUME TypeOK, PathInv, NEW r \in Nat, NEW p \in Places(r), NEW q \in Places(r)
  PROVE  p = q
<1>0. /\ queue \in Seq(Nat) /\ batch \in Seq(Nat) /\ log \in Seq(Nat)
      /\ \A n \in 1..Len(jobs) : jobs[n] \in Seq(Nat) /\ Increasing(jobs[n])
      /\ \A t \in Workers : thread[t].reqs \in Seq(Nat) /\ Increasing(thread[t].reqs)
      /\ \A t \in Workers : (Len(thread[t].offsets) + 1)..Len(thread[t].reqs) \subseteq 1..Len(thread[t].reqs)
      /\ Increasing(queue) /\ Increasing(batch)
      /\ \A i, j \in 1..Len(log) : log[i] = log[j] => i = j
  <2>1. ASSUME NEW t \in Workers
        PROVE  (Len(thread[t].offsets) + 1)..Len(thread[t].reqs) \subseteq 1..Len(thread[t].reqs)
    <3>1. Len(thread[t].offsets) \in Nat /\ Len(thread[t].reqs) \in Nat
      BY LenProperties DEF TypeOK
    <3> QED BY <3>1
  <2> QED BY <2>1, LineTyped DEF TypeOK, PathInv, Line, EachIncreasing, Apart
<1>1. /\ \A x : InQueue(r, x) => r \in In(queue)
      /\ \A x : InBatch(r, x) => r \in In(batch)
      /\ \A x : InJob(r, x) => \E n \in 1..Len(jobs) : r \in In(jobs[n])
      /\ \A x : InThread(r, x) => \E t \in Workers : r \in ToAppend(t)
      /\ \A x : InLog(r, x) => r \in In(log)
  BY DEF InQueue, InBatch, InJob, InThread, InLog, In, ToAppend
<1>2. CASE InQueue(r, p) /\ InQueue(r, q)
  BY <1>0, <1>2, IncreasingOnce DEF InQueue
<1>3. CASE InBatch(r, p) /\ InBatch(r, q)
  BY <1>0, <1>3, IncreasingOnce DEF InBatch
<1>4. CASE InJob(r, p) /\ InJob(r, q)
  <2>1. PICK m \in 1..Len(jobs) : \E i \in 1..Len(jobs[m]) : jobs[m][i] = r /\ p = <<"job", m, i>>
    BY <1>4 DEF InJob
  <2>2. PICK n \in 1..Len(jobs) : \E i \in 1..Len(jobs[n]) : jobs[n][i] = r /\ q = <<"job", n, i>>
    BY <1>4 DEF InJob
  <2>3. m = n
    BY <2>1, <2>2, OneRegion DEF In
  <2> QED BY <1>0, <2>1, <2>2, <2>3, IncreasingOnce
<1>5. CASE InThread(r, p) /\ InThread(r, q)
  <2>1. PICK t \in Workers : \E i \in (Len(thread[t].offsets) + 1)..Len(thread[t].reqs) :
                                thread[t].reqs[i] = r /\ p = <<t, i>>
    BY <1>5 DEF InThread
  <2>2. PICK u \in Workers : \E i \in (Len(thread[u].offsets) + 1)..Len(thread[u].reqs) :
                                thread[u].reqs[i] = r /\ q = <<u, i>>
    BY <1>5 DEF InThread
  <2>3. r \in ToAppend(t) /\ r \in ToAppend(u)
    BY <2>1, <2>2 DEF ToAppend
  <2>4. t = u
    BY <2>3, OneRegion
  <2>5. PICK i \in 1..Len(thread[t].reqs) : thread[t].reqs[i] = r /\ p = <<t, i>>
    BY <1>0, <2>1
  <2>6. PICK j \in 1..Len(thread[t].reqs) : thread[t].reqs[j] = r /\ q = <<t, j>>
    BY <1>0, <2>2, <2>4
  <2>7. i = j
    BY <1>0, <2>5, <2>6, IncreasingOnce
  <2> QED BY <2>5, <2>6, <2>7
<1>6. CASE InLog(r, p) /\ InLog(r, q)
  BY <1>0, <1>6 DEF InLog
<1>7. /\ InQueue(r, p) \/ InBatch(r, p) \/ InJob(r, p) \/ InThread(r, p) \/ InLog(r, p)
      /\ InQueue(r, q) \/ InBatch(r, q) \/ InJob(r, q) \/ InThread(r, q) \/ InLog(r, q)
  BY PlacesAre
<1>8. \A x, y :
        /\ InQueue(r, x) => ~(InBatch(r, y) \/ InJob(r, y) \/ InThread(r, y) \/ InLog(r, y))
        /\ InBatch(r, x) => ~(InJob(r, y) \/ InThread(r, y) \/ InLog(r, y))
        /\ InJob(r, x) => ~(InThread(r, y) \/ InLog(r, y))
        /\ InThread(r, x) => ~InLog(r, y)
  BY <1>1, OneRegion
<1> QED BY <1>2, <1>3, <1>4, <1>5, <1>6, <1>7, <1>8

\* A request that has not been lost has a place, unless append_batch raised for it.
LEMMA SomePlace ==
  ASSUME NEW r, Somewhere(r), r \notin raised
  PROVE  \E p : p \in Places(r)
<1>1. \E p : InQueue(r, p) \/ InBatch(r, p) \/ InJob(r, p) \/ InThread(r, p) \/ InLog(r, p)
  BY DEF Somewhere, In, ToAppend, InQueue, InBatch, InJob, InThread, InLog
<1> QED BY <1>1, PlacesAre

\* Every message a publisher submitted is in exactly one place on its way into the
\* log, for any connections, pool threads and batch sizes; only append_batch
\* raising, or Writer.close cancelling the collector, may lose one.
THEOREM MessagesConserved == Spec => []Conserved
<1>1. TypeOK /\ PathInv => Conserved
  <2> SUFFICES ASSUME TypeOK, PathInv, NEW r \in 1..Len(future)
               PROVE  \/ Cardinality(Places(r)) = 1
                      \/ Places(r) = {} /\ (r \in raised \/ collector = "cancelled")
    BY DEF Conserved
  <2>1. r \in Nat
    BY LineTyped
  <2>2. CASE Places(r) = {}
    BY <2>2, SomePlace DEF PathInv, NoneLost
  <2>3. CASE Places(r) # {}
    <3>1. PICK p : p \in Places(r)
      BY <2>3
    <3>2. Places(r) = {p}
      BY <2>1, <3>1, OnePlace
    <3> QED BY <3>2, FS_Singleton
  <2> QED BY <2>2, <2>3
<1> QED BY <1>1, InitPath, InitType, TypeStep, NextPath, PTL DEF Spec

\* With one pool thread, messages come into the log in the order in which they were
\* submitted, whatever batches the collector makes of them.
THEOREM OrderKept == Spec => []OneThreadKeepsOrder
<1>1. PathInv => OneThreadKeepsOrder
  BY DEF PathInv, Single, Increasing, OneThreadKeepsOrder
<1> QED BY <1>1, InitPath, InitType, TypeStep, NextPath, PTL DEF Spec
=============================================================================

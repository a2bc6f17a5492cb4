--------------------------- MODULE WorkQueueProofs --------------------------
(***************************************************************************)
(* Proofs about WorkQueue for every set of services, every sharding and     *)
(* every buffer capacity: its safety invariants, and that it implements the *)
(* safety part of Wakeup.                                                   *)
(*                                                                          *)
(* The invariants are not inductive alone.  That a duplicate request may be *)
(* answered TRUE rests on the pending mark being exact (PendingExact);      *)
(* clearing a mark at Begin keeps it exact only if the ID is not queued     *)
(* again behind it (Deduped); that holds because an ID being enqueued is    *)
(* nowhere else (PumpFresh), and all of it per shard because nothing is     *)
(* ever in a shard it does not hash to (HomeShard).                         *)
(***************************************************************************)
EXTENDS WorkQueue, TLAPS

\* Whatever a shard's channel or worker holds hashes to that shard.
HomeShard == \A sh \in Shards :
    /\ \A s \in Queued(sh) : shardFor(s) = sh
    /\ worker[sh].pc \in {"received", "fn"} =>
          /\ worker[sh].id \in Services
          /\ shardFor(worker[sh].id) = sh

\* The ID the pump is enqueueing is in no channel and received by no worker.
PumpFresh == pump.pc \in {"marked", "full"} =>
    /\ pump.id \in Services
    /\ \A sh \in Shards : /\ pump.id \notin Queued(sh)
                          /\ worker[sh] # WorkerAt("received", pump.id)

IInv == TypeOK /\ PendingExact /\ Deduped /\ HomeShard /\ PumpFresh
-----------------------------------------------------------------------------
(* What the channel operations do to the elements of a sequence. *)

\* A send adds its ID to the elements of the channel.
LEMMA AppendElems ==
    ASSUME NEW S, NEW q \in Seq(S), NEW s \in S
    PROVE  /\ Append(q, s) \in Seq(S)
           /\ Len(Append(q, s)) = Len(q) + 1
           /\ Elems(Append(q, s)) = Elems(q) \cup {s}
           /\ Distinct(q) /\ s \notin Elems(q) => Distinct(Append(q, s))
<1>1. /\ Append(q, s) \in Seq(S)
      /\ Len(Append(q, s)) = Len(q) + 1
      /\ \A i \in 1 .. Len(q) : Append(q, s)[i] = q[i]
      /\ Append(q, s)[Len(q) + 1] = s
  OBVIOUS
<1>2. Len(q) \in Nat
  OBVIOUS
<1>3. Elems(Append(q, s)) = Elems(q) \cup {s}
  BY <1>1, <1>2 DEF Elems
<1>4. ASSUME Distinct(q), s \notin Elems(q)
      PROVE  Distinct(Append(q, s))
  BY <1>1, <1>2, <1>4 DEF Distinct, Elems
<1> QED
  BY <1>1, <1>3, <1>4

\* A receive takes the first element out and leaves the others.
LEMMA TailElems ==
    ASSUME NEW S, NEW q \in Seq(S), q # <<>>
    PROVE  /\ Tail(q) \in Seq(S)
           /\ Head(q) \in Elems(q)
           /\ Len(Tail(q)) = Len(q) - 1
           /\ Elems(q) = Elems(Tail(q)) \cup {Head(q)}
           /\ Distinct(q) => Distinct(Tail(q)) /\ Head(q) \notin Elems(Tail(q))
<1>1. /\ Tail(q) \in Seq(S)
      /\ Len(q) \in Nat \ {0}
      /\ Len(Tail(q)) = Len(q) - 1
      /\ Head(q) = q[1]
      /\ \A i \in 1 .. (Len(q) - 1) : Tail(q)[i] = q[i + 1]
  OBVIOUS
<1>2. Head(q) \in Elems(q)
  BY <1>1 DEF Elems
<1>3. Elems(q) = Elems(Tail(q)) \cup {Head(q)}
  <2>1. ASSUME NEW e \in Elems(q) PROVE e \in Elems(Tail(q)) \cup {Head(q)}
    <3>1. PICK i \in 1 .. Len(q) : e = q[i]
      BY <2>1 DEF Elems
    <3>2. CASE i = 1
      BY <1>1, <3>1, <3>2
    <3>3. CASE i # 1
      <4>1. i - 1 \in 1 .. (Len(q) - 1) /\ Tail(q)[i - 1] = q[i]
        BY <1>1, <3>3
      <4> QED
        BY <1>1, <3>1, <4>1 DEF Elems
    <3> QED
      BY <3>2, <3>3
  <2>2. ASSUME NEW e \in Elems(Tail(q)) PROVE e \in Elems(q)
    BY <1>1 DEF Elems
  <2> QED
    BY <1>2, <2>1, <2>2
<1>4. ASSUME Distinct(q)
      PROVE  Distinct(Tail(q)) /\ Head(q) \notin Elems(Tail(q))
  BY <1>1, <1>4 DEF Distinct, Elems
<1> QED
  BY <1>1, <1>2, <1>3, <1>4
-----------------------------------------------------------------------------
(* The inductive invariant *)

\* The invariant holds before the first request.
LEMMA InitIInv == Init => IInv
<1> SUFFICES ASSUME Init PROVE IInv
  OBVIOUS
<1>1. /\ \A sh \in Shards : pending[sh] = {} /\ ch[sh] = <<>> /\ worker[sh] = WorkerAt("select", None)
      /\ pump = PumpAt("recv", None)
  BY DEF Init
<1>2. TypeOK
  <2>1. pending \in [Shards -> SUBSET Services]
    BY DEF Init
  <2>2. ch \in [Shards -> Seq(Services)] /\ \A sh \in Shards : Len(ch[sh]) <= Buffer
    <3>1. <<>> \in Seq(Services) /\ Len(<<>>) <= Buffer
      BY QueueConstants
    <3> QED
      BY <3>1 DEF Init
  <2>3. pump \in PumpStates /\ worker \in [Shards -> WorkerStates]
    BY DEF Init, PumpAt, WorkerAt, PumpStates, WorkerStates
  <2>4. reply \in {<<>>} \cup (Services \X BOOLEAN) /\ ctxDone \in BOOLEAN
    BY DEF Init
  <2> QED
    BY <2>1, <2>2, <2>3, <2>4 DEF TypeOK
<1>3. \A sh \in Shards : Queued(sh) = {}
  BY <1>1 DEF Queued, Elems
<1>4. PendingExact
  BY <1>1, <1>3 DEF PendingExact, InFlight, PumpAt, WorkerAt
<1>5. Deduped
  BY <1>1 DEF Deduped, Distinct, WorkerAt
<1>6. HomeShard /\ PumpFresh
  BY <1>1, <1>3 DEF HomeShard, PumpFresh, PumpAt, WorkerAt
<1> QED
  BY <1>2, <1>4, <1>5, <1>6 DEF IInv

\* A step of Enqueue keeps the invariant.
LEMMA EnqueueIInv ==
    ASSUME IInv, NEW s \in Services, Enqueue(s)
    PROVE  IInv'
<1> USE QueueConstants
<1> DEFINE h == shardFor(s)
<1>0. h \in Shards
  BY DEF shardFor
<1>1. CASE EnqueueDup(s)
  BY <1>1 DEF EnqueueDup, IInv, TypeOK, PendingExact, InFlight, Deduped, HomeShard, PumpFresh, Queued
<1>2. CASE EnqueueMark(s)
  <2>1. /\ pump.pc = "recv" /\ s \notin pending[h] /\ s \notin InFlight(h)
        /\ pending' = [pending EXCEPT ![h] = @ \cup {s}]
        /\ pump' = PumpAt("marked", s)
        /\ UNCHANGED <<ch, worker, reply, ctxDone>>
    BY <1>0, <1>2 DEF EnqueueMark, IInv, PendingExact
  <2>2. TypeOK'
    BY <2>1, <1>0 DEF IInv, TypeOK, PumpAt, PumpStates
  <2>3. Deduped' /\ HomeShard'
    BY <2>1 DEF IInv, Deduped, HomeShard, Queued
  <2>4. PumpFresh'
    <3>1. \A sh \in Shards : s \notin Queued(sh) /\ worker[sh] # WorkerAt("received", s)
      BY <1>0, <2>1 DEF IInv, InFlight, HomeShard, WorkerAt
    <3> QED
      BY <2>1, <3>1 DEF PumpFresh, PumpAt, Queued
  <2>5. PendingExact'
    BY <1>0, <2>1 DEF IInv, TypeOK, PendingExact, InFlight, PumpAt, Queued
  <2> QED
    BY <2>2, <2>3, <2>4, <2>5 DEF IInv
<1>3. CASE EnqueueSend(s)
  <2>1. /\ pump = PumpAt("marked", s) /\ Len(ch[h]) < Buffer
        /\ ch' = [ch EXCEPT ![h] = Append(ch[h], s)]
        /\ pump' = PumpAt("recv", None)
        /\ reply' = <<s, TRUE>>
        /\ UNCHANGED <<pending, worker, ctxDone>>
    BY <1>3 DEF EnqueueSend
  <2>2. /\ ch[h] \in Seq(Services) /\ ch'[h] = Append(ch[h], s)
        /\ \A sh \in Shards : sh # h => ch'[sh] = ch[sh]
    BY <1>0, <2>1 DEF IInv, TypeOK
  <2>3. s \notin Queued(h) /\ \A sh \in Shards : worker[sh] # WorkerAt("received", s)
    BY <1>0, <2>1 DEF IInv, PumpFresh, PumpAt
  <2>4. /\ ch'[h] \in Seq(Services) /\ Len(ch'[h]) = Len(ch[h]) + 1
        /\ Elems(ch'[h]) = Elems(ch[h]) \cup {s}
        /\ Distinct(ch'[h])
    <3>1. Distinct(ch[h]) /\ s \notin Elems(ch[h])
      BY <1>0, <2>3 DEF IInv, Deduped, Queued
    <3> QED
      BY <2>2, <3>1, AppendElems
  <2>5. TypeOK'
    <3>1. /\ ch' \in [Shards -> Seq(Services)]
          /\ \A sh \in Shards : Len(ch'[sh]) <= Buffer
      BY <1>0, <2>1, <2>2, <2>4 DEF IInv, TypeOK
    <3> QED
      BY <2>1, <3>1 DEF IInv, TypeOK, PumpAt, PumpStates
  <2>6. Queued(h)' = Queued(h) \cup {s} /\ \A sh \in Shards : sh # h => Queued(sh)' = Queued(sh)
    BY <2>2, <2>4 DEF Queued
  <2>7. Deduped'
    <3>1. \A sh \in Shards : Distinct(ch[sh])'
      BY <2>2, <2>4 DEF IInv, Deduped
    <3>2. ASSUME NEW sh \in Shards, worker[sh].pc = "received"
          PROVE  worker[sh].id \notin Queued(sh)'
      BY <2>3, <2>6, <3>2 DEF IInv, TypeOK, WorkerStates, Deduped, WorkerAt
    <3> QED
      BY <2>1, <3>1, <3>2 DEF Deduped
  <2>8. HomeShard'
    BY <2>1, <2>6 DEF IInv, HomeShard
  <2>9. PumpFresh'
    BY <2>1 DEF PumpFresh, PumpAt
  <2>10. PendingExact'
    BY <1>0, <2>1, <2>6 DEF IInv, PendingExact, InFlight, PumpAt
  <2> QED
    BY <2>5, <2>7, <2>8, <2>9, <2>10 DEF IInv
<1>4. CASE EnqueueFull(s)
  BY <1>4 DEF EnqueueFull, IInv, TypeOK, PendingExact, InFlight, Deduped, HomeShard, PumpFresh,
              Queued, PumpAt, PumpStates
<1>5. CASE EnqueueDrop(s)
  <2>1. /\ pump = PumpAt("full", s)
        /\ pending' = [pending EXCEPT ![h] = @ \ {s}]
        /\ pump' = PumpAt("recv", None)
        /\ reply' = <<s, FALSE>>
        /\ UNCHANGED <<ch, worker, ctxDone>>
    BY <1>5 DEF EnqueueDrop
  <2>2. TypeOK'
    BY <1>0, <2>1 DEF IInv, TypeOK, PumpAt, PumpStates
  <2>3. Deduped' /\ HomeShard' /\ PumpFresh'
    BY <2>1 DEF IInv, Deduped, HomeShard, PumpFresh, Queued, PumpAt
  <2>4. PendingExact'
    BY <1>0, <2>1 DEF IInv, TypeOK, PendingExact, PumpFresh, InFlight, PumpAt, Queued
  <2> QED
    BY <2>2, <2>3, <2>4 DEF IInv
<1> QED
  BY <1>1, <1>2, <1>3, <1>4, <1>5 DEF Enqueue

\* A step of a shard's worker keeps the invariant.
LEMMA RunIInv ==
    ASSUME IInv, NEW h \in Shards, Run(h)
    PROVE  IInv'
<1> USE QueueConstants
<1>1. CASE Receive(h)
  <2> DEFINE s == Head(ch[h])
  <2>1. /\ worker[h].pc = "select" /\ ch[h] # <<>>
        /\ worker' = [worker EXCEPT ![h] = WorkerAt("received", s)]
        /\ ch' = [ch EXCEPT ![h] = Tail(ch[h])]
        /\ UNCHANGED <<pending, pump, reply, ctxDone>>
    BY <1>1 DEF Receive
  <2>2. /\ ch[h] \in Seq(Services) /\ ch'[h] = Tail(ch[h])
        /\ \A sh \in Shards : sh # h => ch'[sh] = ch[sh]
    BY <2>1 DEF IInv, TypeOK
  <2>3. /\ ch'[h] \in Seq(Services) /\ Len(ch'[h]) = Len(ch[h]) - 1
        /\ s \in Elems(ch[h])
        /\ Elems(ch[h]) = Elems(ch'[h]) \cup {s}
        /\ Distinct(ch'[h]) /\ s \notin Elems(ch'[h])
    BY <2>1, <2>2, TailElems DEF IInv, Deduped
  <2>4. s \in Services
    BY <2>1, <2>2
  <2>5. TypeOK'
    <3>1. /\ ch' \in [Shards -> Seq(Services)]
          /\ \A sh \in Shards : Len(ch'[sh]) <= Buffer
      BY <2>1, <2>2, <2>3 DEF IInv, TypeOK
    <3> QED
      BY <2>1, <2>4, <3>1 DEF IInv, TypeOK, WorkerAt, WorkerStates
  <2>6. /\ Queued(h) = Queued(h)' \cup {s} /\ s \notin Queued(h)'
        /\ \A sh \in Shards : sh # h => Queued(sh)' = Queued(sh)
    BY <2>2, <2>3 DEF Queued
  <2>7. /\ worker'[h] = WorkerAt("received", s)
        /\ \A sh \in Shards : sh # h => worker'[sh] = worker[sh]
    BY <2>1 DEF IInv, TypeOK
  <2>8. Deduped'
    <3>1. \A sh \in Shards : Distinct(ch'[sh])
      BY <2>2, <2>3 DEF IInv, Deduped
    <3>2. ASSUME NEW sh \in Shards, worker'[sh].pc = "received"
          PROVE  worker'[sh].id \notin Queued(sh)'
      BY <2>6, <2>7, <3>2 DEF IInv, Deduped, WorkerAt
    <3> QED
      BY <3>1, <3>2 DEF Deduped
  <2>9. HomeShard'
    BY <2>4, <2>6, <2>7 DEF IInv, HomeShard, WorkerAt
  <2>10. PumpFresh'
    BY <2>1, <2>6, <2>7 DEF IInv, PumpFresh, WorkerAt
  <2>11. PendingExact'
    <3>1. \A t \in Services : worker[h] # WorkerAt("received", t)
      BY <2>1 DEF WorkerAt
    <3>2. InFlight(h)' = InFlight(h)
      BY <2>1, <2>4, <2>6, <2>7, <3>1 DEF InFlight, WorkerAt
    <3>3. \A sh \in Shards : sh # h => InFlight(sh)' = InFlight(sh)
      BY <2>1, <2>6, <2>7 DEF InFlight
    <3> QED
      BY <2>1, <3>2, <3>3 DEF IInv, PendingExact
  <2> QED
    BY <2>5, <2>8, <2>9, <2>10, <2>11 DEF IInv
<1>2. CASE Begin(h)
  <2> DEFINE s == worker[h].id
  <2>1. /\ worker[h].pc = "received" /\ worker[h] = WorkerAt("received", s)
        /\ pending' = [pending EXCEPT ![h] = @ \ {s}]
        /\ worker' = [worker EXCEPT ![h] = WorkerAt("fn", s)]
        /\ UNCHANGED <<ch, pump, reply, ctxDone>>
    BY <1>2 DEF Begin, IInv, TypeOK, WorkerStates, WorkerAt
  <2>2. s \in Services /\ shardFor(s) = h /\ s \notin Queued(h)
    BY <2>1 DEF IInv, HomeShard, Deduped
  <2>3. /\ worker'[h] = WorkerAt("fn", s)
        /\ \A sh \in Shards : sh # h => worker'[sh] = worker[sh]
    BY <2>1 DEF IInv, TypeOK
  <2>4. TypeOK'
    BY <2>1, <2>2 DEF IInv, TypeOK, WorkerAt, WorkerStates
  <2>5. Deduped' /\ HomeShard' /\ PumpFresh'
    BY <2>1, <2>2, <2>3 DEF IInv, Deduped, HomeShard, PumpFresh, Queued, WorkerAt
  <2>6. PendingExact'
    <3>1. ~(pump.pc \in {"marked", "full"} /\ pump.id = s)
      BY <2>1 DEF IInv, PumpFresh
    <3>2. InFlight(h)' = InFlight(h) \ {s}
      BY <2>1, <2>2, <2>3, <3>1 DEF InFlight, Queued, WorkerAt
    <3>3. \A sh \in Shards : sh # h => InFlight(sh)' = InFlight(sh)
      BY <2>1, <2>3 DEF InFlight, Queued
    <3> QED
      BY <2>1, <3>2, <3>3 DEF IInv, TypeOK, PendingExact
  <2> QED
    BY <2>4, <2>5, <2>6 DEF IInv
<1>3. CASE Return(h) \/ WorkerExit(h)
  <2>1. PICK pc \in {"select", "exited"} :
        /\ worker[h].pc \in {"select", "fn"}
        /\ worker' = [worker EXCEPT ![h] = WorkerAt(pc, None)]
        /\ UNCHANGED <<pending, ch, pump, reply, ctxDone>>
    BY <1>3 DEF Return, WorkerExit
  <2>2. /\ worker'[h] = WorkerAt(pc, None)
        /\ \A sh \in Shards : sh # h => worker'[sh] = worker[sh]
    BY <2>1 DEF IInv, TypeOK
  <2>3. TypeOK'
    BY <2>1 DEF IInv, TypeOK, WorkerAt, WorkerStates
  <2>4. Deduped' /\ HomeShard' /\ PumpFresh'
    BY <2>1, <2>2 DEF IInv, Deduped, HomeShard, PumpFresh, Queued, WorkerAt
  <2>5. PendingExact'
    <3>1. \A sh \in Shards : InFlight(sh)' = InFlight(sh)
      BY <2>1, <2>2 DEF InFlight, Queued, WorkerAt
    <3> QED
      BY <2>1, <3>1 DEF IInv, PendingExact
  <2> QED
    BY <2>3, <2>4, <2>5 DEF IInv
<1> QED
  BY <1>1, <1>2, <1>3 DEF Run

\* Every step of the daemon keeps the invariant.
LEMMA NextIInv == IInv /\ [Next]_vars => IInv'
<1> SUFFICES ASSUME IInv, [Next]_vars PROVE IInv'
  OBVIOUS
<1>1. CASE \E s \in Services : Enqueue(s)
  BY <1>1, EnqueueIInv
<1>2. CASE \E sh \in Shards : Run(sh)
  BY <1>2, RunIInv
<1>3. CASE PumpExit
  BY <1>3 DEF PumpExit, IInv, TypeOK, PendingExact, InFlight, Deduped, HomeShard, PumpFresh,
              Queued, PumpAt, PumpStates
<1>4. CASE Cancel \/ Terminated \/ UNCHANGED vars
  <2>1. UNCHANGED <<pending, ch, pump, worker, reply>>
    BY <1>4 DEF Cancel, Terminated, vars
  <2>2. ctxDone' \in BOOLEAN
    BY <1>4 DEF Cancel, Terminated, vars, IInv, TypeOK
  <2>3. TypeOK'
    BY <2>1, <2>2 DEF IInv, TypeOK
  <2>4. PendingExact' /\ Deduped' /\ HomeShard' /\ PumpFresh'
    BY <2>1 DEF IInv, PendingExact, InFlight, Deduped, HomeShard, PumpFresh, Queued
  <2> QED
    BY <2>3, <2>4 DEF IInv
<1> QED
  BY <1>1, <1>2, <1>3, <1>4 DEF Next

\* The strengthened invariant holds of every behaviour of the queue.
THEOREM Invariance == Spec => []IInv
  BY InitIInv, NextIInv, PTL DEF Spec

\* Type correctness: no shard's channel ever exceeds its capacity.
THEOREM TypeCorrect == Spec => []TypeOK
<1>1. IInv => TypeOK
  BY DEF IInv
<1> QED
  BY <1>1, Invariance, PTL

\* Dedupe is exact: the marks of a shard are the IDs it has in flight, so that
\* no mark outlives its ID and swallows the requests that follow.
THEOREM MarksExact == Spec => []PendingExact
<1>1. IInv => PendingExact
  BY DEF IInv
<1> QED
  BY Invariance, <1>1, PTL

\* No ID is twice in a channel, nor in it while the worker holds it received.
THEOREM NeverQueuedTwice == Spec => []Deduped
<1>1. IInv => Deduped
  BY DEF IInv
<1> QED
  BY Invariance, <1>1, PTL

\* Mutual exclusion: two workers never reconcile the same service.
THEOREM MutualExclusion == Spec => []OneReconcilePerService
<1>1. IInv => OneReconcilePerService
  BY DEF IInv, HomeShard, OneReconcilePerService
<1> QED
  BY <1>1, Invariance, PTL
-----------------------------------------------------------------------------
(* The queue implements the safety part of Wakeup. *)

\* The initial queue maps to an initial state of Wakeup.
LEMMA RefineInit == Init => W!Init
<1> SUFFICES ASSUME Init PROVE W!Init
  OBVIOUS
<1>1. \A sh \in Shards : Queued(sh) = {} /\ worker[sh].pc = "select"
  BY DEF Init, Queued, Elems, WorkerAt
<1>2. Owed = {} /\ Running = {}
  BY <1>1 DEF Owed, Running, WorkerAt
<1> QED
  BY <1>2 DEF Init, W!Init

\* Each step of Enqueue is an answer of Wakeup, or invisible.
LEMMA RefineEnqueue ==
    ASSUME IInv, NEW s \in Services, Enqueue(s)
    PROVE  W!Accept(s) \/ W!Refuse(s) \/ UNCHANGED W!vars
<1> DEFINE h == shardFor(s)
<1>0. h \in Shards
  BY QueueConstants DEF shardFor
<1>1. CASE EnqueueDup(s)
  <2>1. s \in InFlight(h) /\ pump.pc = "recv"
    BY <1>0, <1>1 DEF EnqueueDup, IInv, PendingExact
  <2>2. s \in Owed
    BY <1>0, <2>1 DEF InFlight, Owed
  <2>3. UNCHANGED <<Owed, Running, ctxDone>> /\ reply' = <<s, TRUE>>
    BY <1>1 DEF EnqueueDup, Owed, Running, Queued
  <2> QED
    BY <2>2, <2>3 DEF W!Accept
<1>2. CASE EnqueueMark(s) \/ EnqueueFull(s)
  BY <1>2 DEF EnqueueMark, EnqueueFull, W!vars, Owed, Running, Queued
<1>3. CASE EnqueueSend(s)
  <2>1. /\ ch[h] \in Seq(Services)
        /\ ch' = [ch EXCEPT ![h] = Append(ch[h], s)]
        /\ UNCHANGED <<worker, ctxDone>> /\ reply' = <<s, TRUE>>
    BY <1>0, <1>3 DEF EnqueueSend, IInv, TypeOK
  <2>2. /\ Queued(h)' = Queued(h) \cup {s}
        /\ \A sh \in Shards : sh # h => Queued(sh)' = Queued(sh)
    BY <1>0, <2>1, AppendElems DEF Queued, IInv, TypeOK
  <2>3. Owed' = Owed \cup {s}
    BY <1>0, <2>1, <2>2 DEF Owed
  <2>4. Running' = Running
    BY <2>1 DEF Running
  <2> QED
    BY <2>1, <2>3, <2>4 DEF W!Accept
<1>4. CASE EnqueueDrop(s)
  <2>1. s \notin Owed
    BY <1>4 DEF EnqueueDrop, IInv, PumpFresh, Owed, PumpAt
  <2>2. UNCHANGED <<Owed, Running, ctxDone>> /\ reply' = <<s, FALSE>>
    BY <1>4 DEF EnqueueDrop, Owed, Running, Queued
  <2> QED
    BY <2>1, <2>2 DEF W!Refuse
<1> QED
  BY <1>1, <1>2, <1>3, <1>4 DEF Enqueue

\* Each step of a worker starts or ends a reconcile of Wakeup, or is invisible.
LEMMA RefineRun ==
    ASSUME IInv, NEW h \in Shards, Run(h)
    PROVE  W!Next \/ UNCHANGED W!vars
<1>1. CASE Receive(h)
  <2> DEFINE s == Head(ch[h])
  <2>1. /\ worker[h].pc = "select" /\ ch[h] # <<>>
        /\ worker' = [worker EXCEPT ![h] = WorkerAt("received", s)]
        /\ ch' = [ch EXCEPT ![h] = Tail(ch[h])] /\ ch[h] \in Seq(Services)
        /\ UNCHANGED <<reply, ctxDone>>
    BY <1>1 DEF Receive, IInv, TypeOK
  <2>2. /\ worker'[h] = WorkerAt("received", s)
        /\ \A sh \in Shards : sh # h => worker'[sh] = worker[sh]
    BY <2>1 DEF IInv, TypeOK
  <2>3. /\ Queued(h) = Queued(h)' \cup {s}
        /\ \A sh \in Shards : sh # h => Queued(sh)' = Queued(sh)
    BY <2>1, TailElems DEF Queued, IInv, TypeOK
  <2>4. Owed' = Owed
    <3>1. ASSUME NEW t \in Services
          PROVE  (\E sh \in Shards : t \in Queued(sh)' \/ worker'[sh] = WorkerAt("received", t))
             <=> (\E sh \in Shards : t \in Queued(sh) \/ worker[sh] = WorkerAt("received", t))
      BY <2>1, <2>2, <2>3 DEF WorkerAt
    <3> QED
      BY <3>1 DEF Owed
  <2>5. Running' = Running
    BY <2>1, <2>2 DEF Running, WorkerAt
  <2> QED
    BY <2>1, <2>4, <2>5 DEF W!vars
<1>2. CASE Begin(h)
  <2> DEFINE s == worker[h].id
  <2>1. /\ worker[h] = WorkerAt("received", s)
        /\ worker' = [worker EXCEPT ![h] = WorkerAt("fn", s)]
        /\ UNCHANGED <<ch, reply, ctxDone>>
    BY <1>2 DEF Begin, IInv, TypeOK, WorkerStates, WorkerAt
  <2>2. s \in Services /\ shardFor(s) = h /\ s \notin Queued(h)
    BY <2>1 DEF IInv, HomeShard, Deduped, WorkerAt
  <2>3. /\ worker'[h] = WorkerAt("fn", s)
        /\ \A sh \in Shards : sh # h => worker'[sh] = worker[sh]
    BY <2>1 DEF IInv, TypeOK
  <2>4. s \in Owed /\ s \notin Running /\ s \notin Owed' /\ s \in Running'
    <3>1. s \in Owed /\ s \notin Running
      <4>1. \A sh \in Shards : worker[sh] # WorkerAt("fn", s)
        BY <2>1, <2>2 DEF IInv, HomeShard, WorkerAt
      <4> QED
        BY <2>1, <2>2, <4>1 DEF Owed, Running
    <3>2. \A sh \in Shards : s \notin Queued(sh) /\ worker'[sh] # WorkerAt("received", s)
      BY <2>1, <2>2, <2>3 DEF IInv, HomeShard, WorkerAt
    <3>3. s \notin Owed' /\ s \in Running'
      BY <2>1, <2>2, <2>3, <3>2 DEF Owed, Running, Queued
    <3> QED
      BY <3>1, <3>3
  <2>5. \A t \in Services : t # s => (t \in Owed' <=> t \in Owed) /\ (t \in Running' <=> t \in Running)
    BY <2>1, <2>3 DEF Owed, Running, Queued, WorkerAt
  <2>6. Owed' = Owed \ {s} /\ Running' = Running \cup {s}
    BY <2>2, <2>4, <2>5 DEF Owed, Running
  <2> QED
    BY <2>1, <2>2, <2>4, <2>6 DEF W!Next, W!Start
<1>3. CASE Return(h)
  <2> DEFINE s == worker[h].id
  <2>1. /\ worker[h] = WorkerAt("fn", s)
        /\ worker' = [worker EXCEPT ![h] = WorkerAt("select", None)]
        /\ UNCHANGED <<ch, reply, ctxDone>>
    BY <1>3 DEF Return, IInv, TypeOK, WorkerStates, WorkerAt
  <2>2. s \in Services /\ shardFor(s) = h
    BY <2>1 DEF IInv, HomeShard, WorkerAt
  <2>3. /\ worker'[h] = WorkerAt("select", None)
        /\ \A sh \in Shards : sh # h => worker'[sh] = worker[sh]
    BY <2>1 DEF IInv, TypeOK
  <2>4. s \in Running /\ s \notin Running'
    <3>1. \A sh \in Shards : worker'[sh] # WorkerAt("fn", s)
      BY <2>1, <2>2, <2>3 DEF IInv, HomeShard, WorkerAt
    <3> QED
      BY <2>1, <2>2, <3>1 DEF Running
  <2>5. \A t \in Services : t # s => (t \in Running' <=> t \in Running)
    BY <2>1, <2>3 DEF Running, WorkerAt
  <2>6. Running' = Running \ {s}
    BY <2>2, <2>4, <2>5 DEF Running
  <2>7. Owed' = Owed
    BY <2>1, <2>3 DEF Owed, Queued, WorkerAt
  <2> QED
    BY <2>1, <2>2, <2>4, <2>6, <2>7 DEF W!Next, W!Finish
<1>4. CASE WorkerExit(h)
  <2>1. /\ worker[h].pc = "select"
        /\ worker' = [worker EXCEPT ![h] = WorkerAt("exited", None)]
        /\ UNCHANGED <<ch, reply, ctxDone>>
    BY <1>4 DEF WorkerExit
  <2>2. /\ worker'[h] = WorkerAt("exited", None)
        /\ \A sh \in Shards : sh # h => worker'[sh] = worker[sh]
    BY <2>1 DEF IInv, TypeOK
  <2>3. Owed' = Owed /\ Running' = Running
    BY <2>1, <2>2 DEF Owed, Running, Queued, WorkerAt
  <2> QED
    BY <2>1, <2>3 DEF W!vars
<1> QED
  BY <1>1, <1>2, <1>3, <1>4 DEF Run

\* Refinement: for every set of services, sharding and capacity, the queue
\* implements Wakeup's safety part.  An accepted request, also one swallowed
\* as a duplicate, leaves the service owed a reconcile that starts later; a
\* service owed one is never refused nor reconciled twice at a time.
THEOREM QueueImplementsWakeup == Spec => W!SafeSpec
<1>1. Init => W!Init
  BY RefineInit
<1>2. IInv /\ [Next]_vars => [W!Next]_(W!vars)
  <2> SUFFICES ASSUME IInv, [Next]_vars PROVE W!Next \/ UNCHANGED W!vars
    OBVIOUS
  <2>1. CASE \E s \in Services : Enqueue(s)
    BY <2>1, RefineEnqueue DEF W!Next
  <2>2. CASE \E sh \in Shards : Run(sh)
    BY <2>2, RefineRun
  <2>3. CASE Cancel
    BY <2>3 DEF Cancel, W!Next, W!Stop, Owed, Running, Queued
  <2>4. CASE PumpExit \/ Terminated \/ UNCHANGED vars
    BY <2>4 DEF PumpExit, Terminated, vars, W!vars, Owed, Running, Queued
  <2> QED
    BY <2>1, <2>2, <2>3, <2>4 DEF Next
<1> QED
  BY <1>1, <1>2, Invariance, PTL DEF Spec, W!SafeSpec
=============================================================================

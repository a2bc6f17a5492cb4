----------------------------- MODULE WorkQueue ------------------------------
(***************************************************************************)
(* The sharded, deduplicating work queue (type Queue of reconciler.go)      *)
(* between the event pump of cmd/tailswarm/main.go, its only producer, and  *)
(* the reconcile workers, one goroutine per shard.                          *)
(*                                                                          *)
(* Every critical section of a shard's mutex is one atomic step; what       *)
(* happens between an Unlock and the next Lock interleaves.  A shard's      *)
(* pending map is a set, its buffered channel a bounded sequence.           *)
(***************************************************************************)
EXTENDS Naturals, Sequences

CONSTANTS Services,  \* Swarm service IDs
          Shards,    \* one worker goroutine each
          ShardFor,  \* the FNV-1a hash modulo the number of shards
          Buffer,    \* capacity of a shard's channel
          None       \* no service

ASSUME QueueConstants == /\ ShardFor \in [Services -> Shards]
                         /\ Buffer \in Nat \ {0}
                         /\ None \notin Services

VARIABLES pending,  \* [Shards -> SUBSET Services]
          ch,       \* [Shards -> Seq(Services)]
          pump,     \* where the event pump stands inside Enqueue
          worker,   \* [Shards -> where that shard's goroutine stands]
          reply,    \* Enqueue's last return value, with its argument
          ctxDone   \* the root context is cancelled

vars == <<pending, ch, pump, worker, reply, ctxDone>>

PumpStates   == [pc : {"recv", "marked", "full", "exited"}, id : Services \cup {None}]
WorkerStates == [pc : {"select", "received", "fn", "exited"}, id : Services \cup {None}]

PumpAt(pc, id)   == [pc |-> pc, id |-> id]
WorkerAt(pc, id) == [pc |-> pc, id |-> id]

\* The shard a service hashes to: the same one every time.
shardFor(s) == ShardFor[s]

\* The elements of a sequence, and that none is in it twice.
Elems(q)    == {q[i] : i \in 1 .. Len(q)}
Distinct(q) == \A i, j \in 1 .. Len(q) : q[i] = q[j] => i = j

Queued(sh) == Elems(ch[sh])

Init == /\ pending = [sh \in Shards |-> {}]
        /\ ch = [sh \in Shards |-> <<>>]
        /\ pump = PumpAt("recv", None)
        /\ worker = [sh \in Shards |-> WorkerAt("select", None)]
        /\ reply = <<>>
        /\ ctxDone = FALSE
-----------------------------------------------------------------------------
(* Enqueue, called by the pump for every ID it takes off the events channel *)

\* First critical section, ID already pending: accepted, nothing to add.
EnqueueDup(s) ==
    /\ pump.pc = "recv"
    /\ s \in pending[shardFor(s)]
    /\ reply' = <<s, TRUE>>
    /\ UNCHANGED <<pending, ch, pump, worker, ctxDone>>

\* Mutant of EnqueueMark: no look at the pending map.
EnqueueMarkAlways(s) ==
    /\ pump.pc = "recv"
    /\ pending' = [pending EXCEPT ![shardFor(s)] = @ \cup {s}]
    /\ pump' = PumpAt("marked", s)
    /\ UNCHANGED <<ch, worker, reply, ctxDone>>

\* First critical section, ID not pending: mark it and release the lock.
EnqueueMark(s) ==
    /\ pump.pc = "recv"
    /\ s \notin pending[shardFor(s)]
    /\ pending' = [pending EXCEPT ![shardFor(s)] = @ \cup {s}]
    /\ pump' = PumpAt("marked", s)
    /\ UNCHANGED <<ch, worker, reply, ctxDone>>

\* Mutant of EnqueueSend: a channel without a capacity.
EnqueueSendUnbounded(s) ==
    /\ pump = PumpAt("marked", s)
    /\ ch' = [ch EXCEPT ![shardFor(s)] = Append(@, s)]
    /\ pump' = PumpAt("recv", None)
    /\ reply' = <<s, TRUE>>
    /\ UNCHANGED <<pending, worker, ctxDone>>

\* Mutant of EnqueueSend: any shard with room gets the ID.
EnqueueSendAnywhere(s) ==
    /\ pump = PumpAt("marked", s)
    /\ \E sh \in Shards : /\ Len(ch[sh]) < Buffer
                          /\ ch' = [ch EXCEPT ![sh] = Append(@, s)]
    /\ pump' = PumpAt("recv", None)
    /\ reply' = <<s, TRUE>>
    /\ UNCHANGED <<pending, worker, ctxDone>>

\* The non-blocking send found room.
EnqueueSend(s) ==
    /\ pump = PumpAt("marked", s)
    /\ Len(ch[shardFor(s)]) < Buffer
    /\ ch' = [ch EXCEPT ![shardFor(s)] = Append(@, s)]
    /\ pump' = PumpAt("recv", None)
    /\ reply' = <<s, TRUE>>
    /\ UNCHANGED <<pending, worker, ctxDone>>

\* Mutant of EnqueueFull: no default branch, the send waits.
EnqueueFullBlocks(s) ==
    /\ pump = PumpAt("marked", s)
    /\ Len(ch[shardFor(s)]) >= Buffer
    /\ UNCHANGED vars

\* The non-blocking send took its default branch: the channel is full.
EnqueueFull(s) ==
    /\ pump = PumpAt("marked", s)
    /\ Len(ch[shardFor(s)]) >= Buffer
    /\ pump' = PumpAt("full", s)
    /\ UNCHANGED <<pending, ch, worker, reply, ctxDone>>

\* Mutant of EnqueueDrop: the mark of a refused ID stays.
EnqueueDropKeepsMark(s) ==
    /\ pump = PumpAt("full", s)
    /\ pump' = PumpAt("recv", None)
    /\ reply' = <<s, FALSE>>
    /\ UNCHANGED <<pending, ch, worker, ctxDone>>

\* Second critical section of a refused ID: take the mark back.
EnqueueDrop(s) ==
    /\ pump = PumpAt("full", s)
    /\ pending' = [pending EXCEPT ![shardFor(s)] = @ \ {s}]
    /\ pump' = PumpAt("recv", None)
    /\ reply' = <<s, FALSE>>
    /\ UNCHANGED <<ch, worker, ctxDone>>

\* Mutant of PumpExit: ctx.Done leaves the select and not the loop.
PumpExitBreaks == /\ pump.pc = "recv"
                  /\ ctxDone
                  /\ UNCHANGED vars

\* The pump's select took ctx.Done.
PumpExit == /\ pump.pc = "recv"
            /\ ctxDone
            /\ pump' = PumpAt("exited", None)
            /\ UNCHANGED <<pending, ch, worker, reply, ctxDone>>
-----------------------------------------------------------------------------
(* Queue.Run: the goroutine of one shard *)

Receive(sh) ==
    /\ worker[sh].pc = "select"
    /\ ch[sh] # <<>>
    /\ worker' = [worker EXCEPT ![sh] = WorkerAt("received", Head(ch[sh]))]
    /\ ch' = [ch EXCEPT ![sh] = Tail(@)]
    /\ UNCHANGED <<pending, pump, reply, ctxDone>>

\* Mutant of Begin: the mark outlives the start of the reconcile.
BeginKeepsMark(sh) ==
    /\ worker[sh].pc = "received"
    /\ worker' = [worker EXCEPT ![sh] = WorkerAt("fn", worker[sh].id)]
    /\ UNCHANGED <<pending, ch, pump, reply, ctxDone>>

\* Clears the pending mark, and only then calls fn.
Begin(sh) ==
    /\ worker[sh].pc = "received"
    /\ pending' = [pending EXCEPT ![sh] = @ \ {worker[sh].id}]
    /\ worker' = [worker EXCEPT ![sh] = WorkerAt("fn", worker[sh].id)]
    /\ UNCHANGED <<ch, pump, reply, ctxDone>>

Return(sh) ==
    /\ worker[sh].pc = "fn"
    /\ worker' = [worker EXCEPT ![sh] = WorkerAt("select", None)]
    /\ UNCHANGED <<pending, ch, pump, reply, ctxDone>>

\* The select took ctx.Done, whatever is still in the channel.
WorkerExit(sh) ==
    /\ worker[sh].pc = "select"
    /\ ctxDone
    /\ worker' = [worker EXCEPT ![sh] = WorkerAt("exited", None)]
    /\ UNCHANGED <<pending, ch, pump, reply, ctxDone>>

Cancel == /\ ~ctxDone
          /\ ctxDone' = TRUE
          /\ UNCHANGED <<pending, ch, pump, worker, reply>>
-----------------------------------------------------------------------------
Enqueue(s) == \/ EnqueueDup(s) \/ EnqueueMark(s) \/ EnqueueSend(s)
              \/ EnqueueFull(s) \/ EnqueueDrop(s)

Run(sh) == Receive(sh) \/ Begin(sh) \/ Return(sh) \/ WorkerExit(sh)

AllExited == /\ pump.pc = "exited"
             /\ \A sh \in Shards : worker[sh].pc = "exited"

\* wg.Wait has returned: the process is gone.
Terminated == AllExited /\ UNCHANGED vars

Next == \/ \E s \in Services : Enqueue(s)
        \/ PumpExit
        \/ \E sh \in Shards : Run(sh)
        \/ Cancel
        \/ Terminated

\* Goroutines are scheduled, and a select whose ctx.Done case is ready again
\* and again takes it in the end (Go picks among ready cases at random).
PumpFairness == /\ \A s \in Services : WF_vars(EnqueueSend(s) \/ EnqueueFull(s) \/ EnqueueDrop(s))
                /\ SF_vars(PumpExit)

\* Return is fair when a reconcile always ends.
WorkerFairness == \A sh \in Shards : /\ WF_vars(Receive(sh) \/ Begin(sh))
                                     /\ WF_vars(Return(sh))
                                     /\ SF_vars(WorkerExit(sh))

Spec == Init /\ [][Next]_vars /\ PumpFairness /\ WorkerFairness
-----------------------------------------------------------------------------
(* Properties *)

\* Type invariant: the channels never hold more than their capacity.
TypeOK == /\ pending \in [Shards -> SUBSET Services]
          /\ ch \in [Shards -> Seq(Services)]
          /\ \A sh \in Shards : Len(ch[sh]) <= Buffer
          /\ pump \in PumpStates
          /\ worker \in [Shards -> WorkerStates]
          /\ reply \in {<<>>} \cup (Services \X BOOLEAN)
          /\ ctxDone \in BOOLEAN

\* The IDs that have been marked and whose reconcile has not begun: in the
\* channel, in the hands of the worker that received them, or still with the pump.
InFlight(sh) ==
    Queued(sh) \cup {s \in Services : \/ worker[sh] = WorkerAt("received", s)
                                      \/ /\ pump.pc \in {"marked", "full"}
                                         /\ pump.id = s
                                         /\ shardFor(s) = sh}

\* An ID is marked pending exactly while it is in flight.  A mark that
\* outlives its ID (a refused enqueue, a reconcile already begun) would make
\* dedupe swallow every later request, so the service would never be
\* reconciled again; a missing mark would queue the ID twice.
PendingExact == \A sh \in Shards : pending[sh] = InFlight(sh)

\* Dedupe: an ID is at most once in its channel, and not in it while the
\* worker holds it received.
Deduped == \A sh \in Shards :
    /\ Distinct(ch[sh])
    /\ worker[sh].pc = "received" => worker[sh].id \notin Queued(sh)

\* One service is never reconciled by two workers at a time, although the
\* queue takes its next request while a reconcile is running: Reconcile reads
\* and rewrites the service's store entry with no lock of its own.
OneReconcilePerService == \A sh1, sh2 \in Shards :
    /\ worker[sh1].pc = "fn" /\ worker[sh2].pc = "fn"
    /\ worker[sh1].id = worker[sh2].id
    => sh1 = sh2

\* Enqueue never blocks its caller: wherever the workers stand, wedged or not,
\* and however full the channels are, a call that has begun has a step of its
\* own to take.  A stuck reconcile cannot stall the pump, and through it the
\* watcher's resync ticker.
EnqueueNeverBlocks == pump.pc \in {"marked", "full"} => ENABLED <<Enqueue(pump.id)>>_vars

\* Shutdown: once the context is cancelled the pump and all workers exit, so
\* run's wg.Wait returns.
Drains == ctxDone ~> AllExited

\* The promise of Wakeup: what is owed is what the channels and the receiving
\* workers hold, and a reconcile runs while fn does.
Owed    == {s \in Services : \E sh \in Shards : \/ s \in Queued(sh)
                                                \/ worker[sh] = WorkerAt("received", s)}
Running == {s \in Services : \E sh \in Shards : worker[sh] = WorkerAt("fn", s)}

W == INSTANCE Wakeup WITH owed <- Owed, running <- Running, stopped <- ctxDone

\* The queue implements Wakeup: an accepted request, a duplicate one included,
\* is followed by a reconcile that starts after it (no lost wakeup), none is
\* run twice at a time, and a service already owed a reconcile is never refused.
ImplementsWakeup == W!Spec
=============================================================================

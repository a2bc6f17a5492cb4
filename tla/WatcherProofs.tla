---------------------------- MODULE WatcherProofs ---------------------------
(***************************************************************************)
(* Proofs about Watcher for every set of services, every capacity and every *)
(* set of faults: the channels stay within their capacities although every  *)
(* sender drops instead of waiting, a reconcile in progress is exactly one  *)
(* that has read its service, and the pipeline uses the queue within what   *)
(* Wakeup promises.                                                         *)
(***************************************************************************)
EXTENDS Watcher, SequenceTheorems, TLAPS

\* A reconcile is in progress on the services that have been read.
ReadsWhileRunning == \A s \in Services : reading[s] # "none" <=> s \in running

IInv == TypeOK /\ ReadsWhileRunning

\* send keeps Out within its capacity and adds nothing but a service.
LEMMA SendType ==
    ASSUME TypeOK, NEW s \in Services, Send(s)
    PROVE  out' \in Seq(Services) /\ Len(out') <= OutCap
<1>1. out \in Seq(Services) /\ Len(out) \in Nat /\ Len(out) <= OutCap /\ OutCap \in Nat
  BY WatcherConstants DEF TypeOK
<1>2. CASE ~stopped /\ Len(out) < OutCap
  <2>1. out' = Append(out, s)
    BY <1>2 DEF Send
  <2>2. Append(out, s) \in Seq(Services) /\ Len(Append(out, s)) = Len(out) + 1
    BY <1>1
  <2> QED
    BY <1>1, <1>2, <2>1, <2>2
<1>3. CASE ~(~stopped /\ Len(out) < OutCap)
  BY <1>1, <1>3 DEF Send
<1> QED
  BY <1>2, <1>3

\* A receive leaves a channel of services within its capacity.
LEMMA ReceiveType ==
    ASSUME NEW q \in Seq(Services), q # <<>>
    PROVE  Head(q) \in Services /\ Tail(q) \in Seq(Services) /\ Len(Tail(q)) = Len(q) - 1
           /\ Len(q) \in Nat
  OBVIOUS

\* A change of a service, announced or not.
LEMMA ChangeIInv ==
    ASSUME IInv, NEW s \in Services, Change(s)
    PROVE  IInv'
<1>1. /\ labels' \in [Services -> Labels]
      /\ UNCHANGED <<stream, watcher, out, reading, managed, owed, running, reply, stopped>>
  BY DEF Change, queue, IInv, TypeOK
<1>2. inflight' \in Seq(Services) /\ Len(inflight') <= StreamCap
  <2>1. /\ inflight \in Seq(Services) /\ Len(inflight) \in Nat /\ Len(inflight) <= StreamCap
        /\ StreamCap \in Nat
    BY WatcherConstants DEF IInv, TypeOK
  <2>2. Append(inflight, s) \in Seq(Services) /\ Len(Append(inflight, s)) = Len(inflight) + 1
    BY <2>1
  <2>3. \/ inflight' = inflight
        \/ Len(inflight) < StreamCap /\ inflight' = Append(inflight, s)
    BY DEF Change
  <2> QED
    BY <2>1, <2>2, <2>3
<1> QED
  BY <1>1, <1>2 DEF IInv, TypeOK, ReadsWhileRunning

\* The end of a stream keeps a prefix of what was on it.
LEMMA BreakIInv ==
    ASSUME IInv, Break
    PROVE  IInv'
<1>1. PICK n \in 0 .. Len(inflight) : inflight' = SubSeq(inflight, 1, n)
  BY DEF Break
<1>2. inflight \in Seq(Services) /\ Len(inflight) \in Nat /\ Len(inflight) <= StreamCap /\ StreamCap \in Nat
  BY WatcherConstants DEF IInv, TypeOK
<1>3. SubSeq(inflight, 1, n) \in Seq(Services) /\ Len(SubSeq(inflight, 1, n)) = n
  BY <1>2, SubSeqProperties
<1>4. inflight' \in Seq(Services) /\ Len(inflight') <= StreamCap
  BY <1>1, <1>2, <1>3
<1> QED
  BY <1>4 DEF Break, queue, IInv, TypeOK, ReadsWhileRunning

\* The steps of Watcher.Run.
LEMMA RunIInv ==
    ASSUME IInv, Run
    PROVE  IInv'
<1>1. UNCHANGED <<labels, reading, managed, owed, running, reply, stopped>>
  BY DEF Run, FullList, FullListKey, FullListSend, FullListNextKey, FullListDone, Tick, OnEvent,
         OnStreamEnd, Resubscribe, WatcherExit, queue
<1>2. stream' \in {"none", "live", "closed"}
  BY DEF Run, FullList, FullListKey, FullListSend, FullListNextKey, FullListDone, Tick, OnEvent,
         OnStreamEnd, Resubscribe, WatcherExit, IInv, TypeOK
<1>3. watcher' \in WatcherState
  <2>1. watcher \in WatcherState /\ watcher.ids \subseteq Services /\ watcher.seen \subseteq Services
        /\ watcher.keys \subseteq ListKeys
    BY DEF IInv, TypeOK, WatcherState
  <2>2. CASE FullListKey
    <3>1. PICK key \in watcher.keys :
             \/ watcher' = [watcher EXCEPT !.pc = "send", !.keys = @ \ {key},
                                !.ids = {s \in Services : labels[s] = key} \ watcher.seen]
             \/ watcher' = [watcher EXCEPT !.keys = @ \ {key}]
      BY <2>2 DEF FullListKey
    <3>2. /\ watcher.keys \ {key} \in SUBSET ListKeys
          /\ {s \in Services : labels[s] = key} \ watcher.seen \in SUBSET Services
      BY <2>1
    <3> QED
      BY <2>1, <3>1, <3>2 DEF WatcherState
  <2>3. ASSUME NEW s \in Services, FullListSend(s) PROVE watcher' \in WatcherState
    <3>1. watcher.ids \ {s} \in SUBSET Services /\ watcher.seen \cup {s} \in SUBSET Services
      BY <2>1
    <3> QED
      BY <2>1, <2>3, <3>1 DEF FullListSend, WatcherState
  <2>4. CASE FullListNextKey \/ WatcherExit
    BY <2>1, <2>4 DEF FullListNextKey, WatcherExit, WatcherState
  <2>5. CASE FullListDone \/ Tick
    <3>1. {} \in SUBSET ListKeys /\ ListKeys \in SUBSET ListKeys /\ {} \in SUBSET Services
      OBVIOUS
    <3>2. CASE FullListDone
      BY <3>1, <3>2 DEF FullListDone, Selecting, WatcherState
    <3>3. CASE Tick
      BY <3>1, <3>3 DEF Tick, Listing, WatcherState
    <3> QED
      BY <2>5, <3>2, <3>3
  <2>6. CASE OnEvent \/ OnStreamEnd \/ Resubscribe
    BY <2>1, <2>6 DEF OnEvent, OnStreamEnd, Resubscribe
  <2> QED
    BY <2>2, <2>3, <2>4, <2>5, <2>6 DEF Run, FullList
<1>4. /\ inflight' \in Seq(Services) /\ Len(inflight') <= StreamCap
      /\ out' \in Seq(Services) /\ Len(out') <= OutCap
  <2>1. TypeOK
    BY DEF IInv
  <2>2. CASE OnEvent
    <3>1. inflight \in Seq(Services) /\ inflight # <<>> /\ Len(inflight) <= StreamCap
          /\ StreamCap \in Nat /\ inflight' = Tail(inflight) /\ Send(Head(inflight))
      BY <2>2, WatcherConstants DEF OnEvent, IInv, TypeOK
    <3>2. Head(inflight) \in Services /\ Tail(inflight) \in Seq(Services)
          /\ Len(Tail(inflight)) = Len(inflight) - 1 /\ Len(inflight) \in Nat
      BY <3>1, ReceiveType
    <3> QED
      BY <2>1, <3>1, <3>2, SendType
  <2>3. ASSUME NEW s \in Services, FullListSend(s)
        PROVE  /\ inflight' \in Seq(Services) /\ Len(inflight') <= StreamCap
               /\ out' \in Seq(Services) /\ Len(out') <= OutCap
    BY <2>1, <2>3, SendType DEF FullListSend, TypeOK
  <2>4. CASE UNCHANGED <<inflight, out>>
    BY <2>1, <2>4 DEF TypeOK
  <2> QED
    BY <2>2, <2>3, <2>4 DEF Run, FullList, FullListKey, FullListNextKey, FullListDone, Tick,
                            OnStreamEnd, Resubscribe, WatcherExit
<1> QED
  BY <1>1, <1>2, <1>3, <1>4 DEF IInv, TypeOK, ReadsWhileRunning

\* The steps of the pump and of the workers, and the cancel.
LEMMA QueueIInv ==
    ASSUME IInv, Pump \/ Cancel \/ \E s \in Services : Begin(s) \/ EndOk(s) \/ EndFail(s)
    PROVE  IInv'
<1>1. CASE Pump
  <2>1. out \in Seq(Services) /\ out # <<>> /\ Len(out) <= OutCap /\ OutCap \in Nat /\ out' = Tail(out)
    BY <1>1, WatcherConstants DEF Pump, IInv, TypeOK
  <2>2. Head(out) \in Services /\ out' \in Seq(Services) /\ Len(out') <= OutCap
    BY <2>1, ReceiveType
  <2>3. /\ owed' \in SUBSET Services /\ running' = running /\ stopped' = stopped
        /\ reply' = <<Head(out), TRUE>> \/ reply' = <<Head(out), FALSE>>
    BY <1>1, <2>2 DEF Pump, W!Accept, W!Refuse, IInv, TypeOK
  <2>4. reply' \in W!Replies
    <3>1. \A h \in Services : <<h, TRUE>> \in W!Replies /\ <<h, FALSE>> \in W!Replies
      BY DEF W!Replies
    <3> QED
      BY <2>2, <2>3, <3>1
  <2> QED
    BY <1>1, <2>2, <2>3, <2>4 DEF Pump, IInv, TypeOK, ReadsWhileRunning
<1>2. CASE Cancel
  BY <1>2 DEF Cancel, W!Stop, IInv, TypeOK, ReadsWhileRunning
<1>3. ASSUME NEW s \in Services, Begin(s) \/ EndOk(s) \/ EndFail(s) PROVE IInv'
  <2>1. /\ owed' \in SUBSET Services /\ running' \in SUBSET Services
        /\ reading' \in [Services -> Labels \cup {"none"}] /\ managed' \in SUBSET Services
        /\ UNCHANGED <<labels, stream, inflight, watcher, out, reply, stopped>>
    BY <1>3 DEF Begin, EndOk, EndFail, W!Start, W!Finish, IInv, TypeOK
  <2>2. ReadsWhileRunning'
    <3>1. labels[s] # "none" /\ reading \in [Services -> Labels \cup {"none"}]
      BY DEF IInv, TypeOK, Labels
    <3> QED
      BY <1>3, <3>1 DEF Begin, EndOk, EndFail, W!Start, W!Finish, IInv, ReadsWhileRunning
  <2> QED
    BY <2>1, <2>2 DEF IInv, TypeOK
<1> QED
  BY <1>1, <1>2, <1>3

\* The invariant holds initially and every step keeps it.
LEMMA Inductive == Spec => []IInv
<1>1. Init => IInv
  <2> SUFFICES ASSUME Init PROVE IInv
    OBVIOUS
  <2>1. inflight \in Seq(Services) /\ Len(inflight) <= StreamCap /\ out \in Seq(Services) /\ Len(out) <= OutCap
    BY WatcherConstants DEF Init
  <2>2. watcher \in WatcherState
    BY DEF Init, Listing, WatcherState
  <2> QED
    BY <2>1, <2>2 DEF Init, W!Init, W!Replies, IInv, TypeOK, ReadsWhileRunning
<1>2. IInv /\ [Next]_vars => IInv'
  <2> SUFFICES ASSUME IInv, [Next]_vars PROVE IInv'
    OBVIOUS
  <2>1. CASE UNCHANGED vars
    BY <2>1 DEF vars, queue, IInv, TypeOK, ReadsWhileRunning
  <2> QED
    BY <2>1, ChangeIInv, BreakIInv, RunIInv, QueueIInv DEF Next, Terminated
<1> QED
  BY <1>1, <1>2, PTL DEF Spec

\* Type correctness: Out never holds more than OutCap requests and the stream
\* never more than StreamCap events, whoever sends and whatever fails.
THEOREM TypeCorrect == Spec => []TypeOK
  BY Inductive, PTL DEF IInv

\* A reconcile is in progress exactly on the services whose labels it has
\* read and not yet acted on.
THEOREM ReadingExact == Spec => []ReadsWhileRunning
  BY Inductive, PTL DEF IInv

\* The watcher, the pump and the workers use the queue only as Wakeup allows:
\* all that WorkQueue, which implements Wakeup, has to offer.
THEOREM PipelineKeepsContract == Spec => W!SafeSpec
<1>1. Init => W!Init
  BY DEF Init
<1>2. IInv /\ [Next]_vars => [W!Next]_(W!vars)
  <2> SUFFICES ASSUME IInv, [Next]_vars PROVE W!Next \/ UNCHANGED W!vars
    OBVIOUS
  <2>1. CASE Pump
    <3>1. Head(out) \in Services
      BY <2>1, ReceiveType DEF Pump, IInv, TypeOK
    <3> QED
      BY <2>1, <3>1 DEF Pump, W!Next
  <2>2. CASE Cancel \/ \E s \in Services : Begin(s) \/ EndOk(s) \/ EndFail(s)
    BY <2>2 DEF Cancel, Begin, EndOk, EndFail, W!Next
  <2>3. CASE UNCHANGED queue
    BY <2>3 DEF queue, W!vars
  <2> QED
    BY <2>1, <2>2, <2>3 DEF Next, Change, Break, Run, FullList, FullListKey, FullListSend,
         FullListNextKey, FullListDone, Tick, OnEvent, OnStreamEnd, Resubscribe, WatcherExit,
         Terminated, vars, queue
<1> QED
  BY <1>1, <1>2, Inductive, PTL DEF Spec, W!SafeSpec
=============================================================================

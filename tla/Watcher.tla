------------------------------- MODULE Watcher ------------------------------
(***************************************************************************)
(* From a change in the swarm to a reconcile: Docker's event stream, the    *)
(* Watcher (event loop, periodic full list, resubscription), its bounded    *)
(* Out channel, the pump of main.go, and the work queue.  The queue is      *)
(* taken at its promise, Wakeup, which WorkQueue implements; a reconcile is *)
(* its reading of the labels and, later, what it leaves of the service      *)
(* (Ingress and Egress model what is in between).                           *)
(*                                                                          *)
(* Nothing here blocks on a full channel: it drops.  The question is which  *)
(* drops are made good by a later full list.                                *)
(***************************************************************************)
EXTENDS Naturals, Sequences

CONSTANTS Services,
          OutCap,      \* capacity of the events channel between watcher and pump
          StreamCap,   \* bound on the events Docker has in flight on one stream
          Faults,      \* which of FaultKinds may happen
          QuietStart   \* the swarm does not change before the first subscription

FaultKinds == {"break",    \* the event stream ends
               "list",     \* a ListServices call fails
               "fail"}     \* a reconcile fails and changes nothing

ASSUME WatcherConstants == /\ OutCap \in Nat \ {0}
                           /\ StreamCap \in Nat \ {0}
                           /\ Faults \subseteq FaultKinds
                           /\ QuietStart \in BOOLEAN

VARIABLES labels,    \* what Docker holds for each service (external)
          stream,    \* the subscription: "none", "live", "closed"
          inflight,  \* events on the stream, oldest first
          watcher,   \* where Watcher.Run stands
          out,       \* the Out channel
          reading,   \* what the reconcile in progress read of each service
          managed,   \* services the daemon keeps a proxy or gateways for
          owed, running, reply, stopped  \* the queue, as in Wakeup

W == INSTANCE Wakeup

queue == <<owed, running, reply, stopped>>
vars  == <<labels, stream, inflight, watcher, out, reading, managed, queue>>

\* How a service opts in: <ns>.enable=true, <ns>.egress.enable=true, or one of
\* the other spellings isTrue takes (1, yes, on).
Labels   == {"ingress", "egress", "spelled", "off", "gone"}
OptedIn  == {"ingress", "egress", "spelled"}
ListKeys == {"ingress", "egress"}

\* pc "list": ListServices for the keys left; "send": the IDs one list returned.
WatcherState == [pc : {"select", "list", "send", "exited"},
                 keys : SUBSET ListKeys,     \* label keys still to list
                 ids : SUBSET Services,      \* listed and not yet sent
                 seen : SUBSET Services,     \* sent by this full list
                 started : BOOLEAN]          \* the first fullList is over

Listing(started) == [pc |-> "list", keys |-> ListKeys, ids |-> {}, seen |-> {}, started |-> started]
Selecting        == [pc |-> "select", keys |-> {}, ids |-> {}, seen |-> {}, started |-> TRUE]

\* Run lists before it subscribes.
Init == /\ labels \in [Services -> Labels \ {"gone"}]
        /\ stream = "none"
        /\ inflight = <<>>
        /\ watcher = Listing(FALSE)
        /\ out = <<>>
        /\ reading = [s \in Services |-> "none"]
        /\ managed = {}
        /\ W!Init
-----------------------------------------------------------------------------
(* Docker *)

\* A change is announced on the stream that is live when it happens.
Change(s) ==
    /\ QuietStart => watcher.started
    /\ labels[s] # "gone"
    /\ \E l \in Labels \ {labels[s]} : labels' = [labels EXCEPT ![s] = l]
    /\ IF stream = "live"
       THEN /\ Len(inflight) < StreamCap
            /\ inflight' = Append(inflight, s)
       ELSE UNCHANGED inflight
    /\ UNCHANGED <<stream, watcher, out, reading, managed, queue>>

\* The stream ends, or the context closes it: what Subscribe's goroutine had
\* taken over can still be read, what it had not is lost.
Break == /\ "break" \in Faults \/ stopped
         /\ stream = "live"
         /\ stream' = "closed"
         /\ \E n \in 0 .. Len(inflight) : inflight' = SubSeq(inflight, 1, n)
         /\ UNCHANGED <<labels, watcher, out, reading, managed, queue>>
-----------------------------------------------------------------------------
(* Watcher *)

\* Mutant of Send: a channel without a capacity.
SendUnbounded(s) == out' = IF stopped THEN out ELSE Append(out, s)

\* send: never blocks, and drops when Out is full or the context is cancelled.
Send(s) == out' = IF ~stopped /\ Len(out) < OutCap THEN Append(out, s) ELSE out

\* Mutant of FullListKey: the egress opt-in label is not listed.
FullListIngressOnly ==
    /\ watcher.pc = "list"
    /\ watcher.keys # {}
    /\ \/ watcher' = [watcher EXCEPT !.pc = "send", !.keys = {},
                                     !.ids = {s \in Services : labels[s] = "ingress"}]
       \/ /\ "list" \in Faults \/ stopped
          /\ watcher' = [watcher EXCEPT !.keys = {}]
    /\ UNCHANGED <<labels, stream, inflight, out, reading, managed, queue>>

\* fullList: one ListServices per opt-in key; an error skips that key.
FullListKey ==
    /\ watcher.pc = "list"
    /\ \E key \in watcher.keys :
        /\ key = "egress" => "ingress" \notin watcher.keys
        /\ \/ watcher' = [watcher EXCEPT !.pc = "send", !.keys = @ \ {key},
                              !.ids = {s \in Services : labels[s] = key} \ watcher.seen]
           \/ /\ "list" \in Faults \/ stopped
              /\ watcher' = [watcher EXCEPT !.keys = @ \ {key}]
    /\ UNCHANGED <<labels, stream, inflight, out, reading, managed, queue>>

\* Mutant of FullListSend: a full Out makes the watcher wait.
FullListSendBlocks(s) ==
    /\ watcher.pc = "send"
    /\ s \in watcher.ids
    /\ IF Len(out) < OutCap
       THEN /\ out' = Append(out, s)
            /\ watcher' = [watcher EXCEPT !.ids = @ \ {s}, !.seen = @ \cup {s}]
       ELSE UNCHANGED <<out, watcher>>
    /\ UNCHANGED <<labels, stream, inflight, reading, managed, queue>>

FullListSend(s) ==
    /\ watcher.pc = "send"
    /\ s \in watcher.ids
    /\ Send(s)
    /\ watcher' = [watcher EXCEPT !.ids = @ \ {s}, !.seen = @ \cup {s}]
    /\ UNCHANGED <<labels, stream, inflight, reading, managed, queue>>

FullListNextKey ==
    /\ watcher.pc = "send"
    /\ watcher.ids = {}
    /\ watcher' = [watcher EXCEPT !.pc = "list"]
    /\ UNCHANGED <<labels, stream, inflight, out, reading, managed, queue>>

\* The full list is over; after the first one Run subscribes.
FullListDone ==
    /\ watcher.pc = "list"
    /\ watcher.keys = {}
    /\ watcher' = Selecting
    /\ stream' = IF watcher.started THEN stream ELSE "live"
    /\ UNCHANGED <<labels, inflight, out, reading, managed, queue>>

\* Run's select: the resync ticker, an event, the end of the stream, the
\* resubscribe timer, the context.
Tick == /\ watcher.pc = "select"
        /\ watcher' = Listing(TRUE)
        /\ UNCHANGED <<labels, stream, inflight, out, reading, managed, queue>>

OnEvent == /\ watcher.pc = "select"
           /\ stream # "none"
           /\ inflight # <<>>
           /\ Send(Head(inflight))
           /\ inflight' = Tail(inflight)
           /\ UNCHANGED <<labels, stream, watcher, reading, managed, queue>>

OnStreamEnd == /\ watcher.pc = "select"
               /\ stream = "closed"
               /\ inflight = <<>>
               /\ stream' = "none"
               /\ UNCHANGED <<labels, inflight, watcher, out, reading, managed, queue>>

\* The new stream carries what happens from now on; nothing is listed here.
Resubscribe == /\ watcher.pc = "select"
               /\ stream = "none"
               /\ stream' = "live"
               /\ UNCHANGED <<labels, inflight, watcher, out, reading, managed, queue>>

\* Mutant of WatcherExit: ctx.Done leaves the select and not the loop.
WatcherExitBreaks == /\ watcher.pc = "select"
                     /\ stopped
                     /\ UNCHANGED vars

WatcherExit == /\ watcher.pc = "select"
               /\ stopped
               /\ watcher' = [watcher EXCEPT !.pc = "exited"]
               /\ UNCHANGED <<labels, stream, inflight, out, reading, managed, queue>>
-----------------------------------------------------------------------------
(* The pump of main.go, the queue, and Reconcile *)

\* The pump hands one ID to Enqueue, which takes or refuses it.
Pump == /\ out # <<>>
        /\ ~stopped
        /\ out' = Tail(out)
        /\ W!Accept(Head(out)) \/ W!Refuse(Head(out))
        /\ UNCHANGED <<labels, stream, inflight, watcher, reading, managed>>

\* A worker starts a reconcile, which inspects the service.
Begin(s) == /\ W!Start(s)
            /\ reading' = [reading EXCEPT ![s] = labels[s]]
            /\ UNCHANGED <<labels, stream, inflight, watcher, out, managed>>

\* It ends: the service is served if it was read as opted in, torn down if not.
EndOk(s) == /\ W!Finish(s)
            /\ reading' = [reading EXCEPT ![s] = "none"]
            /\ managed' = IF reading[s] \in OptedIn THEN managed \cup {s} ELSE managed \ {s}
            /\ UNCHANGED <<labels, stream, inflight, watcher, out>>

\* Or it fails, or is cut short by a cancelled context.
EndFail(s) == /\ "fail" \in Faults \/ stopped
              /\ W!Finish(s)
              /\ reading' = [reading EXCEPT ![s] = "none"]
              /\ UNCHANGED <<labels, stream, inflight, watcher, out, managed>>

Cancel == /\ ~stopped
          /\ W!Stop
          /\ UNCHANGED <<labels, stream, inflight, watcher, out, reading, managed>>
-----------------------------------------------------------------------------
FullList == FullListKey \/ (\E s \in Services : FullListSend(s)) \/ FullListNextKey \/ FullListDone

Run == FullList \/ Tick \/ OnEvent \/ OnStreamEnd \/ Resubscribe \/ WatcherExit

Terminated == watcher.pc = "exited" /\ UNCHANGED vars

Next == \/ \E s \in Services : Change(s) \/ Begin(s) \/ EndOk(s) \/ EndFail(s)
        \/ Break \/ Run \/ Pump \/ Cancel \/ Terminated

\* The watcher's goroutine runs and its select is fair to the ticker: Go picks
\* among the ready cases at random, and the ticker is ready every interval.
WatcherFairness == WF_vars(FullList) /\ SF_vars(Tick) /\ SF_vars(OnEvent) /\ SF_vars(WatcherExit)

\* The ListServices for this key succeeds.
Listed(key) == /\ FullListKey
               /\ watcher'.pc = "send"
               /\ watcher.keys \ watcher'.keys = {key}

\* The pump and the workers run; a reconcile that keeps failing, a full list
\* that keeps failing and a queue that keeps refusing recover in the end.
PipelineFairness == /\ \A key \in ListKeys : SF_vars(Listed(key))
                    /\ \A s \in Services : /\ SF_vars(Pump /\ W!Accept(s))
                                           /\ SF_vars(FullListSend(s) /\ out' # out)
                                           /\ WF_vars(~stopped /\ Begin(s))
                                           /\ SF_vars(EndOk(s))

Spec == Init /\ [][Next]_vars /\ WatcherFairness /\ PipelineFairness
-----------------------------------------------------------------------------
(* Properties *)

\* Type invariant: Out holds at most OutCap IDs.
TypeOK == /\ labels \in [Services -> Labels]
          /\ stream \in {"none", "live", "closed"}
          /\ inflight \in Seq(Services) /\ Len(inflight) <= StreamCap
          /\ watcher \in WatcherState
          /\ out \in Seq(Services) /\ Len(out) <= OutCap
          /\ reading \in [Services -> Labels \cup {"none"}]
          /\ managed \in SUBSET Services
          /\ owed \in SUBSET Services /\ running \in SUBSET Services
          /\ reply \in W!Replies /\ stopped \in BOOLEAN

\* A service that opts in and keeps its labels is in the end managed for good,
\* even if its event was missed or dropped, its request refused and its first
\* reconciles failed: the resync keeps listing it (when its label says true).
OptInIsServed == \A s \in Services :
    <>[][labels' = labels]_vars => <>[](labels[s] \in ListKeys /\ ~stopped => s \in managed)

\* The resync never dies: with the pump and every worker stuck and Out full, a
\* full list still has a step to take, so the watcher gets back to its ticker.
FullListNeverBlocks == watcher.pc \in {"list", "send"} => ENABLED <<FullList>>_vars

\* A cancelled watcher returns.
WatcherStops == stopped ~> watcher.pc = "exited"

\* "The work is delayed, not lost": a service that was removed or opted out is
\* in the end torn down, however its event fared.
OptOutIsTornDown == \A s \in Services :
    <>[](labels[s] \in {"off", "gone"} /\ ~stopped) => <>[](s \notin managed)
=============================================================================

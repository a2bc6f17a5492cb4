------------------------------ MODULE Ingress -------------------------------
(***************************************************************************)
(* Reconcile as a whole on the Store entry of a service: the ingress half   *)
(* (one in-process tsnet proxy per service and the single-use Headscale key *)
(* it was started with), then the egress half at its effect on the entry    *)
(* (Egress models what it does to the swarm), and CloseAll racing the       *)
(* workers at shutdown.                                                     *)
(*                                                                          *)
(* A service has at most one reconcile in progress (WorkQueue proves it);   *)
(* reconciles of different services, main's CloseAll, label changes and key *)
(* expiry interleave at every call that leaves the process or takes the     *)
(* store's lock.  A proxy is named by the key it registered with.  An       *)
(* absent store entry and a zero one are the same to every reader, and no   *)
(* Put stores a zero one, so entries are kept for all services.             *)
(***************************************************************************)
EXTENDS Naturals, FiniteSets

CONSTANTS Services,    \* Swarm service IDs
          Configs,     \* proxy configurations, as proxyHash tells them apart
          Absent,      \* removed, not opted in, or malformed: a full teardown
          Keys,        \* preauth keys, and the proxies started with them
          None,        \* no key, no proxy, no configuration
          MaxRestarts  \* bound on the daemon processes after the first

ASSUME IngressConstants ==
    /\ None \notin Configs
    /\ None \notin Keys
    /\ Absent \notin [ing : Configs \cup {None}, eg : BOOLEAN]
    /\ MaxRestarts \in Nat

VARIABLES labels,    \* what Docker holds for each service (external)
          valid,     \* keys Headscale would still accept (external)
          live,      \* proxies that are running
          store,     \* the Store
          job,       \* the reconcile in progress on each service
          closer,    \* where main stands in its shutdown sequence
          ctxDone,   \* the root context is cancelled
          restarts,  \* daemon processes started after the first
          givenUp    \* history: keys the code has stopped tracking unexpired

vars == <<labels, valid, live, store, job, closer, ctxDone, restarts, givenUp>>

\* What Parse makes of the labels: ingress with a configuration, egress, or both.
Specs    == [ing : Configs \cup {None}, eg : BOOLEAN] \ {[ing |-> None, eg |-> FALSE]}
Readings == Specs \cup {Absent}

\* Two of the fields are the egress half's: whether the entry has gateway refs,
\* and whether it has a GatewayHash, which it may without any ref.
Entry == [proxy : Keys \cup {None}, hash : Configs \cup {None}, key : Keys \cup {None},
          gws : BOOLEAN, gwHash : BOOLEAN]
Empty == [proxy |-> None, hash |-> None, key |-> None, gws |-> FALSE, gwHash |-> FALSE]

IngressPCs == {"get", "fastPut", "mint", "start", "rollback", "swap", "closePrev", "expirePrev",
               "close", "expire", "clear"}
EgressPCs  == {"egGet", "egPut", "egClear"}
PCs        == IngressPCs \cup EgressPCs \cup {"idle", "delete"}

Job  == [pc : PCs, want : Readings \cup {None}, prev : Entry, key : Keys \cup {None}]
Idle == [pc |-> "idle", want |-> None, prev |-> Empty, key |-> None]

Closer  == [pc : {"running", "next", "deleting", "waiting", "exited"},
            snap : [Services -> Entry], todo : SUBSET Services, cur : Services \cup {None}]
Running == [pc |-> "running", snap |-> [s \in Services |-> Empty], todo |-> {}, cur |-> None]

Init == /\ labels \in [Services -> Readings]
        /\ valid = {}
        /\ live = {}
        /\ store = [s \in Services |-> Empty]
        /\ job = [s \in Services |-> Idle]
        /\ closer = Running
        /\ ctxDone = FALSE
        /\ restarts = 0
        /\ givenUp = {}

\* The reconcile of s goes on at pc.
Goto(s, pc) == job' = [job EXCEPT ![s].pc = pc]
Done(s)     == job' = [job EXCEPT ![s] = Idle]

\* The ingress half returns, with an error or without, and the egress half runs.
EndIngress(s) == job' = [job EXCEPT ![s] = [Idle EXCEPT !.pc = "egGet", !.want = job[s].want]]

\* teardown drops the entry whatever its two halves did.
EndEgress(s) == IF job[s].want = Absent THEN Goto(s, "delete") ELSE Done(s)

WantsIngress(s) == job[s].want \in Specs /\ job[s].want.ing # None
WantsEgress(s)  == job[s].want \in Specs /\ job[s].want.eg

\* A key no part of the system remembers: Headscale never hands one out twice.
Fresh(k) == /\ k \notin valid \cup live \cup givenUp
            /\ \A s \in Services : k \notin {store[s].key, store[s].proxy, job[s].key,
                                             job[s].prev.key, job[s].prev.proxy,
                                             closer.snap[s].proxy}
FreshKeys == {k \in Keys : Fresh(k)}
FreshKey  == CHOOSE k \in FreshKeys : TRUE
-----------------------------------------------------------------------------
(* The environment *)

\* A deploy, a label edit or a removal.  Only Inspect reads the labels, so an
\* edit in the course of a reconcile is one made at its end.
Relabel(s) == \E r \in Readings \ {labels[s]} :
    /\ job[s].pc = "idle"
    /\ labels' = [labels EXCEPT ![s] = r]
    /\ UNCHANGED <<valid, live, store, job, closer, ctxDone, restarts, givenUp>>

\* A key runs out by itself (key_expiration), used or not.
Lapse(k) == /\ k \in valid
            /\ valid' = valid \ {k}
            /\ givenUp' = givenUp \ {k}
            /\ UNCHANGED <<labels, live, store, job, closer, ctxDone, restarts>>
-----------------------------------------------------------------------------
(* Reconcile *)

\* Mutant of Inspect: a cancelled context is not noticed.
InspectAfterCancel(s) ==
    /\ job[s].pc = "idle"
    /\ closer.pc # "exited"
    /\ job' = [job EXCEPT ![s] = [Idle EXCEPT !.pc = "get", !.want = labels[s]]]
    /\ UNCHANGED <<labels, valid, live, store, closer, ctxDone, restarts, givenUp>>

\* InspectService, ListNetworks and Parse, each of which reads Docker once.
\* An error other than not-found ends the reconcile with nothing changed, and
\* a cancelled context is such an error.
Inspect(s) ==
    /\ job[s].pc = "idle"
    /\ closer.pc # "exited"
    /\ ~ctxDone
    /\ job' = [job EXCEPT ![s] = [Idle EXCEPT !.pc = "get", !.want = labels[s]]]
    /\ UNCHANGED <<labels, valid, live, store, closer, ctxDone, restarts, givenUp>>

\* Mutant of GetIngress: no fast path.
GetIngressAlwaysMints(s) ==
    /\ job[s].pc = "get"
    /\ WantsIngress(s)
    /\ job' = [job EXCEPT ![s].prev = store[s], ![s].pc = "mint"]
    /\ UNCHANGED <<labels, valid, live, store, closer, ctxDone, restarts, givenUp>>

\* Mutant of GetIngress: a running proxy is enough for the fast path.
GetIngressIgnoresHash(s) ==
    /\ job[s].pc = "get"
    /\ WantsIngress(s)
    /\ job' = [job EXCEPT ![s].prev = store[s],
                          ![s].pc = IF store[s].proxy # None THEN "fastPut" ELSE "mint"]
    /\ UNCHANGED <<labels, valid, live, store, closer, ctxDone, restarts, givenUp>>

\* Store.Get at the head of reconcileIngress: unchanged and running is a no-op.
GetIngress(s) ==
    /\ job[s].pc = "get"
    /\ WantsIngress(s)
    /\ LET prev == store[s] IN
       job' = [job EXCEPT ![s].prev = prev,
                          ![s].pc = IF prev.hash = job[s].want.ing /\ prev.proxy # None
                                    THEN "fastPut" ELSE "mint"]
    /\ UNCHANGED <<labels, valid, live, store, closer, ctxDone, restarts, givenUp>>

\* The fast path rewrites the entry it read (LastReconcileAt).
FastPut(s) ==
    /\ job[s].pc = "fastPut"
    /\ store' = [store EXCEPT ![s] = job[s].prev]
    /\ EndIngress(s)
    /\ UNCHANGED <<labels, valid, live, closer, ctxDone, restarts, givenUp>>

\* Limiter.Wait and CreateEphemeralKey.
MintOk(s) ==
    /\ job[s].pc = "mint"
    /\ FreshKeys # {}
    /\ valid' = valid \cup {FreshKey}
    /\ job' = [job EXCEPT ![s].pc = "start", ![s].key = FreshKey]
    /\ UNCHANGED <<labels, live, store, closer, ctxDone, restarts, givenUp>>

\* Mutant of MintFail: the error is not looked at.
MintFailIgnored(s) ==
    /\ job[s].pc = "mint"
    /\ Goto(s, "start")
    /\ UNCHANGED <<labels, valid, live, store, closer, ctxDone, restarts, givenUp>>

\* The limiter or the call fails, or Headscale minted a key whose answer was lost.
MintFail(s) ==
    /\ job[s].pc = "mint"
    /\ \/ UNCHANGED <<valid, givenUp>>
       \/ /\ FreshKeys # {}
          /\ valid' = valid \cup {FreshKey}
          /\ givenUp' = givenUp \cup {FreshKey}
    /\ EndIngress(s)
    /\ UNCHANGED <<labels, live, store, closer, ctxDone, restarts>>

\* NewProxy, bounded by tsnetStartTimeout.
StartOk(s) ==
    /\ job[s].pc = "start"
    /\ live' = live \cup {job[s].key}
    /\ Goto(s, "swap")
    /\ UNCHANGED <<labels, valid, store, closer, ctxDone, restarts, givenUp>>

\* Mutant of StartFail: the old proxy is closed although no new one started.
StartFailClosesPrev(s) ==
    /\ job[s].pc = "start"
    /\ live' = live \ {job[s].prev.proxy}
    /\ Goto(s, "rollback")
    /\ UNCHANGED <<labels, valid, store, closer, ctxDone, restarts, givenUp>>

StartFail(s) ==
    /\ job[s].pc = "start"
    /\ Goto(s, "rollback")
    /\ UNCHANGED <<labels, valid, live, store, closer, ctxDone, restarts, givenUp>>

\* ExpireKey as expireOrLog calls it: a failure is logged and forgotten.
ExpireOrGiveUp(k) == \/ /\ valid' = valid \ {k}
                        /\ givenUp' = givenUp \ {k}
                     \/ /\ givenUp' = givenUp \cup ({k} \cap valid)
                        /\ UNCHANGED valid

Rollback(s) ==
    /\ job[s].pc = "rollback"
    /\ ExpireOrGiveUp(job[s].key)
    /\ EndIngress(s)
    /\ UNCHANGED <<labels, live, store, closer, ctxDone, restarts>>

\* Mutant of Swap: the displaced proxy is forgotten.
SwapForgetsPrev(s) ==
    /\ job[s].pc = "swap"
    /\ store' = [store EXCEPT ![s] = [job[s].prev EXCEPT !.proxy = job[s].key, !.key = job[s].key,
                                                         !.hash = job[s].want.ing]]
    /\ EndIngress(s)
    /\ UNCHANGED <<labels, valid, live, closer, ctxDone, restarts, givenUp>>

\* Store.Put of the entry naming the new proxy.
Swap(s) ==
    /\ job[s].pc = "swap"
    /\ store' = [store EXCEPT ![s] = [job[s].prev EXCEPT !.proxy = job[s].key, !.key = job[s].key,
                                                         !.hash = job[s].want.ing]]
    /\ IF job[s].prev.proxy # None THEN Goto(s, "closePrev") ELSE EndIngress(s)
    /\ UNCHANGED <<labels, valid, live, closer, ctxDone, restarts, givenUp>>

\* Mutant of ClosePrev: the old key is not rotated out.
ClosePrevKeepsKey(s) ==
    /\ job[s].pc = "closePrev"
    /\ live' = live \ {job[s].prev.proxy}
    /\ EndIngress(s)
    /\ UNCHANGED <<labels, valid, store, closer, ctxDone, restarts, givenUp>>

ClosePrev(s) ==
    /\ job[s].pc = "closePrev"
    /\ live' = live \ {job[s].prev.proxy}
    /\ IF job[s].prev.key # None THEN Goto(s, "expirePrev") ELSE EndIngress(s)
    /\ UNCHANGED <<labels, valid, store, closer, ctxDone, restarts, givenUp>>

ExpirePrev(s) ==
    /\ job[s].pc = "expirePrev"
    /\ ExpireOrGiveUp(job[s].prev.key)
    /\ EndIngress(s)
    /\ UNCHANGED <<labels, live, store, closer, ctxDone, restarts>>
-----------------------------------------------------------------------------
(* teardownIngress, alone or as the first part of teardown *)

GetTeardown(s) ==
    /\ job[s].pc = "get"
    /\ ~WantsIngress(s)
    /\ LET prev == store[s] IN
       IF prev.proxy = None /\ prev.key = None
       THEN EndIngress(s)
       ELSE job' = [job EXCEPT ![s].prev = prev,
                               ![s].pc = IF prev.proxy # None THEN "close" ELSE "expire"]
    /\ UNCHANGED <<labels, valid, live, store, closer, ctxDone, restarts, givenUp>>

Close(s) ==
    /\ job[s].pc = "close"
    /\ live' = live \ {job[s].prev.proxy}
    /\ Goto(s, IF job[s].prev.key # None THEN "expire" ELSE "clear")
    /\ UNCHANGED <<labels, valid, store, closer, ctxDone, restarts, givenUp>>

\* Limiter.Wait fails only once the context is cancelled, and then
\* teardownIngress returns before it expires the key and clears the entry.
WaitFail(s) ==
    /\ job[s].pc = "expire"
    /\ ctxDone
    /\ EndIngress(s)
    /\ UNCHANGED <<labels, valid, live, store, closer, ctxDone, restarts, givenUp>>

\* Mutant of Expire: a failed ExpireKey ends the teardown early.
ExpireReturnsEarly(s) ==
    /\ job[s].pc = "expire"
    /\ \/ /\ valid' = valid \ {job[s].prev.key}
          /\ givenUp' = givenUp \ {job[s].prev.key}
          /\ Goto(s, "clear")
       \/ /\ UNCHANGED <<valid, givenUp>>
          /\ EndIngress(s)
    /\ UNCHANGED <<labels, live, store, closer, ctxDone, restarts>>

Expire(s) ==
    /\ job[s].pc = "expire"
    /\ ExpireOrGiveUp(job[s].prev.key)
    /\ Goto(s, "clear")
    /\ UNCHANGED <<labels, live, store, closer, ctxDone, restarts>>

\* Mutant of Clear: the entry is deleted, gateway refs or not.
ClearDeletes(s) ==
    /\ job[s].pc = "clear"
    /\ store' = [store EXCEPT ![s] = Empty]
    /\ EndIngress(s)
    /\ UNCHANGED <<labels, valid, live, closer, ctxDone, restarts, givenUp>>

\* The ingress fields of the entry read are zeroed and the rest put back, or
\* the entry deleted when it has no gateway refs, a GatewayHash with it.
Clear(s) ==
    /\ job[s].pc = "clear"
    /\ store' = [store EXCEPT ![s] =
          IF job[s].prev.gws
          THEN [job[s].prev EXCEPT !.proxy = None, !.hash = None, !.key = None]
          ELSE Empty]
    /\ EndIngress(s)
    /\ UNCHANGED <<labels, valid, live, closer, ctxDone, restarts, givenUp>>
-----------------------------------------------------------------------------
(* The egress half on the store entry *)

\* Store.Get at the head of reconcileEgress and of teardownEgress, which has
\* nothing to do without gateway refs and then leaves a GatewayHash in place.
GetEgress(s) ==
    /\ job[s].pc = "egGet"
    /\ IF WantsEgress(s) \/ store[s].gws
       THEN job' = [job EXCEPT ![s].prev = store[s],
                               ![s].pc = IF WantsEgress(s) THEN "egPut" ELSE "egClear"]
       ELSE EndEgress(s)
    /\ UNCHANGED <<labels, valid, live, store, closer, ctxDone, restarts, givenUp>>

\* reconcileEgress puts the entry it read back, with the refs it ended up with,
\* if any, and the desired hash even so; the fast path, of an entry that has
\* that hash, puts it back as it was.
PutEgress(s) ==
    /\ job[s].pc = "egPut"
    /\ \E some \in BOOLEAN :
          store' = [store EXCEPT ![s] = [job[s].prev EXCEPT !.gws = some, !.gwHash = TRUE]]
    /\ EndEgress(s)
    /\ UNCHANGED <<labels, valid, live, closer, ctxDone, restarts, givenUp>>

\* No gateway image, or the gateways cannot be listed: an error before the Put.
FailEgress(s) ==
    /\ job[s].pc = "egPut"
    /\ EndEgress(s)
    /\ UNCHANGED <<labels, valid, live, store, closer, ctxDone, restarts, givenUp>>

\* teardownEgress, the gateways removed: refs and hash are zeroed and the rest
\* put back, or the entry deleted when it has no proxy.
ClearEgress(s) ==
    /\ job[s].pc = "egClear"
    /\ store' = [store EXCEPT ![s] = IF job[s].prev.proxy = None THEN Empty
                                     ELSE [job[s].prev EXCEPT !.gws = FALSE, !.gwHash = FALSE]]
    /\ EndEgress(s)
    /\ UNCHANGED <<labels, valid, live, closer, ctxDone, restarts, givenUp>>

\* teardown's Store.Delete; an entry still naming a key loses it unexpired.
Delete(s) ==
    /\ job[s].pc = "delete"
    /\ store' = [store EXCEPT ![s] = Empty]
    /\ givenUp' = givenUp \cup ({store[s].key} \cap valid)
    /\ Done(s)
    /\ UNCHANGED <<labels, valid, live, closer, ctxDone, restarts>>
-----------------------------------------------------------------------------
(* Shutdown: main cancels, runs CloseAll, waits for the workers, returns *)

Cancel == /\ ~ctxDone
          /\ ctxDone' = TRUE
          /\ UNCHANGED <<labels, valid, live, store, job, closer, restarts, givenUp>>

\* CloseAll's Store.Snapshot.
Snapshot ==
    /\ closer.pc = "running"
    /\ ctxDone
    /\ closer' = [pc |-> "next", snap |-> store, todo |-> {s \in Services : store[s] # Empty},
                  cur |-> None]
    /\ UNCHANGED <<labels, valid, live, store, job, ctxDone, restarts, givenUp>>

CloseOne(s) ==
    /\ closer.pc = "next"
    /\ s \in closer.todo
    /\ live' = live \ {closer.snap[s].proxy}
    /\ closer' = [closer EXCEPT !.pc = "deleting", !.todo = @ \ {s}, !.cur = s]
    /\ UNCHANGED <<labels, valid, store, job, ctxDone, restarts, givenUp>>

\* The keys are left to lapse.
DeleteOne ==
    /\ closer.pc = "deleting"
    /\ store' = [store EXCEPT ![closer.cur] = Empty]
    /\ givenUp' = givenUp \cup ({store[closer.cur].key} \cap valid)
    /\ closer' = [closer EXCEPT !.pc = "next", !.cur = None]
    /\ UNCHANGED <<labels, valid, live, job, ctxDone, restarts>>

CloseAllReturns ==
    /\ closer.pc = "next"
    /\ closer.todo = {}
    /\ closer' = [Running EXCEPT !.pc = "waiting"]
    /\ UNCHANGED <<labels, valid, live, store, job, ctxDone, restarts, givenUp>>

\* wg.Wait returns when no worker is inside a reconcile.
Exit == /\ closer.pc = "waiting"
        /\ \A s \in Services : job[s].pc = "idle"
        /\ closer' = [closer EXCEPT !.pc = "exited"]
        /\ UNCHANGED <<labels, valid, live, store, job, ctxDone, restarts, givenUp>>

\* A new process after an exit or a crash: everything in memory is gone.
Restart ==
    /\ restarts < MaxRestarts
    /\ restarts' = restarts + 1
    /\ live' = {}
    /\ store' = [s \in Services |-> Empty]
    /\ job' = [s \in Services |-> Idle]
    /\ closer' = Running
    /\ ctxDone' = FALSE
    /\ givenUp' = givenUp \cup valid
    /\ UNCHANGED <<labels, valid>>

Terminated == closer.pc = "exited" /\ UNCHANGED vars
-----------------------------------------------------------------------------
Reconcile(s) ==
    \/ Inspect(s) \/ GetIngress(s) \/ FastPut(s) \/ MintOk(s) \/ MintFail(s)
    \/ StartOk(s) \/ StartFail(s) \/ Rollback(s) \/ Swap(s) \/ ClosePrev(s) \/ ExpirePrev(s)
    \/ GetTeardown(s) \/ Close(s) \/ WaitFail(s) \/ Expire(s) \/ Clear(s)
    \/ GetEgress(s) \/ PutEgress(s) \/ FailEgress(s) \/ ClearEgress(s) \/ Delete(s)

CloseAll == Snapshot \/ (\E s \in Services : CloseOne(s)) \/ DeleteOne \/ CloseAllReturns \/ Exit

Next == \/ \E s \in Services : Relabel(s) \/ Reconcile(s)
        \/ \E k \in Keys : Lapse(k)
        \/ Cancel \/ CloseAll \/ Restart \/ Terminated

\* Every call returns (Headscale's client and the tsnet start have timeouts);
\* the periodic resync starts a reconcile of every opted-in service again and
\* again, and of no other; Headscale and the tailnet are not down for ever; and
\* an unexpired key runs out.
Fairness == /\ \A s \in Services :
                 /\ WF_vars((job[s].pc # "idle" \/ labels[s] # Absent) /\ Reconcile(s))
                 /\ SF_vars(MintOk(s))
                 /\ SF_vars(StartOk(s))
            /\ \A k \in Keys : WF_vars(k \in givenUp /\ Lapse(k))
            /\ WF_vars(CloseAll)

Spec     == Init /\ [][Next]_vars
FairSpec == Spec /\ Fairness
-----------------------------------------------------------------------------
(* Properties *)

\* Type invariant.
TypeOK == /\ labels \in [Services -> Readings]
          /\ valid \in SUBSET Keys
          /\ live \in SUBSET Keys
          /\ store \in [Services -> Entry]
          /\ job \in [Services -> Job]
          /\ closer \in Closer
          /\ ctxDone \in BOOLEAN
          /\ restarts \in 0 .. MaxRestarts
          /\ givenUp \in SUBSET Keys

\* The reconcile of s has closed, or is closing, the proxy its entry names.
TearingDown(s) == job[s].pc \in {"expire", "clear"}

\* Until shutdown, a proxy in the store is a running one, except in the window
\* of a teardown between Close and the end of the entry: the fast path trusts
\* the entry and would otherwise never restart the service.
StoredProxyIsLive == ~ctxDone => \A s \in Services :
    store[s].proxy # None /\ ~TearingDown(s) => store[s].proxy \in live

\* The proxies the reconcile of s has in hand: started and not yet stored, or
\* displaced and not yet closed.
InHand(s) == {k \in Keys : \/ job[s].pc = "swap" /\ job[s].key = k
                           \/ job[s].pc \in {"closePrev", "close"} /\ job[s].prev.proxy = k}

\* No proxy leaks: until shutdown each running proxy is in the store or in the
\* hands of a reconcile that will store or close it.
NoLeakedProxy == ~ctxDone => \A k \in live :
    \E s \in Services : store[s].proxy = k \/ k \in InHand(s)

\* A key Headscale would still accept is recorded in the store, is in the hands
\* of a reconcile that will store or expire it, or is one the code knowingly
\* stopped tracking: an ExpireKey that failed, a mint whose answer was lost, or
\* a daemon that stopped.
KeyHeld(k) == \E s \in Services :
    \/ store[s].key = k
    \/ job[s].pc \in {"start", "rollback", "swap"} /\ job[s].key = k
    \/ job[s].pc \in {"closePrev", "expirePrev"} /\ job[s].prev.key = k

KeysAccounted == \A k \in valid : KeyHeld(k) \/ k \in givenUp

\* Two entries agree on the fields of one half.
SameIngress(e, f) == e.proxy = f.proxy /\ e.hash = f.hash /\ e.key = f.key
SameEgress(e, f)  == e.gws = f.gws /\ e.gwHash = f.gwHash

\* Neither half undoes the other, although each writes or deletes the whole
\* entry.  Until shutdown the egress half leaves the proxy, its hash and its key
\* as they are, and the ingress half the gateway refs and their hash, which it
\* may drop only with the whole entry and when there is no ref: the next egress
\* half then does a full pass, which is right at any time.
HalvesIndependent == [][\A s \in Services : ~ctxDone /\ restarts' = restarts =>
    /\ job[s].pc \in IngressPCs => \/ SameEgress(store'[s], store[s])
                                   \/ ~store[s].gws /\ store'[s] = Empty
    /\ job[s].pc \in EgressPCs => SameIngress(store'[s], store[s])]_vars

\* Make before break: a reconcile that wants the service served closes a
\* proxy only when the store already names another one that is running, so a
\* failed rotation leaves the old proxy in place.
MakeBeforeBreak == [][\A s \in Services :
    /\ ~ctxDone
    /\ restarts' = restarts
    /\ WantsIngress(s)
    /\ job[s].prev.proxy \in live \ live'
    => /\ store'[s].proxy \in live'
       /\ store'[s].proxy # job[s].prev.proxy]_vars

\* No churn: a running proxy is replaced only by one with another configuration.
NoChurn == [][\A s \in Services :
    /\ store[s].proxy \in live
    /\ store'[s].proxy \notin {None, store[s].proxy}
    => store'[s].hash # store[s].hash]_vars

\* The service is served with configuration c by a running proxy.
Serving(s, c) == store[s].hash = c /\ store[s].proxy \in live

\* Once the labels of a service settle and the daemon stays up, it is in the
\* end served with its configuration for good, whatever failed before and
\* whatever the egress half does; one that keeps only egress has no proxy.
Converges == \A s \in Services :
    \A r \in Specs : <>[](labels[s] = r /\ ~ctxDone) =>
        <>[](IF r.ing # None THEN Serving(s, r.ing) ELSE SameIngress(store[s], Empty))

\* Shutdown ends: after a cancel main returns, or a new process has started.
ShutsDown == ctxDone ~> (closer.pc = "exited" \/ ~ctxDone)
=============================================================================

------------------------------- MODULE Egress -------------------------------
(***************************************************************************)
(* The egress half of the Reconciler: one gateway Docker service per egress *)
(* target of an app, kept by a set-reconcile over three records that can    *)
(* disagree: the app's labels, the refs in the in-memory Store, and the     *)
(* gateway services that actually run in the swarm (which outlive the       *)
(* daemon and its Store).                                                   *)
(*                                                                          *)
(* An app has at most one reconcile in progress (WorkQueue proves it); the  *)
(* reconciles of two apps, label changes, crashes of the daemon and removals*)
(* by an operator interleave at every call to Docker or Headscale.          *)
(***************************************************************************)
EXTENDS Naturals, FiniteSets

CONSTANTS Apps,       \* Swarm service IDs of apps
          Targets,    \* egress targets, as host:port
          Revs,       \* what tag, network and image amount to in a target's hash
          GwName,     \* [Apps -> [Targets -> service name]]: gatewayServiceName
          GwIds,      \* Swarm service IDs of gateways
          Keys,       \* Headscale preauth keys
          Absent,     \* the app exists, but is not opted in or is malformed
          NoEgress,   \* the app is opted in for ingress only
          Gone,       \* the app was removed from the swarm
          NotYet,     \* the app is not deployed yet
          None,
          Faults,     \* which faults may happen
          MaxFaults   \* bound on how many

FaultKinds == {"list", "remove", "create", "update",  \* that Docker call fails, changing nothing
               "lost",             \* a Docker write takes effect, and its answer is lost
               "mint", "expire",   \* that Headscale call fails
               "crash",            \* the daemon dies and is restarted
               "external",         \* an operator removes a gateway service
               "recreate"}         \* the app is deployed again under a new ID

\* The faults after which some record of the daemon may be out of date for good.
Lasting == {"lost", "external", "recreate"}

ASSUME EgressConstants == /\ Faults \subseteq FaultKinds
                          /\ MaxFaults \in Nat
                          /\ None \notin Keys \cup GwIds

VARIABLES labels,   \* what Docker holds for each app (external)
          gws,      \* the gateway services in the swarm (external)
          valid,    \* keys Headscale would still accept (external)
          store,    \* the Store's gateway fields
          job,      \* the reconcile in progress on each app
          givenUp,  \* history: keys whose ExpireKey failed, or whose daemon died
          faults,   \* how many faults have happened
          struck    \* history: which of the lasting kinds were among them

vars == <<labels, gws, valid, store, job, givenUp, faults, struck>>

\* An opted-in reading: EgressSpec without its fixed hostname.
Specs    == [rev : Revs, targets : (SUBSET Targets) \ {{}}]
Readings == Specs \cup {Absent, NoEgress, Gone, NotYet}

\* GatewayRef: kept by target, its Hash told apart by Revs.
Ref     == [svc : GwIds, key : Keys \cup {None}, hash : Revs]
Tracked == [Targets -> Ref \cup {None}]
NoRefs  == [t \in Targets |-> None]
Addrs(m) == {t \in Targets : m[t] # None}

Entry == [refs : Tracked, hash : Specs \cup {None}]
Empty == [refs |-> NoRefs, hash |-> None]

\* A gateway service: name, marker label, TAILSWARM_GATEWAY_TARGETS, the rest
\* of its hashed spec, and its auth key.  Every update installs another key, so
\* two equal records are the same version of the service.
Gateway == [name : UNION {{GwName[a][t] : t \in Targets} : a \in Apps},
            forApp : Apps, addr : Targets, rev : Revs, key : Keys]

\* None stands for nil.
ASSUME NoneIsNil == None \notin Ref \cup Gateway \cup Specs

Job  == [pc : {"idle", "read", "remove", "sync", "mintCreate", "create", "adopt", "adoptUpdate",
               "mintUpdate", "update", "teardown"},
         want : Readings \cup {None}, tracked : Tracked, todo : SUBSET Targets,
         cur : Targets \cup {None}, key : Keys \cup {None},
         svc : GwIds \cup {None}, seen : Gateway \cup {None}]
Idle == [pc |-> "idle", want |-> None, tracked |-> NoRefs, todo |-> {}, cur |-> None,
         key |-> None, svc |-> None, seen |-> None]

Init == /\ \E a \in Apps : labels \in {[b \in Apps |-> IF b = a THEN r ELSE NotYet] :
                                         r \in Specs \cup {Absent, NoEgress}}
        /\ gws = [g \in GwIds |-> None]
        /\ valid = {}
        /\ store = [a \in Apps |-> Empty]
        /\ job = [a \in Apps |-> Idle]
        /\ givenUp = {}
        /\ faults = 0
        /\ struck = {}

Running  == {g \in GwIds : gws[g] # None}
Named(n) == {g \in Running : gws[g].name = n}
-----------------------------------------------------------------------------
(* Faults and keys *)

Fault(kind) == /\ kind \in Faults
               /\ faults < MaxFaults
               /\ faults' = faults + 1
               /\ struck' = struck \cup ({kind} \cap Lasting)
NoFault     == UNCHANGED <<faults, struck>>

Referenced(k) == \/ \E g \in Running : gws[g].key = k
                 \/ \E a \in Apps :
                      \/ job[a].key = k
                      \/ job[a].seen # None /\ job[a].seen.key = k
                      \/ \E t \in Targets : \/ store[a].refs[t] # None /\ store[a].refs[t].key = k
                                            \/ job[a].tracked[t] # None /\ job[a].tracked[t].key = k

\* A new key; a key no part of the system refers to has lapsed (key_expiration)
\* by the time its name is used again.  Names are opaque: any will do.
FreshKeys == {k \in Keys : ~Referenced(k)}

Mint(k) == /\ FreshKeys # {}
           /\ k = CHOOSE f \in FreshKeys : TRUE
           /\ valid' = valid \cup {k}
           /\ givenUp' = givenUp \ {k}

ExpireKey(k) == valid' = valid \ {k} /\ givenUp' = givenUp \ {k}
GiveUp(k)    == k \in valid /\ givenUp' = givenUp \cup {k} /\ UNCHANGED valid

\* expireOrLog: no key is nothing to do, a failure is logged and forgotten.
ExpireOrLog(k) == \/ ExpireKey(k) /\ NoFault
                  \/ GiveUp(k) /\ Fault("expire")
-----------------------------------------------------------------------------
(* The environment *)

\* A label edit or a removal; a removed ID does not come back.  Only Inspect
\* reads the labels, so an edit in the course of a reconcile is one made at its
\* end; a removal, which lets the app be deployed anew, may come at any time.
Relabel(a) == /\ labels[a] \notin {Gone, NotYet}
              /\ \E r \in Readings \ {labels[a], NotYet} :
                    /\ job[a].pc = "idle" \/ r = Gone
                    /\ labels' = [labels EXCEPT ![a] = r]
              /\ UNCHANGED <<gws, valid, store, job, givenUp, faults, struck>>

\* The app is deployed, under a new ID once its predecessors are removed.
Deploy(a) == /\ labels[a] = NotYet
             /\ \A b \in Apps \ {a} : labels[b] \in {Gone, NotYet}
             /\ Fault("recreate")
             /\ \E r \in Specs : labels' = [labels EXCEPT ![a] = r]
             /\ UNCHANGED <<gws, valid, store, job, givenUp>>

ExternalRemove(g) == /\ g \in Running
                     /\ Fault("external")
                     /\ gws' = [gws EXCEPT ![g] = None]
                     /\ UNCHANGED <<labels, valid, store, job, givenUp>>

\* The Store and the workers are gone, the gateways stay.  Keys that no gateway
\* carries lapse unnoticed.
Crash == /\ Fault("crash")
         /\ store' = [a \in Apps |-> Empty]
         /\ job' = [a \in Apps |-> Idle]
         /\ valid' = valid \cap {gws[g].key : g \in Running}
         /\ givenUp' = valid'
         /\ UNCHANGED <<labels, gws>>
-----------------------------------------------------------------------------
(* Reconcile, up to the split into reconcileEgress and teardownEgress *)

Goto(a, pc) == job' = [job EXCEPT ![a].pc = pc]
Done(a)     == job' = [job EXCEPT ![a] = Idle]

Inspect(a) ==
    /\ job[a].pc = "idle"
    /\ labels[a] # NotYet
    /\ job' = [job EXCEPT ![a] = [Idle EXCEPT !.pc = "read", !.want = labels[a]]]
    /\ UNCHANGED <<labels, gws, valid, store, givenUp, faults, struck>>

\* trackedGateways: the store's refs as they are, then the running gateways
\* that carry the app's marker and that no ref accounts for, by ID or target.
Adoptable(a, t) == {g \in Running : /\ gws[g].forApp = a
                                    /\ gws[g].addr = t
                                    /\ \A u \in Addrs(store[a].refs) : store[a].refs[u].svc # g}

RefFor(a, t) ==
    IF store[a].refs[t] # None THEN {store[a].refs[t]}
    ELSE IF Adoptable(a, t) = {} THEN {None}
    ELSE {[svc |-> g, key |-> None, hash |-> gws[g].rev] : g \in Adoptable(a, t)}

\* Mutant of TrackedGateways: the store's refs alone, nothing adopted.
TrackedFromStore(a) == {store[a].refs}

TrackedGateways(a) == {m \in [Targets -> UNION {RefFor(a, t) : t \in Targets}] :
                          \A t \in Targets : m[t] \in RefFor(a, t)}

\* Mutant of FastPath: the hash alone.
FastPathByHash(a, spec, tracked) == store[a].hash = spec

\* The fast path of reconcileEgress: same whole-set hash, same target set.
FastPath(a, spec, tracked) == /\ store[a].hash = spec
                              /\ Addrs(tracked) = spec.targets

ReadEgress(a) ==
    /\ job[a].pc = "read"
    /\ job[a].want \in Specs
    /\ \E tracked \in TrackedGateways(a) :
        IF FastPath(a, job[a].want, tracked)
        THEN Done(a)
        ELSE job' = [job EXCEPT ![a].pc = "remove", ![a].tracked = tracked,
                                ![a].todo = Addrs(tracked) \ job[a].want.targets]
    /\ UNCHANGED <<labels, gws, valid, store, givenUp, faults, struck>>

\* findGateways failed: the reconcile ends with nothing changed.
ListFail(a) == /\ job[a].pc = "read"
               /\ job[a].want \in Specs
               /\ Fault("list")
               /\ Done(a)
               /\ UNCHANGED <<labels, gws, valid, store, givenUp>>
-----------------------------------------------------------------------------
(* removeGateway, for a target no longer desired and in a teardown *)

\* RemoveService takes a missing service for a success; then the key goes.
RemoveOk(ref) == /\ gws' = [gws EXCEPT ![ref.svc] = None]
                 /\ ExpireOrLog(ref.key)

\* An error ends removeGateway before the key is expired.
RemoveFail(ref) == /\ \/ /\ Fault("remove")
                         /\ UNCHANGED gws
                      \/ /\ Fault("lost")
                         /\ gws' = [gws EXCEPT ![ref.svc] = None]
                   /\ UNCHANGED <<valid, givenUp>>

\* Mutant of RemoveUndesired: a removed target stays tracked.
RemoveUndesiredKeepsRef(a, t) ==
    /\ job[a].pc = "remove"
    /\ t \in job[a].todo
    /\ RemoveOk(job[a].tracked[t]) \/ RemoveFail(job[a].tracked[t])
    /\ job' = [job EXCEPT ![a].todo = @ \ {t}]
    /\ UNCHANGED <<labels, store>>

\* Removed targets leave tracked; one whose removal failed stays in it.
RemoveUndesired(a, t) ==
    /\ job[a].pc = "remove"
    /\ t \in job[a].todo
    /\ \/ /\ RemoveOk(job[a].tracked[t])
          /\ job' = [job EXCEPT ![a].todo = @ \ {t}, ![a].tracked[t] = None]
       \/ /\ RemoveFail(job[a].tracked[t])
          /\ job' = [job EXCEPT ![a].todo = @ \ {t}]
    /\ UNCHANGED <<labels, store>>

BeginSync(a) == /\ job[a].pc = "remove"
                /\ job[a].todo = {}
                /\ job' = [job EXCEPT ![a].pc = "sync", ![a].todo = job[a].want.targets]
                /\ UNCHANGED <<labels, gws, valid, store, givenUp, faults, struck>>
-----------------------------------------------------------------------------
(* The create and update loop over the desired targets, in any order *)

\* The loop body is done with the current target, now tracked as ref.
Settle(a, t, ref) == job' = [job EXCEPT ![a] =
    [Idle EXCEPT !.pc = "sync", !.want = job[a].want, !.todo = job[a].todo \ {t},
                 !.tracked = [job[a].tracked EXCEPT ![t] = ref]]]

\* Mutant of NewRef: the ref records the whole-set hash.
NewRefWholeHash(a, g) == [svc |-> g, key |-> job[a].key, hash |-> job[a].want]

NewRef(a, g) == [svc |-> g, key |-> job[a].key, hash |-> job[a].want.rev]

\* gatewaySpec for the current target under the key just minted.
GatewaySpec(a) == [name |-> GwName[a][job[a].cur], forApp |-> a, addr |-> job[a].cur,
                   rev |-> job[a].want.rev, key |-> job[a].key]

\* Mutant of UpToDate: being tracked is enough.
UpToDateIfTracked(a, t) ==
    /\ job[a].pc = "sync"
    /\ t \in job[a].todo
    /\ job[a].tracked[t] # None
    /\ job' = [job EXCEPT ![a].todo = @ \ {t}]
    /\ UNCHANGED <<labels, gws, valid, store, givenUp, faults, struck>>

UpToDate(a, t) ==
    /\ job[a].pc = "sync"
    /\ t \in job[a].todo
    /\ job[a].tracked[t] # None
    /\ job[a].tracked[t].hash = job[a].want.rev
    /\ job' = [job EXCEPT ![a].todo = @ \ {t}]
    /\ UNCHANGED <<labels, gws, valid, store, givenUp, faults, struck>>

StartCreate(a, t) ==
    /\ job[a].pc = "sync"
    /\ t \in job[a].todo
    /\ job[a].tracked[t] = None
    /\ job' = [job EXCEPT ![a].pc = "mintCreate", ![a].cur = t]
    /\ UNCHANGED <<labels, gws, valid, store, givenUp, faults, struck>>

\* Mutant of InspectGateway: a gateway that has not drifted is updated too.
InspectGatewayAlways(a, t) ==
    /\ job[a].pc = "sync"
    /\ t \in job[a].todo
    /\ job[a].tracked[t] # None
    /\ gws[job[a].tracked[t].svc] # None
    /\ job' = [job EXCEPT ![a].pc = "mintUpdate", ![a].cur = t, ![a].svc = job[a].tracked[t].svc,
                          ![a].seen = gws[job[a].tracked[t].svc]]
    /\ UNCHANGED <<labels, gws, valid, store, givenUp, faults, struck>>

\* updateGateway's InspectService of a drifted gateway: vanished means create.
InspectGateway(a, t) ==
    /\ job[a].pc = "sync"
    /\ t \in job[a].todo
    /\ job[a].tracked[t] # None
    /\ job[a].tracked[t].hash # job[a].want.rev
    /\ LET g == job[a].tracked[t].svc IN
       \/ /\ gws[g] # None
          /\ job' = [job EXCEPT ![a].pc = "mintUpdate", ![a].cur = t, ![a].svc = g,
                                ![a].seen = gws[g]]
          /\ NoFault
       \/ /\ gws[g] = None
          /\ job' = [job EXCEPT ![a].pc = "mintCreate", ![a].cur = t, ![a].tracked[t] = None]
          /\ NoFault
       \/ /\ Fault("update")
          /\ Settle(a, t, None)
    /\ UNCHANGED <<labels, gws, valid, store, givenUp>>

\* Limiter.Wait and CreateEphemeralKey, for a create or an update.
MintOk(a) ==
    /\ job[a].pc \in {"mintCreate", "mintUpdate"}
    /\ \E k \in Keys :
        /\ Mint(k)
        /\ job' = [job EXCEPT ![a].key = k,
                              ![a].pc = IF @ = "mintCreate" THEN "create" ELSE "update"]
    /\ UNCHANGED <<labels, gws, store, faults, struck>>

MintFail(a) ==
    /\ job[a].pc \in {"mintCreate", "mintUpdate"}
    /\ Fault("mint")
    /\ Settle(a, job[a].cur, None)
    /\ UNCHANGED <<labels, gws, valid, store, givenUp>>

\* Swarm never gives a service ID out twice: one that no record still names.
UnusedGwIds == {g \in GwIds \ Running : \A a \in Apps :
                   /\ job[a].svc # g
                   /\ \A t \in Targets : /\ store[a].refs[t] # None => store[a].refs[t].svc # g
                                         /\ job[a].tracked[t] # None => job[a].tracked[t].svc # g}
NewGwId     == IF UnusedGwIds = {} THEN {} ELSE {CHOOSE g \in UnusedGwIds : TRUE}

CreateOk(a) ==
    /\ job[a].pc = "create"
    /\ Named(GwName[a][job[a].cur]) = {}
    /\ \E g \in NewGwId :
        /\ gws' = [gws EXCEPT ![g] = GatewaySpec(a)]
        /\ Settle(a, job[a].cur, NewRef(a, g))
    /\ UNCHANGED <<labels, valid, store, givenUp, faults, struck>>

\* ErrServiceExists: the stable name is taken.
CreateExists(a) ==
    /\ job[a].pc = "create"
    /\ Named(GwName[a][job[a].cur]) # {}
    /\ Goto(a, "adopt")
    /\ UNCHANGED <<labels, gws, valid, store, givenUp, faults, struck>>

\* A write that fails rolls its fresh key back.  It may have taken effect, and
\* the ExpireKey may fail too (counted as one fault).
RollBack(a) == \/ ExpireKey(job[a].key)
               \/ "expire" \in Faults /\ GiveUp(job[a].key)

CreateFail(a) ==
    /\ job[a].pc = "create"
    /\ \/ /\ Fault("create")
          /\ UNCHANGED gws
       \/ /\ Fault("lost")
          /\ Named(GwName[a][job[a].cur]) = {}
          /\ \E g \in NewGwId : gws' = [gws EXCEPT ![g] = GatewaySpec(a)]
    /\ RollBack(a)
    /\ Settle(a, job[a].cur, None)
    /\ UNCHANGED <<labels, store>>

\* adoptExistingGateway's ListServices by exact name.
AdoptFind(a) ==
    /\ job[a].pc = "adopt"
    /\ \E g \in Named(GwName[a][job[a].cur]) :
        job' = [job EXCEPT ![a].pc = "adoptUpdate", ![a].svc = g, ![a].seen = gws[g]]
    /\ UNCHANGED <<labels, gws, valid, store, givenUp, faults, struck>>

\* The listing failed, or the service vanished since the create.
AdoptMiss(a) ==
    /\ job[a].pc = "adopt"
    /\ \/ Fault("list")
       \/ Named(GwName[a][job[a].cur]) = {} /\ NoFault
    /\ RollBack(a)
    /\ Settle(a, job[a].cur, None)
    /\ UNCHANGED <<labels, gws, store>>

\* UpdateService at the version seen: Swarm refuses a stale one.
UpdateApplies(a) == /\ gws[job[a].svc] = job[a].seen
                    /\ gws' = [gws EXCEPT ![job[a].svc] = GatewaySpec(a)]

\* Mutant of AdoptUpdateOk: the key just installed is rolled back as if it had failed.
AdoptUpdateRollsBack(a) ==
    /\ job[a].pc = "adoptUpdate"
    /\ UpdateApplies(a)
    /\ ExpireKey(job[a].key)
    /\ Settle(a, job[a].cur, NewRef(a, job[a].svc))
    /\ UNCHANGED <<labels, store, faults, struck>>

AdoptUpdateOk(a) ==
    /\ job[a].pc = "adoptUpdate"
    /\ UpdateApplies(a)
    /\ Settle(a, job[a].cur, NewRef(a, job[a].svc))
    /\ UNCHANGED <<labels, valid, store, givenUp, faults, struck>>

\* Mutant of UpdateOk: the new key is expired in place of the old.
UpdateExpiresNewKey(a) ==
    /\ job[a].pc = "update"
    /\ UpdateApplies(a)
    /\ ExpireOrLog(job[a].key)
    /\ Settle(a, job[a].cur, NewRef(a, job[a].svc))
    /\ UNCHANGED <<labels, store>>

\* Mutant of UpdateOk: the old key is not expired.
UpdateKeepsOldKey(a) ==
    /\ job[a].pc = "update"
    /\ UpdateApplies(a)
    /\ Settle(a, job[a].cur, NewRef(a, job[a].svc))
    /\ UNCHANGED <<labels, valid, store, givenUp, faults, struck>>

\* A surviving gateway updated: the key of its ref is rotated out.
UpdateOk(a) ==
    /\ job[a].pc = "update"
    /\ UpdateApplies(a)
    /\ ExpireOrLog(job[a].tracked[job[a].cur].key)
    /\ Settle(a, job[a].cur, NewRef(a, job[a].svc))
    /\ UNCHANGED <<labels, store>>

\* A failed update takes its target out of tracked, so that the next pass retries.
UpdateFail(a) ==
    /\ job[a].pc \in {"adoptUpdate", "update"}
    /\ \/ gws[job[a].svc] # job[a].seen /\ NoFault /\ UNCHANGED gws
       \/ Fault("update") /\ UNCHANGED gws
       \/ Fault("lost") /\ UpdateApplies(a)
    /\ RollBack(a)
    /\ Settle(a, job[a].cur, None)
    /\ UNCHANGED <<labels, store>>

\* The tracked set and the desired hash are stored, also after a partial failure.
Finish(a) ==
    /\ job[a].pc = "sync"
    /\ job[a].todo = {}
    /\ store' = [store EXCEPT ![a] = [refs |-> job[a].tracked, hash |-> job[a].want]]
    /\ Done(a)
    /\ UNCHANGED <<labels, gws, valid, givenUp, faults, struck>>
-----------------------------------------------------------------------------
(* teardownEgress, alone or as the second part of teardown *)

ReadTeardown(a) ==
    /\ job[a].pc = "read"
    /\ job[a].want \notin Specs
    /\ LET refs == store[a].refs IN
       IF Addrs(refs) = {}
       THEN /\ Done(a)
            /\ store' = IF job[a].want = NoEgress THEN store ELSE [store EXCEPT ![a] = Empty]
       ELSE /\ job' = [job EXCEPT ![a].pc = "teardown", ![a].tracked = refs, ![a].todo = Addrs(refs)]
            /\ UNCHANGED store
    /\ UNCHANGED <<labels, gws, valid, givenUp, faults, struck>>

TeardownOne(a, t) ==
    /\ job[a].pc = "teardown"
    /\ t \in job[a].todo
    /\ \/ RemoveOk(job[a].tracked[t])
       \/ RemoveFail(job[a].tracked[t])
    /\ job' = [job EXCEPT ![a].todo = @ \ {t}]
    /\ UNCHANGED <<labels, store>>

\* The refs are dropped whether or not their gateways could be removed.
TeardownDone(a) ==
    /\ job[a].pc = "teardown"
    /\ job[a].todo = {}
    /\ store' = [store EXCEPT ![a] = Empty]
    /\ Done(a)
    /\ UNCHANGED <<labels, gws, valid, givenUp, faults, struck>>
-----------------------------------------------------------------------------
Reconcile(a) ==
    \/ Inspect(a) \/ ReadEgress(a) \/ ListFail(a) \/ BeginSync(a) \/ MintOk(a) \/ MintFail(a)
    \/ CreateOk(a) \/ CreateExists(a) \/ CreateFail(a)
    \/ AdoptFind(a) \/ AdoptMiss(a) \/ AdoptUpdateOk(a) \/ UpdateOk(a) \/ UpdateFail(a)
    \/ Finish(a) \/ ReadTeardown(a) \/ TeardownDone(a)
    \/ \E t \in Targets : \/ RemoveUndesired(a, t) \/ UpToDate(a, t) \/ StartCreate(a, t)
                          \/ InspectGateway(a, t) \/ TeardownOne(a, t)

Next == \/ \E a \in Apps : Relabel(a) \/ Deploy(a) \/ Reconcile(a)
        \/ \E g \in GwIds : ExternalRemove(g)
        \/ Crash

\* Every call returns, and every app is reconciled again and again: the resync
\* sees to it for apps that opt in, the events for the others.
Fairness == \A a \in Apps : WF_vars(Reconcile(a))

Spec     == Init /\ [][Next]_vars
FairSpec == Spec /\ Fairness
-----------------------------------------------------------------------------
(* Properties *)

\* Type invariant.
TypeOK == /\ labels \in [Apps -> Readings]
          /\ gws \in [GwIds -> Gateway \cup {None}]
          /\ valid \in SUBSET Keys
          /\ store \in [Apps -> Entry]
          /\ job \in [Apps -> Job]
          /\ givenUp \in SUBSET Keys
          /\ faults \in 0 .. MaxFaults
          /\ struck \in SUBSET Lasting

\* The gateway of app a for target t runs, with the tag, network and image of rev.
ServedBy(a, t, rev, g) == /\ gws[g] # None
                          /\ gws[g].forApp = a
                          /\ gws[g].addr = t
                          /\ gws[g].rev = rev

\* A ref of the store names a running gateway that is still the one recorded.
\* trackedGateways starts from the refs without looking at the swarm, so a ref
\* that is wrong is trusted by every later reconcile.  (It goes wrong when an
\* operator removes the gateway, a write's answer is lost, or the app's
\* successor adopts it by name: Lasting.)
RefsAreRunning == struck = {} => \A a \in Apps : job[a].pc = "idle" =>
    \A t \in Addrs(store[a].refs) :
        ServedBy(a, t, store[a].refs[t].hash, store[a].refs[t].svc)

\* A no-op is right: when the next reconcile of an idle app would take the
\* fast path, every target of its labels has its running gateway, and no other
\* gateway carries the app's marker.
Served(a, spec) ==
    /\ \A t \in spec.targets : \E g \in GwIds : ServedBy(a, t, spec.rev, g)
    /\ \A g \in Running : gws[g].forApp = a => gws[g].addr \in spec.targets

WouldNoOp(a) == /\ job[a].pc = "idle"
                /\ labels[a] \in Specs
                /\ \E tracked \in TrackedGateways(a) : FastPath(a, labels[a], tracked)

NoOpMeansServed == \A a \in Apps : WouldNoOp(a) => Served(a, labels[a])

\* The weaker promise that survives failed updates too: a no-op leaves no
\* target without a gateway of some revision, the lasting faults apart.
NoOpMeansPresent == struck = {} => \A a \in Apps : WouldNoOp(a) =>
    \A t \in labels[a].targets : \E g \in Running : gws[g].forApp = a /\ gws[g].addr = t

\* The other half of that promise survives every fault: a no-op leaves no
\* gateway with the app's marker running for a target it no longer has.
NoOpMeansNoStray == \A a \in Apps : WouldNoOp(a) =>
    \A g \in Running : gws[g].forApp = a => gws[g].addr \in labels[a].targets

\* A key Headscale would still accept is the store's, is in the hands of a
\* reconcile, or is one the daemon could not expire (or died holding).
KeysAccounted == \A k \in valid :
    \/ k \in givenUp
    \/ \E a \in Apps : \/ job[a].key = k
                       \/ \E t \in Targets : \/ store[a].refs[t] # None /\ store[a].refs[t].key = k
                                             \/ job[a].tracked[t] # None /\ job[a].tracked[t].key = k

\* No running gateway is left with an auth key the daemon itself expired: keys
\* are single-use and gateways keep no state, so its task could never register.
\* An update that took effect unanswered is taken for a failed one, and the
\* key it set is expired: that fault is left out.
GatewayKeyUnexpired == "lost" \notin struck => \A g \in Running : gws[g].key \in valid

\* Survivors are left alone: a reconcile changes or removes a running gateway
\* of a target it wants only when the gateway's hash differs from the wanted one.
SurvivorsUntouched == [][\A a \in Apps, g \in GwIds :
    /\ gws'[g] # gws[g]
    /\ job[a].pc # "idle" /\ job'[a] # job[a]
    /\ gws[g] # None /\ gws[g].forApp = a
    /\ job[a].want \in Specs /\ gws[g].addr \in job[a].want.targets
    => gws[g].rev # job[a].want.rev]_vars

\* Once the labels of an app settle, in the end every target has its gateway
\* and no other gateway carries its marker.
Converges == \A a \in Apps :
    <>[][labels' = labels]_vars => <>[](labels[a] \in Specs => Served(a, labels[a]))

\* Once an app is removed or no longer egresses, in the end none of its
\* gateways is left in the swarm.
CleansUp == \A a \in Apps :
    <>[][labels' = labels]_vars =>
        <>[](labels[a] \in {Absent, NoEgress, Gone} => \A g \in Running : gws[g].forApp # a)
=============================================================================

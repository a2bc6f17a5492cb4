-------------------------- MODULE EgressNameProofs --------------------------
(***************************************************************************)
(* What the set-reconcile of the egress targets keeps true when no two      *)
(* targets of an app share a gateway name.  (Two ports of one host do share *)
(* one, and then it does not hold.)  Which gateway serves which target is   *)
(* known by three records that are written at different times: the store or *)
(* the reconcile in progress, the marker labels in the swarm, and the names *)
(* Swarm keeps unique.                                                      *)
(*                                                                          *)
(* The second part is about a daemon whose updates, removals and mints      *)
(* succeed and whose answers arrive: a no-op means that every target is     *)
(* served at its revision, and every valid key is on record.  Lists,        *)
(* creations and key expiries may fail and the daemon may crash.            *)
(***************************************************************************)
EXTENDS EgressProofs

DistinctNames == \A a \in Apps : \A t, u \in Targets : GwName[a][t] = GwName[a][u] => t = u
-----------------------------------------------------------------------------
(* The inductive invariant *)

\* The refs that the daemon goes by: the store's, or those of the reconcile.
Refs(a) == IF job[a].pc \in {"idle", "read"} THEN store[a].refs ELSE job[a].tracked

\* The gateways that carry the marker of app a and dial its target t.
Mine(a, t) == {g \in Running : gws[g].forApp = a /\ gws[g].addr = t}

\* A gateway has the name of its target, and Swarm's names are unique.
NamedForTarget == \A g \in Running : gws[g].name = GwName[gws[g].forApp][gws[g].addr]
NamesUnique    == \A g, h \in Running : gws[g].name = gws[h].name => g = h

\* A ref is to a gateway of the right name, if to any, whoever took it over.
RefNamed(a) == \A t \in Addrs(Refs(a)) : LET g == Refs(a)[t].svc IN
                   gws[g] # None => gws[g].name = GwName[a][t]

\* So is the version of a service that is about to be updated.
SeenNamed(a) == job[a].pc \in Writing => job[a].seen.name = GwName[a][job[a].cur]

\* A tracked target has no gateway but the tracked one, at the tracked hash.
RefExact(a) == \A t \in Addrs(Refs(a)) : \A g \in Mine(a, t) :
                   Refs(a)[t].svc = g /\ Refs(a)[t].hash = gws[g].rev

\* A target still to be seen to that is not tracked has no gateway.
Pending(a)  == IF job[a].pc = "remove" THEN job[a].want.targets ELSE job[a].todo
Unserved(a) == job[a].pc \in Working =>
                   \A t \in Pending(a) : job[a].tracked[t] = None => Mine(a, t) = {}

\* An app that was never deployed has left no trace.
NotDeployed(a) == labels[a] = NotYet =>
                      job[a] = Idle /\ store[a] = Empty /\ \A t \in Targets : Mine(a, t) = {}

\* Without the lasting faults a tracked gateway runs, and there is one app.
RefsRun(a) == struck = {} /\ job[a].pc # "teardown" =>
                  \A t \in Addrs(Refs(a)) : Refs(a)[t].svc \in Mine(a, t)
Sole       == struck = {} => \A a, b \in Apps : a # b => labels[a] = NotYet \/ labels[b] = NotYet

AppInv(a) == /\ RefNamed(a)
             /\ SeenNamed(a)
             /\ RefExact(a)
             /\ Unserved(a)
             /\ NotDeployed(a)
             /\ RefsRun(a)

NInv == /\ Typed
        /\ NamedForTarget
        /\ NamesUnique
        /\ Sole
        /\ \A a \in Apps : AppInv(a)
-----------------------------------------------------------------------------
(* What a step of one app leaves of the others *)

\* How a step of a changes the swarm: a gateway stays, goes, or becomes a's,
\* in which case it keeps its name or is a new one.
GwStep(a) == \A g \in GwIds :
    \/ gws'[g] = gws[g]
    \/ gws'[g] = None
    \/ /\ gws'[g] \in Gateway
       /\ gws'[g].forApp = a
       /\ gws[g] # None => gws[g].name = gws'[g].name
       /\ gws[g] = None => g \in UnusedGwIds

\* Another app is left as it was.
LEMMA OthersKept ==
    ASSUME NInv, Typed', NEW a \in Apps, NEW b \in Apps \ {a},
           job'[b] = job[b], store'[b] = store[b], labels'[b] = labels[b], struck \subseteq struck',
           GwStep(a), gws' = gws \/ labels[a] # NotYet
    PROVE  AppInv(b)'
<1>1. AppInv(b) /\ TypeOK /\ job[b] \in Job /\ store[b] \in Entry
  BY DEF NInv, Typed, TypeOK
<1>2. Refs(b)' = Refs(b) /\ Refs(b) \in Tracked
  BY <1>1 DEF Refs, Job, Entry
<1>3. \A t \in Targets : \A g \in Mine(b, t)' : g \in Mine(b, t) /\ gws'[g] = gws[g]
  BY DEF Mine, Running, GwStep
<1>4. RefNamed(b)'
  <2> SUFFICES ASSUME NEW t \in Addrs(Refs(b)), gws'[Refs(b)[t].svc] # None
               PROVE  gws'[Refs(b)[t].svc].name = GwName[b][t]
    BY <1>2 DEF RefNamed
  <2> DEFINE g == Refs(b)[t].svc
  <2>1. t \in Targets /\ g \in GwIds
    BY <1>2 DEF Addrs, Tracked, Ref
  <2>2. g \notin UnusedGwIds
    BY <2>1 DEF UnusedGwIds, Refs, Addrs
  <2> QED
    BY <1>1, <2>1, <2>2 DEF GwStep, AppInv, RefNamed
<1>5. SeenNamed(b)'
  BY <1>1 DEF AppInv, SeenNamed
<1>6. RefExact(b)'
  BY <1>1, <1>2, <1>3 DEF AppInv, RefExact, Addrs
<1>7. Unserved(b)'
  <2>1. Pending(b)' = Pending(b) /\ (job[b].pc \in Working => Pending(b) \subseteq Targets)
    BY <1>1 DEF Pending, Job, NInv, Typed, Phases, Phase, Specs
  <2> QED
    BY <1>1, <1>3, <2>1 DEF AppInv, Unserved
<1>8. NotDeployed(b)'
  BY <1>1, <1>3 DEF AppInv, NotDeployed
<1>9. RefsRun(b)'
  <2>1. CASE gws' = gws
    BY <1>1, <1>2, <2>1 DEF AppInv, RefsRun, Mine, Running
  <2>2. CASE labels[a] # NotYet /\ struck' = {}
    <3>1. labels[b] = NotYet
      BY <2>2 DEF NInv, Sole
    <3>2. job[b] = Idle /\ store[b] = Empty
      BY <1>1, <3>1 DEF AppInv, NotDeployed
    <3>3. Addrs(Refs(b)) = {}
      BY <3>2 DEF Refs, Idle, Empty, NoRefs, Addrs
    <3> QED
      BY <1>2, <3>3 DEF RefsRun
  <2> QED
    BY <2>1, <2>2 DEF RefsRun
<1> QED
  BY <1>4, <1>5, <1>6, <1>7, <1>8, <1>9 DEF AppInv
-----------------------------------------------------------------------------
(* What it leaves of itself *)

\* Only the records of app a have changed.
OnlyApp(a) == /\ \A b \in Apps \ {a} : job'[b] = job[b] /\ store'[b] = store[b]
              /\ labels' = labels
              /\ struck \subseteq struck'

\* The invariant after a step of a, from what the step is to show for a.
LEMMA StepNInv ==
    ASSUME NInv, Typed', NEW a \in Apps, OnlyApp(a), GwStep(a), gws' = gws \/ labels[a] # NotYet,
           NamedForTarget', NamesUnique', AppInv(a)'
    PROVE  NInv'
<1>1. \A b \in Apps \ {a} : AppInv(b)'
  BY OthersKept DEF OnlyApp
<1>2. Sole'
  BY DEF NInv, Sole, OnlyApp
<1> QED
  BY <1>1, <1>2 DEF NInv

\* Gateways stay or go, and so do the refs of app a.
Shrinks(a) == /\ \A g \in GwIds : gws'[g] \in {gws[g], None}
              /\ \A t \in Targets : Refs(a)'[t] \in {Refs(a)[t], None}

\* Such a step keeps the invariant, once its own part of it is shown.
LEMMA ShrinkingNInv ==
    ASSUME NInv, Typed', NEW a \in Apps, OnlyApp(a), Shrinks(a), labels[a] # NotYet,
           SeenNamed(a)', Unserved(a)', RefsRun(a)'
    PROVE  NInv'
<1>1. AppInv(a) /\ TypeOK /\ job[a] \in Job /\ store[a] \in Entry
  BY DEF NInv, Typed, TypeOK
<1>2. \A g \in Running' : g \in Running /\ gws'[g] = gws[g]
  BY DEF Shrinks, Running
<1>3. GwStep(a)
  BY DEF Shrinks, GwStep
<1>4. NamedForTarget' /\ NamesUnique'
  BY <1>2 DEF NInv, NamedForTarget, NamesUnique
<1>5. \A t \in Addrs(Refs(a)') : t \in Addrs(Refs(a)) /\ Refs(a)'[t] = Refs(a)[t]
  BY DEF Shrinks, Addrs
<1>6. \A t \in Addrs(Refs(a)) : Refs(a)[t].svc \in GwIds
  BY <1>1 DEF Refs, Addrs, Job, Entry, Tracked, Ref
<1>7. RefNamed(a)'
  <2> SUFFICES ASSUME NEW t \in Addrs(Refs(a)'), gws'[Refs(a)'[t].svc] # None
               PROVE  gws'[Refs(a)'[t].svc].name = GwName[a][t]
    BY DEF RefNamed
  <2>1. t \in Addrs(Refs(a)) /\ Refs(a)'[t] = Refs(a)[t] /\ Refs(a)[t].svc \in GwIds
    BY <1>5, <1>6
  <2> QED
    BY <1>1, <2>1 DEF AppInv, RefNamed, Shrinks
<1>8. RefExact(a)'
  BY <1>1, <1>2, <1>5 DEF AppInv, RefExact, Mine
<1>9. NotDeployed(a)'
  BY DEF NotDeployed, OnlyApp
<1>10. AppInv(a)'
  BY <1>7, <1>8, <1>9 DEF AppInv
<1> QED
  BY <1>3, <1>4, <1>10, StepNInv

\* A step that leaves the swarm alone: what was tracked still runs.
LEMMA QuietRefsRun ==
    ASSUME NInv, NEW a \in Apps, struck \subseteq struck', gws' = gws,
           \A t \in Targets : Refs(a)'[t] \in {Refs(a)[t], None},
           job[a].pc # "teardown" \/ job'[a].pc = "teardown" \/ Addrs(Refs(a)') = {}
    PROVE  RefsRun(a)'
<1> SUFFICES ASSUME struck' = {}, job'[a].pc # "teardown", NEW t \in Addrs(Refs(a)')
             PROVE  Refs(a)'[t].svc \in Mine(a, t)'
  BY DEF RefsRun
<1>1. t \in Addrs(Refs(a)) /\ Refs(a)'[t] = Refs(a)[t] /\ job[a].pc # "teardown"
  BY DEF Addrs
<1>2. Refs(a)[t].svc \in Mine(a, t)
  BY <1>1 DEF NInv, AppInv, RefsRun
<1> QED
  BY <1>1, <1>2 DEF Mine, Running

\* A step from one point of the loop to another, in which targets leave the
\* list and refs of targets that have left it may go.
LEMMA LoopStep ==
    ASSUME NInv, Typed', NEW a \in Apps, NEW j, Moves(a, j),
           UNCHANGED <<labels, gws, store>>, struck \subseteq struck',
           job[a].pc \in Working \ {"remove"}, j.pc \in Working \ {"remove"},
           j.todo \subseteq job[a].todo,
           \A t \in Targets : j.tracked[t] \in {job[a].tracked[t], None},
           \A t \in j.todo : j.tracked[t] = None => job[a].tracked[t] = None \/ Mine(a, t) = {},
           j.pc \in Writing => j.seen.name = GwName[a][j.cur]
    PROVE  NInv'
<1> USE DEF Working
<1>1. AppInv(a) /\ job'[a] = j
  BY DEF NInv, Moves
<1>2. Refs(a) = job[a].tracked /\ Refs(a)' = j.tracked
  BY <1>1 DEF Refs
<1>3. OnlyApp(a) /\ Shrinks(a)
  BY <1>2 DEF OnlyApp, Moves, Shrinks
<1>4. labels[a] # NotYet
  BY <1>1 DEF AppInv, NotDeployed, Idle
<1>5. SeenNamed(a)'
  BY <1>1 DEF SeenNamed
<1>6. RefsRun(a)'
  BY <1>1, <1>2, QuietRefsRun
<1>7. Unserved(a)'
  <2> SUFFICES ASSUME NEW t \in j.todo, j.tracked[t] = None PROVE Mine(a, t)' = {}
    BY <1>1 DEF Unserved, Pending
  <2>1. Mine(a, t)' = Mine(a, t)
    BY DEF Mine, Running
  <2>2. job[a].tracked[t] = None => Mine(a, t) = {}
    BY <1>1 DEF AppInv, Unserved, Pending
  <2> QED
    BY <2>1, <2>2
<1> QED
  BY <1>3, <1>4, <1>5, <1>6, <1>7, ShrinkingNInv

\* A target that could not be seen to is not tracked for this pass.
LEMMA DropNInv ==
    ASSUME NInv, Typed', NEW a \in Apps, NEW t \in Targets, Moves(a, SettledAs(a, t, None)),
           UNCHANGED <<labels, gws, store>>, struck \subseteq struck',
           job[a].pc \in Working \ {"remove"}
    PROVE  NInv'
<1> DEFINE j == job[a]
           k == SettledAs(a, t, None)
<1>1. j \in Job
  BY DEF NInv, Typed, TypeOK
<1>2. /\ k.pc = "sync" /\ k.todo = j.todo \ {t}
      /\ \A u \in Targets : k.tracked[u] \in {j.tracked[u], None}
      /\ \A u \in Targets \ {t} : k.tracked[u] = j.tracked[u]
  BY <1>1 DEF SettledAs, JobRec, Job, Tracked
<1>3. j.todo \subseteq Targets
  BY <1>1 DEF Job
<1> HIDE DEF k
<1>4. Moves(a, k)
  BY DEF k
<1> QED
  BY <1>2, <1>3, <1>4, LoopStep DEF Working, Writing
-----------------------------------------------------------------------------
(* The actions *)

\* The loop over the wanted targets, up to a write and after one that failed.
LEMMA LoopNInv ==
    ASSUME NInv, Typed', NEW a \in Apps,
           \/ \E t \in Targets : UpToDate(a, t) \/ StartCreate(a, t) \/ InspectGateway(a, t)
           \/ MintOk(a) \/ MintFail(a) \/ CreateExists(a) \/ AdoptFind(a) \/ AdoptMiss(a)
    PROVE  NInv'
<1> DEFINE j == job[a]
<1> USE DEF Working, Creating, Updating, Holding, Writing
<1>1. job \in [Apps -> Job] /\ TypeOK /\ j \in Job /\ Phase(j) /\ AppInv(a)
  BY DEF NInv, Typed, TypeOK, Phases
<1>2. UNCHANGED <<labels, gws, store>> /\ struck \subseteq struck'
  BY FaultGrows DEF UpToDate, StartCreate, InspectGateway, MintOk, MintFail, CreateExists, AdoptFind,
                    AdoptMiss, NoFault
<1>3. ASSUME NEW t \in Targets, UpToDate(a, t) PROVE NInv'
  <2> DEFINE k == JobRec(j.pc, j.want, j.tracked, j.todo \ {t}, j.cur, j.key, j.svc, j.seen)
  <2>1. Moves(a, k) /\ j.pc = "sync"
    BY <1>1, <1>3, TodoMoves DEF UpToDate
  <2>2. k.pc = "sync" /\ k.tracked = j.tracked /\ k.todo \subseteq j.todo
    BY <2>1 DEF JobRec
  <2> QED
    BY <1>2, <2>1, <2>2, LoopStep
<1>4. ASSUME NEW t \in Targets, StartCreate(a, t) PROVE NInv'
  <2> DEFINE k == JobRec("mintCreate", j.want, j.tracked, j.todo, t, j.key, j.svc, j.seen)
  <2>1. Moves(a, k) /\ j.pc = "sync"
    BY <1>1, <1>4, StartCreateMoves DEF StartCreate
  <2>2. k.pc = "mintCreate" /\ k.tracked = j.tracked /\ k.todo = j.todo
    BY DEF JobRec
  <2> QED
    BY <1>2, <2>1, <2>2, LoopStep
<1>5. ASSUME NEW t \in Targets, Moves(a, SettledAs(a, t, None)), j.pc \in Working \ {"remove"}
      PROVE  NInv'
  BY <1>2, <1>5, DropNInv
<1>6. ASSUME NEW t \in Targets, InspectGateway(a, t) PROVE NInv'
  <2> DEFINE g == j.tracked[t].svc
             k == JobRec("mintUpdate", j.want, j.tracked, j.todo, t, j.key, g, gws[g])
             l == JobRec("mintCreate", j.want, [j.tracked EXCEPT ![t] = None], j.todo, t, j.key, j.svc,
                         j.seen)
  <2>1. j.pc = "sync" /\ t \in Addrs(Refs(a)) /\ Refs(a) = j.tracked
    BY <1>6 DEF InspectGateway, Refs, Addrs
  <2>2. CASE gws[g] # None /\ Moves(a, k)
    <3>1. /\ k.pc = "mintUpdate" /\ k.tracked = j.tracked /\ k.todo = j.todo /\ k.cur = t
          /\ k.seen = gws[g]
      BY DEF JobRec
    <3>2. gws[g].name = GwName[a][t]
      BY <1>1, <2>1, <2>2 DEF AppInv, RefNamed
    <3> HIDE DEF k
    <3> QED
      BY <1>2, <2>1, <2>2, <3>1, <3>2, LoopStep
  <2>3. CASE gws[g] = None /\ Moves(a, l)
    <3>1. /\ l.pc = "mintCreate" /\ l.todo = j.todo
          /\ \A u \in Targets : l.tracked[u] \in {j.tracked[u], None}
          /\ \A u \in Targets \ {t} : l.tracked[u] = j.tracked[u]
      BY <1>1 DEF JobRec, Job, Tracked
    <3>2. Mine(a, t) = {}
      BY <1>1, <2>1, <2>3 DEF AppInv, RefExact, Mine, Running
    <3>3. j.todo \subseteq Targets
      BY <1>1 DEF Job
    <3> HIDE DEF l
    <3> QED
      BY <1>2, <2>1, <2>3, <3>1, <3>2, <3>3, LoopStep
  <2>4. CASE Moves(a, SettledAs(a, t, None))
    BY <1>5, <2>1, <2>4
  <2> QED
    BY <1>1, <1>6, <2>2, <2>3, <2>4, InspectGatewayMoves
<1>7. CASE MintOk(a)
  <2> DEFINE pc == IF j.pc = "mintCreate" THEN "create" ELSE "update"
  <2>1. PICK x \in Keys : Moves(a, JobRec(pc, j.want, j.tracked, j.todo, j.cur, x, j.svc, j.seen))
    BY <1>1, <1>7, MintOkMoves
  <2> DEFINE k == JobRec(pc, j.want, j.tracked, j.todo, j.cur, x, j.svc, j.seen)
  <2>2. /\ k.pc \in {"create", "update"} /\ (k.pc = "update" => j.pc = "mintUpdate")
        /\ k.tracked = j.tracked /\ k.todo = j.todo /\ k.cur = j.cur /\ k.seen = j.seen
    BY <1>7 DEF JobRec, MintOk
  <2>3. j.pc \in {"mintCreate", "mintUpdate"}
    BY <1>7 DEF MintOk
  <2>4. k.pc \in Writing => k.seen.name = GwName[a][k.cur]
    BY <1>1, <2>2 DEF AppInv, SeenNamed
  <2> HIDE DEF k
  <2>5. Moves(a, k)
    BY <2>1 DEF k
  <2> QED
    BY <1>2, <2>2, <2>3, <2>4, <2>5, LoopStep
<1>8. CASE MintFail(a) \/ AdoptMiss(a)
  <2>1. j.pc \in {"mintCreate", "mintUpdate", "adopt"} /\ j.cur \in Targets
    BY <1>1, <1>8 DEF MintFail, AdoptMiss, Phase, Job
  <2>2. Moves(a, SettledAs(a, j.cur, None))
    BY <1>1, <1>8, Moving DEF MintFail, AdoptMiss
  <2> QED
    BY <1>5, <2>1, <2>2
<1>9. CASE CreateExists(a)
  <2>1. /\ Moves(a, At(a, "adopt")) /\ j.pc = "create"
        /\ At(a, "adopt").tracked = j.tracked /\ At(a, "adopt").todo = j.todo
        /\ At(a, "adopt").pc = "adopt"
    BY <1>1, <1>9, Moving DEF CreateExists, At, JobRec
  <2> QED
    BY <1>2, <2>1, LoopStep
<1>10. CASE AdoptFind(a)
  <2>1. PICK g \in Named(GwName[a][j.cur]) :
          Moves(a, JobRec("adoptUpdate", j.want, j.tracked, j.todo, j.cur, j.key, g, gws[g]))
    BY <1>1, <1>10, AdoptFindMoves
  <2> DEFINE k == JobRec("adoptUpdate", j.want, j.tracked, j.todo, j.cur, j.key, g, gws[g])
  <2>2. /\ k.pc = "adoptUpdate" /\ k.tracked = j.tracked /\ k.todo = j.todo /\ k.cur = j.cur
        /\ k.seen = gws[g]
    BY DEF JobRec
  <2>3. j.pc = "adopt" /\ gws[g].name = GwName[a][j.cur]
    BY <1>10 DEF AdoptFind, Named
  <2> HIDE DEF k
  <2>4. Moves(a, k)
    BY <2>1 DEF k
  <2> QED
    BY <1>2, <2>2, <2>3, <2>4, LoopStep
<1> QED
  BY <1>3, <1>4, <1>6, <1>7, <1>8, <1>9, <1>10

\* The steps that leave the refs as they are.
LEMMA SameRefsNInv ==
    ASSUME NInv, Typed', NEW a \in Apps,
           \/ Inspect(a) \/ ListFail(a) \/ BeginSync(a) \/ Finish(a) \/ ReadTeardown(a) \/ TeardownDone(a)
    PROVE  NInv'
<1> DEFINE j == job[a]
<1> USE DEF Working, Creating, Updating, Holding, Writing
<1>1. /\ job \in [Apps -> Job] /\ store \in [Apps -> Entry] /\ TypeOK /\ j \in Job /\ Phase(j)
      /\ AppInv(a)
  BY DEF NInv, Typed, TypeOK, Phases
<1>2. UNCHANGED <<labels, gws>> /\ struck \subseteq struck'
  BY FaultGrows DEF Inspect, ListFail, BeginSync, Finish, ReadTeardown, TeardownDone
<1>3. labels[a] # NotYet
  BY <1>1 DEF Inspect, ListFail, BeginSync, Finish, ReadTeardown, TeardownDone, AppInv, NotDeployed, Idle
<1>4. \A t \in Targets : NoRefs[t] = None /\ Empty.refs = NoRefs
  BY DEF NoRefs, Empty
<1>5. CASE BeginSync(a)
  <2> DEFINE k == JobRec("sync", j.want, j.tracked, j.want.targets, j.cur, j.key, j.svc, j.seen)
  <2>1. Moves(a, k) /\ store' = store /\ j.pc = "remove"
    BY <1>1, <1>5, BeginSyncMoves DEF BeginSync
  <2>2. k.pc = "sync" /\ k.tracked = j.tracked /\ k.todo = j.want.targets
    BY DEF JobRec
  <2> HIDE DEF k
  <2>3. job'[a] = k /\ Refs(a) = j.tracked /\ Refs(a)' = j.tracked
    BY <2>1, <2>2 DEF Moves, Refs
  <2>4. OnlyApp(a) /\ Shrinks(a)
    BY <1>2, <2>1, <2>3 DEF OnlyApp, Shrinks, Moves
  <2>5. RefsRun(a)'
    BY <1>2, <2>1, <2>3, QuietRefsRun
  <2>6. SeenNamed(a)'
    BY <2>2, <2>3 DEF SeenNamed
  <2>7. Unserved(a)'
    BY <1>1, <1>2, <2>1, <2>2, <2>3 DEF AppInv, Unserved, Pending, Mine, Running
  <2> QED
    BY <1>3, <2>4, <2>5, <2>6, <2>7, ShrinkingNInv
<1>6. ASSUME NEW k, Moves(a, k), k.pc \in {"idle", "read", "teardown"},
             \A b \in Apps \ {a} : store'[b] = store[b],
             \A t \in Targets : Refs(a)'[t] \in {Refs(a)[t], None},
             j.pc # "teardown" \/ k.pc = "teardown" \/ Addrs(Refs(a)') = {}
      PROVE  NInv'
  <2>1. job'[a] = k /\ OnlyApp(a) /\ Shrinks(a)
    BY <1>2, <1>6 DEF OnlyApp, Moves, Shrinks
  <2>2. RefsRun(a)'
    BY <1>2, <1>6, <2>1, QuietRefsRun
  <2>3. SeenNamed(a)' /\ Unserved(a)'
    BY <1>6, <2>1 DEF SeenNamed, Unserved
  <2> QED
    BY <1>3, <2>1, <2>2, <2>3, ShrinkingNInv
<1>7. CASE Inspect(a)
  <2> DEFINE k == JobRec("read", labels[a], NoRefs, {}, None, None, None, None)
  <2>1. Moves(a, k) /\ k.pc = "read" /\ store' = store /\ j.pc = "idle"
    BY <1>1, <1>7, InspectMoves DEF Inspect, JobRec
  <2>2. Refs(a)' = Refs(a)
    BY <2>1 DEF Refs, Moves
  <2> QED
    BY <1>6, <2>1, <2>2
<1>8. CASE ListFail(a)
  <2>1. Moves(a, Idle) /\ Idle.pc = "idle" /\ store' = store /\ j.pc = "read"
    BY <1>1, <1>8, Moving DEF ListFail, Idle
  <2>2. Refs(a)' = Refs(a)
    BY <2>1 DEF Refs, Moves
  <2> QED
    BY <1>6, <2>1, <2>2
<1>9. CASE Finish(a)
  <2>1. /\ Moves(a, Idle) /\ Idle.pc = "idle" /\ j.pc = "sync"
        /\ store' = [store EXCEPT ![a] = [refs |-> j.tracked, hash |-> j.want]]
    BY <1>1, <1>9, Moving DEF Finish, Idle
  <2>2. store'[a].refs = j.tracked /\ \A b \in Apps \ {a} : store'[b] = store[b]
    BY <1>1, <2>1
  <2>3. Refs(a)' = Refs(a)
    BY <2>1, <2>2 DEF Refs, Moves
  <2> QED
    BY <1>6, <2>1, <2>2, <2>3
<1>10. CASE TeardownDone(a)
  <2>1. Moves(a, Idle) /\ Idle.pc = "idle" /\ store' = [store EXCEPT ![a] = Empty]
    BY <1>1, <1>10, Moving DEF TeardownDone, Idle
  <2>2. store'[a] = Empty /\ \A b \in Apps \ {a} : store'[b] = store[b]
    BY <1>1, <2>1
  <2>3. Refs(a)' = NoRefs
    BY <2>1, <2>2 DEF Refs, Moves, Empty
  <2> QED
    BY <1>4, <1>6, <2>1, <2>2, <2>3 DEF Addrs
<1>11. CASE ReadTeardown(a)
  <2>1. j.pc = "read"
    BY <1>11 DEF ReadTeardown
  <2>2. CASE Moves(a, Idle) /\ (store' = store \/ store' = [store EXCEPT ![a] = Empty])
    <3>1. /\ \A b \in Apps \ {a} : store'[b] = store[b]
          /\ store'[a] = store[a] \/ store'[a] = Empty
      BY <1>1, <2>2
    <3>2. Idle.pc = "idle"
      BY DEF Idle
    <3>3. Refs(a)' = store'[a].refs /\ Refs(a) = store[a].refs
      BY <2>1, <2>2, <3>2 DEF Refs, Moves
    <3>4. \A t \in Targets : Refs(a)'[t] \in {Refs(a)[t], None}
      BY <1>4, <3>1, <3>3
    <3> QED
      BY <1>6, <2>1, <2>2, <3>1, <3>2, <3>4
  <2>3. CASE /\ store' = store
             /\ Moves(a, JobRec("teardown", j.want, store[a].refs, Addrs(store[a].refs), j.cur, j.key,
                                j.svc, j.seen))
    <3> DEFINE k == JobRec("teardown", j.want, store[a].refs, Addrs(store[a].refs), j.cur, j.key,
                           j.svc, j.seen)
    <3>1. k.pc = "teardown" /\ k.tracked = store[a].refs
      BY DEF JobRec
    <3> HIDE DEF k
    <3>2. Moves(a, k)
      BY <2>3 DEF k
    <3>3. Refs(a)' = Refs(a)
      BY <2>1, <2>3, <3>1, <3>2 DEF Refs, Moves
    <3> QED
      BY <1>6, <2>3, <3>1, <3>2, <3>3
  <2> QED
    BY <1>1, <1>11, <2>2, <2>3, ReadTeardownMoves
<1> QED
  BY <1>5, <1>7, <1>8, <1>9, <1>10, <1>11

\* What trackedGateways returns for a target is the store's ref, or one to a
\* running gateway of the target.
LEMMA TrackedFrom ==
    ASSUME NEW a \in Apps, NEW m \in TrackedGateways(a), NEW t \in Targets, m[t] # None
    PROVE  \/ store[a].refs[t] # None /\ m[t] = store[a].refs[t]
           \/ m[t].svc \in Mine(a, t) /\ m[t].hash = gws[m[t].svc].rev
<1>1. m[t] \in RefFor(a, t)
  BY DEF TrackedGateways
<1>2. CASE store[a].refs[t] # None
  BY <1>1, <1>2 DEF RefFor
<1>3. CASE store[a].refs[t] = None
  <2>1. PICK g \in Adoptable(a, t) : m[t] = [svc |-> g, key |-> None, hash |-> gws[g].rev]
    BY <1>1, <1>3 DEF RefFor
  <2> QED
    BY <2>1 DEF Adoptable, Mine
<1> QED
  BY <1>2, <1>3

\* A target it returns nothing for has no gateway: were there one, passed over
\* for being named by the ref of another target, the two would share a name.
LEMMA UntrackedHasNone ==
    ASSUME DistinctNames, NInv, NEW a \in Apps, job[a].pc \in {"idle", "read"},
           NEW m \in TrackedGateways(a), NEW t \in Targets, m[t] = None
    PROVE  Mine(a, t) = {}
<1>1. m[t] \in RefFor(a, t) /\ TypeOK /\ AppInv(a) /\ Refs(a) = store[a].refs
  BY DEF TrackedGateways, NInv, Typed, Refs
<1>2. store[a].refs[t] = None
  BY <1>1 DEF RefFor
<1>3. Adoptable(a, t) = {}
  <2> SUFFICES ASSUME Adoptable(a, t) # {} PROVE FALSE
    OBVIOUS
  <2>1. PICK g \in Adoptable(a, t) : m[t] = [svc |-> g, key |-> None, hash |-> gws[g].rev]
    BY <1>1, <1>2 DEF RefFor
  <2>2. gws[g] \in Gateway /\ g \in GwIds
    BY <1>1 DEF Adoptable, Running, TypeOK
  <2>3. m[t] \in Ref
    BY <2>1, <2>2 DEF Ref, Gateway
  <2> QED
    BY <2>3, NoneIsNil
<1> SUFFICES ASSUME NEW g \in Mine(a, t) PROVE FALSE
  OBVIOUS
<1>4. PICK u \in Addrs(store[a].refs) : store[a].refs[u].svc = g
  BY <1>3 DEF Adoptable, Mine
<1>5. u \in Targets /\ gws[g].name = GwName[a][u]
  BY <1>1, <1>4 DEF AppInv, RefNamed, Mine, Running, Addrs
<1>6. gws[g].name = GwName[a][t]
  BY DEF NInv, NamedForTarget, Mine
<1> QED
  BY <1>2, <1>4, <1>5, <1>6 DEF DistinctNames, Addrs

\* A reconcile takes what trackedGateways returns for its refs.
LEMMA ReadEgressNInv ==
    ASSUME DistinctNames, NInv, Typed', NEW a \in Apps, ReadEgress(a)
    PROVE  NInv'
<1> DEFINE j == job[a]
<1>1. /\ job \in [Apps -> Job] /\ store \in [Apps -> Entry] /\ TypeOK /\ j \in Job /\ Phase(j)
      /\ AppInv(a)
  BY DEF NInv, Typed, TypeOK, Phases
<1>2. UNCHANGED <<labels, gws, store, struck>> /\ j.pc = "read" /\ j.want \in Specs
  BY DEF ReadEgress
<1>3. Refs(a) = store[a].refs /\ labels[a] # NotYet
  BY <1>1, <1>2 DEF Refs, AppInv, NotDeployed, Idle
<1>4. \A b \in Apps : \A t \in Targets : Mine(b, t)' = Mine(b, t)
  BY <1>2 DEF Mine, Running
<1>5. CASE Moves(a, Idle)
  <2>1. Idle.pc = "idle" /\ job'[a] = Idle /\ Refs(a)' = Refs(a)
    BY <1>2, <1>3, <1>5 DEF Idle, Moves, Refs
  <2>2. OnlyApp(a) /\ Shrinks(a)
    BY <1>2, <1>5, <2>1 DEF OnlyApp, Moves, Shrinks
  <2>3. RefsRun(a)'
    BY <1>2, <2>1, QuietRefsRun
  <2>4. SeenNamed(a)' /\ Unserved(a)'
    BY <2>1 DEF SeenNamed, Unserved, Writing, Working
  <2> QED
    BY <1>3, <2>2, <2>3, <2>4, ShrinkingNInv
<1>6. ASSUME NEW m \in TrackedGateways(a),
             Moves(a, JobRec("remove", j.want, m, Addrs(m) \ j.want.targets, j.cur, j.key, j.svc, j.seen))
      PROVE  NInv'
  <2> DEFINE k == JobRec("remove", j.want, m, Addrs(m) \ j.want.targets, j.cur, j.key, j.svc, j.seen)
  <2>1. k.pc = "remove" /\ k.want = j.want /\ k.tracked = m
    BY DEF JobRec
  <2> HIDE DEF k
  <2>2. Moves(a, k) /\ job'[a] = k
    BY <1>6 DEF k, Moves
  <2>3. Refs(a)' = m
    BY <2>1, <2>2 DEF Refs
  <2>4. OnlyApp(a) /\ GwStep(a)
    BY <1>2, <2>2 DEF OnlyApp, Moves, GwStep
  <2>5. NamedForTarget' /\ NamesUnique'
    BY <1>2 DEF NInv, NamedForTarget, NamesUnique, Running
  <2>6. ASSUME NEW t \in Targets, m[t] # None
        PROVE  \/ store[a].refs[t] # None /\ m[t] = store[a].refs[t]
               \/ m[t].svc \in Mine(a, t) /\ m[t].hash = gws[m[t].svc].rev
    BY <2>6, TrackedFrom
  <2>7. \A t \in Targets : \A g, h \in Mine(a, t) : g = h
    BY DEF NInv, NamedForTarget, NamesUnique, Mine
  <2>8. RefNamed(a)'
    <3> SUFFICES ASSUME NEW t \in Addrs(m), gws[m[t].svc] # None PROVE gws[m[t].svc].name = GwName[a][t]
      BY <1>2, <2>3 DEF RefNamed
    <3>1. t \in Targets /\ m[t] # None
      BY DEF Addrs
    <3>2. CASE store[a].refs[t] # None /\ m[t] = store[a].refs[t]
      BY <1>1, <1>3, <3>1, <3>2 DEF AppInv, RefNamed, Addrs
    <3>3. CASE m[t].svc \in Mine(a, t)
      BY <3>3 DEF NInv, NamedForTarget, Mine
    <3> QED
      BY <2>6, <3>1, <3>2, <3>3
  <2>9. RefExact(a)'
    <3> SUFFICES ASSUME NEW t \in Addrs(m), NEW g \in Mine(a, t)
                 PROVE  m[t].svc = g /\ m[t].hash = gws[g].rev
      BY <1>2, <1>4, <2>3 DEF RefExact, Addrs
    <3>1. t \in Targets /\ m[t] # None
      BY DEF Addrs
    <3>2. CASE store[a].refs[t] # None /\ m[t] = store[a].refs[t]
      BY <1>1, <1>3, <3>1, <3>2 DEF AppInv, RefExact, Addrs
    <3>3. CASE m[t].svc \in Mine(a, t) /\ m[t].hash = gws[m[t].svc].rev
      BY <2>7, <3>1, <3>3
    <3> QED
      BY <2>6, <3>1, <3>2, <3>3
  <2>10. Unserved(a)'
    <3> SUFFICES ASSUME NEW t \in j.want.targets, m[t] = None PROVE Mine(a, t) = {}
      BY <1>1, <1>2, <1>4, <2>1, <2>2 DEF Unserved, Pending, Specs
    <3>1. t \in Targets
      BY <1>2 DEF Specs
    <3> QED
      BY <1>2, <3>1, UntrackedHasNone
  <2>11. RefsRun(a)'
    <3> SUFFICES ASSUME struck = {}, NEW t \in Addrs(m) PROVE m[t].svc \in Mine(a, t)
      BY <1>2, <1>4, <2>3 DEF RefsRun, Addrs
    <3>1. t \in Targets /\ m[t] # None
      BY DEF Addrs
    <3>2. CASE store[a].refs[t] # None /\ m[t] = store[a].refs[t]
      BY <1>1, <1>2, <1>3, <3>1, <3>2 DEF AppInv, RefsRun, Addrs
    <3> QED
      BY <2>6, <3>1, <3>2
  <2>12. SeenNamed(a)' /\ NotDeployed(a)'
    BY <1>2, <1>3, <2>1, <2>2 DEF SeenNamed, NotDeployed, Writing
  <2>13. AppInv(a)'
    BY <2>8, <2>9, <2>10, <2>11, <2>12 DEF AppInv
  <2> QED
    BY <1>2, <2>4, <2>5, <2>13, StepNInv
<1> QED
  BY <1>1, <1>5, <1>6, ReadEgressMoves

\* A removal takes away a gateway of a target that is not wanted any more.
LEMMA RemovalNInv ==
    ASSUME NInv, Typed', NEW a \in Apps, NEW t \in Targets, RemoveUndesired(a, t) \/ TeardownOne(a, t)
    PROVE  NInv'
<1> DEFINE j   == job[a]
           ref == j.tracked[t]
           k   == JobRec(j.pc, j.want, j.tracked, j.todo \ {t}, j.cur, j.key, j.svc, j.seen)
           l   == JobRec(j.pc, j.want, [j.tracked EXCEPT ![t] = None], j.todo \ {t}, j.cur, j.key,
                         j.svc, j.seen)
<1> USE DEF Working, Writing
<1>1. job \in [Apps -> Job] /\ TypeOK /\ j \in Job /\ Phase(j) /\ AppInv(a)
  BY DEF NInv, Typed, TypeOK, Phases
<1>2. /\ j.pc \in {"remove", "teardown"} /\ UNCHANGED <<labels, store>>
      /\ RemoveOk(ref) \/ RemoveFail(ref)
      /\ j.pc = "remove" => j.want \in Specs /\ t \notin j.want.targets
  BY <1>1 DEF RemoveUndesired, TeardownOne, Phase
<1>3. ref.svc \in GwIds /\ ref # None
  BY <1>1 DEF RemoveUndesired, TeardownOne, Phase, Addrs, Job, Tracked, Ref
<1>4. struck \subseteq struck'
  BY <1>2, FaultGrows DEF RemoveOk, RemoveFail, ExpireOrLog, NoFault
<1>5. gws' = gws \/ gws' = [gws EXCEPT ![ref.svc] = None]
  BY <1>2 DEF RemoveOk, RemoveFail
<1>6. PICK i : /\ Moves(a, i)
               /\ i.pc = j.pc /\ i.want = j.want
               /\ \A u \in Targets : i.tracked[u] \in {j.tracked[u], None}
               /\ \A u \in Targets \ {t} : i.tracked[u] = j.tracked[u]
               /\ j.pc = "remove" /\ RemoveOk(ref) /\ ~RemoveFail(ref) => i.tracked[t] = None
  <2>1. /\ Moves(a, k) \/ Moves(a, l)
        /\ j.pc = "remove" /\ RemoveOk(ref) /\ ~RemoveFail(ref) => Moves(a, l)
    BY <1>1, TodoMoves DEF RemoveUndesired, TeardownOne
  <2>2. k.pc = j.pc /\ k.want = j.want /\ k.tracked = j.tracked
    BY DEF JobRec
  <2>3. /\ l.pc = j.pc /\ l.want = j.want
        /\ l.tracked[t] = None /\ \A u \in Targets \ {t} : l.tracked[u] = j.tracked[u]
    BY <1>1 DEF JobRec, Job, Tracked
  <2> HIDE DEF k, l
  <2> QED
    BY <2>1, <2>2, <2>3
<1>7. job'[a] = i /\ Refs(a) = j.tracked /\ Refs(a)' = i.tracked
  BY <1>2, <1>6 DEF Moves, Refs
<1>8. OnlyApp(a) /\ labels[a] # NotYet
  BY <1>1, <1>2, <1>4, <1>6 DEF OnlyApp, Moves, AppInv, NotDeployed, Idle
<1>9. \A g \in GwIds : gws'[g] \in {gws[g], None} /\ (g # ref.svc => gws'[g] = gws[g])
  BY <1>1, <1>3, <1>5 DEF TypeOK
<1>10. Shrinks(a)
  BY <1>6, <1>7, <1>9 DEF Shrinks
<1>11. SeenNamed(a)'
  BY <1>2, <1>6, <1>7 DEF SeenNamed
<1>12. Unserved(a)'
  <2> SUFFICES ASSUME j.pc = "remove", NEW u \in j.want.targets, i.tracked[u] = None
               PROVE  Mine(a, u)' = {}
    BY <1>2, <1>6, <1>7 DEF Unserved, Pending
  <2>1. j.tracked[u] = None
    BY <1>2, <1>6 DEF Specs
  <2>2. Mine(a, u) = {}
    BY <1>1, <2>1 DEF AppInv, Unserved, Pending
  <2> QED
    BY <1>9, <2>2 DEF Mine, Running
<1>13. RefsRun(a)'
  <2> SUFFICES ASSUME struck' = {}, j.pc = "remove", NEW u \in Addrs(i.tracked)
               PROVE  i.tracked[u].svc \in Mine(a, u)'
    BY <1>2, <1>6, <1>7 DEF RefsRun
  <2>1. u \in Targets /\ i.tracked[u] = j.tracked[u] /\ j.tracked[u] # None
    BY <1>6 DEF Addrs
  <2>2. j.tracked[u].svc \in Mine(a, u) /\ ref.svc \in Mine(a, t)
    BY <1>1, <1>3, <1>4, <1>7, <2>1 DEF AppInv, RefsRun, Addrs
  <2>3. gws' = gws \/ (RemoveOk(ref) /\ ~RemoveFail(ref))
    BY <1>2 DEF RemoveFail, Fault, Lasting
  <2>4. gws' = gws \/ u # t
    BY <1>6, <2>1, <2>3
  <2>5. gws'[j.tracked[u].svc] = gws[j.tracked[u].svc]
    BY <1>9, <2>2, <2>4 DEF Mine, Running
  <2> QED
    BY <2>1, <2>2, <2>5 DEF Mine, Running
<1> QED
  BY <1>8, <1>10, <1>11, <1>12, <1>13, ShrinkingNInv

\* The service at g has the name of the current target already, or is new and
\* no other has that name.
MayName(a, g) == LET n == GwName[a][job[a].cur] IN
                 \/ gws[g] = None /\ g \in UnusedGwIds /\ Named(n) = {}
                 \/ gws[g] # None /\ gws[g].name = n

Installs(a, g) == gws' = [gws EXCEPT ![g] = GatewaySpec(a)]

\* A write that took effect: the gateway at g becomes a's for the current target.
LEMMA WriteNInv ==
    ASSUME DistinctNames, NInv, Typed', NEW a \in Apps, NEW g \in GwIds, NEW ref,
           job[a].pc \in Holding, Moves(a, SettledAs(a, job[a].cur, ref)),
           ref \in {None, NewRef(a, g)},
           Installs(a, g), MayName(a, g), UNCHANGED <<labels, store>>, struck \subseteq struck'
    PROVE  NInv'
<1> DEFINE j == job[a]
           c == job[a].cur
           k == SettledAs(a, c, ref)
<1> USE DEF Working, Holding, Writing
<1>1. job \in [Apps -> Job] /\ TypeOK /\ Typed /\ j \in Job /\ Phase(j) /\ AppInv(a)
  BY DEF NInv, Typed, TypeOK, Phases
<1>2. c \in Targets /\ GatewaySpec(a) \in Gateway /\ GatewaySpec(a) # None
  BY <1>1, SpecTyped, NoneIsNil
<1>3. /\ gws'[g] = GatewaySpec(a)
      /\ gws'[g].name = GwName[a][c] /\ gws'[g].forApp = a /\ gws'[g].addr = c
      /\ gws'[g].rev = j.want.rev
      /\ \A h \in GwIds \ {g} : gws'[h] = gws[h]
  BY <1>1 DEF TypeOK, GatewaySpec, Installs
<1>4. /\ k.pc = "sync" /\ k.todo = j.todo \ {c} /\ k.tracked[c] = ref
      /\ \A u \in Targets \ {c} : k.tracked[u] = j.tracked[u]
  BY <1>1, <1>2 DEF SettledAs, JobRec, Job, Tracked
<1> HIDE DEF k
<1>5. job'[a] = k /\ Refs(a) = j.tracked /\ Refs(a)' = k.tracked
  BY <1>4 DEF k, Moves, Refs
<1>6. NewRef(a, g).svc = g /\ NewRef(a, g).hash = j.want.rev
  BY DEF NewRef
<1>7. OnlyApp(a) /\ labels[a] # NotYet
  BY <1>1 DEF OnlyApp, Moves, AppInv, NotDeployed, Idle
<1>8. GwStep(a)
  BY <1>2, <1>3 DEF GwStep, MayName
<1>9. NamedForTarget'
  BY <1>3 DEF NInv, NamedForTarget, Running
<1>10. NamesUnique'
  <2>1. \A h \in Running \ {g} : gws[h].name # GwName[a][c]
    BY DEF NInv, NamesUnique, Named, Running, MayName
  <2>2. \A h \in Running' \ {g} : h \in Running /\ gws'[h] = gws[h]
    BY <1>3 DEF Running
  <2> QED
    BY <1>3, <2>1, <2>2 DEF NInv, NamesUnique
<1>11. ASSUME NEW u \in Targets \ {c}, j.tracked[u] # None
       PROVE  j.tracked[u].svc \in GwIds \ {g}
  <2>1. j.tracked[u].svc \in GwIds /\ u \in Addrs(Refs(a))
    BY <1>1, <1>5, <1>11 DEF Job, Tracked, Ref, Addrs
  <2>2. g \in UnusedGwIds => j.tracked[u].svc # g
    BY <1>11 DEF UnusedGwIds
  <2>3. gws[g] # None /\ j.tracked[u].svc = g => gws[g].name = GwName[a][u]
    BY <1>1, <1>5, <2>1 DEF AppInv, RefNamed
  <2> QED
    BY <1>2, <2>1, <2>2, <2>3 DEF DistinctNames, MayName
<1>12. \A u \in Targets \ {c} : \A h \in Mine(a, u)' : h \in Mine(a, u) /\ gws'[h] = gws[h]
  BY <1>3 DEF Mine, Running
<1>13. RefNamed(a)'
  <2> SUFFICES ASSUME NEW u \in Addrs(k.tracked), gws'[k.tracked[u].svc] # None
               PROVE  gws'[k.tracked[u].svc].name = GwName[a][u]
    BY <1>5 DEF RefNamed
  <2>1. CASE u = c
    BY <1>3, <1>4, <1>6, <2>1 DEF Addrs
  <2>2. CASE u # c
    <3>1. u \in Targets \ {c} /\ k.tracked[u] = j.tracked[u] /\ j.tracked[u] # None
      BY <1>4, <2>2 DEF Addrs
    <3>2. k.tracked[u].svc = j.tracked[u].svc /\ gws'[j.tracked[u].svc] = gws[j.tracked[u].svc]
      BY <1>3, <1>11, <3>1
    <3> QED
      BY <1>1, <1>5, <3>1, <3>2 DEF AppInv, RefNamed, Addrs
  <2> QED
    BY <2>1, <2>2
<1>14. RefExact(a)'
  <2> SUFFICES ASSUME NEW u \in Addrs(k.tracked), NEW h \in Mine(a, u)'
               PROVE  k.tracked[u].svc = h /\ k.tracked[u].hash = gws'[h].rev
    BY <1>5 DEF RefExact
  <2>1. CASE u = c
    <3>1. h \in Running' /\ g \in Running' /\ gws'[h].name = gws'[g].name
      BY <1>2, <1>3, <1>9, <2>1 DEF NamedForTarget, Mine, Running
    <3>2. h = g
      BY <1>10, <3>1 DEF NamesUnique
    <3> QED
      BY <1>3, <1>4, <1>6, <2>1, <3>2 DEF Addrs
  <2>2. CASE u # c
    <3>1. u \in Targets \ {c} /\ k.tracked[u] = j.tracked[u] /\ j.tracked[u] # None
      BY <1>4, <2>2 DEF Addrs
    <3> QED
      BY <1>1, <1>5, <1>12, <3>1 DEF AppInv, RefExact, Addrs
  <2> QED
    BY <2>1, <2>2
<1>15. SeenNamed(a)' /\ NotDeployed(a)'
  BY <1>4, <1>5, <1>7 DEF SeenNamed, NotDeployed
<1>16. Unserved(a)'
  <2> SUFFICES ASSUME NEW u \in k.todo, k.tracked[u] = None PROVE Mine(a, u)' = {}
    BY <1>4, <1>5 DEF Unserved, Pending
  <2>1. u \in Targets \ {c} /\ u \in j.todo
    BY <1>1, <1>4 DEF Job
  <2>2. Mine(a, u) = {}
    BY <1>1, <1>4, <2>1 DEF AppInv, Unserved, Pending
  <2> QED
    BY <1>12, <2>1, <2>2
<1>17. RefsRun(a)'
  <2> SUFFICES ASSUME struck' = {}, NEW u \in Addrs(k.tracked) PROVE k.tracked[u].svc \in Mine(a, u)'
    BY <1>5 DEF RefsRun
  <2>1. CASE u = c
    BY <1>2, <1>3, <1>4, <1>6, <2>1 DEF Addrs, Mine, Running
  <2>2. CASE u # c
    <3>1. u \in Targets \ {c} /\ k.tracked[u] = j.tracked[u] /\ j.tracked[u] # None
      BY <1>4, <2>2 DEF Addrs
    <3>2. j.tracked[u].svc \in Mine(a, u)
      BY <1>1, <1>5, <3>1 DEF AppInv, RefsRun, Addrs
    <3> QED
      BY <1>3, <1>11, <3>1, <3>2 DEF Mine, Running
  <2> QED
    BY <2>1, <2>2
<1>18. AppInv(a)'
  BY <1>13, <1>14, <1>15, <1>16, <1>17 DEF AppInv
<1> QED
  BY <1>7, <1>8, <1>9, <1>10, <1>18, StepNInv

\* The creates and updates, whether they fail, take effect, or do so unanswered.
LEMMA InstallNInv ==
    ASSUME DistinctNames, NInv, Typed', NEW a \in Apps,
           CreateOk(a) \/ CreateFail(a) \/ AdoptUpdateOk(a) \/ UpdateOk(a) \/ UpdateFail(a)
    PROVE  NInv'
<1> DEFINE j == job[a]
<1> USE DEF Working, Creating, Updating, Holding, Writing
<1>1. job \in [Apps -> Job] /\ TypeOK /\ Typed /\ j \in Job /\ Phase(j) /\ AppInv(a)
  BY DEF NInv, Typed, TypeOK, Phases
<1>2. j.pc \in Holding /\ j.cur \in Targets
  BY <1>1, SpecTyped DEF CreateOk, CreateFail, AdoptUpdateOk, UpdateOk, UpdateFail
<1>3. UNCHANGED <<labels, store>> /\ struck \subseteq struck'
  BY FaultGrows DEF CreateOk, CreateFail, AdoptUpdateOk, UpdateOk, UpdateFail, ExpireOrLog, NoFault
<1>4. ASSUME NEW g \in NewGwId, Named(GwName[a][j.cur]) = {}
      PROVE  g \in GwIds /\ MayName(a, g)
  BY <1>4, NewGwIdIsUnused DEF UnusedGwIds, Running, MayName
<1>5. ASSUME j.pc \in {"adoptUpdate", "update"}, UpdateApplies(a)
      PROVE  /\ j.svc \in GwIds /\ MayName(a, j.svc)
             /\ Installs(a, j.svc)
  <2>1. j.svc \in GwIds /\ j.seen # None /\ gws[j.svc] = j.seen
    BY <1>1, <1>5 DEF Phase, Job, UpdateApplies
  <2> QED
    BY <1>1, <1>5, <2>1 DEF AppInv, SeenNamed, UpdateApplies, MayName, Installs
<1>6. CASE CreateOk(a)
  <2>1. PICK g \in NewGwId : /\ Installs(a, g)
                             /\ Settle(a, j.cur, NewRef(a, g))
                             /\ Named(GwName[a][j.cur]) = {}
    BY <1>6 DEF CreateOk, Installs
  <2>2. Moves(a, SettledAs(a, j.cur, NewRef(a, g)))
    BY <1>1, <2>1, Moving
  <2>3. g \in GwIds /\ MayName(a, g) /\ Installs(a, g)
    BY <1>4, <2>1
  <2> QED
    BY <1>2, <1>3, <2>2, <2>3, WriteNInv
<1>7. CASE AdoptUpdateOk(a) \/ UpdateOk(a)
  <2>1. j.pc \in {"adoptUpdate", "update"} /\ UpdateApplies(a) /\ Settle(a, j.cur, NewRef(a, j.svc))
    BY <1>7 DEF AdoptUpdateOk, UpdateOk
  <2>2. Moves(a, SettledAs(a, j.cur, NewRef(a, j.svc)))
    BY <1>1, <2>1, Moving
  <2> QED
    BY <1>2, <1>3, <1>5, <2>1, <2>2, WriteNInv
<1>8. CASE CreateFail(a) \/ UpdateFail(a)
  <2>1. Moves(a, SettledAs(a, j.cur, None))
    BY <1>1, <1>8, Moving DEF CreateFail, UpdateFail
  <2>2. CASE gws' = gws
    BY <1>2, <1>3, <2>1, <2>2, DropNInv
  <2>3. CASE CreateFail(a) /\ gws' # gws
    <3>1. PICK g \in NewGwId : /\ Installs(a, g)
                               /\ Named(GwName[a][j.cur]) = {}
      BY <2>3 DEF CreateFail, Installs
    <3>2. g \in GwIds /\ MayName(a, g) /\ Installs(a, g)
      BY <1>4, <3>1
    <3> QED
      BY <1>2, <1>3, <2>1, <3>2, WriteNInv
  <2>4. CASE UpdateFail(a) /\ gws' # gws
    <3>1. j.pc \in {"adoptUpdate", "update"} /\ UpdateApplies(a)
      BY <2>4 DEF UpdateFail
    <3> QED
      BY <1>2, <1>3, <1>5, <2>1, <3>1, WriteNInv
  <2> QED
    BY <1>8, <2>2, <2>3, <2>4
<1> QED
  BY <1>6, <1>7, <1>8

\* Steps that leave the reconciles and the store alone.
LEMMA OutsideNInv ==
    ASSUME NInv, Typed', UNCHANGED <<job, store>>, struck \subseteq struck',
           \A g \in GwIds : gws'[g] \in {gws[g], None},
           \A a \in Apps : labels'[a] = NotYet => labels[a] = NotYet,
           \/ struck' # {}
           \/ gws' = gws /\ \A a \in Apps : labels[a] = NotYet => labels'[a] = NotYet
    PROVE  NInv'
<1>1. \A g \in Running' : g \in Running /\ gws'[g] = gws[g]
  BY DEF Running
<1>2. NamedForTarget' /\ NamesUnique'
  BY <1>1 DEF NInv, NamedForTarget, NamesUnique
<1>3. Sole'
  BY DEF NInv, Sole
<1>4. ASSUME NEW a \in Apps PROVE AppInv(a)'
  <2>1. AppInv(a) /\ TypeOK /\ job[a] \in Job /\ store[a] \in Entry
    BY DEF NInv, Typed, TypeOK
  <2>2. Refs(a)' = Refs(a) /\ Refs(a) \in Tracked
    BY <2>1 DEF Refs, Job, Entry
  <2>3. \A t : Mine(a, t)' \subseteq Mine(a, t)
    BY <1>1 DEF Mine
  <2>4. RefNamed(a)'
    <3>1. \A t \in Addrs(Refs(a)) : Refs(a)[t].svc \in GwIds
      BY <2>2 DEF Addrs, Tracked, Ref
    <3> QED
      BY <2>1, <2>2, <3>1 DEF AppInv, RefNamed
  <2>5. SeenNamed(a)' /\ NotDeployed(a)'
    BY <2>1, <2>3 DEF AppInv, SeenNamed, NotDeployed
  <2>6. RefExact(a)'
    BY <1>1, <2>1, <2>2, <2>3 DEF AppInv, RefExact, Mine
  <2>7. Unserved(a)'
    BY <2>1, <2>3 DEF AppInv, Unserved, Pending
  <2>8. RefsRun(a)'
    <3>1. CASE struck' # {}
      BY <3>1 DEF RefsRun
    <3>2. CASE gws' = gws
      BY <2>1, <2>2, <3>2 DEF AppInv, RefsRun, Mine, Running
    <3> QED
      BY <3>1, <3>2
  <2> QED
    BY <2>4, <2>5, <2>6, <2>7, <2>8 DEF AppInv
<1> QED
  BY <1>2, <1>3, <1>4 DEF NInv

\* The environment: labels, operators and crashes.
LEMMA EnvironmentNInv ==
    ASSUME NInv, Typed',
           \/ \E a \in Apps : Relabel(a) \/ Deploy(a)
           \/ \E g \in GwIds : ExternalRemove(g)
           \/ Crash
    PROVE  NInv'
<1>1. TypeOK
  BY DEF NInv, Typed
<1>2. ASSUME NEW a \in Apps, Relabel(a) PROVE NInv'
  <2>1. /\ \A b \in Apps : labels'[b] = NotYet <=> labels[b] = NotYet
        /\ UNCHANGED <<gws, job, store, struck>>
    BY <1>1, <1>2 DEF Relabel, TypeOK
  <2> QED
    BY <2>1, OutsideNInv
<1>3. ASSUME NEW a \in Apps, Deploy(a) PROVE NInv'
  <2>1. /\ \A b \in Apps : labels'[b] = NotYet => labels[b] = NotYet
        /\ UNCHANGED <<gws, job, store>>
    BY <1>1, <1>3 DEF Deploy, TypeOK
  <2>2. struck \subseteq struck' /\ struck' # {}
    BY <1>3 DEF Deploy, Fault, Lasting
  <2> QED
    BY <2>1, <2>2, OutsideNInv
<1>4. ASSUME NEW g \in GwIds, ExternalRemove(g) PROVE NInv'
  <2>1. /\ \A h \in GwIds : gws'[h] \in {gws[h], None}
        /\ UNCHANGED <<labels, job, store>>
    BY <1>1, <1>4 DEF ExternalRemove, TypeOK
  <2>2. struck \subseteq struck' /\ struck' # {}
    BY <1>4 DEF ExternalRemove, Fault, Lasting
  <2> QED
    BY <2>1, <2>2, OutsideNInv
<1>5. CASE Crash
  <2>1. /\ \A a \in Apps : job'[a] = Idle /\ store'[a] = Empty
        /\ UNCHANGED <<labels, gws>> /\ struck \subseteq struck'
    BY <1>5, FaultGrows DEF Crash
  <2>2. NamedForTarget' /\ NamesUnique' /\ Sole'
    BY <2>1 DEF NInv, NamedForTarget, NamesUnique, Sole, Running
  <2>3. ASSUME NEW a \in Apps PROVE AppInv(a)'
    <3>1. Addrs(Refs(a)') = {} /\ job'[a].pc = "idle"
      BY <2>1 DEF Refs, Idle, Empty, NoRefs, Addrs
    <3>2. RefNamed(a)' /\ RefExact(a)' /\ RefsRun(a)'
      BY <3>1 DEF RefNamed, RefExact, RefsRun
    <3>3. SeenNamed(a)' /\ Unserved(a)'
      BY <3>1 DEF SeenNamed, Unserved, Writing, Working
    <3>4. NotDeployed(a)'
      BY <2>1 DEF NInv, AppInv, NotDeployed, Mine, Running
    <3> QED
      BY <3>2, <3>3, <3>4 DEF AppInv
  <2> QED
    BY <2>2, <2>3 DEF NInv
<1> QED
  BY <1>2, <1>3, <1>4, <1>5

\* The invariant holds of a swarm without gateways.
LEMMA InitNInv == Init => NInv
<1> SUFFICES ASSUME Init PROVE NInv
  OBVIOUS
<1>1. Running = {} /\ \A a \in Apps : job[a] = Idle /\ store[a] = Empty
  BY DEF Init, Running
<1>2. NamedForTarget /\ NamesUnique
  BY <1>1 DEF NamedForTarget, NamesUnique
<1>3. Sole
  BY DEF Init, Sole
<1>4. ASSUME NEW a \in Apps PROVE AppInv(a)
  <2>1. Addrs(Refs(a)) = {} /\ job[a].pc = "idle"
    BY <1>1 DEF Refs, Idle, Empty, NoRefs, Addrs
  <2>2. RefNamed(a) /\ RefExact(a) /\ RefsRun(a)
    BY <2>1 DEF RefNamed, RefExact, RefsRun
  <2>3. SeenNamed(a) /\ Unserved(a)
    BY <2>1 DEF SeenNamed, Unserved, Writing, Working
  <2>4. NotDeployed(a)
    BY <1>1 DEF NotDeployed, Mine
  <2> QED
    BY <2>2, <2>3, <2>4 DEF AppInv
<1> QED
  BY <1>2, <1>3, <1>4, InitTyped DEF NInv

\* Every step keeps the invariant.
LEMMA InductiveNInv == ASSUME DistinctNames PROVE NInv /\ [Next]_vars => NInv'
<1> SUFFICES ASSUME NInv, [Next]_vars PROVE NInv'
  OBVIOUS
<1>1. Typed'
  BY StepTyped DEF NInv
<1>2. CASE UNCHANGED vars
  <2>1. UNCHANGED <<labels, gws, store, job, struck>>
    BY <1>2 DEF vars
  <2> QED
    BY <1>1, <2>1, OutsideNInv
<1>3. ASSUME NEW a \in Apps, Reconcile(a) PROVE NInv'
  BY <1>1, <1>3, ReadEgressNInv, LoopNInv, SameRefsNInv, RemovalNInv, InstallNInv DEF Reconcile
<1> QED
  BY <1>1, <1>2, <1>3, EnvironmentNInv DEF Next
-----------------------------------------------------------------------------
(* The properties *)

\* When no two targets of an app share a gateway name, then short of the
\* lasting faults every ref of an idle app's store is to its running gateway,
\* the one recorded: whatever calls fail and whenever the daemon crashes.
THEOREM RefsStayRunning == ASSUME DistinctNames PROVE Spec => []RefsAreRunning
<1>1. NInv => RefsAreRunning
  <2> SUFFICES ASSUME NInv, struck = {}, NEW a \in Apps, job[a].pc = "idle",
                      NEW t \in Addrs(store[a].refs)
               PROVE  ServedBy(a, t, store[a].refs[t].hash, store[a].refs[t].svc)
    BY DEF RefsAreRunning
  <2>1. AppInv(a) /\ Refs(a) = store[a].refs
    BY DEF NInv, Refs
  <2>2. store[a].refs[t].svc \in Mine(a, t)
    BY <2>1 DEF AppInv, RefsRun
  <2>3. store[a].refs[t].hash = gws[store[a].refs[t].svc].rev
    BY <2>1, <2>2 DEF AppInv, RefExact
  <2> QED
    BY <2>2, <2>3 DEF ServedBy, Mine, Running
<1>2. NInv /\ [Next]_vars => NInv'
  BY InductiveNInv
<1> QED
  BY InitNInv, <1>1, <1>2, PTL DEF Spec

\* Under the same condition, a reconcile that takes the fast path leaves no
\* target of the labels without a gateway, the lasting faults apart.
THEOREM FastPathMissesNone == ASSUME DistinctNames PROVE Spec => []NoOpMeansPresent
<1>1. NInv => NoOpMeansPresent
  <2> SUFFICES ASSUME NInv, struck = {}, NEW a \in Apps, WouldNoOp(a), NEW t \in labels[a].targets
               PROVE  \E g \in Running : gws[g].forApp = a /\ gws[g].addr = t
    BY DEF NoOpMeansPresent
  <2>1. PICK m \in TrackedGateways(a) : Addrs(m) = labels[a].targets
    BY DEF WouldNoOp, FastPath
  <2>2. t \in Targets /\ m[t] # None
    BY <2>1 DEF Addrs
  <2>3. AppInv(a) /\ Refs(a) = store[a].refs /\ job[a].pc = "idle"
    BY DEF NInv, Refs, WouldNoOp
  <2>4. m[t].svc \in Mine(a, t)
    <3>1. CASE store[a].refs[t] # None /\ m[t] = store[a].refs[t]
      BY <2>2, <2>3, <3>1 DEF AppInv, RefsRun, Addrs
    <3> QED
      BY <2>2, <3>1, TrackedFrom
  <2> QED
    BY <2>4 DEF Mine
<1>2. NInv /\ [Next]_vars => NInv'
  BY InductiveNInv
<1> QED
  BY InitNInv, <1>1, <1>2, PTL DEF Spec

\* Under the same condition, a reconcile that takes the fast path leaves no
\* gateway with the app's marker for a target the labels do not have: whatever
\* fails, is lost, removed by an operator, or taken over by a successor.
THEOREM FastPathLeavesNoStray == ASSUME DistinctNames PROVE Spec => []NoOpMeansNoStray
<1>1. NInv => NoOpMeansNoStray
  <2> SUFFICES ASSUME NInv, NEW a \in Apps, WouldNoOp(a), NEW g \in Running, gws[g].forApp = a,
                      gws[g].addr \notin labels[a].targets
               PROVE  FALSE
    BY DEF NoOpMeansNoStray
  <2>1. PICK m \in TrackedGateways(a) : Addrs(m) = labels[a].targets
    BY DEF WouldNoOp, FastPath
  <2>2. gws[g].addr \in Targets /\ g \in Mine(a, gws[g].addr)
    BY DEF NInv, Typed, TypeOK, Running, Gateway, Mine
  <2>3. m[gws[g].addr] = None
    BY <2>1, <2>2 DEF Addrs
  <2>4. job[a].pc = "idle"
    BY DEF WouldNoOp
  <2> QED
    BY <2>2, <2>3, <2>4, UntrackedHasNone
<1>2. NInv /\ [Next]_vars => NInv'
  BY InductiveNInv
<1> QED
  BY InitNInv, <1>1, <1>2, PTL DEF Spec

\* A reconcile moves on no job but its own.
LEMMA OwnJobOnly ==
    ASSUME Typed, NEW a \in Apps, NEW b \in Apps \ {a}, Reconcile(b)
    PROVE  job'[a] = job[a]
<1>1. job \in [Apps -> Job]
  BY DEF Typed, TypeOK
<1>2. ASSUME NEW j, Moves(b, j) PROVE job'[a] = job[a]
  BY <1>2 DEF Moves
<1>3. CASE \/ Inspect(b) \/ ReadEgress(b) \/ ReadTeardown(b) \/ BeginSync(b) \/ MintOk(b) \/ AdoptFind(b)
  BY <1>1, <1>2, <1>3, InspectMoves, ReadEgressMoves, ReadTeardownMoves, BeginSyncMoves, MintOkMoves,
     AdoptFindMoves
<1>4. CASE \/ ListFail(b) \/ MintFail(b) \/ CreateOk(b) \/ CreateExists(b) \/ CreateFail(b) \/ AdoptMiss(b)
           \/ AdoptUpdateOk(b) \/ UpdateOk(b) \/ UpdateFail(b) \/ Finish(b) \/ TeardownDone(b)
  <2>1. Done(b) \/ (\E pc : Goto(b, pc)) \/ (\E t, ref : Settle(b, t, ref))
    BY <1>4 DEF ListFail, MintFail, CreateOk, CreateExists, CreateFail, AdoptMiss, AdoptUpdateOk, UpdateOk,
                UpdateFail, Finish, TeardownDone
  <2> QED
    BY <1>1, <1>2, <2>1, Moving
<1>5. ASSUME NEW t \in Targets,
             \/ RemoveUndesired(b, t) \/ UpToDate(b, t) \/ StartCreate(b, t) \/ InspectGateway(b, t)
             \/ TeardownOne(b, t)
      PROVE  job'[a] = job[a]
  <2>1. CASE RemoveUndesired(b, t) \/ UpToDate(b, t) \/ TeardownOne(b, t)
    BY <1>1, <1>2, <2>1, TodoMoves DEF RemoveUndesired, UpToDate, TeardownOne
  <2> QED
    BY <1>1, <1>2, <1>5, <2>1, StartCreateMoves, InspectGatewayMoves
<1> QED
  BY <1>3, <1>4, <1>5 DEF Reconcile

\* A write of a reconcile hits a gateway that the reconcile does not want, or
\* that has drifted.
LEMMA WritesSpareSurvivors ==
    ASSUME DistinctNames, NInv, NEW a \in Apps, Reconcile(a), NEW g \in GwIds,
           gws'[g] # gws[g], gws[g] # None, gws[g].forApp = a,
           job[a].want \in Specs, gws[g].addr \in job[a].want.targets
    PROVE  gws[g].rev # job[a].want.rev
<1> DEFINE j == job[a]
           t == gws[g].addr
<1> USE DEF Working, Creating, Updating, Holding, Writing
<1>1. TypeOK /\ job \in [Apps -> Job] /\ j \in Job /\ Phase(j) /\ AppInv(a)
  BY DEF NInv, Typed, TypeOK, Phases
<1>2. t \in Targets /\ g \in Running /\ g \in Mine(a, t) /\ gws[g].name = GwName[a][t]
  BY <1>1 DEF Running, Mine, TypeOK, Gateway, NInv, NamedForTarget
<1>3. ASSUME NEW u \in Targets, gws[g].name = GwName[a][u] PROVE u = t
  BY <1>2, <1>3 DEF DistinctNames
<1>4. ASSUME NEW u \in Targets, RemoveUndesired(a, u) PROVE FALSE
  <2>1. j.pc = "remove" /\ u \in Addrs(j.tracked) /\ u \notin j.want.targets /\ Refs(a) = j.tracked
    BY <1>1, <1>4 DEF RemoveUndesired, Phase, Refs
  <2>2. g = j.tracked[u].svc
    BY <1>1, <1>4 DEF RemoveUndesired, RemoveOk, RemoveFail, TypeOK
  <2>3. gws[g].name = GwName[a][u]
    BY <1>1, <2>1, <2>2 DEF AppInv, RefNamed
  <2> QED
    BY <1>3, <2>1, <2>3
<1>5. ASSUME NEW u \in Targets, TeardownOne(a, u) PROVE FALSE
  BY <1>1, <1>5 DEF TeardownOne, Phase
<1>6. ASSUME CreateOk(a) \/ CreateFail(a) PROVE FALSE
  <2>1. PICK h \in NewGwId : gws' = [gws EXCEPT ![h] = GatewaySpec(a)]
    BY <1>6 DEF CreateOk, CreateFail
  <2>2. g = h
    BY <1>1, <2>1 DEF TypeOK
  <2> QED
    BY <1>2, <2>2, NewGwIdIsUnused DEF UnusedGwIds
<1>7. CASE AdoptUpdateOk(a) \/ UpdateOk(a) \/ UpdateFail(a)
  <2>1. j.pc \in {"adoptUpdate", "update"} /\ UpdateApplies(a)
    BY <1>7 DEF AdoptUpdateOk, UpdateOk, UpdateFail
  <2>2. g = j.svc /\ gws[g] = j.seen
    BY <1>1, <2>1 DEF UpdateApplies, TypeOK
  <2>3. j.cur \in Targets /\ j.cur \in j.todo
    BY <1>1, <2>1 DEF Phase, Job
  <2>4. j.cur = t
    BY <1>1, <1>3, <2>1, <2>2, <2>3 DEF AppInv, SeenNamed
  <2>5. CASE j.pc = "adoptUpdate"
    <3>1. j.tracked[t] = None
      BY <1>1, <2>4, <2>5 DEF Phase
    <3> QED
      BY <1>1, <1>2, <2>3, <2>4, <2>5, <3>1 DEF AppInv, Unserved, Pending
  <2>6. CASE j.pc = "update"
    <3>1. j.tracked[t] # None /\ j.tracked[t].hash # j.want.rev /\ Refs(a) = j.tracked
      BY <1>1, <2>4, <2>6 DEF Phase, Refs
    <3> QED
      BY <1>1, <1>2, <3>1 DEF AppInv, RefExact, Addrs
  <2> QED
    BY <2>1, <2>5, <2>6
<1>8. ~(\/ Inspect(a) \/ ReadEgress(a) \/ ListFail(a) \/ BeginSync(a) \/ MintOk(a) \/ MintFail(a)
        \/ CreateExists(a) \/ AdoptFind(a) \/ AdoptMiss(a) \/ Finish(a) \/ ReadTeardown(a)
        \/ TeardownDone(a))
  BY DEF Inspect, ReadEgress, ListFail, BeginSync, MintOk, MintFail, CreateExists, AdoptFind, AdoptMiss,
         Finish, ReadTeardown, TeardownDone
<1>9. \A u \in Targets : ~(UpToDate(a, u) \/ StartCreate(a, u) \/ InspectGateway(a, u))
  BY DEF UpToDate, StartCreate, InspectGateway
<1> QED
  BY <1>4, <1>5, <1>6, <1>7, <1>8, <1>9 DEF Reconcile

\* When no two targets of an app share a gateway name, a reconcile changes or
\* removes a running gateway of a target it wants only if the gateway's hash
\* differs from the wanted one.
THEOREM SurvivorsLeftAlone == ASSUME DistinctNames PROVE Spec => SurvivorsUntouched
<1> DEFINE Touches(a, g) == /\ gws'[g] # gws[g]
                            /\ job[a].pc # "idle" /\ job'[a] # job[a]
                            /\ gws[g] # None /\ gws[g].forApp = a
                            /\ job[a].want \in Specs /\ gws[g].addr \in job[a].want.targets
           Spared == \A a \in Apps, g \in GwIds : Touches(a, g) => gws[g].rev # job[a].want.rev
<1>1. NInv /\ [Next]_vars => [Spared]_vars
  <2> SUFFICES ASSUME NInv, Next, NEW a \in Apps, NEW g \in GwIds, Touches(a, g)
               PROVE  gws[g].rev # job[a].want.rev
    OBVIOUS
  <2>1. Reconcile(a)
    <3>1. ~(\E b \in Apps : Relabel(b) \/ Deploy(b)) /\ ~(\E h \in GwIds : ExternalRemove(h)) /\ ~Crash
      BY DEF Relabel, Deploy, ExternalRemove, Crash
    <3> QED
      BY <3>1, OwnJobOnly DEF Next, NInv
  <2> QED
    BY <2>1, WritesSpareSurvivors
<1>2. NInv /\ [Next]_vars => NInv'
  BY InductiveNInv
<1>3. [][Spared]_vars <=> SurvivorsUntouched
  BY DEF SurvivorsUntouched
<1> QED
  BY InitNInv, <1>1, <1>2, <1>3, PTL DEF Spec
-----------------------------------------------------------------------------
(* Under mild faults: what a no-op means, and the keys *)

MildFaults == Faults \subseteq {"list", "create", "expire", "crash"}

\* The version seen of a service about to be updated is the running one.
Current(a) == job[a].pc \in Writing => gws[job[a].svc] = job[a].seen

\* Target t is tracked at revision rev, or has no gateway at all: it is never
\* left with a gateway of another revision that the next pass would adopt.
Kept(a, t, rev) == IF Refs(a)[t] = None THEN Mine(a, t) = {} ELSE Refs(a)[t].hash = rev

\* So it is for the wanted targets that the loop is done with, and for those
\* of the hash in the store.
Synced(a)   == job[a].pc \in Working \ {"remove"} =>
                   \A t \in job[a].want.targets \ job[a].todo : Kept(a, t, job[a].want.rev)
Recorded(a) == job[a].pc \in {"idle", "read"} /\ store[a].hash \in Specs =>
                   \A t \in store[a].hash.targets : Kept(a, t, store[a].hash.rev)

\* The keys the daemon answers for: the fresh one, and those of its refs until
\* a teardown is done with them.
Held(a)     == {t \in Addrs(Refs(a)) : job[a].pc = "teardown" => t \in job[a].todo}
HeldKeys(a) == {job[a].key} \cup {Refs(a)[t].key : t \in Held(a)}
Accounted   == \A k \in valid \ givenUp : \E a \in Apps : k \in HeldKeys(a)

KeptInv(a) == Current(a) /\ Synced(a) /\ Recorded(a)

SInv == /\ NInv
        /\ struck = {}
        /\ \A a \in Apps : KeptInv(a)
        /\ Accounted
-----------------------------------------------------------------------------
(* What a step of one app is to show *)

\* Only the fresh key of a and key x go out of a's hands, and x is not valid
\* or was given up.
Keeps(a, x) == /\ \A k \in valid' \ givenUp' : (k \in valid \ givenUp /\ k # x) \/ k \in HeldKeys(a)'
               /\ HeldKeys(a) \subseteq HeldKeys(a)' \cup {x, None}

\* The other apps were never deployed, so the step need speak of its own only.
LEMMA OwnSInv ==
    ASSUME SInv, NInv', struck' = {}, NEW a \in Apps, OnlyApp(a), labels[a] # NotYet, KeptInv(a)',
           NEW x, Keeps(a, x)
    PROVE  SInv'
<1>1. ASSUME NEW b \in Apps \ {a} PROVE KeptInv(b)'
  <2>1. labels[b] = NotYet
    BY DEF SInv, NInv, Sole
  <2>2. job[b] = Idle /\ store[b] = Empty
    BY <2>1 DEF SInv, NInv, AppInv, NotDeployed
  <2>3. job'[b].pc = "idle" /\ store'[b].hash = None
    BY <2>2 DEF OnlyApp, Idle, Empty
  <2> QED
    BY <2>3, NoneIsNil DEF KeptInv, Current, Synced, Recorded, Writing, Working
<1>2. Accounted'
  <2> SUFFICES ASSUME NEW k \in valid' \ givenUp', k \notin HeldKeys(a)'
               PROVE  \E b \in Apps : k \in HeldKeys(b)'
    BY DEF Accounted
  <2>1. k \in valid \ givenUp /\ k # x
    BY DEF Keeps
  <2>2. k # None
    BY <2>1, EgressConstants DEF SInv, NInv, Typed, TypeOK
  <2>3. PICK b \in Apps : k \in HeldKeys(b)
    BY <2>1 DEF SInv, Accounted
  <2>4. b # a
    BY <2>1, <2>2, <2>3 DEF Keeps
  <2>5. job'[b] = job[b] /\ store'[b] = store[b]
    BY <2>4 DEF OnlyApp
  <2>6. HeldKeys(b)' = HeldKeys(b)
    BY <2>5 DEF HeldKeys, Held, Refs
  <2> QED
    BY <2>3, <2>6
<1> QED
  BY <1>1, <1>2 DEF SInv

\* A step that leaves the swarm and the keys alone.
LEMMA QuietSInv ==
    ASSUME SInv, NInv', struck' = {}, NEW a \in Apps, NEW i, Moves(a, i),
           UNCHANGED <<labels, gws, valid, givenUp>>, labels[a] # NotYet,
           \A b \in Apps \ {a} : store'[b] = store[b],
           job[a].key \in {i.key, None},
           \A t \in Held(a) : t \in Held(a)' /\ Refs(a)'[t] = Refs(a)[t],
           KeptInv(a)'
    PROVE  SInv'
<1>1. OnlyApp(a)
  BY DEF OnlyApp, Moves, SInv
<1>2. Keeps(a, None)
  <2>1. job'[a].key = i.key
    BY DEF Moves
  <2>2. \A k \in valid' \ givenUp' : k # None
    BY EgressConstants DEF SInv, NInv, Typed, TypeOK
  <2>3. HeldKeys(a) \subseteq HeldKeys(a)' \cup {None}
    BY <2>1 DEF HeldKeys
  <2> QED
    BY <2>2, <2>3 DEF Keeps
<1> QED
  BY <1>1, <1>2, OwnSInv

\* Expired or given up, a key need not be answered for.
LEMMA ExpiredKey ==
    ASSUME NEW k, ExpireOrLog(k) \/ ExpireKey(k) \/ GiveUp(k)
    PROVE  \A y \in valid' \ givenUp' : y \in valid \ givenUp /\ y # k
  BY DEF ExpireOrLog, ExpireKey, GiveUp
-----------------------------------------------------------------------------
(* The actions *)

\* The steps up to the split and those that end a reconcile.
LEMMA EndsSInv ==
    ASSUME SInv, NInv', struck' = {}, NEW a \in Apps,
           \/ Inspect(a) \/ ReadEgress(a) \/ ListFail(a) \/ BeginSync(a) \/ Finish(a) \/ ReadTeardown(a)
           \/ TeardownDone(a)
    PROVE  SInv'
<1> DEFINE j == job[a]
<1> USE DEF Working, Writing, Holding
<1>1. /\ job \in [Apps -> Job] /\ store \in [Apps -> Entry] /\ TypeOK /\ j \in Job /\ Phase(j)
      /\ AppInv(a) /\ KeptInv(a)
  BY DEF SInv, NInv, Typed, TypeOK, Phases
<1>2. UNCHANGED <<labels, gws, valid, givenUp>>
  BY DEF Inspect, ReadEgress, ListFail, BeginSync, Finish, ReadTeardown, TeardownDone
<1>3. labels[a] # NotYet
  <2>1. labels[a] # NotYet \/ j.pc # "idle"
    BY DEF Inspect, ReadEgress, ListFail, BeginSync, Finish, ReadTeardown, TeardownDone
  <2> QED
    BY <1>1, <2>1 DEF AppInv, NotDeployed, Idle
<1>4. j.key = None
  BY <1>1 DEF Inspect, ReadEgress, ListFail, BeginSync, Finish, ReadTeardown, TeardownDone, Phase
<1>5. \A t : Mine(a, t)' = Mine(a, t)
  BY <1>2 DEF Mine, Running
<1>6. Idle.pc = "idle" /\ Empty.refs = NoRefs /\ Empty.hash = None /\ Addrs(NoRefs) = {}
  BY DEF Idle, Empty, Addrs, NoRefs
<1>7. ASSUME NEW i, Moves(a, i), i.pc \in {"idle", "read"}, j.pc \in {"idle", "read"}, store' = store
      PROVE  SInv'
  <2>1. Refs(a) = store[a].refs /\ Refs(a)' = store[a].refs /\ job'[a] = i
    BY <1>7 DEF Refs, Moves
  <2>2. \A t \in Held(a) : t \in Held(a)' /\ Refs(a)'[t] = Refs(a)[t]
    BY <1>7, <2>1 DEF Held
  <2>3. KeptInv(a)'
    BY <1>1, <1>5, <1>7, <2>1 DEF KeptInv, Current, Synced, Recorded, Kept
  <2> QED
    BY <1>2, <1>3, <1>4, <1>7, <2>2, <2>3, QuietSInv
<1>8. ASSUME Moves(a, Idle), store' = [store EXCEPT ![a] = Empty], Held(a) = {}
      PROVE  SInv'
  <2>1. store'[a] = Empty /\ (\A b \in Apps \ {a} : store'[b] = store[b]) /\ job'[a] = Idle
    BY <1>1, <1>8 DEF Moves
  <2>2. KeptInv(a)'
    BY <1>6, <2>1, NoneIsNil DEF KeptInv, Current, Synced, Recorded
  <2> QED
    BY <1>2, <1>3, <1>4, <1>8, <2>1, <2>2, QuietSInv
<1>9. CASE Inspect(a)
  <2> DEFINE k == JobRec("read", labels[a], NoRefs, {}, None, None, None, None)
  <2>1. Moves(a, k) /\ k.pc = "read" /\ store' = store /\ j.pc = "idle"
    BY <1>1, <1>9, InspectMoves DEF Inspect, JobRec
  <2> QED
    BY <1>7, <2>1
<1>10. CASE ListFail(a)
  BY <1>1, <1>6, <1>7, <1>10, Moving DEF ListFail
<1>11. CASE ReadEgress(a)
  <2>1. j.pc = "read" /\ store' = store
    BY <1>11 DEF ReadEgress
  <2>2. ASSUME NEW m \in TrackedGateways(a),
               Moves(a, JobRec("remove", j.want, m, Addrs(m) \ j.want.targets, j.cur, j.key, j.svc,
                               j.seen))
        PROVE  SInv'
    <3> DEFINE k == JobRec("remove", j.want, m, Addrs(m) \ j.want.targets, j.cur, j.key, j.svc, j.seen)
    <3>1. k.pc = "remove" /\ k.tracked = m
      BY DEF JobRec
    <3> HIDE DEF k
    <3>2. Moves(a, k) /\ job'[a] = k
      BY <2>2 DEF k, Moves
    <3>3. Refs(a) = store[a].refs /\ Refs(a)' = m
      BY <2>1, <3>1, <3>2 DEF Refs
    <3>4. \A t \in Targets : store[a].refs[t] # None => m[t] = store[a].refs[t]
      BY DEF TrackedGateways, RefFor
    <3>5. \A t \in Held(a) : t \in Held(a)' /\ Refs(a)'[t] = Refs(a)[t]
      BY <3>1, <3>2, <3>3, <3>4 DEF Held, Addrs
    <3>6. KeptInv(a)'
      BY <3>1, <3>2 DEF KeptInv, Current, Synced, Recorded
    <3> QED
      BY <1>2, <1>3, <1>4, <2>1, <3>2, <3>5, <3>6, QuietSInv
  <2> QED
    BY <1>1, <1>6, <1>7, <1>11, <2>1, <2>2, ReadEgressMoves
<1>12. CASE BeginSync(a)
  <2> DEFINE k == JobRec("sync", j.want, j.tracked, j.want.targets, j.cur, j.key, j.svc, j.seen)
  <2>1. Moves(a, k) /\ store' = store /\ j.pc = "remove"
    BY <1>1, <1>12, BeginSyncMoves DEF BeginSync
  <2>2. k.pc = "sync" /\ k.tracked = j.tracked /\ k.todo = j.want.targets /\ k.want = j.want
    BY DEF JobRec
  <2> HIDE DEF k
  <2>3. job'[a] = k /\ Refs(a) = j.tracked /\ Refs(a)' = j.tracked
    BY <2>1, <2>2 DEF Moves, Refs
  <2>4. \A t \in Held(a) : t \in Held(a)' /\ Refs(a)'[t] = Refs(a)[t]
    BY <2>1, <2>2, <2>3 DEF Held
  <2>5. KeptInv(a)'
    BY <2>2, <2>3 DEF KeptInv, Current, Synced, Recorded
  <2> QED
    BY <1>2, <1>3, <1>4, <2>1, <2>4, <2>5, QuietSInv
<1>13. CASE Finish(a)
  <2>1. /\ Moves(a, Idle) /\ j.pc = "sync" /\ j.todo = {}
        /\ store' = [store EXCEPT ![a] = [refs |-> j.tracked, hash |-> j.want]]
    BY <1>1, <1>13, Moving DEF Finish
  <2>2. /\ store'[a].refs = j.tracked /\ store'[a].hash = j.want
        /\ \A b \in Apps \ {a} : store'[b] = store[b]
    BY <1>1, <2>1
  <2>3. job'[a] = Idle /\ Refs(a) = j.tracked /\ Refs(a)' = j.tracked
    BY <1>6, <2>1, <2>2 DEF Moves, Refs
  <2>4. \A t \in Held(a) : t \in Held(a)' /\ Refs(a)'[t] = Refs(a)[t]
    BY <1>6, <2>3 DEF Held
  <2>5. \A t \in j.want.targets : Kept(a, t, j.want.rev)
    BY <1>1, <2>1 DEF KeptInv, Synced
  <2>6. KeptInv(a)'
    BY <1>5, <1>6, <2>2, <2>3, <2>5 DEF KeptInv, Current, Synced, Recorded, Kept
  <2> QED
    BY <1>2, <1>3, <1>4, <2>1, <2>2, <2>4, <2>6, QuietSInv
<1>14. CASE TeardownDone(a)
  BY <1>1, <1>8, <1>14, Moving DEF TeardownDone, Held
<1>15. CASE ReadTeardown(a)
  <2>1. j.pc = "read" /\ Refs(a) = store[a].refs
    BY <1>15 DEF ReadTeardown, Refs
  <2>2. CASE /\ Moves(a, Idle) /\ Addrs(store[a].refs) = {}
             /\ store' = store \/ store' = [store EXCEPT ![a] = Empty]
    BY <1>6, <1>7, <1>8, <2>1, <2>2 DEF Held
  <2>3. CASE /\ store' = store
             /\ Moves(a, JobRec("teardown", j.want, store[a].refs, Addrs(store[a].refs), j.cur, j.key,
                                j.svc, j.seen))
    <3> DEFINE k == JobRec("teardown", j.want, store[a].refs, Addrs(store[a].refs), j.cur, j.key,
                           j.svc, j.seen)
    <3>1. k.pc = "teardown" /\ k.tracked = store[a].refs /\ k.todo = Addrs(store[a].refs)
      BY DEF JobRec
    <3> HIDE DEF k
    <3>2. Moves(a, k) /\ job'[a] = k
      BY <2>3 DEF k, Moves
    <3>3. Refs(a)' = store[a].refs
      BY <3>1, <3>2 DEF Refs
    <3>4. \A t \in Held(a) : t \in Held(a)' /\ Refs(a)'[t] = Refs(a)[t]
      BY <2>1, <3>1, <3>2, <3>3 DEF Held
    <3>5. KeptInv(a)'
      BY <3>1, <3>2 DEF KeptInv, Current, Synced, Recorded
    <3> QED
      BY <1>2, <1>3, <1>4, <2>3, <3>2, <3>4, <3>5, QuietSInv
  <2> QED
    BY <1>1, <1>15, <2>2, <2>3, ReadTeardownMoves
<1> QED
  BY <1>9, <1>10, <1>11, <1>12, <1>13, <1>14, <1>15

\* A step of the loop that leaves the swarm and the refs alone; the targets it
\* takes off the list are up to date.
LEMMA LoopSInv ==
    ASSUME SInv, NInv', struck' = {}, NEW a \in Apps, NEW i, Moves(a, i),
           UNCHANGED <<labels, gws, store>>,
           job[a].pc \in Working \ {"remove"}, i.pc \in Working \ {"remove"},
           i.want = job[a].want, i.tracked = job[a].tracked,
           \A t \in job[a].todo \ i.todo :
               job[a].tracked[t] # None /\ job[a].tracked[t].hash = job[a].want.rev,
           i.pc \in Writing => gws[i.svc] = i.seen,
           job[a].key \in {i.key, None},
           \A k \in valid' \ givenUp' : k \in valid \ givenUp \/ k = i.key
    PROVE  SInv'
<1> DEFINE j == job[a]
<1> USE DEF Working
<1>1. j \in Job /\ AppInv(a) /\ KeptInv(a) /\ job'[a] = i
  BY DEF SInv, NInv, Typed, TypeOK, Moves
<1>2. Refs(a) = j.tracked /\ Refs(a)' = j.tracked
  BY <1>1 DEF Refs
<1>3. OnlyApp(a) /\ labels[a] # NotYet
  BY <1>1 DEF OnlyApp, Moves, SInv, AppInv, NotDeployed, Idle
<1>4. \A t : Mine(a, t)' = Mine(a, t)
  BY DEF Mine, Running
<1>5. KeptInv(a)'
  <2>1. Current(a)' /\ Recorded(a)'
    BY <1>1 DEF Current, Recorded
  <2>2. Synced(a)'
    <3> SUFFICES ASSUME NEW t \in j.want.targets \ i.todo PROVE Kept(a, t, j.want.rev)'
      BY <1>1 DEF Synced
    <3>1. CASE t \in j.todo
      BY <1>1, <1>2, <3>1 DEF Kept
    <3>2. CASE t \notin j.todo
      <4>1. Kept(a, t, j.want.rev)
        BY <1>1, <3>2 DEF KeptInv, Synced
      <4> QED
        BY <1>1, <1>2, <1>4, <4>1 DEF Kept
    <3> QED
      BY <3>1, <3>2
  <2> QED
    BY <2>1, <2>2 DEF KeptInv
<1>6. Keeps(a, None)
  <2>1. Held(a) = Addrs(j.tracked) /\ Held(a)' = Addrs(j.tracked)
    BY <1>1, <1>2 DEF Held
  <2>2. HeldKeys(a) \subseteq HeldKeys(a)' \cup {None} /\ i.key \in HeldKeys(a)'
    BY <1>1, <1>2, <2>1 DEF HeldKeys
  <2>3. \A k \in valid' : k # None
    BY EgressConstants DEF SInv, NInv, Typed, TypeOK
  <2> QED
    BY <2>2, <2>3 DEF Keeps
<1> QED
  BY <1>3, <1>5, <1>6, OwnSInv

\* The loop up to a write.
LEMMA BeginSInv ==
    ASSUME MildFaults, SInv, NInv', struck' = {}, NEW a \in Apps,
           \/ \E t \in Targets : UpToDate(a, t) \/ StartCreate(a, t) \/ InspectGateway(a, t)
           \/ MintOk(a) \/ MintFail(a) \/ CreateExists(a) \/ AdoptFind(a)
    PROVE  SInv'
<1> DEFINE j == job[a]
<1> USE DEF Working, Creating, Updating, Holding, Writing
<1>1. /\ job \in [Apps -> Job] /\ TypeOK /\ j \in Job /\ Phase(j) /\ AppInv(a) /\ KeptInv(a)
      /\ struck = {}
  BY DEF SInv, NInv, Typed, TypeOK, Phases
<1>2. UNCHANGED <<labels, gws, store>>
  BY DEF UpToDate, StartCreate, InspectGateway, MintOk, MintFail, CreateExists, AdoptFind
<1>3. ASSUME NEW t \in Targets, UpToDate(a, t) PROVE SInv'
  <2> DEFINE i == JobRec(j.pc, j.want, j.tracked, j.todo \ {t}, j.cur, j.key, j.svc, j.seen)
  <2>1. /\ Moves(a, i) /\ j.pc = "sync" /\ UNCHANGED <<valid, givenUp>>
        /\ j.tracked[t] # None /\ j.tracked[t].hash = j.want.rev
    BY <1>1, <1>3, TodoMoves DEF UpToDate
  <2>2. i.pc = "sync" /\ i.want = j.want /\ i.tracked = j.tracked /\ i.todo = j.todo \ {t} /\ i.key = j.key
    BY <2>1 DEF JobRec
  <2> HIDE DEF i
  <2> QED
    BY <1>2, <2>1, <2>2, LoopSInv
<1>4. ASSUME NEW t \in Targets, StartCreate(a, t) PROVE SInv'
  <2> DEFINE i == JobRec("mintCreate", j.want, j.tracked, j.todo, t, j.key, j.svc, j.seen)
  <2>1. Moves(a, i) /\ j.pc = "sync" /\ UNCHANGED <<valid, givenUp>>
    BY <1>1, <1>4, StartCreateMoves DEF StartCreate
  <2>2. i.pc = "mintCreate" /\ i.want = j.want /\ i.tracked = j.tracked /\ i.todo = j.todo /\ i.key = j.key
    BY DEF JobRec
  <2> HIDE DEF i
  <2> QED
    BY <1>2, <2>1, <2>2, LoopSInv
<1>5. ASSUME NEW t \in Targets, InspectGateway(a, t) PROVE SInv'
  <2> DEFINE g == j.tracked[t].svc
             i == JobRec("mintUpdate", j.want, j.tracked, j.todo, t, j.key, g, gws[g])
  <2>1. j.pc = "sync" /\ UNCHANGED <<valid, givenUp>> /\ t \in Addrs(Refs(a)) /\ Refs(a) = j.tracked
    BY <1>5 DEF InspectGateway, Addrs, Refs
  <2>2. gws[g] # None
    BY <1>1, <2>1 DEF AppInv, RefsRun, Mine, Running
  <2>3. ~Fault("update")
    BY DEF Fault, MildFaults
  <2>4. Moves(a, i)
    BY <1>1, <1>5, <2>2, <2>3, InspectGatewayMoves
  <2>5. /\ i.pc = "mintUpdate" /\ i.want = j.want /\ i.tracked = j.tracked /\ i.todo = j.todo
        /\ i.key = j.key /\ i.svc = g /\ i.seen = gws[g]
    BY DEF JobRec
  <2> HIDE DEF i
  <2> QED
    BY <1>2, <2>1, <2>4, <2>5, LoopSInv
<1>6. CASE MintOk(a)
  <2> DEFINE pc == IF j.pc = "mintCreate" THEN "create" ELSE "update"
  <2>1. PICK x \in Keys :
          Mint(x) /\ Moves(a, JobRec(pc, j.want, j.tracked, j.todo, j.cur, x, j.svc, j.seen))
    BY <1>1, <1>6, MintOkMoves
  <2> DEFINE i == JobRec(pc, j.want, j.tracked, j.todo, j.cur, x, j.svc, j.seen)
  <2>2. j.pc \in {"mintCreate", "mintUpdate"}
    BY <1>6 DEF MintOk
  <2>3. /\ i.pc \in {"create", "update"} /\ (i.pc = "update" => j.pc = "mintUpdate")
        /\ i.want = j.want /\ i.tracked = j.tracked /\ i.todo = j.todo
        /\ i.key = x /\ i.svc = j.svc /\ i.seen = j.seen
    BY <2>2 DEF JobRec
  <2>4. j.key = None
    BY <1>1, <2>2 DEF Phase
  <2>5. i.pc \in Writing => gws[i.svc] = i.seen
    BY <1>1, <2>3 DEF KeptInv, Current
  <2>6. \A k \in valid' \ givenUp' : k \in valid \ givenUp \/ k = x
    BY <2>1 DEF Mint
  <2> HIDE DEF i
  <2>7. Moves(a, i)
    BY <2>1 DEF i
  <2> QED
    BY <1>2, <2>2, <2>3, <2>4, <2>5, <2>6, <2>7, LoopSInv
<1>7. ~MintFail(a)
  BY DEF MintFail, Fault, MildFaults
<1>8. CASE CreateExists(a)
  <2> DEFINE i == At(a, "adopt")
  <2>1. Moves(a, i) /\ j.pc = "create" /\ UNCHANGED <<valid, givenUp>>
    BY <1>1, <1>8, Moving DEF CreateExists
  <2>2. i.pc = "adopt" /\ i.want = j.want /\ i.tracked = j.tracked /\ i.todo = j.todo /\ i.key = j.key
    BY DEF At, JobRec
  <2> HIDE DEF i
  <2> QED
    BY <1>2, <2>1, <2>2, LoopSInv
<1>9. CASE AdoptFind(a)
  <2>1. PICK g \in Named(GwName[a][j.cur]) :
          Moves(a, JobRec("adoptUpdate", j.want, j.tracked, j.todo, j.cur, j.key, g, gws[g]))
    BY <1>1, <1>9, AdoptFindMoves
  <2> DEFINE i == JobRec("adoptUpdate", j.want, j.tracked, j.todo, j.cur, j.key, g, gws[g])
  <2>2. /\ i.pc = "adoptUpdate" /\ i.want = j.want /\ i.tracked = j.tracked /\ i.todo = j.todo
        /\ i.key = j.key /\ i.svc = g /\ i.seen = gws[g]
    BY DEF JobRec
  <2>3. j.pc = "adopt" /\ UNCHANGED <<valid, givenUp>>
    BY <1>9 DEF AdoptFind
  <2> HIDE DEF i
  <2>4. Moves(a, i)
    BY <2>1 DEF i
  <2> QED
    BY <1>2, <2>2, <2>3, <2>4, LoopSInv
<1> QED
  BY <1>3, <1>4, <1>5, <1>6, <1>7, <1>8, <1>9

\* A removal expires the key of the ref that goes.
LEMMA RemovalSInv ==
    ASSUME MildFaults, SInv, NInv', struck' = {}, NEW a \in Apps, NEW t \in Targets,
           RemoveUndesired(a, t) \/ TeardownOne(a, t)
    PROVE  SInv'
<1> DEFINE j   == job[a]
           ref == j.tracked[t]
           k   == JobRec(j.pc, j.want, j.tracked, j.todo \ {t}, j.cur, j.key, j.svc, j.seen)
           l   == JobRec(j.pc, j.want, [j.tracked EXCEPT ![t] = None], j.todo \ {t}, j.cur, j.key,
                         j.svc, j.seen)
<1> USE DEF Working, Writing
<1>1. job \in [Apps -> Job] /\ TypeOK /\ j \in Job /\ Phase(j) /\ AppInv(a) /\ KeptInv(a)
  BY DEF SInv, NInv, Typed, TypeOK, Phases
<1>2. ~RemoveFail(ref)
  BY DEF RemoveFail, Fault, MildFaults
<1>3. /\ RemoveOk(ref) /\ UNCHANGED <<labels, store>>
      /\ (j.pc = "remove" /\ Moves(a, l)) \/ (j.pc = "teardown" /\ Moves(a, k))
  BY <1>1, <1>2, TodoMoves DEF RemoveUndesired, TeardownOne
<1>4. PICK i : /\ Moves(a, i) /\ i.pc = j.pc /\ i.key = j.key /\ i.todo = j.todo \ {t}
               /\ \A u \in Targets \ {t} : i.tracked[u] = j.tracked[u]
  <2>1. /\ k.pc = j.pc /\ k.key = j.key /\ k.todo = j.todo \ {t}
        /\ \A u \in Targets \ {t} : k.tracked[u] = j.tracked[u]
    BY DEF JobRec
  <2>2. /\ l.pc = j.pc /\ l.key = j.key /\ l.todo = j.todo \ {t}
        /\ \A u \in Targets \ {t} : l.tracked[u] = j.tracked[u]
    BY <1>1 DEF JobRec, Job, Tracked
  <2> HIDE DEF k, l
  <2> QED
    BY <1>3, <2>1, <2>2
<1>5. job'[a] = i /\ Refs(a) = j.tracked /\ Refs(a)' = i.tracked
  BY <1>3, <1>4 DEF Moves, Refs
<1>6. OnlyApp(a) /\ labels[a] # NotYet
  BY <1>1, <1>3, <1>4 DEF OnlyApp, Moves, SInv, AppInv, NotDeployed, Idle
<1>7. KeptInv(a)'
  BY <1>3, <1>4, <1>5 DEF KeptInv, Current, Synced, Recorded
<1>8. Keeps(a, ref.key)
  <2>1. \A y \in valid' \ givenUp' : y \in valid \ givenUp /\ y # ref.key
    BY <1>3, ExpiredKey DEF RemoveOk
  <2>2. \A u \in Held(a) \ {t} : u \in Held(a)' /\ Refs(a)'[u] = Refs(a)[u]
    BY <1>4, <1>5 DEF Held, Addrs
  <2>3. HeldKeys(a) \subseteq HeldKeys(a)' \cup {ref.key, None}
    BY <1>4, <1>5, <2>2 DEF HeldKeys
  <2> QED
    BY <2>1, <2>3 DEF Keeps
<1> QED
  BY <1>6, <1>7, <1>8, OwnSInv

\* A write installs the fresh key, and the key it replaces is expired.
LEMMA WriteSInv ==
    ASSUME SInv, NInv', struck' = {}, NEW a \in Apps, CreateOk(a) \/ AdoptUpdateOk(a) \/ UpdateOk(a)
    PROVE  SInv'
<1> DEFINE j == job[a]
           c == job[a].cur
<1> USE DEF Working, Creating, Updating, Holding, Writing
<1>1. job \in [Apps -> Job] /\ TypeOK /\ Typed /\ j \in Job /\ Phase(j) /\ AppInv(a) /\ KeptInv(a)
  BY DEF SInv, NInv, Typed, TypeOK, Phases
<1>2. j.pc \in Holding /\ UNCHANGED <<labels, store>>
  BY DEF CreateOk, AdoptUpdateOk, UpdateOk
<1>3. c \in Targets /\ j.key \in Keys
  BY <1>1, <1>2, SpecTyped
<1>4. \E g \in GwIds : Installs(a, g) /\ Settle(a, c, NewRef(a, g))
  <2>1. CASE CreateOk(a)
    BY <2>1, NewGwIdIsUnused DEF CreateOk, UnusedGwIds, Installs
  <2>2. CASE AdoptUpdateOk(a) \/ UpdateOk(a)
    <3>1. j.svc \in GwIds
      BY <1>1, <2>2 DEF AdoptUpdateOk, UpdateOk, Phase, Job
    <3> QED
      BY <2>2, <3>1 DEF AdoptUpdateOk, UpdateOk, UpdateApplies, Installs
  <2> QED
    BY <2>1, <2>2
<1>5. PICK g \in GwIds : Installs(a, g) /\ Settle(a, c, NewRef(a, g))
  BY <1>4
<1> DEFINE i == SettledAs(a, c, NewRef(a, g))
<1>6. Moves(a, i)
  BY <1>1, <1>5, Moving
<1>7. /\ i.pc = "sync" /\ i.want = j.want /\ i.todo = j.todo \ {c} /\ i.key = None
      /\ i.tracked[c] = NewRef(a, g)
      /\ \A u \in Targets \ {c} : i.tracked[u] = j.tracked[u]
  BY <1>1, <1>3 DEF SettledAs, JobRec, Job, Tracked
<1>8. NewRef(a, g) # None /\ NewRef(a, g).key = j.key /\ NewRef(a, g).hash = j.want.rev
  BY <1>1, <1>2, SpecTyped, NoneIsNil DEF NewRef
<1> HIDE DEF i
<1>9. job'[a] = i /\ Refs(a) = j.tracked /\ Refs(a)' = i.tracked
  BY <1>2, <1>6, <1>7 DEF Moves, Refs
<1>10. OnlyApp(a) /\ labels[a] # NotYet
  BY <1>1, <1>2, <1>6 DEF OnlyApp, Moves, SInv, AppInv, NotDeployed, Idle
<1>11. \A u \in Targets \ {c} : Mine(a, u)' \subseteq Mine(a, u)
  BY <1>1, <1>5 DEF Installs, GatewaySpec, Mine, Running, TypeOK
<1>12. KeptInv(a)'
  <2>1. Current(a)' /\ Recorded(a)'
    BY <1>7, <1>9 DEF Current, Recorded
  <2>2. Synced(a)'
    <3> SUFFICES ASSUME NEW u \in j.want.targets \ i.todo PROVE Kept(a, u, j.want.rev)'
      BY <1>7, <1>9 DEF Synced
    <3>1. CASE u = c
      BY <1>7, <1>8, <1>9, <3>1 DEF Kept
    <3>2. CASE u # c
      <4>1. u \in Targets \ {c} /\ u \notin j.todo
        BY <1>1, <1>2, <1>7, <3>2 DEF Phase, Specs
      <4>2. Kept(a, u, j.want.rev)
        BY <1>1, <1>2, <4>1 DEF KeptInv, Synced
      <4> QED
        BY <1>7, <1>9, <1>11, <4>1, <4>2 DEF Kept
    <3> QED
      BY <3>1, <3>2
  <2> QED
    BY <2>1, <2>2 DEF KeptInv
<1>13. \A u \in Held(a) \ {c} : u \in Held(a)' /\ Refs(a)'[u] = Refs(a)[u]
  BY <1>2, <1>7, <1>9 DEF Held, Addrs
<1>14. c \in Held(a)' /\ Refs(a)'[c].key = j.key
  BY <1>3, <1>7, <1>8, <1>9 DEF Held, Addrs
<1>15. CASE CreateOk(a) \/ AdoptUpdateOk(a)
  <2>1. UNCHANGED <<valid, givenUp>> /\ c \notin Held(a)
    BY <1>1, <1>9, <1>15 DEF CreateOk, AdoptUpdateOk, Phase, Held, Addrs
  <2>2. HeldKeys(a) \subseteq HeldKeys(a)' \cup {None}
    BY <1>13, <1>14, <2>1 DEF HeldKeys
  <2>3. \A k \in valid' : k # None
    BY EgressConstants DEF SInv, NInv, Typed, TypeOK
  <2>4. Keeps(a, None)
    BY <2>1, <2>2, <2>3 DEF Keeps
  <2> QED
    BY <1>10, <1>12, <2>4, OwnSInv
<1>16. CASE UpdateOk(a)
  <2> DEFINE x == j.tracked[c].key
  <2>1. \A y \in valid' \ givenUp' : y \in valid \ givenUp /\ y # x
    BY <1>16, ExpiredKey DEF UpdateOk
  <2>2. HeldKeys(a) \subseteq HeldKeys(a)' \cup {x, None}
    BY <1>9, <1>13, <1>14 DEF HeldKeys
  <2>3. Keeps(a, x)
    BY <2>1, <2>2 DEF Keeps
  <2> QED
    BY <1>10, <1>12, <2>3, OwnSInv
<1> QED
  BY <1>15, <1>16

\* A create that failed had no gateway to leave behind, and an update does not
\* fail.
LEMMA RollBackSInv ==
    ASSUME MildFaults, SInv, NInv', struck' = {}, NEW a \in Apps,
           CreateFail(a) \/ AdoptMiss(a) \/ UpdateFail(a)
    PROVE  SInv'
<1> DEFINE j == job[a]
           c == job[a].cur
           i == SettledAs(a, c, None)
<1> USE DEF Working, Creating, Updating, Holding, Writing
<1>1. job \in [Apps -> Job] /\ TypeOK /\ Typed /\ j \in Job /\ Phase(j) /\ AppInv(a) /\ KeptInv(a)
  BY DEF SInv, NInv, Typed, TypeOK, Phases
<1>2. ~Fault("update") /\ ~Fault("lost")
  BY DEF Fault, MildFaults
<1>3. ~UpdateFail(a)
  BY <1>1, <1>2 DEF UpdateFail, KeptInv, Current
<1>4. /\ j.pc \in {"create", "adopt"} /\ UNCHANGED <<labels, gws, store>>
      /\ RollBack(a) /\ Settle(a, c, None)
  BY <1>2, <1>3 DEF CreateFail, AdoptMiss
<1>5. c \in Targets /\ c \in j.todo /\ j.tracked[c] = None
  BY <1>1, <1>4, SpecTyped DEF Phase
<1>6. Moves(a, i)
  BY <1>1, <1>4, Moving
<1>7. /\ i.pc = "sync" /\ i.want = j.want /\ i.todo = j.todo \ {c} /\ i.key = None
      /\ \A u \in Targets : i.tracked[u] = j.tracked[u]
  BY <1>1, <1>5 DEF SettledAs, JobRec, Job, Tracked
<1> HIDE DEF i
<1>8. job'[a] = i /\ Refs(a) = j.tracked /\ Refs(a)' = i.tracked
  BY <1>4, <1>6, <1>7 DEF Moves, Refs
<1>9. OnlyApp(a) /\ labels[a] # NotYet
  BY <1>1, <1>4, <1>6 DEF OnlyApp, Moves, SInv, AppInv, NotDeployed, Idle
<1>10. \A u : Mine(a, u)' = Mine(a, u)
  BY <1>4 DEF Mine, Running
<1>11. KeptInv(a)'
  <2>1. Current(a)' /\ Recorded(a)'
    BY <1>7, <1>8 DEF Current, Recorded
  <2>2. Synced(a)'
    <3> SUFFICES ASSUME NEW u \in j.want.targets \ i.todo PROVE Kept(a, u, j.want.rev)'
      BY <1>7, <1>8 DEF Synced
    <3>1. u \in Targets /\ (u = c \/ u \notin j.todo)
      BY <1>1, <1>4, <1>7 DEF Phase, Specs
    <3>2. Kept(a, u, j.want.rev)
      <4>1. CASE u = c
        BY <1>1, <1>4, <1>5, <1>8, <4>1 DEF AppInv, Unserved, Pending, Kept
      <4>2. CASE u \notin j.todo
        BY <1>1, <1>4, <4>2 DEF KeptInv, Synced
      <4> QED
        BY <3>1, <4>1, <4>2
    <3> QED
      BY <1>7, <1>8, <1>10, <3>1, <3>2 DEF Kept
  <2> QED
    BY <2>1, <2>2 DEF KeptInv
<1>12. Keeps(a, j.key)
  <2>1. \A y \in valid' \ givenUp' : y \in valid \ givenUp /\ y # j.key
    BY <1>4, ExpiredKey DEF RollBack
  <2>2. \A u \in Held(a) : u \in Held(a)' /\ Refs(a)'[u] = Refs(a)[u]
    BY <1>4, <1>7, <1>8 DEF Held, Addrs
  <2>3. HeldKeys(a) \subseteq HeldKeys(a)' \cup {j.key, None}
    BY <2>2 DEF HeldKeys
  <2> QED
    BY <2>1, <2>3 DEF Keeps
<1> QED
  BY <1>9, <1>11, <1>12, OwnSInv

\* None of the faults is a lasting one.
LEMMA NothingStruck == ASSUME MildFaults, [Next]_vars PROVE struck' = struck
<1>1. \A kind : Fault(kind) => struck' = struck
  BY DEF Fault, MildFaults, Lasting
<1>2. ASSUME NEW a \in Apps, Reconcile(a) PROVE struck' = struck
  <2>1. \A k : ExpireOrLog(k) => struck' = struck
    BY <1>1 DEF ExpireOrLog, NoFault
  <2>2. ASSUME NEW ref, RemoveOk(ref) \/ RemoveFail(ref) PROVE struck' = struck
    BY <1>1, <2>1, <2>2 DEF RemoveOk, RemoveFail
  <2>3. CASE \/ Inspect(a) \/ ReadEgress(a) \/ ListFail(a) \/ BeginSync(a) \/ MintOk(a) \/ MintFail(a)
             \/ CreateOk(a) \/ CreateExists(a) \/ CreateFail(a)
    BY <1>1, <2>3 DEF Inspect, ReadEgress, ListFail, BeginSync, MintOk, MintFail, CreateOk, CreateExists,
                      CreateFail
  <2>4. CASE \/ AdoptFind(a) \/ AdoptMiss(a) \/ AdoptUpdateOk(a) \/ UpdateOk(a) \/ UpdateFail(a)
             \/ Finish(a) \/ ReadTeardown(a) \/ TeardownDone(a)
    BY <1>1, <2>1, <2>4 DEF AdoptFind, AdoptMiss, AdoptUpdateOk, UpdateOk, UpdateFail, Finish,
                            ReadTeardown, TeardownDone, NoFault
  <2>5. ASSUME NEW t \in Targets,
               \/ RemoveUndesired(a, t) \/ UpToDate(a, t) \/ StartCreate(a, t)
               \/ InspectGateway(a, t) \/ TeardownOne(a, t)
        PROVE  struck' = struck
    BY <1>1, <2>2, <2>5 DEF RemoveUndesired, UpToDate, StartCreate, InspectGateway, TeardownOne, NoFault
  <2> QED
    BY <1>2, <2>3, <2>4, <2>5 DEF Reconcile
<1>3. ASSUME \/ \E a \in Apps : Relabel(a) \/ Deploy(a)
             \/ \E g \in GwIds : ExternalRemove(g)
             \/ Crash
             \/ UNCHANGED vars
      PROVE  struck' = struck
  BY <1>1, <1>3 DEF Relabel, Deploy, ExternalRemove, Crash, vars
<1> QED
  BY <1>2, <1>3 DEF Next

\* The environment: label changes and crashes.
LEMMA EnvironmentSInv ==
    ASSUME MildFaults, SInv, NInv', struck' = {},
           \/ \E a \in Apps : Relabel(a) \/ Deploy(a)
           \/ \E g \in GwIds : ExternalRemove(g)
           \/ Crash
           \/ UNCHANGED vars
    PROVE  SInv'
<1>1. ~Fault("recreate") /\ ~Fault("external")
  BY DEF Fault, MildFaults
<1>2. CASE UNCHANGED <<gws, valid, store, job, givenUp>>
  <2>1. \A a \in Apps : KeptInv(a)'
    BY <1>2 DEF SInv, KeptInv, Current, Synced, Recorded, Kept, Refs, Mine, Running
  <2>2. Accounted'
    BY <1>2 DEF SInv, Accounted, HeldKeys, Held, Refs
  <2> QED
    BY <2>1, <2>2 DEF SInv
<1>3. CASE Crash
  <2>1. \A a \in Apps : job'[a].pc = "idle" /\ store'[a].hash = None
    BY <1>3 DEF Crash, Idle, Empty
  <2>2. \A a \in Apps : KeptInv(a)'
    BY <2>1, NoneIsNil DEF KeptInv, Current, Synced, Recorded, Writing, Working
  <2>3. Accounted'
    BY <1>3 DEF Crash, Accounted
  <2> QED
    BY <2>2, <2>3 DEF SInv
<1> QED
  BY <1>1, <1>2, <1>3 DEF Relabel, Deploy, ExternalRemove, vars

\* The invariant holds initially and every step keeps it.
LEMMA InductiveSInv ==
    ASSUME DistinctNames, MildFaults
    PROVE  (Init => SInv) /\ (SInv /\ [Next]_vars => SInv')
<1>1. ASSUME Init PROVE SInv
  <2>1. \A a \in Apps : job[a].pc = "idle" /\ store[a].hash = None
    BY <1>1 DEF Init, Idle, Empty
  <2>2. \A a \in Apps : KeptInv(a)
    BY <2>1, NoneIsNil DEF KeptInv, Current, Synced, Recorded, Writing, Working
  <2>3. Accounted /\ struck = {}
    BY <1>1 DEF Init, Accounted
  <2> QED
    BY <1>1, <2>2, <2>3, InitNInv DEF SInv
<1>2. ASSUME SInv, [Next]_vars PROVE SInv'
  <2>1. NInv' /\ struck' = {}
    BY <1>2, InductiveNInv, NothingStruck DEF SInv
  <2>2. ASSUME NEW a \in Apps, Reconcile(a) PROVE SInv'
    BY <1>2, <2>1, <2>2, EndsSInv, BeginSInv, RemovalSInv, WriteSInv, RollBackSInv DEF Reconcile
  <2> QED
    BY <1>2, <2>1, <2>2, EnvironmentSInv DEF Next
<1> QED
  BY <1>1, <1>2
-----------------------------------------------------------------------------
(* The properties *)

\* When updates, removals and mints succeed and no two targets of an app share
\* a gateway name, a reconcile takes the fast path only if every target of the
\* labels is served at its revision and no other gateway of the app runs.
THEOREM FastPathMeansServed ==
    ASSUME DistinctNames, MildFaults PROVE Spec => []NoOpMeansServed
<1>1. SInv => NoOpMeansServed
  <2> SUFFICES ASSUME SInv, NEW a \in Apps, WouldNoOp(a) PROVE Served(a, labels[a])
    BY DEF NoOpMeansServed
  <2> DEFINE spec == labels[a]
  <2>1. PICK m \in TrackedGateways(a) : Addrs(m) = spec.targets
    BY DEF WouldNoOp, FastPath
  <2>2. store[a].hash = spec /\ spec \in Specs /\ job[a].pc = "idle"
    BY DEF WouldNoOp, FastPath
  <2>3. NInv /\ AppInv(a) /\ KeptInv(a) /\ struck = {} /\ Refs(a) = store[a].refs
    BY <2>2 DEF SInv, NInv, Refs
  <2>4. ASSUME NEW t \in spec.targets PROVE \E g \in GwIds : ServedBy(a, t, spec.rev, g)
    <3>1. t \in Targets /\ m[t] # None
      BY <2>1 DEF Addrs
    <3>2. Kept(a, t, spec.rev)
      BY <2>2, <2>3 DEF KeptInv, Recorded
    <3>3. store[a].refs[t] # None
      BY <2>3, <3>1, <3>2, TrackedFrom DEF Kept
    <3> DEFINE g == store[a].refs[t].svc
    <3>4. g \in Mine(a, t) /\ store[a].refs[t].hash = spec.rev
      BY <2>2, <2>3, <3>1, <3>2, <3>3 DEF AppInv, RefsRun, Kept, Addrs
    <3>5. gws[g].rev = spec.rev
      BY <2>3, <3>1, <3>3, <3>4 DEF AppInv, RefExact, Addrs
    <3> QED
      BY <3>4, <3>5 DEF ServedBy, Mine, Running
  <2>5. ASSUME NEW g \in Running, gws[g].forApp = a PROVE gws[g].addr \in spec.targets
    <3>1. gws[g].addr \in Targets /\ g \in Mine(a, gws[g].addr)
      BY <2>3, <2>5 DEF NInv, Typed, TypeOK, Running, Gateway, Mine
    <3> QED
      BY <2>1, <2>2, <2>3, <3>1, UntrackedHasNone DEF Addrs
  <2> QED
    BY <2>4, <2>5 DEF Served
<1>2. (Init => SInv) /\ (SInv /\ [Next]_vars => SInv')
  BY InductiveSInv
<1> QED
  BY <1>1, <1>2, PTL DEF Spec

\* Under the same conditions, a key that Headscale would still accept is
\* recorded in the store, in the hands of a reconcile, or given up on.
THEOREM KeysStayAccounted ==
    ASSUME DistinctNames, MildFaults PROVE Spec => []KeysAccounted
<1>1. SInv => KeysAccounted
  <2> SUFFICES ASSUME SInv, NEW k \in valid \ givenUp
               PROVE  \E a \in Apps :
                         \/ job[a].key = k
                         \/ \E t \in Targets :
                               \/ store[a].refs[t] # None /\ store[a].refs[t].key = k
                               \/ job[a].tracked[t] # None /\ job[a].tracked[t].key = k
    BY DEF KeysAccounted
  <2>1. PICK a \in Apps : k \in HeldKeys(a)
    BY DEF SInv, Accounted
  <2> QED
    BY <2>1 DEF HeldKeys, Held, Addrs, Refs
<1>2. (Init => SInv) /\ (SInv /\ [Next]_vars => SInv')
  BY InductiveSInv
<1> QED
  BY <1>1, <1>2, PTL DEF Spec
=============================================================================

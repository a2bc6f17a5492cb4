---------------------------- MODULE EgressProofs ----------------------------
(***************************************************************************)
(* Invariants of the egress half of the Reconciler, for any apps, targets,  *)
(* gateway names, services, keys and faults: the types, and that no running *)
(* gateway carries a key the daemon has expired.                            *)
(***************************************************************************)
EXTENDS Egress, TLAPS

-----------------------------------------------------------------------------
(* The inductive invariant *)

\* The program points of reconcileEgress, of createGateway and
\* adoptExistingGateway, and of updateGateway.
Working  == {"remove", "sync", "mintCreate", "create", "adopt", "adoptUpdate", "mintUpdate", "update"}
Creating == {"mintCreate", "create", "adopt", "adoptUpdate"}
Updating == {"mintUpdate", "update"}

\* Where a fresh key is held, and where a service is about to be updated.
Holding == {"create", "adopt", "adoptUpdate", "update"}
Writing == {"adoptUpdate", "mintUpdate", "update"}

\* What a reconcile knows at each of its program points.
Phase(j) ==
    /\ j.pc = "idle" => j = Idle
    /\ j.pc \in Working => j.want \in Specs
    /\ j.pc \in Working \ {"remove"} => j.todo \subseteq j.want.targets
    /\ j.pc = "remove" => j.todo \subseteq Addrs(j.tracked) \ j.want.targets
    /\ j.pc = "teardown" => j.want \notin Specs /\ j.todo \subseteq Addrs(j.tracked)
    /\ j.pc \in Creating => j.cur \in j.todo /\ j.tracked[j.cur] = None
    /\ j.pc \in Updating => /\ j.cur \in j.todo
                            /\ j.tracked[j.cur] # None
                            /\ j.tracked[j.cur].svc = j.svc
                            /\ j.tracked[j.cur].hash # j.want.rev
    /\ j.key # None <=> j.pc \in Holding
    /\ j.svc # None <=> j.pc \in Writing
    /\ j.seen # None <=> j.pc \in Writing

Phases == \A a \in Apps : Phase(job[a])
Typed  == TypeOK /\ Phases
-----------------------------------------------------------------------------
(* How the actions move a reconcile *)

JobRec(pc, want, tracked, todo, cur, key, svc, seen) ==
    [pc |-> pc, want |-> want, tracked |-> tracked, todo |-> todo, cur |-> cur, key |-> key,
     svc |-> svc, seen |-> seen]

Moves(a, j) == /\ job' = [b \in Apps |-> job'[b]]
               /\ job'[a] = j
               /\ \A b \in Apps \ {a} : job'[b] = job[b]

\* The reconcile of a, gone on to pc.
At(a, pc) == JobRec(pc, job[a].want, job[a].tracked, job[a].todo, job[a].cur, job[a].key,
                    job[a].svc, job[a].seen)

\* Done with target t, which is now tracked as ref.
SettledAs(a, t, ref) == JobRec("sync", job[a].want, [job[a].tracked EXCEPT ![t] = ref],
                               job[a].todo \ {t}, None, None, None, None)

\* The three steps that most actions end in.
LEMMA Moving ==
    ASSUME job \in [Apps -> Job], NEW a \in Apps
    PROVE  /\ Done(a) => Moves(a, Idle)
           /\ \A pc : Goto(a, pc) => Moves(a, At(a, pc))
           /\ \A t, ref : Settle(a, t, ref) => Moves(a, SettledAs(a, t, ref))
<1>1. Done(a) => Moves(a, Idle)
  BY DEF Done, Moves
<1>2. ASSUME NEW pc, Goto(a, pc) PROVE Moves(a, At(a, pc))
  BY <1>2 DEF Goto, Moves, At, JobRec, Job
<1>3. ASSUME NEW t, NEW ref, Settle(a, t, ref) PROVE Moves(a, SettledAs(a, t, ref))
  BY <1>3 DEF Settle, Moves, SettledAs, JobRec, Idle
<1> QED
  BY <1>1, <1>2, <1>3

\* The idle job is a job.
LEMMA IdleTyped == Idle \in Job
<1>1. NoRefs \in Tracked /\ {} \in SUBSET Targets
  BY DEF NoRefs, Tracked
<1> QED
  BY <1>1 DEF Idle, Job

\* A reconcile begins with the labels it has read and nothing else.
LEMMA InspectMoves ==
    ASSUME job \in [Apps -> Job], NEW a \in Apps, Inspect(a)
    PROVE  Moves(a, JobRec("read", labels[a], NoRefs, {}, None, None, None, None))
<1>1. ASSUME NEW j \in Job, NEW x, NEW k, k = [j EXCEPT !.pc = "read", !.want = x]
      PROVE  k = JobRec("read", x, j.tracked, j.todo, j.cur, j.key, j.svc, j.seen)
  BY <1>1 DEF Job, JobRec
<1>2. [Idle EXCEPT !.pc = "read", !.want = labels[a]]
        = JobRec("read", labels[a], Idle.tracked, Idle.todo, Idle.cur, Idle.key, Idle.svc, Idle.seen)
  BY <1>1, IdleTyped
<1>3. [Idle EXCEPT !.pc = "read", !.want = labels[a]]
        = JobRec("read", labels[a], NoRefs, {}, None, None, None, None)
  BY <1>2 DEF Idle
<1> QED
  BY <1>3 DEF Inspect, Moves

\* The fast path ends it; otherwise it goes on to the removals.
LEMMA ReadEgressMoves ==
    ASSUME job \in [Apps -> Job], NEW a \in Apps, ReadEgress(a)
    PROVE  \/ Moves(a, Idle)
           \/ \E tracked \in TrackedGateways(a) :
                Moves(a, JobRec("remove", job[a].want, tracked, Addrs(tracked) \ job[a].want.targets,
                                job[a].cur, job[a].key, job[a].svc, job[a].seen))
<1>1. PICK tracked \in TrackedGateways(a) :
        \/ Done(a)
        \/ job' = [job EXCEPT ![a].pc = "remove", ![a].tracked = tracked,
                              ![a].todo = Addrs(tracked) \ job[a].want.targets]
  BY DEF ReadEgress
<1>2. CASE Done(a)
  BY <1>2, Moving
<1>3. CASE job' = [job EXCEPT ![a].pc = "remove", ![a].tracked = tracked,
                              ![a].todo = Addrs(tracked) \ job[a].want.targets]
  <2> DEFINE todo == Addrs(tracked) \ job[a].want.targets
  <2>1. job' = [job EXCEPT ![a].pc = "remove", ![a].tracked = tracked, ![a].todo = todo]
    BY <1>3
  <2> HIDE DEF todo
  <2>2. Moves(a, JobRec("remove", job[a].want, tracked, todo, job[a].cur, job[a].key, job[a].svc,
                        job[a].seen))
    <3>1. job[a] \in Job /\ DOMAIN job = Apps
      OBVIOUS
    <3>2. job'[a] = [job[a] EXCEPT !.pc = "remove", !.tracked = tracked, !.todo = todo]
      BY <2>1, <3>1 DEF Job
    <3>3. job' = [b \in Apps |-> job'[b]] /\ \A b \in Apps \ {a} : job'[b] = job[b]
      BY <2>1, <3>1
    <3> QED
      BY <3>1, <3>2, <3>3 DEF Moves, JobRec, Job
  <2> QED
    BY <2>2 DEF todo
<1> QED
  BY <1>1, <1>2, <1>3

\* The loop over the wanted targets begins with all of them.
LEMMA BeginSyncMoves ==
    ASSUME job \in [Apps -> Job], NEW a \in Apps, BeginSync(a)
    PROVE  Moves(a, JobRec("sync", job[a].want, job[a].tracked, job[a].want.targets,
                           job[a].cur, job[a].key, job[a].svc, job[a].seen))
<1> DEFINE todo == job[a].want.targets
<1>1. job' = [job EXCEPT ![a].pc = "sync", ![a].todo = todo]
  BY DEF BeginSync
<1> HIDE DEF todo
<1>2. Moves(a, JobRec("sync", job[a].want, job[a].tracked, todo, job[a].cur, job[a].key, job[a].svc,
                      job[a].seen))
  BY <1>1 DEF Moves, JobRec, Job
<1> QED
  BY <1>2 DEF todo

\* One target of the list is seen to, and leaves tracked or stays in it.
LEMMA TodoMoves ==
    ASSUME job \in [Apps -> Job], NEW a \in Apps, NEW t \in Targets
    PROVE  /\ (job' = [job EXCEPT ![a].todo = @ \ {t}]) =>
                Moves(a, JobRec(job[a].pc, job[a].want, job[a].tracked, job[a].todo \ {t},
                                job[a].cur, job[a].key, job[a].svc, job[a].seen))
           /\ (job' = [job EXCEPT ![a].todo = @ \ {t}, ![a].tracked[t] = None]) =>
                Moves(a, JobRec(job[a].pc, job[a].want, [job[a].tracked EXCEPT ![t] = None],
                                job[a].todo \ {t}, job[a].cur, job[a].key, job[a].svc, job[a].seen))
<1> USE DEF Moves, JobRec, Job
<1>1. (job' = [job EXCEPT ![a].todo = @ \ {t}]) =>
                Moves(a, JobRec(job[a].pc, job[a].want, job[a].tracked, job[a].todo \ {t},
                                job[a].cur, job[a].key, job[a].svc, job[a].seen))
  OBVIOUS
<1>2. (job' = [job EXCEPT ![a].todo = @ \ {t}, ![a].tracked[t] = None]) =>
                Moves(a, JobRec(job[a].pc, job[a].want, [job[a].tracked EXCEPT ![t] = None],
                                job[a].todo \ {t}, job[a].cur, job[a].key, job[a].svc, job[a].seen))
  OBVIOUS
<1> QED
  BY <1>1, <1>2

\* A target that is not tracked is the one to create for.
LEMMA StartCreateMoves ==
    ASSUME job \in [Apps -> Job], NEW a \in Apps, NEW t \in Targets, StartCreate(a, t)
    PROVE  Moves(a, JobRec("mintCreate", job[a].want, job[a].tracked, job[a].todo, t,
                           job[a].key, job[a].svc, job[a].seen))
<1>0. job' = [job EXCEPT ![a].pc = "mintCreate", ![a].cur = t]
  BY DEF StartCreate
<1>1. job[a] \in Job /\ DOMAIN job = Apps
  OBVIOUS
<1>2. job'[a] = [job[a] EXCEPT !.pc = "mintCreate", !.cur = t]
  BY <1>0, <1>1 DEF Job
<1>3. job' = [b \in Apps |-> job'[b]] /\ \A b \in Apps \ {a} : job'[b] = job[b]
  BY <1>0, <1>1
<1> QED
  BY <1>1, <1>2, <1>3 DEF Moves, JobRec, Job

\* The gateway is there, is gone, or cannot be read.
LEMMA InspectGatewayMoves ==
    ASSUME job \in [Apps -> Job], NEW a \in Apps, NEW t \in Targets, InspectGateway(a, t)
    PROVE  LET g == job[a].tracked[t].svc IN
           \/ /\ gws[g] # None
              /\ Moves(a, JobRec("mintUpdate", job[a].want, job[a].tracked, job[a].todo, t,
                                 job[a].key, g, gws[g]))
           \/ /\ gws[g] = None
              /\ Moves(a, JobRec("mintCreate", job[a].want, [job[a].tracked EXCEPT ![t] = None],
                                 job[a].todo, t, job[a].key, job[a].svc, job[a].seen))
           \/ /\ Moves(a, SettledAs(a, t, None))
              /\ Fault("update")
<1> DEFINE g == job[a].tracked[t].svc
           w == gws[g]
<1>1. CASE w # None /\ job' = [job EXCEPT ![a].pc = "mintUpdate", ![a].cur = t, ![a].svc = g,
                                          ![a].seen = w]
  <2> HIDE DEF g, w
  <2>1. job[a] \in Job /\ DOMAIN job = Apps
    OBVIOUS
  <2>2. job'[a] = [job[a] EXCEPT !.pc = "mintUpdate", !.cur = t, !.svc = g, !.seen = w]
    BY <1>1, <2>1 DEF Job
  <2>3. job' = [b \in Apps |-> job'[b]] /\ \A b \in Apps \ {a} : job'[b] = job[b]
    BY <1>1, <2>1
  <2>4. Moves(a, JobRec("mintUpdate", job[a].want, job[a].tracked, job[a].todo, t, job[a].key, g, w))
    BY <2>1, <2>2, <2>3 DEF Moves, JobRec, Job
  <2> QED
    BY <1>1, <2>4 DEF g, w
<1>2. CASE w = None /\ job' = [job EXCEPT ![a].pc = "mintCreate", ![a].cur = t,
                                          ![a].tracked[t] = None]
  <2>1. Moves(a, JobRec("mintCreate", job[a].want, [job[a].tracked EXCEPT ![t] = None],
                        job[a].todo, t, job[a].key, job[a].svc, job[a].seen))
    <3>1. job[a] \in Job /\ DOMAIN job = Apps
      OBVIOUS
    <3>2. job'[a] = [job[a] EXCEPT !.pc = "mintCreate", !.cur = t, !.tracked[t] = None]
      BY <1>2, <3>1 DEF Job
    <3>3. job' = [b \in Apps |-> job'[b]] /\ \A b \in Apps \ {a} : job'[b] = job[b]
      BY <1>2, <3>1
    <3> QED
      BY <3>1, <3>2, <3>3 DEF Moves, JobRec, Job
  <2> QED
    BY <1>2, <2>1
<1>3. CASE Settle(a, t, None) /\ Fault("update")
  BY <1>3, Moving
<1> QED
  BY <1>1, <1>2, <1>3 DEF InspectGateway

\* The fresh key is in the hands of the reconcile.
LEMMA MintOkMoves ==
    ASSUME job \in [Apps -> Job], NEW a \in Apps, MintOk(a)
    PROVE  \E k \in Keys :
              /\ Mint(k)
              /\ Moves(a, JobRec(IF job[a].pc = "mintCreate" THEN "create" ELSE "update", job[a].want,
                                 job[a].tracked, job[a].todo, job[a].cur, k, job[a].svc, job[a].seen))
<1>1. PICK k \in Keys :
        /\ Mint(k)
        /\ job' = [job EXCEPT ![a].key = k,
                              ![a].pc = IF @ = "mintCreate" THEN "create" ELSE "update"]
  BY DEF MintOk
<1>2. Moves(a, JobRec(IF job[a].pc = "mintCreate" THEN "create" ELSE "update", job[a].want,
                      job[a].tracked, job[a].todo, job[a].cur, k, job[a].svc, job[a].seen))
  <2>1. job[a] \in Job /\ DOMAIN job = Apps
    OBVIOUS
  <2>2. job'[a] = [job[a] EXCEPT !.key = k,
                               !.pc = IF @ = "mintCreate" THEN "create" ELSE "update"]
    BY <1>1, <2>1 DEF Job
  <2>3. job' = [b \in Apps |-> job'[b]] /\ \A b \in Apps \ {a} : job'[b] = job[b]
    BY <1>1, <2>1
  <2> QED
    BY <2>1, <2>2, <2>3 DEF Moves, JobRec, Job
<1> QED
  BY <1>1, <1>2

\* The service found by name is remembered at the version seen.
LEMMA AdoptFindMoves ==
    ASSUME job \in [Apps -> Job], NEW a \in Apps, AdoptFind(a)
    PROVE  \E g \in Named(GwName[a][job[a].cur]) :
              Moves(a, JobRec("adoptUpdate", job[a].want, job[a].tracked, job[a].todo, job[a].cur,
                              job[a].key, g, gws[g]))
<1>1. PICK g \in Named(GwName[a][job[a].cur]) :
        job' = [job EXCEPT ![a].pc = "adoptUpdate", ![a].svc = g, ![a].seen = gws[g]]
  BY DEF AdoptFind
<1> DEFINE w == gws[g]
<1>2. job' = [job EXCEPT ![a].pc = "adoptUpdate", ![a].svc = g, ![a].seen = w]
  BY <1>1
<1> HIDE DEF w
<1>3. job[a] \in Job /\ DOMAIN job = Apps
  OBVIOUS
<1>4. job'[a] = [job[a] EXCEPT !.pc = "adoptUpdate", !.svc = g, !.seen = w]
  BY <1>2, <1>3 DEF Job
<1>5. job' = [b \in Apps |-> job'[b]] /\ \A b \in Apps \ {a} : job'[b] = job[b]
  BY <1>2, <1>3
<1>6. Moves(a, JobRec("adoptUpdate", job[a].want, job[a].tracked, job[a].todo, job[a].cur,
                      job[a].key, g, w))
  BY <1>3, <1>4, <1>5 DEF Moves, JobRec, Job
<1> QED
  BY <1>6 DEF w

\* A teardown without refs is done; otherwise it has all of the store's.
LEMMA ReadTeardownMoves ==
    ASSUME job \in [Apps -> Job], NEW a \in Apps, ReadTeardown(a)
    PROVE  \/ /\ Moves(a, Idle)
              /\ Addrs(store[a].refs) = {}
              /\ \/ store' = store
                 \/ store' = [store EXCEPT ![a] = Empty]
           \/ /\ Moves(a, JobRec("teardown", job[a].want, store[a].refs, Addrs(store[a].refs),
                                 job[a].cur, job[a].key, job[a].svc, job[a].seen))
              /\ store' = store
<1> DEFINE refs == store[a].refs
           todo == Addrs(refs)
<1>1. CASE Addrs(store[a].refs) = {} /\ Done(a)
  BY <1>1, Moving DEF ReadTeardown
<1>2. CASE /\ job' = [job EXCEPT ![a].pc = "teardown", ![a].tracked = refs, ![a].todo = todo]
           /\ store' = store
  <2> HIDE DEF refs, todo
  <2>1. Moves(a, JobRec("teardown", job[a].want, refs, todo, job[a].cur, job[a].key, job[a].svc,
                        job[a].seen))
    <3>1. job[a] \in Job /\ DOMAIN job = Apps
      OBVIOUS
    <3>2. job'[a] = [job[a] EXCEPT !.pc = "teardown", !.tracked = refs, !.todo = todo]
      BY <1>2, <3>1 DEF Job
    <3>3. job' = [b \in Apps |-> job'[b]] /\ \A b \in Apps \ {a} : job'[b] = job[b]
      BY <1>2, <3>1
    <3> QED
      BY <3>1, <3>2, <3>3 DEF Moves, JobRec, Job
  <2> QED
    BY <1>2, <2>1 DEF refs, todo
<1> QED
  BY <1>1, <1>2 DEF ReadTeardown
-----------------------------------------------------------------------------
(* Types and program points *)

JobOK(j) == j \in Job /\ Phase(j)

\* A move to a well-formed job keeps every job well formed.
LEMMA MovesTyped ==
    ASSUME Typed, NEW a \in Apps, NEW j, JobOK(j), Moves(a, j)
    PROVE  job' \in [Apps -> Job] /\ Phases'
<1>1. job \in [Apps -> Job] /\ Phases
  BY DEF Typed, TypeOK
<1>2. \A b \in Apps : job'[b] \in Job /\ Phase(job'[b])
  BY <1>1 DEF JobOK, Moves, Phases
<1> QED
  BY <1>2 DEF Moves, Phases

\* The idle job is well formed.
LEMMA IdleOK == JobOK(Idle)
  BY IdleTyped DEF JobOK, Phase, Idle, Working, Creating, Updating, Holding, Writing

\* A fault is counted up to the bound and remembered for good.
LEMMA FaultTyped ==
    ASSUME TypeOK, NEW kind, Fault(kind)
    PROVE  faults' \in 0 .. MaxFaults /\ struck' \in SUBSET Lasting /\ struck \subseteq struck'
<1>1. faults' \in 0 .. MaxFaults
  BY EgressConstants DEF TypeOK, Fault
<1>2. struck' \in SUBSET Lasting /\ struck \subseteq struck'
  BY DEF TypeOK, Fault
<1> QED
  BY <1>1, <1>2

\* What expireOrLog and the rollback of a key leave of the types.
LEMMA KeysTyped ==
    ASSUME TypeOK, NEW k
    PROVE  /\ ExpireKey(k) => valid' \in SUBSET Keys /\ givenUp' \in SUBSET Keys
           /\ GiveUp(k)    => valid' \in SUBSET Keys /\ givenUp' \in SUBSET Keys
           /\ ExpireOrLog(k) => /\ valid' \in SUBSET Keys /\ givenUp' \in SUBSET Keys
                                /\ faults' \in 0 .. MaxFaults /\ struck' \in SUBSET Lasting
<1>1. ExpireKey(k) => valid' \in SUBSET Keys /\ givenUp' \in SUBSET Keys
  BY DEF TypeOK, ExpireKey
<1>2. GiveUp(k) => valid' \in SUBSET Keys /\ givenUp' \in SUBSET Keys
  BY DEF TypeOK, GiveUp
<1>3. NoFault => faults' \in 0 .. MaxFaults /\ struck' \in SUBSET Lasting
  BY DEF TypeOK, NoFault
<1> QED
  BY <1>1, <1>2, <1>3, FaultTyped DEF ExpireOrLog

\* What trackedGateways returns is a table of refs.
LEMMA TrackedTyped ==
    ASSUME TypeOK, NEW a \in Apps, NEW m \in TrackedGateways(a)
    PROVE  m \in Tracked
<1>1. \A t \in Targets : RefFor(a, t) \subseteq Ref \cup {None}
  <2> SUFFICES ASSUME NEW t \in Targets PROVE RefFor(a, t) \subseteq Ref \cup {None}
    OBVIOUS
  <2>1. store[a].refs[t] \in Ref \cup {None}
    BY DEF TypeOK, Entry, Tracked
  <2>2. \A g \in Adoptable(a, t) : g \in GwIds /\ gws[g] \in Gateway
    BY DEF Adoptable, Running, TypeOK
  <2>3. \A g \in Adoptable(a, t) : [svc |-> g, key |-> None, hash |-> gws[g].rev] \in Ref
    BY <2>2 DEF Gateway, Ref
  <2> QED
    BY <2>1, <2>3 DEF RefFor
<1>2. m \in [Targets -> UNION {RefFor(a, t) : t \in Targets}]
      /\ \A t \in Targets : m[t] \in RefFor(a, t)
  BY DEF TrackedGateways
<1> QED
  BY <1>1, <1>2 DEF Tracked

\* The spec of the gateway a reconcile creates or updates, and the ref to it.
LEMMA SpecTyped ==
    ASSUME Typed, NEW a \in Apps, job[a].pc \in Holding
    PROVE  /\ job[a].cur \in Targets /\ job[a].key \in Keys
           /\ GatewaySpec(a) \in Gateway
           /\ \A g \in GwIds : NewRef(a, g) \in Ref
<1>1. job[a] \in Job /\ Phase(job[a])
  BY DEF Typed, TypeOK, Phases
<1>2. job[a].cur \in Targets /\ job[a].key \in Keys /\ job[a].want.rev \in Revs
  BY <1>1 DEF Phase, Job, Holding, Working, Creating, Updating, Specs
<1>3. GwName[a][job[a].cur] \in UNION {{GwName[b][t] : t \in Targets} : b \in Apps}
  BY <1>2
<1>4. GatewaySpec(a) \in Gateway
  BY <1>2, <1>3 DEF GatewaySpec, Gateway
<1>5. \A g \in GwIds : NewRef(a, g) \in Ref
  BY <1>2 DEF NewRef, Ref
<1> QED
  BY <1>2, <1>4, <1>5

\* A reconcile that is done with a target is again one at the head of the loop.
LEMMA SettledOK ==
    ASSUME Typed, NEW a \in Apps, NEW t \in Targets, NEW ref \in Ref \cup {None},
           job[a].pc \in Working \ {"remove"}
    PROVE  JobOK(SettledAs(a, t, ref))
<1>1. job[a] \in Job /\ Phase(job[a])
  BY DEF Typed, TypeOK, Phases
<1>2. [job[a].tracked EXCEPT ![t] = ref] \in Tracked
  BY <1>1 DEF Job, Tracked
<1>3. SettledAs(a, t, ref) \in Job
  BY <1>1, <1>2 DEF SettledAs, JobRec, Job
<1>4. Phase(SettledAs(a, t, ref))
  BY <1>1 DEF Phase, SettledAs, JobRec, Working, Creating, Updating, Holding, Writing
<1> QED
  BY <1>3, <1>4 DEF JobOK

\* The steps up to the split, and the two loops over targets that go away.
LEMMA ReadTyped ==
    ASSUME Typed, NEW a \in Apps,
           Inspect(a) \/ ReadEgress(a) \/ ListFail(a) \/ BeginSync(a) \/ ReadTeardown(a)
    PROVE  Typed'
<1> DEFINE j == job[a]
<1>1. TypeOK /\ j \in Job /\ Phase(j) /\ job \in [Apps -> Job]
  BY DEF Typed, TypeOK, Phases
<1> USE DEF Working, Creating, Updating, Holding, Writing
<1>2. CASE Inspect(a)
  <2>1. JobOK(JobRec("read", labels[a], NoRefs, {}, None, None, None, None))
    <3>1. NoRefs \in Tracked /\ {} \in SUBSET Targets /\ labels[a] \in Readings
      BY <1>1 DEF NoRefs, Tracked, TypeOK
    <3> QED
      BY <3>1 DEF JobOK, JobRec, Job, Phase
  <2>2. job' \in [Apps -> Job] /\ Phases'
    BY <1>1, <1>2, <2>1, InspectMoves, MovesTyped
  <2> QED
    BY <1>1, <1>2, <2>2 DEF Inspect, Typed, TypeOK
<1>3. CASE ReadEgress(a)
  <2>1. ASSUME NEW m \in TrackedGateways(a)
        PROVE  JobOK(JobRec("remove", j.want, m, Addrs(m) \ j.want.targets, j.cur, j.key, j.svc, j.seen))
    <3>1. m \in Tracked
      BY <1>1, TrackedTyped
    <3>2. Addrs(m) \ j.want.targets \in SUBSET Targets
      BY DEF Addrs
    <3>3. j.pc = "read" /\ j.want \in Specs
      BY <1>3 DEF ReadEgress
    <3> QED
      BY <1>1, <3>1, <3>2, <3>3 DEF JobOK, JobRec, Job, Phase
  <2>2. job' \in [Apps -> Job] /\ Phases'
    BY <1>1, <1>3, <2>1, IdleOK, ReadEgressMoves, MovesTyped
  <2> QED
    BY <1>1, <1>3, <2>2 DEF ReadEgress, Typed, TypeOK
<1>4. CASE ListFail(a)
  <2>1. job' \in [Apps -> Job] /\ Phases'
    BY <1>1, <1>4, IdleOK, Moving, MovesTyped DEF ListFail
  <2> QED
    BY <1>1, <1>4, <2>1, FaultTyped DEF ListFail, Typed, TypeOK
<1>5. CASE BeginSync(a)
  <2>1. JobOK(JobRec("sync", j.want, j.tracked, j.want.targets, j.cur, j.key, j.svc, j.seen))
    <3>1. j.pc = "remove" /\ j.want \in Specs /\ j.want.targets \in SUBSET Targets
      BY <1>1, <1>5 DEF BeginSync, Phase, Specs
    <3> QED
      BY <1>1, <3>1 DEF JobOK, JobRec, Job, Phase
  <2>2. job' \in [Apps -> Job] /\ Phases'
    BY <1>1, <1>5, <2>1, BeginSyncMoves, MovesTyped
  <2> QED
    BY <1>1, <1>5, <2>2 DEF BeginSync, Typed, TypeOK
<1>6. CASE ReadTeardown(a)
  <2>1. JobOK(JobRec("teardown", j.want, store[a].refs, Addrs(store[a].refs), j.cur, j.key, j.svc, j.seen))
    <3>1. store[a].refs \in Tracked /\ Addrs(store[a].refs) \in SUBSET Targets
      BY <1>1 DEF TypeOK, Entry, Addrs
    <3>2. j.pc = "read" /\ j.want \notin Specs
      BY <1>6 DEF ReadTeardown
    <3> QED
      BY <1>1, <3>1, <3>2 DEF JobOK, JobRec, Job, Phase
  <2>2. job' \in [Apps -> Job] /\ Phases'
    BY <1>1, <1>6, <2>1, IdleOK, ReadTeardownMoves, MovesTyped
  <2>3. store' \in [Apps -> Entry]
    <3>1. Empty \in Entry
      BY DEF Empty, Entry, NoRefs, Tracked
    <3> QED
      BY <1>1, <1>6, <3>1, ReadTeardownMoves DEF TypeOK
  <2> QED
    BY <1>1, <1>6, <2>2, <2>3 DEF ReadTeardown, Typed, TypeOK
<1> QED
  BY <1>2, <1>3, <1>4, <1>5, <1>6

\* The removal of one gateway, successful or not, leaves the swarm, the keys
\* and the faults typed.
LEMMA RemovalTyped ==
    ASSUME TypeOK, NEW ref \in Ref, RemoveOk(ref) \/ RemoveFail(ref)
    PROVE  /\ gws' \in [GwIds -> Gateway \cup {None}]
           /\ valid' \in SUBSET Keys /\ givenUp' \in SUBSET Keys
           /\ faults' \in 0 .. MaxFaults /\ struck' \in SUBSET Lasting
<1>1. ref.svc \in GwIds
  BY DEF Ref
<1>2. CASE RemoveOk(ref)
  BY <1>1, <1>2, KeysTyped DEF RemoveOk, TypeOK
<1>3. CASE RemoveFail(ref)
  <2>1. faults' \in 0 .. MaxFaults /\ struck' \in SUBSET Lasting
    BY <1>3, FaultTyped DEF RemoveFail
  <2> QED
    BY <1>1, <1>3, <2>1 DEF RemoveFail, TypeOK
<1> QED
  BY <1>2, <1>3

\* One target of the list is done.
LEMMA TodoOK ==
    ASSUME Typed, NEW a \in Apps, NEW t \in Targets, job[a].pc \in {"remove", "sync", "teardown"}
    PROVE  /\ JobOK(JobRec(job[a].pc, job[a].want, job[a].tracked, job[a].todo \ {t},
                           job[a].cur, job[a].key, job[a].svc, job[a].seen))
           /\ JobOK(JobRec(job[a].pc, job[a].want, [job[a].tracked EXCEPT ![t] = None],
                           job[a].todo \ {t}, job[a].cur, job[a].key, job[a].svc, job[a].seen))
<1> DEFINE j == job[a]
<1>1. j \in Job /\ Phase(j)
  BY DEF Typed, TypeOK, Phases
<1> USE DEF Working, Creating, Updating, Holding, Writing
<1>2. JobOK(JobRec(j.pc, j.want, j.tracked, j.todo \ {t}, j.cur, j.key, j.svc, j.seen))
  BY <1>1 DEF JobOK, JobRec, Job, Phase
<1>3. [j.tracked EXCEPT ![t] = None] \in Tracked
  BY <1>1 DEF Job, Tracked
<1>4. Addrs(j.tracked) \ {t} \subseteq Addrs([j.tracked EXCEPT ![t] = None])
  BY <1>1 DEF Addrs, Job, Tracked
<1>5. JobOK(JobRec(j.pc, j.want, [j.tracked EXCEPT ![t] = None], j.todo \ {t}, j.cur, j.key, j.svc, j.seen))
  BY <1>1, <1>3, <1>4 DEF JobOK, JobRec, Job, Phase
<1> QED
  BY <1>2, <1>5

\* One target of a loop is seen to, by a removal or because it is up to date.
LEMMA RemoveTyped ==
    ASSUME Typed, NEW a \in Apps, NEW t \in Targets,
           RemoveUndesired(a, t) \/ TeardownOne(a, t) \/ UpToDate(a, t)
    PROVE  Typed'
<1> DEFINE j == job[a]
<1>1. TypeOK /\ j \in Job /\ Phase(j) /\ job \in [Apps -> Job]
  BY DEF Typed, TypeOK, Phases
<1>2. job' \in [Apps -> Job] /\ Phases'
  <2>1. \/ job' = [job EXCEPT ![a].todo = @ \ {t}]
        \/ job' = [job EXCEPT ![a].todo = @ \ {t}, ![a].tracked[t] = None]
    BY DEF RemoveUndesired, TeardownOne, UpToDate
  <2>2. j.pc \in {"remove", "sync", "teardown"}
    BY DEF RemoveUndesired, TeardownOne, UpToDate
  <2> QED
    BY <1>1, <2>1, <2>2, TodoMoves, TodoOK, MovesTyped
<1>3. CASE RemoveUndesired(a, t) \/ TeardownOne(a, t)
  <2>1. j.tracked[t] \in Ref
    BY <1>1, <1>3 DEF RemoveUndesired, TeardownOne, Phase, Addrs, Job, Tracked
  <2>2. RemoveOk(j.tracked[t]) \/ RemoveFail(j.tracked[t])
    BY <1>3 DEF RemoveUndesired, TeardownOne
  <2>3. UNCHANGED <<labels, store>>
    BY <1>3 DEF RemoveUndesired, TeardownOne
  <2> QED
    BY <1>1, <1>2, <2>1, <2>2, <2>3, RemovalTyped DEF Typed, TypeOK
<1>4. CASE UpToDate(a, t)
  BY <1>1, <1>2, <1>4 DEF UpToDate, Typed, TypeOK
<1> QED
  BY <1>3, <1>4

\* The steps that begin a create or an update, and the mint of its key.
LEMMA BeginTyped ==
    ASSUME Typed, NEW a \in Apps,
           \/ \E t \in Targets : StartCreate(a, t) \/ InspectGateway(a, t)
           \/ MintOk(a) \/ MintFail(a) \/ CreateExists(a) \/ AdoptFind(a)
    PROVE  Typed'
<1> DEFINE j == job[a]
<1>1. TypeOK /\ j \in Job /\ Phase(j) /\ job \in [Apps -> Job]
  BY DEF Typed, TypeOK, Phases
<1> USE DEF Working, Creating, Updating, Holding, Writing
<1>2. ASSUME NEW t \in Targets, StartCreate(a, t) PROVE Typed'
  <2>1. JobOK(JobRec("mintCreate", j.want, j.tracked, j.todo, t, j.key, j.svc, j.seen))
    BY <1>1, <1>2 DEF StartCreate, JobOK, JobRec, Job, Phase
  <2>2. job' \in [Apps -> Job] /\ Phases'
    BY <1>1, <1>2, <2>1, StartCreateMoves, MovesTyped
  <2> QED
    BY <1>1, <1>2, <2>2 DEF StartCreate, Typed, TypeOK
<1>3. ASSUME NEW t \in Targets, InspectGateway(a, t) PROVE Typed'
  <2> DEFINE g == j.tracked[t].svc
  <2>1. /\ j.pc = "sync" /\ t \in j.todo /\ j.tracked[t] \in Ref /\ g \in GwIds
        /\ j.tracked[t].hash # j.want.rev
    BY <1>1, <1>3 DEF InspectGateway, Job, Tracked, Ref
  <2>2. ASSUME gws[g] # None
        PROVE  JobOK(JobRec("mintUpdate", j.want, j.tracked, j.todo, t, j.key, g, gws[g]))
    <3>1. gws[g] \in Gateway
      BY <1>1, <2>1, <2>2 DEF TypeOK
    <3>2. j.tracked[t] # None
      BY <1>3 DEF InspectGateway
    <3> QED
      BY <1>1, <2>1, <2>2, <3>1, <3>2, EgressConstants DEF JobOK, JobRec, Job, Phase
  <2>3. JobOK(JobRec("mintCreate", j.want, [j.tracked EXCEPT ![t] = None], j.todo, t, j.key, j.svc, j.seen))
    <3>1. [j.tracked EXCEPT ![t] = None] \in Tracked /\ [j.tracked EXCEPT ![t] = None][t] = None
      BY <1>1 DEF Job, Tracked
    <3> QED
      BY <1>1, <2>1, <3>1 DEF JobOK, JobRec, Job, Phase
  <2>4. JobOK(SettledAs(a, t, None))
    BY <2>1, SettledOK
  <2>5. job' \in [Apps -> Job] /\ Phases'
    BY <1>1, <1>3, <2>2, <2>3, <2>4, InspectGatewayMoves, MovesTyped
  <2>6. faults' \in 0 .. MaxFaults /\ struck' \in SUBSET Lasting
    BY <1>1, <1>3, FaultTyped DEF InspectGateway, NoFault, TypeOK
  <2> QED
    BY <1>1, <1>3, <2>5, <2>6 DEF InspectGateway, Typed, TypeOK
<1>4. CASE MintOk(a)
  <2>1. PICK k \in Keys :
          /\ Mint(k)
          /\ Moves(a, JobRec(IF j.pc = "mintCreate" THEN "create" ELSE "update", j.want,
                             j.tracked, j.todo, j.cur, k, j.svc, j.seen))
    BY <1>1, <1>4, MintOkMoves
  <2>2. JobOK(JobRec(IF j.pc = "mintCreate" THEN "create" ELSE "update", j.want,
                     j.tracked, j.todo, j.cur, k, j.svc, j.seen))
    <3>1. j.pc \in {"mintCreate", "mintUpdate"} /\ k # None
      BY <1>4, EgressConstants DEF MintOk
    <3>2. CASE j.pc = "mintCreate"
      BY <1>1, <3>1, <3>2 DEF JobOK, JobRec, Job, Phase
    <3>3. CASE j.pc = "mintUpdate"
      BY <1>1, <3>1, <3>3 DEF JobOK, JobRec, Job, Phase
    <3> QED
      BY <3>1, <3>2, <3>3
  <2>3. job' \in [Apps -> Job] /\ Phases'
    BY <2>1, <2>2, MovesTyped
  <2>4. valid' \in SUBSET Keys /\ givenUp' \in SUBSET Keys
    BY <1>1, <2>1 DEF Mint, TypeOK
  <2> QED
    BY <1>1, <1>4, <2>3, <2>4 DEF MintOk, Typed, TypeOK
<1>5. CASE MintFail(a)
  <2>1. j.pc \in Working \ {"remove"} /\ j.cur \in Targets
    BY <1>1, <1>5 DEF MintFail, Phase, Job
  <2>2. job' \in [Apps -> Job] /\ Phases'
    BY <1>1, <1>5, <2>1, SettledOK, Moving, MovesTyped DEF MintFail
  <2> QED
    BY <1>1, <1>5, <2>2, FaultTyped DEF MintFail, Typed, TypeOK
<1>6. CASE CreateExists(a)
  <2>1. JobOK(At(a, "adopt"))
    BY <1>1, <1>6 DEF CreateExists, At, JobOK, JobRec, Job, Phase
  <2>2. job' \in [Apps -> Job] /\ Phases'
    BY <1>1, <1>6, <2>1, Moving, MovesTyped DEF CreateExists
  <2> QED
    BY <1>1, <1>6, <2>2 DEF CreateExists, Typed, TypeOK
<1>7. CASE AdoptFind(a)
  <2>1. PICK g \in Named(GwName[a][j.cur]) :
          Moves(a, JobRec("adoptUpdate", j.want, j.tracked, j.todo, j.cur, j.key, g, gws[g]))
    BY <1>1, <1>7, AdoptFindMoves
  <2>2. g \in GwIds /\ gws[g] # None /\ gws[g] \in Gateway
    BY <1>1 DEF Named, Running, TypeOK
  <2>3. JobOK(JobRec("adoptUpdate", j.want, j.tracked, j.todo, j.cur, j.key, g, gws[g]))
    BY <1>1, <1>7, <2>2, EgressConstants DEF AdoptFind, JobOK, JobRec, Job, Phase
  <2>4. job' \in [Apps -> Job] /\ Phases'
    BY <2>1, <2>3, MovesTyped
  <2> QED
    BY <1>1, <1>7, <2>4 DEF AdoptFind, Typed, TypeOK
<1> QED
  BY <1>2, <1>3, <1>4, <1>5, <1>6, <1>7

\* An unused service ID is one of Swarm's that does not run.
LEMMA NewGwIdIsUnused == NewGwId \subseteq UnusedGwIds
<1>1. UnusedGwIds # {} => (CHOOSE g \in UnusedGwIds : TRUE) \in UnusedGwIds
  OBVIOUS
<1> QED
  BY <1>1 DEF NewGwId

\* The steps that end a create or an update.
LEMMA EndTyped ==
    ASSUME Typed, NEW a \in Apps,
           \/ CreateOk(a) \/ CreateFail(a) \/ AdoptMiss(a) \/ AdoptUpdateOk(a) \/ UpdateOk(a)
           \/ UpdateFail(a)
    PROVE  Typed'
<1> DEFINE j == job[a]
<1>1. TypeOK /\ j \in Job /\ Phase(j) /\ job \in [Apps -> Job]
  BY DEF Typed, TypeOK, Phases
<1> USE DEF Working, Creating, Updating, Holding, Writing
<1>2. j.pc \in Holding /\ j.pc \in Working \ {"remove"}
  BY DEF CreateOk, CreateFail, AdoptMiss, AdoptUpdateOk, UpdateOk, UpdateFail
<1>3. j.cur \in Targets /\ GatewaySpec(a) \in Gateway /\ \A g \in GwIds : NewRef(a, g) \in Ref
  BY <1>2, SpecTyped
<1>4. ASSUME NEW ref \in Ref \cup {None}, Settle(a, j.cur, ref)
      PROVE  job' \in [Apps -> Job] /\ Phases'
  BY <1>1, <1>2, <1>3, <1>4, SettledOK, Moving, MovesTyped
<1>5. ASSUME NEW g \in GwIds, gws' = [gws EXCEPT ![g] = GatewaySpec(a)]
      PROVE  gws' \in [GwIds -> Gateway \cup {None}]
  BY <1>1, <1>3, <1>5 DEF TypeOK
<1>6. RollBack(a) => valid' \in SUBSET Keys /\ givenUp' \in SUBSET Keys
  BY <1>1, KeysTyped DEF RollBack
<1>7. NewGwId \subseteq GwIds
  BY NewGwIdIsUnused DEF UnusedGwIds
<1>8. j.pc \in Writing => j.svc \in GwIds
  BY <1>1 DEF Job, Phase
<1>9. CASE CreateOk(a)
  BY <1>1, <1>3, <1>4, <1>5, <1>7, <1>9 DEF CreateOk, Typed, TypeOK
<1>10. CASE CreateFail(a)
  <2>1. faults' \in 0 .. MaxFaults /\ struck' \in SUBSET Lasting
    BY <1>1, <1>10, FaultTyped DEF CreateFail
  <2>2. gws' \in [GwIds -> Gateway \cup {None}]
    BY <1>1, <1>5, <1>7, <1>10 DEF CreateFail, TypeOK
  <2> QED
    BY <1>1, <1>4, <1>6, <1>10, <2>1, <2>2 DEF CreateFail, Typed, TypeOK
<1>11. CASE AdoptMiss(a)
  <2>1. faults' \in 0 .. MaxFaults /\ struck' \in SUBSET Lasting
    BY <1>1, <1>11, FaultTyped DEF AdoptMiss, NoFault, TypeOK
  <2> QED
    BY <1>1, <1>4, <1>6, <1>11, <2>1 DEF AdoptMiss, Typed, TypeOK
<1>12. CASE AdoptUpdateOk(a)
  <2>1. j.svc \in GwIds
    BY <1>8, <1>12 DEF AdoptUpdateOk
  <2> QED
    BY <1>1, <1>3, <1>4, <1>5, <1>12, <2>1 DEF AdoptUpdateOk, UpdateApplies, Typed, TypeOK
<1>13. CASE UpdateOk(a)
  <2>1. j.svc \in GwIds
    BY <1>8, <1>13 DEF UpdateOk
  <2>2. /\ valid' \in SUBSET Keys /\ givenUp' \in SUBSET Keys
        /\ faults' \in 0 .. MaxFaults /\ struck' \in SUBSET Lasting
    BY <1>1, <1>13, KeysTyped DEF UpdateOk
  <2> QED
    BY <1>1, <1>3, <1>4, <1>5, <1>13, <2>1, <2>2 DEF UpdateOk, UpdateApplies, Typed, TypeOK
<1>14. CASE UpdateFail(a)
  <2>1. j.svc \in GwIds
    BY <1>8, <1>14 DEF UpdateFail
  <2>2. faults' \in 0 .. MaxFaults /\ struck' \in SUBSET Lasting
    BY <1>1, <1>14, FaultTyped DEF UpdateFail, NoFault, TypeOK
  <2>3. gws' \in [GwIds -> Gateway \cup {None}]
    BY <1>1, <1>5, <1>14, <2>1 DEF UpdateFail, UpdateApplies, TypeOK
  <2> QED
    BY <1>1, <1>4, <1>6, <1>14, <2>2, <2>3 DEF UpdateFail, Typed, TypeOK
<1> QED
  BY <1>9, <1>10, <1>11, <1>12, <1>13, <1>14

\* The steps that end a reconcile.
LEMMA FinishTyped ==
    ASSUME Typed, NEW a \in Apps, Finish(a) \/ TeardownDone(a)
    PROVE  Typed'
<1> DEFINE j == job[a]
<1>1. TypeOK /\ j \in Job /\ Phase(j) /\ job \in [Apps -> Job]
  BY DEF Typed, TypeOK, Phases
<1>2. job' \in [Apps -> Job] /\ Phases'
  BY <1>1, IdleOK, Moving, MovesTyped DEF Finish, TeardownDone
<1>3. store' \in [Apps -> Entry]
  <2>1. Empty \in Entry
    BY DEF Empty, Entry, NoRefs, Tracked
  <2>2. Finish(a) => [refs |-> j.tracked, hash |-> j.want] \in Entry
    BY <1>1 DEF Finish, Phase, Working, Job, Entry
  <2> QED
    BY <1>1, <2>1, <2>2 DEF Finish, TeardownDone, TypeOK
<1> QED
  BY <1>1, <1>2, <1>3 DEF Finish, TeardownDone, Typed, TypeOK

\* The environment: labels, operators and crashes.
LEMMA EnvironmentTyped ==
    ASSUME Typed,
           \/ \E a \in Apps : Relabel(a) \/ Deploy(a)
           \/ \E g \in GwIds : ExternalRemove(g)
           \/ Crash
    PROVE  Typed'
<1>1. TypeOK /\ Phases
  BY DEF Typed
<1>2. ASSUME NEW a \in Apps, Relabel(a) PROVE Typed'
  BY <1>1, <1>2 DEF Relabel, Typed, TypeOK, Phases
<1>3. ASSUME NEW a \in Apps, Deploy(a) PROVE Typed'
  <2>1. labels' \in [Apps -> Readings]
    BY <1>1, <1>3 DEF Deploy, TypeOK, Readings
  <2> QED
    BY <1>1, <1>3, <2>1, FaultTyped DEF Deploy, Typed, TypeOK, Phases
<1>4. ASSUME NEW g \in GwIds, ExternalRemove(g) PROVE Typed'
  <2>1. gws' \in [GwIds -> Gateway \cup {None}]
    BY <1>1, <1>4 DEF ExternalRemove, TypeOK
  <2> QED
    BY <1>1, <1>4, <2>1, FaultTyped DEF ExternalRemove, Typed, TypeOK, Phases
<1>5. ASSUME Crash PROVE Typed'
  <2>1. Empty \in Entry /\ Idle \in Job /\ Phase(Idle)
    BY IdleOK DEF JobOK, Empty, Entry, NoRefs, Tracked
  <2>2. store' \in [Apps -> Entry] /\ job' \in [Apps -> Job] /\ Phases'
    BY <1>5, <2>1 DEF Crash, Phases
  <2>3. valid' \in SUBSET Keys /\ givenUp' \in SUBSET Keys
    BY <1>1, <1>5 DEF Crash, TypeOK
  <2> QED
    BY <1>1, <1>5, <2>2, <2>3, FaultTyped DEF Crash, Typed, TypeOK
<1> QED
  BY <1>2, <1>3, <1>4, <1>5

\* The types and program points hold initially.
LEMMA InitTyped == Init => Typed
<1> SUFFICES ASSUME Init PROVE Typed
  OBVIOUS
<1>1. Empty \in Entry /\ Idle \in Job /\ Phase(Idle)
  BY IdleOK DEF JobOK, Empty, Entry, NoRefs, Tracked
<1>2. labels \in [Apps -> Readings]
  BY DEF Init, Readings
<1>3. Phases
  BY <1>1 DEF Init, Phases
<1> QED
  BY <1>1, <1>2, <1>3, EgressConstants DEF Init, Typed, TypeOK

\* Every step keeps them.
LEMMA StepTyped == Typed /\ [Next]_vars => Typed'
<1> SUFFICES ASSUME Typed, [Next]_vars PROVE Typed'
  OBVIOUS
<1>1. CASE UNCHANGED vars
  BY <1>1 DEF vars, Typed, TypeOK, Phases
<1>2. ASSUME NEW a \in Apps, Reconcile(a) PROVE Typed'
  BY <1>2, ReadTyped, RemoveTyped, BeginTyped, EndTyped, FinishTyped DEF Reconcile
<1> QED
  BY <1>1, <1>2, EnvironmentTyped DEF Next

\* The store, the jobs and the swarm keep their types.
THEOREM TypeCorrect == Spec => []TypeOK
<1>1. Typed => TypeOK
  BY DEF Typed
<1> QED
  BY InitTyped, StepTyped, <1>1, PTL DEF Spec
-----------------------------------------------------------------------------
(* No running gateway carries an expired key *)

\* A ref some record of the daemon holds.
Refers(r) == /\ r # None
             /\ \E a \in Apps, t \in Targets : store[a].refs[t] = r \/ job[a].tracked[t] = r

Unlost == "lost" \notin struck

\* The key of a ref is on no gateway but the ref's own.
RefKeys == Unlost => \A r \in Ref : Refers(r) =>
               \A g \in Running : gws[g].key = r.key => g = r.svc

\* A key that was just minted is known to Headscale and is nowhere else.
NewKey(a) == /\ job[a].key \in valid
             /\ \A g \in Running : gws[g].key # job[a].key
             /\ \A r \in Ref : Refers(r) => r.key # job[a].key
             /\ \A b \in Apps \ {a} : job[b].key # job[a].key
NewKeys == Unlost => \A a \in Apps : job[a].key # None => NewKey(a)

IInv == Typed /\ GatewayKeyUnexpired /\ RefKeys /\ NewKeys

\* A step that installs no key: gateways stay or go, the keys of those that
\* stay and of the reconciles stay known, and no ref gets another key.
KeepsKeys == /\ struck \subseteq struck'
             /\ Unlost' => \A g \in GwIds : gws'[g] # None => gws'[g] = gws[g] /\ gws[g].key \in valid'
             /\ Unlost' => \A a \in Apps : job'[a].key # None =>
                               job'[a].key = job[a].key /\ job[a].key \in valid'
             /\ \A r \in Ref : Refers(r)' => Refers(r) \/ r.key = None

\* A step that brings no new key into play keeps the invariant.
LEMMA KeepsKeysIInv == IInv /\ Typed' /\ KeepsKeys => IInv'
<1> SUFFICES ASSUME IInv, Typed', KeepsKeys PROVE IInv'
  OBVIOUS
<1> USE DEF IInv
<1> SUFFICES ASSUME Unlost' PROVE (GatewayKeyUnexpired /\ RefKeys /\ NewKeys)'
  BY DEF GatewayKeyUnexpired, RefKeys, NewKeys, Unlost
<1>1. Unlost
  BY DEF KeepsKeys, Unlost
<1>2. \A g \in Running' : g \in Running /\ gws'[g] = gws[g] /\ gws[g].key \in valid'
  BY DEF KeepsKeys, Running
<1>3. \A g \in Running : gws[g].key \in Keys
  BY DEF Typed, TypeOK, Running, Gateway
<1>4. GatewayKeyUnexpired'
  BY <1>2 DEF GatewayKeyUnexpired
<1>5. RefKeys'
  <2> SUFFICES ASSUME NEW r \in Ref, Refers(r)', NEW g \in Running', gws'[g].key = r.key
               PROVE  g = r.svc
    BY DEF RefKeys
  <2>1. g \in Running /\ gws[g].key = r.key /\ r.key # None
    BY <1>2, <1>3, EgressConstants
  <2>2. Refers(r)
    BY <2>1 DEF KeepsKeys
  <2> QED
    BY <1>1, <2>1, <2>2 DEF RefKeys
<1>6. NewKeys'
  <2> SUFFICES ASSUME NEW a \in Apps, job'[a].key # None PROVE NewKey(a)'
    BY DEF NewKeys
  <2>1. job'[a].key = job[a].key /\ job[a].key \in valid' /\ NewKey(a)
    BY <1>1 DEF KeepsKeys, NewKeys
  <2>2. \A g \in Running' : gws'[g].key # job'[a].key
    BY <1>2, <2>1 DEF NewKey
  <2>3. ASSUME NEW r \in Ref, Refers(r)' PROVE r.key # job'[a].key
    BY <2>1, <2>3 DEF NewKey, KeepsKeys
  <2>4. ASSUME NEW b \in Apps \ {a} PROVE job'[b].key # job'[a].key
    BY <2>1 DEF NewKey, KeepsKeys
  <2> QED
    BY <2>1, <2>2, <2>3, <2>4 DEF NewKey
<1> QED
  BY <1>4, <1>5, <1>6

\* The refs after a step that moves the reconcile of a.
LEMMA RefersAfter ==
    ASSUME Typed, NEW a \in Apps, NEW j, Moves(a, j), \A b \in Apps \ {a} : store'[b] = store[b],
           NEW r \in Ref, Refers(r)'
    PROVE  Refers(r) \/ \E t \in Targets : r = j.tracked[t] \/ r = store'[a].refs[t]
<1>1. r # None
  BY DEF Refers
<1>2. PICK b \in Apps, t \in Targets : store'[b].refs[t] = r \/ job'[b].tracked[t] = r
  BY DEF Refers
<1>3. CASE b = a
  BY <1>2, <1>3 DEF Moves
<1>4. CASE b # a
  <2>1. store[b].refs[t] = r \/ job[b].tracked[t] = r
    BY <1>2, <1>4 DEF Moves
  <2> QED
    BY <1>1, <2>1 DEF Refers
<1> QED
  BY <1>3, <1>4

\* A tracked ref is one that some record holds.
LEMMA RefersTracked ==
    ASSUME NEW a \in Apps, NEW t \in Targets
    PROVE  /\ job[a].tracked[t] # None => Refers(job[a].tracked[t])
           /\ store[a].refs[t] # None => Refers(store[a].refs[t])
  BY DEF Refers

\* A step of a that keeps the store and tracks what was tracked, or less.
LEMMA RefersKept ==
    ASSUME Typed, NEW a \in Apps, NEW j, Moves(a, j), store' = store,
           \A t \in Targets : \/ j.tracked[t] = None
                              \/ j.tracked[t] = job[a].tracked[t]
                              \/ j.tracked[t] = store[a].refs[t]
                              \/ j.tracked[t].key = None
    PROVE  \A r \in Ref : Refers(r)' => Refers(r) \/ r.key = None
<1> SUFFICES ASSUME NEW r \in Ref, Refers(r)' PROVE Refers(r) \/ r.key = None
  OBVIOUS
<1>1. r # None
  BY DEF Refers
<1>2. Refers(r) \/ \E t \in Targets : r = j.tracked[t] \/ r = store'[a].refs[t]
  BY RefersAfter
<1>3. ASSUME NEW t \in Targets, r = j.tracked[t] \/ r = store'[a].refs[t] PROVE Refers(r) \/ r.key = None
  BY <1>1, <1>3, RefersTracked
<1> QED
  BY <1>2, <1>3

\* What a table of refs may hold for it to bring in no key.
OldRefs(a, m) == \A t \in Targets : \/ m[t] = None
                                    \/ m[t] = job[a].tracked[t]
                                    \/ m[t] = store[a].refs[t]
                                    \/ m[t].key = None

\* A step of a reconcile that leaves the swarm and Headscale alone.
LEMMA QuietMove ==
    ASSUME IInv, NEW a \in Apps, NEW j, Moves(a, j), OldRefs(a, j.tracked),
           j.key \in {None, job[a].key},
           UNCHANGED <<gws, valid, store>>, struck \subseteq struck'
    PROVE  KeepsKeys
<1>1. \A r \in Ref : Refers(r)' => Refers(r) \/ r.key = None
  BY RefersKept DEF OldRefs, IInv
<1>2. Unlost' => \A g \in GwIds : gws'[g] # None => gws'[g] = gws[g] /\ gws[g].key \in valid'
  BY DEF IInv, GatewayKeyUnexpired, Unlost, Running
<1>3. Unlost' => \A b \in Apps : job'[b].key # None =>
                     job'[b].key = job[b].key /\ job[b].key \in valid'
  BY DEF IInv, NewKeys, NewKey, Unlost, Moves
<1> QED
  BY <1>1, <1>2, <1>3 DEF KeepsKeys

\* A fault that happened is not forgotten.
LEMMA FaultGrows == ASSUME NEW kind, Fault(kind) PROVE struck \subseteq struck'
  BY DEF Fault

\* The steps that read, list and store nothing new leave the keys alone.
LEMMA ReadKeys ==
    ASSUME IInv, NEW a \in Apps, Inspect(a) \/ ReadEgress(a) \/ ListFail(a) \/ BeginSync(a)
    PROVE  KeepsKeys
<1> DEFINE j == job[a]
<1>1. job \in [Apps -> Job] /\ TypeOK /\ Phase(j)
  BY DEF IInv, Typed, TypeOK, Phases
<1>2. OldRefs(a, NoRefs) /\ OldRefs(a, Idle.tracked) /\ OldRefs(a, j.tracked)
  BY DEF OldRefs, NoRefs, Idle
<1>3. UNCHANGED <<gws, valid, store>> /\ struck \subseteq struck'
  BY FaultGrows DEF Inspect, ReadEgress, ListFail, BeginSync
<1>4. CASE Inspect(a)
  <2> DEFINE k == JobRec("read", labels[a], NoRefs, {}, None, None, None, None)
  <2>1. Moves(a, k) /\ k.tracked = NoRefs /\ k.key = None
    BY <1>1, <1>4, InspectMoves DEF JobRec
  <2> QED
    BY <1>2, <1>3, <2>1, QuietMove
<1>5. CASE ReadEgress(a)
  <2>1. CASE Moves(a, Idle)
    BY <1>2, <1>3, <2>1, QuietMove DEF Idle
  <2>2. ASSUME NEW m \in TrackedGateways(a),
               Moves(a, JobRec("remove", j.want, m, Addrs(m) \ j.want.targets, j.cur, j.key, j.svc, j.seen))
        PROVE  KeepsKeys
    <3> DEFINE k == JobRec("remove", j.want, m, Addrs(m) \ j.want.targets, j.cur, j.key, j.svc, j.seen)
    <3>1. OldRefs(a, m)
      <4> SUFFICES ASSUME NEW t \in Targets
                   PROVE  m[t] = None \/ m[t] = store[a].refs[t] \/ m[t].key = None
        BY DEF OldRefs
      <4>1. m[t] \in RefFor(a, t)
        BY DEF TrackedGateways
      <4> QED
        BY <4>1 DEF RefFor
    <3>2. k.tracked = m /\ k.key = j.key
      BY DEF JobRec
    <3> QED
      BY <1>3, <2>2, <3>1, <3>2, QuietMove
  <2> QED
    BY <1>1, <1>5, <2>1, <2>2, ReadEgressMoves
<1>6. CASE ListFail(a)
  BY <1>1, <1>2, <1>3, <1>6, QuietMove, Moving DEF ListFail, Idle
<1>7. CASE BeginSync(a)
  <2> DEFINE k == JobRec("sync", j.want, j.tracked, j.want.targets, j.cur, j.key, j.svc, j.seen)
  <2>1. Moves(a, k) /\ k.tracked = j.tracked /\ k.key = j.key
    BY <1>1, <1>7, BeginSyncMoves DEF JobRec
  <2> QED
    BY <1>2, <1>3, <2>1, QuietMove
<1> QED
  BY <1>4, <1>5, <1>6, <1>7

\* So do the steps of the loop up to the mint.
LEMMA BeginKeys ==
    ASSUME IInv, NEW a \in Apps,
           \/ \E t \in Targets : UpToDate(a, t) \/ StartCreate(a, t) \/ InspectGateway(a, t)
           \/ MintFail(a) \/ CreateExists(a) \/ AdoptFind(a)
    PROVE  KeepsKeys
<1> DEFINE j == job[a]
<1>1. job \in [Apps -> Job] /\ TypeOK /\ j \in Job /\ Phase(j)
  BY DEF IInv, Typed, TypeOK, Phases
<1>2. OldRefs(a, j.tracked) /\ \A t \in Targets : OldRefs(a, [j.tracked EXCEPT ![t] = None])
  BY <1>1 DEF OldRefs, Job, Tracked
<1>3. UNCHANGED <<gws, valid, store>> /\ struck \subseteq struck'
  BY FaultGrows DEF UpToDate, StartCreate, InspectGateway, MintFail, CreateExists, AdoptFind, NoFault
<1>4. ASSUME NEW t \in Targets, UpToDate(a, t) PROVE KeepsKeys
  <2> DEFINE k == JobRec(j.pc, j.want, j.tracked, j.todo \ {t}, j.cur, j.key, j.svc, j.seen)
  <2>1. Moves(a, k) /\ k.tracked = j.tracked /\ k.key = j.key
    BY <1>1, <1>4, TodoMoves DEF UpToDate, JobRec
  <2> QED
    BY <1>2, <1>3, <2>1, QuietMove
<1>5. ASSUME NEW t \in Targets, StartCreate(a, t) PROVE KeepsKeys
  <2> DEFINE k == JobRec("mintCreate", j.want, j.tracked, j.todo, t, j.key, j.svc, j.seen)
  <2>1. Moves(a, k) /\ k.tracked = j.tracked /\ k.key = j.key
    BY <1>1, <1>5, StartCreateMoves DEF JobRec
  <2> QED
    BY <1>2, <1>3, <2>1, QuietMove
<1>6. ASSUME NEW t \in Targets, Moves(a, SettledAs(a, t, None)) PROVE KeepsKeys
  <2> DEFINE k == SettledAs(a, t, None)
  <2>1. k.tracked = [j.tracked EXCEPT ![t] = None] /\ k.key = None
    BY DEF SettledAs, JobRec
  <2> QED
    BY <1>2, <1>3, <1>6, <2>1, QuietMove
<1>7. ASSUME NEW t \in Targets, InspectGateway(a, t) PROVE KeepsKeys
  <2> DEFINE g == j.tracked[t].svc
             k == JobRec("mintUpdate", j.want, j.tracked, j.todo, t, j.key, g, gws[g])
             l == JobRec("mintCreate", j.want, [j.tracked EXCEPT ![t] = None], j.todo, t, j.key, j.svc,
                         j.seen)
  <2>1. k.tracked = j.tracked /\ k.key = j.key
    BY DEF JobRec
  <2>2. l.tracked = [j.tracked EXCEPT ![t] = None] /\ l.key = j.key
    BY DEF JobRec
  <2>3. Moves(a, k) \/ Moves(a, l) \/ Moves(a, SettledAs(a, t, None))
    BY <1>1, <1>7, InspectGatewayMoves
  <2>4. CASE Moves(a, k)
    BY <1>2, <1>3, <2>1, <2>4, QuietMove
  <2>5. CASE Moves(a, l)
    BY <1>2, <1>3, <2>2, <2>5, QuietMove
  <2> QED
    BY <1>6, <2>3, <2>4, <2>5
<1>8. CASE MintFail(a)
  <2>1. j.cur \in Targets
    BY <1>1, <1>8 DEF MintFail, Phase, Creating, Updating, Job
  <2> QED
    BY <1>1, <1>6, <1>8, <2>1, Moving DEF MintFail
<1>9. CASE CreateExists(a)
  <2>1. Moves(a, At(a, "adopt")) /\ At(a, "adopt").tracked = j.tracked /\ At(a, "adopt").key = j.key
    BY <1>1, <1>9, Moving DEF CreateExists, At, JobRec
  <2> QED
    BY <1>2, <1>3, <2>1, QuietMove
<1>10. CASE AdoptFind(a)
  <2>1. PICK g \in Named(GwName[a][j.cur]) :
          Moves(a, JobRec("adoptUpdate", j.want, j.tracked, j.todo, j.cur, j.key, g, gws[g]))
    BY <1>1, <1>10, AdoptFindMoves
  <2> DEFINE k == JobRec("adoptUpdate", j.want, j.tracked, j.todo, j.cur, j.key, g, gws[g])
  <2>2. k.tracked = j.tracked /\ k.key = j.key
    BY DEF JobRec
  <2> QED
    BY <1>2, <1>3, <2>1, <2>2, QuietMove
<1> QED
  BY <1>4, <1>5, <1>7, <1>8, <1>9, <1>10

\* removeGateway expires the key of the gateway it removed, which no other
\* gateway has.
LEMMA RemovalKeys ==
    ASSUME IInv, NEW a \in Apps, NEW t \in Targets, RemoveUndesired(a, t) \/ TeardownOne(a, t)
    PROVE  KeepsKeys
<1> DEFINE j   == job[a]
           ref == j.tracked[t]
<1>1. job \in [Apps -> Job] /\ TypeOK /\ j \in Job /\ Phase(j)
  BY DEF IInv, Typed, TypeOK, Phases
<1>2. ref \in Ref /\ Refers(ref) /\ ref.svc \in GwIds
  BY <1>1, RefersTracked DEF RemoveUndesired, TeardownOne, Phase, Addrs, Job, Tracked, Ref
<1>3. RemoveOk(ref) \/ RemoveFail(ref)
  BY DEF RemoveUndesired, TeardownOne
<1>4. struck \subseteq struck'
  BY <1>3, FaultGrows DEF RemoveOk, RemoveFail, ExpireOrLog, NoFault
<1>5. valid \ {ref.key} \subseteq valid'
  BY <1>3 DEF RemoveOk, RemoveFail, ExpireOrLog, ExpireKey, GiveUp
<1>6. Unlost' => \A g \in GwIds : gws'[g] # None => gws'[g] = gws[g] /\ gws[g].key \in valid'
  <2> SUFFICES ASSUME Unlost', NEW g \in GwIds, gws'[g] # None
               PROVE  gws'[g] = gws[g] /\ gws[g].key \in valid'
    OBVIOUS
  <2>1. Unlost
    BY <1>4 DEF Unlost
  <2>2. gws'[g] = gws[g] /\ g \in Running
    BY <1>1, <1>2, <1>3 DEF RemoveOk, RemoveFail, Running, TypeOK
  <2>3. CASE RemoveOk(ref)
    <3>1. g # ref.svc
      BY <1>1, <1>2, <2>3 DEF RemoveOk, TypeOK
    <3>2. gws[g].key # ref.key
      BY <1>2, <2>1, <2>2, <3>1 DEF IInv, RefKeys
    <3> QED
      BY <1>5, <2>1, <2>2, <3>2 DEF IInv, GatewayKeyUnexpired, Unlost
  <2>4. CASE RemoveFail(ref)
    BY <2>1, <2>2, <2>4 DEF RemoveFail, IInv, GatewayKeyUnexpired, Unlost
  <2> QED
    BY <1>3, <2>3, <2>4
<1>7. \E k : /\ Moves(a, k) /\ k.key = j.key
             /\ \A u \in Targets : k.tracked[u] = None \/ k.tracked[u] = j.tracked[u]
  <2> DEFINE k == JobRec(j.pc, j.want, j.tracked, j.todo \ {t}, j.cur, j.key, j.svc, j.seen)
             l == JobRec(j.pc, j.want, [j.tracked EXCEPT ![t] = None], j.todo \ {t}, j.cur, j.key,
                         j.svc, j.seen)
  <2>1. Moves(a, k) \/ Moves(a, l)
    BY <1>1, TodoMoves DEF RemoveUndesired, TeardownOne
  <2>2. k.key = j.key /\ k.tracked = j.tracked
    BY DEF JobRec
  <2>3. l.key = j.key /\ \A u \in Targets : l.tracked[u] = None \/ l.tracked[u] = j.tracked[u]
    BY <1>1 DEF JobRec, Job, Tracked
  <2> HIDE DEF k, l
  <2> QED
    BY <2>1, <2>2, <2>3
<1>8. PICK k : /\ Moves(a, k) /\ k.key = j.key
               /\ \A u \in Targets : k.tracked[u] = None \/ k.tracked[u] = j.tracked[u]
  BY <1>7
<1>9. store' = store
  BY DEF RemoveUndesired, TeardownOne
<1>10. \A r \in Ref : Refers(r)' => Refers(r) \/ r.key = None
  BY <1>8, <1>9, RefersKept DEF IInv
<1>11. Unlost' => \A b \in Apps : job'[b].key # None =>
                     job'[b].key = job[b].key /\ job[b].key \in valid'
  BY <1>2, <1>4, <1>5, <1>8 DEF IInv, NewKeys, NewKey, Unlost, Moves
<1> QED
  BY <1>4, <1>6, <1>10, <1>11 DEF KeepsKeys

\* A write that failed expires the key it was to install, which is nowhere
\* when the write really did not take effect.
LEMMA RollBackKeys ==
    ASSUME IInv, NEW a \in Apps, CreateFail(a) \/ AdoptMiss(a) \/ UpdateFail(a)
    PROVE  KeepsKeys
<1> DEFINE j == job[a]
<1> USE DEF Working, Creating, Updating, Holding, Writing
<1>1. job \in [Apps -> Job] /\ TypeOK /\ j \in Job /\ Phase(j)
  BY DEF IInv, Typed, TypeOK, Phases
<1>2. j.pc \in Holding
  BY DEF CreateFail, AdoptMiss, UpdateFail
<1>3. j.cur \in Targets /\ j.key # None
  BY <1>1, <1>2 DEF Phase, Job
<1>4. /\ struck \subseteq struck'
      /\ Unlost' => gws' = gws
      /\ store' = store
  BY FaultGrows DEF CreateFail, AdoptMiss, UpdateFail, NoFault, Fault, Unlost, Lasting
<1>5. valid \ {j.key} \subseteq valid'
  BY DEF CreateFail, AdoptMiss, UpdateFail, RollBack, ExpireKey, GiveUp
<1> DEFINE k == SettledAs(a, j.cur, None)
<1>6. Moves(a, k)
  BY <1>1, Moving DEF CreateFail, AdoptMiss, UpdateFail
<1>7. k.key = None /\ \A u \in Targets : k.tracked[u] = None \/ k.tracked[u] = j.tracked[u]
  BY <1>1, <1>3 DEF SettledAs, JobRec, Job, Tracked
<1> HIDE DEF k
<1>8. \A r \in Ref : Refers(r)' => Refers(r) \/ r.key = None
  BY <1>4, <1>6, <1>7, RefersKept DEF IInv
<1>9. Unlost' => Unlost /\ NewKey(a)
  BY <1>3, <1>4 DEF IInv, NewKeys, Unlost
<1>10. Unlost' => \A g \in GwIds : gws'[g] # None => gws'[g] = gws[g] /\ gws[g].key \in valid'
  BY <1>4, <1>5, <1>9 DEF IInv, GatewayKeyUnexpired, NewKey, Unlost, Running
<1>11. Unlost' => \A b \in Apps : job'[b].key # None =>
                     job'[b].key = job[b].key /\ job[b].key \in valid'
  BY <1>5, <1>6, <1>7, <1>9 DEF IInv, NewKeys, NewKey, Moves
<1> QED
  BY <1>4, <1>8, <1>10, <1>11 DEF KeepsKeys

\* The steps that write the store.
LEMMA StoreKeys ==
    ASSUME IInv, NEW a \in Apps, Finish(a) \/ ReadTeardown(a) \/ TeardownDone(a)
    PROVE  KeepsKeys
<1> DEFINE j == job[a]
<1>1. job \in [Apps -> Job] /\ store \in [Apps -> Entry] /\ TypeOK
  BY DEF IInv, Typed, TypeOK
<1>2. \/ Moves(a, Idle)
      \/ /\ ReadTeardown(a) /\ store' = store
         /\ Moves(a, JobRec("teardown", j.want, store[a].refs, Addrs(store[a].refs), j.cur, j.key,
                            j.svc, j.seen))
  BY <1>1, Moving, ReadTeardownMoves DEF Finish, TeardownDone
<1>3. UNCHANGED <<gws, valid, struck>>
  BY DEF Finish, ReadTeardown, TeardownDone
<1>4. CASE Moves(a, Idle)
  <2>1. \/ store' = store
        \/ store' = [store EXCEPT ![a] = Empty]
        \/ store' = [store EXCEPT ![a] = [refs |-> j.tracked, hash |-> j.want]]
    BY <1>1, ReadTeardownMoves DEF Finish, TeardownDone, ReadTeardown
  <2>2. /\ \A b \in Apps \ {a} : store'[b] = store[b]
        /\ store'[a].refs \in {store[a].refs, NoRefs, j.tracked}
    BY <1>1, <2>1 DEF Empty
  <2>3. ASSUME NEW r \in Ref, Refers(r)' PROVE Refers(r)
    <3>1. r # None
      BY <2>3 DEF Refers
    <3>2. Refers(r) \/ \E t \in Targets : r = Idle.tracked[t] \/ r = store'[a].refs[t]
      BY <1>4, <2>2, <2>3, RefersAfter DEF IInv
    <3>3. \A t \in Targets : NoRefs[t] = None /\ Idle.tracked[t] = None
      BY DEF NoRefs, Idle
    <3>4. ASSUME NEW t \in Targets, r = store'[a].refs[t] PROVE Refers(r)
      BY <2>2, <3>1, <3>3, <3>4, RefersTracked
    <3> QED
      BY <3>1, <3>2, <3>3, <3>4
  <2>4. Unlost' => \A g \in GwIds : gws'[g] # None => gws'[g] = gws[g] /\ gws[g].key \in valid'
    BY <1>3 DEF IInv, GatewayKeyUnexpired, Unlost, Running
  <2>5. Unlost' => \A b \in Apps : job'[b].key # None =>
                       job'[b].key = job[b].key /\ job[b].key \in valid'
    BY <1>3, <1>4 DEF IInv, NewKeys, NewKey, Unlost, Moves, Idle
  <2> QED
    BY <1>3, <2>3, <2>4, <2>5 DEF KeepsKeys
<1>5. CASE /\ store' = store
           /\ Moves(a, JobRec("teardown", j.want, store[a].refs, Addrs(store[a].refs), j.cur, j.key,
                              j.svc, j.seen))
  <2> DEFINE k == JobRec("teardown", j.want, store[a].refs, Addrs(store[a].refs), j.cur, j.key,
                         j.svc, j.seen)
  <2>1. k.tracked = store[a].refs /\ k.key = j.key
    BY DEF JobRec
  <2>2. OldRefs(a, k.tracked)
    BY <2>1 DEF OldRefs
  <2> QED
    BY <1>3, <1>5, <2>1, <2>2, QuietMove
<1> QED
  BY <1>2, <1>4, <1>5

\* Labels, operators and crashes expire nothing that a gateway carries.
LEMMA EnvironmentKeys ==
    ASSUME IInv,
           \/ \E a \in Apps : Relabel(a) \/ Deploy(a)
           \/ \E g \in GwIds : ExternalRemove(g)
           \/ Crash
    PROVE  KeepsKeys
<1>1. TypeOK /\ struck \subseteq struck'
  BY FaultGrows DEF IInv, Typed, Relabel, Deploy, ExternalRemove, Crash
<1>2. Unlost' => Unlost
  BY <1>1 DEF Unlost
<1>3. CASE Crash
  <2>1. \A r : ~Refers(r)'
    BY <1>3 DEF Crash, Refers, Empty, Idle, NoRefs
  <2>2. Unlost' => \A g \in GwIds : gws'[g] # None => gws'[g] = gws[g] /\ gws[g].key \in valid'
    BY <1>2, <1>3 DEF Crash, IInv, GatewayKeyUnexpired, Unlost, Running
  <2>3. \A a \in Apps : job'[a].key = None
    BY <1>3 DEF Crash, Idle
  <2> QED
    BY <1>1, <2>1, <2>2, <2>3 DEF KeepsKeys
<1>4. CASE (\E a \in Apps : Relabel(a) \/ Deploy(a)) \/ (\E g \in GwIds : ExternalRemove(g))
  <2>1. UNCHANGED <<valid, store, job>> /\ \A g \in GwIds : gws'[g] = gws[g] \/ gws'[g] = None
    BY <1>1, <1>4 DEF Relabel, Deploy, ExternalRemove, TypeOK
  <2>2. \A r \in Ref : Refers(r)' => Refers(r)
    BY <2>1 DEF Refers
  <2>3. Unlost' => \A g \in GwIds : gws'[g] # None => gws'[g] = gws[g] /\ gws[g].key \in valid'
    BY <1>2, <2>1 DEF IInv, GatewayKeyUnexpired, Unlost, Running
  <2>4. Unlost' => \A a \in Apps : job'[a].key # None =>
                       job'[a].key = job[a].key /\ job[a].key \in valid'
    BY <1>2, <2>1 DEF IInv, NewKeys, NewKey
  <2> QED
    BY <1>1, <2>2, <2>3, <2>4 DEF KeepsKeys
<1> QED
  BY <1>3, <1>4

\* A minted key is one that nothing refers to.
LEMMA MintIInv == ASSUME IInv, Typed', NEW a \in Apps, MintOk(a) PROVE IInv'
<1> DEFINE j == job[a]
<1>1. job \in [Apps -> Job] /\ TypeOK
  BY DEF IInv, Typed, TypeOK
<1>2. PICK k \in Keys :
        /\ Mint(k)
        /\ Moves(a, JobRec(IF j.pc = "mintCreate" THEN "create" ELSE "update", j.want,
                           j.tracked, j.todo, j.cur, k, j.svc, j.seen))
  BY <1>1, MintOkMoves
<1>3. ~Referenced(k) /\ valid' = valid \cup {k}
  BY <1>2 DEF Mint, FreshKeys
<1>4. /\ UNCHANGED <<gws, store, struck>>
      /\ \A b \in Apps : job'[b].tracked = job[b].tracked
      /\ job'[a].key = k
      /\ \A b \in Apps \ {a} : job'[b].key = job[b].key
  <2>1. UNCHANGED <<gws, store, struck>>
    BY DEF MintOk
  <2>2. job'[a].tracked = j.tracked /\ job'[a].key = k
    BY <1>2 DEF Moves, JobRec
  <2>3. \A b \in Apps \ {a} : job'[b] = job[b]
    BY <1>2 DEF Moves
  <2> QED
    BY <2>1, <2>2, <2>3
<1>5. /\ \A g \in Running : gws[g].key # k
      /\ \A r \in Ref : Refers(r) => r.key # k
      /\ \A b \in Apps : job[b].key # k
  BY <1>3 DEF Referenced, Refers
<1>6. \A r \in Ref : Refers(r)' <=> Refers(r)
  BY <1>4 DEF Refers
<1>7. Running' = Running /\ (Unlost' <=> Unlost)
  BY <1>4 DEF Running, Unlost
<1>8. GatewayKeyUnexpired' /\ RefKeys'
  BY <1>3, <1>4, <1>6, <1>7 DEF IInv, GatewayKeyUnexpired, RefKeys, Unlost
<1>9. NewKeys'
  <2> SUFFICES ASSUME Unlost, NEW b \in Apps, job'[b].key # None PROVE NewKey(b)'
    BY <1>7 DEF NewKeys
  <2>1. CASE b = a
    BY <1>3, <1>4, <1>5, <1>6, <1>7, <2>1 DEF NewKey
  <2>2. CASE b # a
    <3>1. NewKey(b)
      BY <1>4, <2>2 DEF IInv, NewKeys
    <3>2. \A c \in Apps \ {b} : job'[c].key # job'[b].key
      BY <1>4, <1>5, <2>2, <3>1 DEF NewKey
    <3> QED
      BY <1>3, <1>4, <1>5, <1>6, <1>7, <2>2, <3>1, <3>2 DEF NewKey
  <2> QED
    BY <2>1, <2>2
<1> QED
  BY <1>8, <1>9 DEF IInv

\* A key that is installed leaves the hands of the reconcile for one gateway
\* and the one ref to it; only the key this gateway had before is expired.
LEMMA InstallIInv ==
    ASSUME IInv, Typed', NEW a \in Apps, CreateOk(a) \/ AdoptUpdateOk(a) \/ UpdateOk(a)
    PROVE  IInv'
<1> DEFINE j == job[a]
<1> USE DEF Working, Creating, Updating, Holding, Writing
<1>1. job \in [Apps -> Job] /\ TypeOK /\ j \in Job /\ Phase(j) /\ Typed
  BY DEF IInv, Typed, TypeOK, Phases
<1>2. j.pc \in Holding
  BY DEF CreateOk, AdoptUpdateOk, UpdateOk
<1>3. j.cur \in Targets /\ j.key \in Keys /\ j.key # None /\ GatewaySpec(a) \in Gateway
  BY <1>1, <1>2, SpecTyped DEF Phase
<1>4. \E g \in GwIds : /\ gws' = [gws EXCEPT ![g] = GatewaySpec(a)]
                       /\ Settle(a, j.cur, NewRef(a, g))
                       /\ UpdateOk(a) => g = j.svc
  <2>1. CASE CreateOk(a)
    BY <2>1, NewGwIdIsUnused DEF CreateOk, UnusedGwIds, UpdateOk
  <2>2. CASE AdoptUpdateOk(a) \/ UpdateOk(a)
    <3>1. j.svc \in GwIds
      BY <1>1, <2>2 DEF AdoptUpdateOk, UpdateOk, Phase, Job
    <3> QED
      BY <2>2, <3>1 DEF AdoptUpdateOk, UpdateOk, UpdateApplies
  <2> QED
    BY <2>1, <2>2
<1>5. PICK g \in GwIds : /\ gws' = [gws EXCEPT ![g] = GatewaySpec(a)]
                         /\ Settle(a, j.cur, NewRef(a, g))
                         /\ UpdateOk(a) => g = j.svc
  BY <1>4
<1> DEFINE k == SettledAs(a, j.cur, NewRef(a, g))
<1>6. Moves(a, k)
  BY <1>1, <1>5, Moving
<1>7. /\ k.key = None
      /\ \A t \in Targets : k.tracked[t] = j.tracked[t] \/ k.tracked[t] = NewRef(a, g)
  BY <1>1, <1>3 DEF SettledAs, JobRec, Job, Tracked
<1> HIDE DEF k
<1>8. gws'[g].key = j.key /\ \A h \in GwIds \ {g} : gws'[h] = gws[h]
  BY <1>1, <1>5 DEF GatewaySpec, TypeOK
<1>9. NewRef(a, g).key = j.key /\ NewRef(a, g).svc = g
  BY DEF NewRef
<1>10. store' = store /\ struck \subseteq struck'
  BY FaultGrows DEF CreateOk, AdoptUpdateOk, UpdateOk, ExpireOrLog, NoFault
<1>11. ASSUME NEW r \in Ref, Refers(r)' PROVE Refers(r) \/ r = NewRef(a, g)
  <2>1. Refers(r) \/ \E t \in Targets : r = k.tracked[t] \/ r = store'[a].refs[t]
    BY <1>1, <1>6, <1>10, <1>11, RefersAfter
  <2>2. r # None
    BY <1>11 DEF Refers
  <2> QED
    BY <1>7, <1>10, <2>1, <2>2, RefersTracked
<1> SUFFICES ASSUME Unlost' PROVE (GatewayKeyUnexpired /\ RefKeys /\ NewKeys)'
  BY DEF IInv, GatewayKeyUnexpired, RefKeys, NewKeys, Unlost
<1>12. Unlost /\ NewKey(a)
  BY <1>3, <1>10 DEF IInv, NewKeys, Unlost
<1>13. /\ \A h \in Running \ {g} : gws[h].key \in valid'
       /\ \A b \in Apps : job[b].key # None => job[b].key \in valid'
  <2>1. CASE CreateOk(a) \/ AdoptUpdateOk(a)
    <3>1. valid' = valid
      BY <2>1 DEF CreateOk, AdoptUpdateOk
    <3> QED
      BY <1>12, <3>1 DEF IInv, GatewayKeyUnexpired, NewKeys, NewKey, Unlost
  <2>2. CASE UpdateOk(a)
    <3> DEFINE old == j.tracked[j.cur]
    <3>1. old \in Ref /\ Refers(old) /\ old.svc = g
      BY <1>1, <1>3, <1>5, <2>2, RefersTracked DEF UpdateOk, Phase, Job, Tracked
    <3>2. valid \ {old.key} \subseteq valid'
      BY <2>2 DEF UpdateOk, ExpireOrLog, ExpireKey, GiveUp
    <3>3. \A h \in Running \ {g} : gws[h].key # old.key /\ gws[h].key \in valid
      BY <1>12, <3>1 DEF IInv, RefKeys, GatewayKeyUnexpired, Unlost
    <3>4. \A b \in Apps : job[b].key # None => job[b].key # old.key /\ job[b].key \in valid
      BY <1>12, <3>1 DEF IInv, NewKeys, NewKey
    <3> QED
      BY <3>2, <3>3, <3>4
  <2> QED
    BY <2>1, <2>2
<1>14. \A h \in Running' : h = g \/ (h \in Running \ {g} /\ gws'[h] = gws[h])
  BY <1>8 DEF Running
<1>15. GatewayKeyUnexpired'
  BY <1>3, <1>8, <1>13, <1>14 DEF GatewayKeyUnexpired
<1>16. RefKeys'
  <2> SUFFICES ASSUME NEW r \in Ref, Refers(r)', NEW h \in Running', gws'[h].key = r.key
               PROVE  h = r.svc
    BY DEF RefKeys
  <2>1. CASE r = NewRef(a, g)
    <3>1. gws'[h].key = j.key
      BY <1>9, <2>1
    <3>2. h = g
      BY <1>12, <1>14, <3>1 DEF NewKey
    <3> QED
      BY <1>9, <2>1, <3>2
  <2>2. CASE Refers(r)
    <3>1. r.key # j.key
      BY <1>12, <2>2 DEF NewKey
    <3>2. h \in Running /\ gws[h].key = r.key
      BY <1>8, <1>14, <3>1
    <3> QED
      BY <1>12, <2>2, <3>2 DEF IInv, RefKeys
  <2> QED
    BY <1>11, <2>1, <2>2
<1>17. NewKeys'
  <2> SUFFICES ASSUME NEW b \in Apps, job'[b].key # None PROVE NewKey(b)'
    BY DEF NewKeys
  <2>1. b # a /\ job'[b].key = job[b].key
    BY <1>6, <1>7 DEF Moves
  <2>2. NewKey(b) /\ job[b].key # j.key /\ job[b].key \in valid'
    BY <1>12, <1>13, <2>1 DEF IInv, NewKeys, NewKey
  <2>3. \A h \in Running' : gws'[h].key # job[b].key
    BY <1>8, <1>14, <2>2 DEF NewKey
  <2>4. ASSUME NEW r \in Ref, Refers(r)' PROVE r.key # job[b].key
    BY <1>9, <1>11, <2>2, <2>4 DEF NewKey
  <2>5. \A c \in Apps \ {b} : job'[c].key # job[b].key
    BY <1>6, <1>7, <2>1, <2>2 DEF NewKey, Moves
  <2> QED
    BY <2>1, <2>2, <2>3, <2>4, <2>5 DEF NewKey
<1> QED
  BY <1>15, <1>16, <1>17

\* The key invariant holds initially.
LEMMA InitIInv == Init => IInv
<1> SUFFICES ASSUME Init PROVE IInv
  OBVIOUS
<1>1. Running = {} /\ \A a \in Apps : job[a].key = None
  BY DEF Init, Running, Idle
<1> QED
  BY <1>1, InitTyped DEF IInv, GatewayKeyUnexpired, RefKeys, NewKeys

\* Every step keeps it.
LEMMA Inductive == IInv /\ [Next]_vars => IInv'
<1> SUFFICES ASSUME IInv, [Next]_vars PROVE IInv'
  OBVIOUS
<1>1. Typed'
  BY StepTyped DEF IInv
<1>2. CASE UNCHANGED vars
  <2>1. KeepsKeys
    BY <1>2 DEF vars, KeepsKeys, IInv, GatewayKeyUnexpired, NewKeys, NewKey, Unlost, Running, Refers
  <2> QED
    BY <1>1, <2>1, KeepsKeysIInv
<1>3. ASSUME NEW a \in Apps, Reconcile(a) PROVE IInv'
  <2>1. CASE MintOk(a)
    BY <1>1, <2>1, MintIInv
  <2>2. CASE CreateOk(a) \/ AdoptUpdateOk(a) \/ UpdateOk(a)
    BY <1>1, <2>2, InstallIInv
  <2>3. CASE ~(MintOk(a) \/ CreateOk(a) \/ AdoptUpdateOk(a) \/ UpdateOk(a))
    <3>1. KeepsKeys
      BY <1>3, <2>3, ReadKeys, BeginKeys, RemovalKeys, RollBackKeys, StoreKeys DEF Reconcile
    <3> QED
      BY <1>1, <3>1, KeepsKeysIInv
  <2> QED
    BY <2>1, <2>2, <2>3
<1>4. CASE \/ \E a \in Apps : Relabel(a) \/ Deploy(a)
           \/ \E g \in GwIds : ExternalRemove(g)
           \/ Crash
  BY <1>1, <1>4, EnvironmentKeys, KeepsKeysIInv
<1> QED
  BY <1>2, <1>3, <1>4 DEF Next

\* No running gateway is left with an auth key the daemon expired, unless the
\* answer to a write was lost: for any number of apps whose gateways take each
\* other's names, whatever calls fail, and whenever the daemon crashes or an
\* operator removes a gateway.
THEOREM GatewayKeysUnexpired == Spec => []GatewayKeyUnexpired
<1>1. IInv => GatewayKeyUnexpired
  BY DEF IInv
<1> QED
  BY InitIInv, Inductive, <1>1, PTL DEF Spec
=============================================================================

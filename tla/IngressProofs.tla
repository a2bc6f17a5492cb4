---------------------------- MODULE IngressProofs ---------------------------
(***************************************************************************)
(* Proofs about Ingress for every set of services, configurations and keys: *)
(* its safety invariants and its action properties.                         *)
(*                                                                          *)
(* None of them is inductive alone.  That a stored proxy runs and that no   *)
(* running one is lost rests on a reconcile writing back the entry it read  *)
(* (Echo: nobody but CloseAll writes it meanwhile), on no two services ever *)
(* referring to the same key (OwnersApart), so that one reconcile cannot    *)
(* close the proxy of another, on what a reconcile at each step is known to *)
(* hold (MintedKey, WantMatches, TornDown), and on an entry naming a proxy, *)
(* its key and its configuration together or not at all (Whole).            *)
(***************************************************************************)
EXTENDS Ingress, TLAPS

\* CloseAll runs only after the cancel.
CloserLate == closer.pc # "running" => ctxDone

\* An entry names a proxy, its key and its configuration, or none of them.
WholeEntry(e) == /\ e.key = e.proxy
                 /\ e.proxy = None => e.hash = None

Whole(s) == WholeEntry(store[s]) /\ WholeEntry(job[s].prev)

\* The steps at which a reconcile holds the entry it read and has not yet
\* written or dropped it.
MintPCs == {"mint", "start", "rollback", "swap"}
HoldPCs == {"fastPut", "close", "expire", "clear", "egPut", "egClear"} \cup MintPCs

\* What a reconcile holds is what the store has, unless CloseAll deleted it.
Echo(s) == job[s].pc \in HoldPCs =>
    /\ store[s] \in {job[s].prev, Empty}
    /\ ~ctxDone => store[s] = job[s].prev

\* The key a rotation minted is new to the service; once swapped in it is the
\* one the store names, until shutdown.
MintedKey(s) ==
    /\ job[s].pc \in {"start", "rollback", "swap", "closePrev", "expirePrev"} =>
          job[s].key # None /\ job[s].key # job[s].prev.proxy
    /\ ~ctxDone /\ job[s].pc = "swap" => job[s].key \in live
    /\ ~ctxDone /\ job[s].pc \in {"closePrev", "expirePrev"} => store[s].proxy = job[s].key

\* A rotation is of a service that wants ingress with another configuration
\* than the one it runs; a teardown is of one that wants none.
WantMatches(s) ==
    /\ job[s].pc # "idle" => job[s].want \in Readings
    /\ job[s].pc \in MintPCs \cup {"fastPut", "closePrev", "expirePrev"} => WantsIngress(s)
    /\ job[s].pc \in MintPCs => job[s].prev.proxy = None \/ job[s].prev.hash # job[s].want.ing
    /\ job[s].pc \in {"close", "expire", "clear", "delete"} => ~WantsIngress(s)

\* A teardown past its Close has no running proxy, and at its end no valid key
\* that is still tracked; until shutdown a service that wants no ingress
\* reaches the egress half without a proxy.
TornDown(s) ==
    /\ job[s].pc \in {"expire", "clear"} => job[s].prev.proxy \notin live
    /\ job[s].pc = "clear" /\ job[s].prev.key \in valid => job[s].prev.key \in givenUp
    /\ ~ctxDone /\ job[s].pc \in EgressPCs \cup {"delete"} /\ ~WantsIngress(s) =>
          store[s].proxy = None

\* StoredProxyIsLive of one service.
StoredIsLive(s) == ~ctxDone /\ store[s].proxy # None /\ ~TearingDown(s) => store[s].proxy \in live

ServiceInv(s) == Whole(s) /\ Echo(s) /\ MintedKey(s) /\ WantMatches(s) /\ TornDown(s) /\ StoredIsLive(s)

\* The keys and proxies the entry or the reconcile of a service refers to.
Refs(s) == {store[s].proxy, job[s].prev.proxy, job[s].key} \ {None}

\* No two services refer to the same one.
OwnersApart == \A s, t \in Services : s # t => Refs(s) \cap Refs(t) = {}

IInv == /\ TypeOK /\ CloserLate /\ OwnersApart /\ NoLeakedProxy /\ KeysAccounted
        /\ \A s \in Services : ServiceInv(s)
-----------------------------------------------------------------------------
(* What a step of the reconcile of s may do to the rest of the system *)

\* The proxies and the keys the entry or the reconcile of s answers for.
Proxies(s) == {store[s].proxy} \cup InHand(s)
KeyHeldBy(s, k) == \/ store[s].key = k
                   \/ job[s].pc \in {"start", "rollback", "swap"} /\ job[s].key = k
                   \/ job[s].pc \in {"closePrev", "expirePrev"} /\ job[s].prev.key = k

\* The step touches no other service, starts only the proxy of the key it
\* minted, closes only the one it displaced, and comes by no key but its own
\* and a fresh one.
Footprint(s) ==
    /\ \A t \in Services \ {s} : store'[t] = store[t] /\ job'[t] = job[t]
    /\ UNCHANGED <<labels, closer, ctxDone, restarts>>
    /\ live' \subseteq live \cup {job[s].key}
    /\ live \subseteq live' \cup {job[s].prev.proxy}
    /\ \A k \in valid' : k \in valid \/ Fresh(k)
    /\ \A k \in givenUp : k \in givenUp' \/ k \notin valid'
    /\ \A k \in Refs(s)' : k \in Refs(s) \/ Fresh(k)

\* It loses no running proxy and no valid key it answered for.
Keeps(s) ==
    /\ ~ctxDone => \A k \in live' : k \in Proxies(s) \/ k \notin live => k \in Proxies(s)'
    /\ \A k \in valid' : KeyHeldBy(s, k) \/ k \notin valid => KeyHeldBy(s, k)' \/ k \in givenUp'

\* A step with that footprint leaves what is known of every other service.
LEMMA OthersUntouched ==
    ASSUME IInv, TypeOK', NEW s \in Services, Footprint(s), NEW t \in Services \ {s}
    PROVE  ServiceInv(t)'
<1>1. /\ store'[t] = store[t] /\ job'[t] = job[t] /\ ctxDone' = ctxDone
      /\ ServiceInv(t)
  BY DEF Footprint, IInv
<1>2. /\ store[t] \in Entry /\ job[t] \in Job /\ job[t].prev \in Entry
      /\ job[s] \in Job /\ job[s].prev \in Entry
      /\ live \subseteq Keys /\ live' \subseteq Keys
  BY DEF IInv, TypeOK, Job
<1>3. Refs(s) \cap Refs(t) = {}
  BY DEF IInv, OwnersApart
<1>4. Whole(t)' /\ Echo(t)' /\ WantMatches(t)'
  BY <1>1 DEF ServiceInv, Whole, Echo, WantMatches, WantsIngress
<1>5. \A k \in Refs(t) : k \in live' <=> k \in live
  BY <1>2, <1>3, IngressConstants DEF Footprint, Refs
<1>6. MintedKey(t)'
  BY <1>1, <1>5 DEF ServiceInv, MintedKey, Refs
<1>7. TornDown(t)'
  <2>1. job[t].prev.proxy \notin live => job[t].prev.proxy \notin live'
    BY <1>2, <1>5, IngressConstants DEF Refs
  <2>2. job[t].prev.key \in valid' => job[t].prev.key \in valid
    BY DEF Footprint, Fresh
  <2>3. job[t].prev.key \in valid' /\ job[t].prev.key \in givenUp => job[t].prev.key \in givenUp'
    BY DEF Footprint
  <2> QED
    BY <1>1, <2>1, <2>2, <2>3 DEF ServiceInv, TornDown, WantsIngress
<1>8. StoredIsLive(t)'
  BY <1>1, <1>5 DEF ServiceInv, StoredIsLive, TearingDown, Refs
<1> QED
  BY <1>4, <1>6, <1>7, <1>8 DEF ServiceInv

\* A step with that footprint that keeps what s answers for and the
\* invariant of s keeps the invariant.
LEMMA ReconcileKeepsIInv ==
    ASSUME IInv, TypeOK', NEW s \in Services, Footprint(s), Keeps(s), ServiceInv(s)'
    PROVE  IInv'
<1>1. CloserLate'
  BY DEF IInv, CloserLate, Footprint
<1>2. \A t \in Services : ServiceInv(t)'
  BY OthersUntouched
<1>3. OwnersApart'
  <2>1. \A t \in Services \ {s} : Refs(t)' = Refs(t)
    BY DEF Footprint, Refs
  <2>2. ASSUME NEW t \in Services \ {s}, NEW k \in Refs(t), k \in Refs(s)' PROVE FALSE
    <3>1. CASE k \in Refs(s)
      BY <2>2, <3>1 DEF IInv, OwnersApart
    <3>2. CASE Fresh(k)
      BY <2>2, <3>2 DEF Fresh, Refs
    <3> QED
      BY <2>2, <3>1, <3>2 DEF Footprint
  <2> QED
    BY <2>1, <2>2 DEF IInv, OwnersApart
<1>4. NoLeakedProxy'
  <2> SUFFICES ASSUME ~ctxDone, NEW k \in live'
               PROVE  \E t \in Services : k \in Proxies(t)'
    BY DEF NoLeakedProxy, Proxies, Footprint
  <2>1. CASE k \in Proxies(s) \/ k \notin live
    BY <2>1 DEF Keeps
  <2>2. CASE k \in live /\ k \notin Proxies(s)
    <3>1. PICK t \in Services \ {s} : k \in Proxies(t)
      BY <2>2 DEF IInv, NoLeakedProxy, Proxies
    <3>2. Proxies(t)' = Proxies(t)
      BY DEF Footprint, Proxies, InHand
    <3> QED
      BY <3>1, <3>2
  <2> QED
    BY <2>1, <2>2
<1>5. KeysAccounted'
  <2> SUFFICES ASSUME NEW k \in valid'
               PROVE  (\E t \in Services : KeyHeldBy(t, k)') \/ k \in givenUp'
    BY DEF KeysAccounted, KeyHeld, KeyHeldBy
  <2>1. CASE KeyHeldBy(s, k) \/ k \notin valid
    BY <2>1 DEF Keeps
  <2>2. CASE k \in givenUp
    BY <2>2 DEF Footprint
  <2>3. CASE \E t \in Services \ {s} : KeyHeldBy(t, k)
    BY <2>3 DEF Footprint, KeyHeldBy
  <2> QED
    BY <2>1, <2>2, <2>3 DEF IInv, KeysAccounted, KeyHeld, KeyHeldBy
<1> QED
  BY <1>1, <1>2, <1>3, <1>4, <1>5 DEF IInv
-----------------------------------------------------------------------------
(* How the reconcile of s moves on *)

\* The reconcile of s is at pc with those fields, and no other one moved.
Moves(s, pc, want, prev, key) ==
    /\ job' \in [Services -> Job]
    /\ \A t \in Services \ {s} : job'[t] = job[t]
    /\ job'[s].pc = pc /\ job'[s].want = want /\ job'[s].prev = prev /\ job'[s].key = key

\* The entry of s has those fields, and no other one changed.
Writes(s, proxy, hash, key, gws, gwHash) ==
    /\ store' \in [Services -> Entry]
    /\ \A t \in Services \ {s} : store'[t] = store[t]
    /\ store'[s].proxy = proxy /\ store'[s].hash = hash /\ store'[s].key = key
    /\ store'[s].gws = gws /\ store'[s].gwHash = gwHash

\* Goto changes the position alone, a Store.Get also what is in hand; Done and
\* EndIngress drop it; EndEgress goes on to the delete in a teardown only.
LEMMA JobSteps ==
    ASSUME TypeOK, NEW s \in Services
    PROVE  /\ \A pc \in PCs : Goto(s, pc) => Moves(s, pc, job[s].want, job[s].prev, job[s].key)
           /\ \A pc \in PCs : job' = [job EXCEPT ![s].prev = store[s], ![s].pc = pc] =>
                 Moves(s, pc, job[s].want, store[s], job[s].key)
           /\ Done(s) => Moves(s, "idle", None, Empty, None)
           /\ EndIngress(s) => Moves(s, "egGet", job[s].want, Empty, None)
           /\ EndEgress(s) => \/ Moves(s, "idle", None, Empty, None)
                              \/ /\ ~WantsIngress(s)
                                 /\ Moves(s, "delete", job[s].want, job[s].prev, job[s].key)
<1>1. /\ job \in [Services -> Job] /\ job[s] \in Job /\ Empty \in Entry
      /\ store[s] \in Entry
  BY DEF TypeOK, Empty, Entry
<1>2. /\ "egGet" \in PCs /\ "idle" \in PCs /\ "delete" \in PCs
  BY DEF PCs, EgressPCs
<1>3. ASSUME NEW pc \in PCs, Goto(s, pc)
      PROVE  Moves(s, pc, job[s].want, job[s].prev, job[s].key)
  BY <1>1, <1>3 DEF Goto, Moves, Job
<1>4. ASSUME NEW pc \in PCs, job' = [job EXCEPT ![s].prev = store[s], ![s].pc = pc]
      PROVE  Moves(s, pc, job[s].want, store[s], job[s].key)
  BY <1>1, <1>4 DEF Moves, Job
<1>5. ASSUME Done(s) PROVE Moves(s, "idle", None, Empty, None)
  BY <1>1, <1>2, <1>5 DEF Done, Idle, Moves, Job
<1>6. ASSUME EndIngress(s) PROVE Moves(s, "egGet", job[s].want, Empty, None)
  BY <1>1, <1>2, <1>6 DEF EndIngress, Idle, Moves, Job
<1>7. job[s].want = Absent => ~WantsIngress(s)
  BY IngressConstants DEF WantsIngress, Specs
<1> QED
  BY <1>2, <1>3, <1>4, <1>5, <1>6, <1>7 DEF EndEgress

\* The steps that read Docker or the store and move on.
LEMMA ReadIInv ==
    ASSUME IInv, NEW s \in Services,
           Inspect(s) \/ GetIngress(s) \/ GetTeardown(s) \/ GetEgress(s)
    PROVE  Footprint(s) /\ IInv'
<1>0. /\ TypeOK /\ ServiceInv(s)
      /\ job[s] \in Job /\ job[s].prev \in Entry /\ store[s] \in Entry
      /\ live \subseteq Keys /\ valid \subseteq Keys
      /\ None \notin Keys /\ Empty \in Entry
      /\ Empty.proxy = None /\ Empty.key = None /\ Empty.hash = None
  BY IngressConstants DEF IInv, TypeOK, Job, Empty, Entry
<1>1. CASE Inspect(s)
  <2>1. /\ job[s].pc = "idle" /\ labels[s] \in Readings
        /\ Moves(s, "get", labels[s], Empty, None)
        /\ UNCHANGED <<labels, valid, live, store, closer, ctxDone, restarts, givenUp>>
    BY <1>0, <1>1 DEF Inspect, TypeOK, Idle, Job, PCs, IngressPCs, Moves
  <2>2. TypeOK' /\ Footprint(s)
    BY <1>0, <2>1 DEF TypeOK, Footprint, Refs, Moves
  <2>3. Keeps(s)
    BY <1>0, <2>1 DEF Keeps, Proxies, InHand, KeyHeldBy, Moves
  <2>4. ServiceInv(s)'
    BY <1>0, <2>1 DEF ServiceInv, Whole, WholeEntry, Echo, HoldPCs, MintPCs, MintedKey,
                      WantMatches, TornDown, EgressPCs, StoredIsLive, TearingDown,
                      WantsIngress, Moves
  <2> QED
    BY <2>2, <2>3, <2>4, ReconcileKeepsIInv
<1>2. CASE GetIngress(s)
  <2>1. /\ job[s].pc = "get" /\ WantsIngress(s)
        /\ \/ Moves(s, "fastPut", job[s].want, store[s], job[s].key)
           \/ /\ Moves(s, "mint", job[s].want, store[s], job[s].key)
              /\ store[s].proxy = None \/ store[s].hash # job[s].want.ing
        /\ UNCHANGED <<labels, valid, live, store, closer, ctxDone, restarts, givenUp>>
    <3>1. CASE store[s].hash = job[s].want.ing /\ store[s].proxy # None
      BY <1>0, <1>2, <3>1, JobSteps DEF GetIngress, PCs, IngressPCs
    <3>2. CASE ~(store[s].hash = job[s].want.ing /\ store[s].proxy # None)
      BY <1>0, <1>2, <3>2, JobSteps DEF GetIngress, PCs, IngressPCs
    <3> QED
      BY <3>1, <3>2
  <2>2. TypeOK' /\ Footprint(s)
    BY <1>0, <2>1 DEF TypeOK, Footprint, Refs, Moves
  <2>3. Keeps(s)
    BY <1>0, <2>1 DEF Keeps, Proxies, InHand, KeyHeldBy, Moves
  <2>4. ServiceInv(s)'
    BY <1>0, <2>1 DEF ServiceInv, Whole, WholeEntry, Echo, HoldPCs, MintPCs, MintedKey,
                      WantMatches, TornDown, EgressPCs, StoredIsLive, TearingDown,
                      WantsIngress, Moves
  <2> QED
    BY <2>2, <2>3, <2>4, ReconcileKeepsIInv
<1>3. CASE GetTeardown(s)
  <2>1. /\ job[s].pc = "get" /\ ~WantsIngress(s)
        /\ \/ Moves(s, "egGet", job[s].want, Empty, None) /\ store[s].proxy = None
           \/ Moves(s, "close", job[s].want, store[s], job[s].key) /\ store[s].proxy # None
           \/ Moves(s, "expire", job[s].want, store[s], job[s].key) /\ store[s].proxy = None
        /\ UNCHANGED <<labels, valid, live, store, closer, ctxDone, restarts, givenUp>>
    BY <1>0, <1>3, JobSteps DEF GetTeardown, ServiceInv, Whole, WholeEntry, PCs, IngressPCs
  <2>2. TypeOK' /\ Footprint(s)
    BY <1>0, <2>1 DEF TypeOK, Footprint, Refs, Moves
  <2>3. Keeps(s)
    BY <1>0, <2>1 DEF Keeps, Proxies, InHand, KeyHeldBy, Moves
  <2>4. ServiceInv(s)'
    BY <1>0, <2>1 DEF ServiceInv, Whole, WholeEntry, Echo, HoldPCs, MintPCs, MintedKey,
                      WantMatches, TornDown, EgressPCs, StoredIsLive, TearingDown,
                      WantsIngress, Moves
  <2> QED
    BY <2>2, <2>3, <2>4, ReconcileKeepsIInv
<1>4. CASE GetEgress(s)
  <2>1. /\ job[s].pc = "egGet"
        /\ \/ Moves(s, "egPut", job[s].want, store[s], job[s].key)
           \/ Moves(s, "egClear", job[s].want, store[s], job[s].key)
           \/ Moves(s, "idle", None, Empty, None)
           \/ ~WantsIngress(s) /\ Moves(s, "delete", job[s].want, job[s].prev, job[s].key)
        /\ UNCHANGED <<labels, valid, live, store, closer, ctxDone, restarts, givenUp>>
    BY <1>0, <1>4, JobSteps DEF GetEgress, PCs, EgressPCs
  <2>2. TypeOK' /\ Footprint(s)
    BY <1>0, <2>1 DEF TypeOK, Footprint, Refs, Moves
  <2>3. Keeps(s)
    BY <1>0, <2>1 DEF Keeps, Proxies, InHand, KeyHeldBy, Moves
  <2>4. ServiceInv(s)'
    BY <1>0, <2>1 DEF ServiceInv, Whole, WholeEntry, Echo, HoldPCs, MintPCs, MintedKey,
                      WantMatches, TornDown, EgressPCs, StoredIsLive, TearingDown,
                      WantsIngress, Moves
  <2> QED
    BY <2>2, <2>3, <2>4, ReconcileKeepsIInv
<1> QED
  BY <1>1, <1>2, <1>3, <1>4

\* The steps that write the store.
LEMMA StoreIInv ==
    ASSUME IInv, NEW s \in Services,
           FastPut(s) \/ Swap(s) \/ Clear(s) \/ PutEgress(s)
           \/ ClearEgress(s) \/ Delete(s)
    PROVE  Footprint(s) /\ IInv'
<1>0. /\ TypeOK /\ ServiceInv(s)
      /\ job[s] \in Job /\ job[s].prev \in Entry /\ store[s] \in Entry
      /\ live \subseteq Keys /\ valid \subseteq Keys
      /\ None \notin Keys /\ Empty \in Entry
      /\ Empty.proxy = None /\ Empty.key = None /\ Empty.hash = None
  BY IngressConstants DEF IInv, TypeOK, Job, Empty, Entry
<1>1. CASE FastPut(s)
  <2>1. /\ job[s].pc = "fastPut" /\ Moves(s, "egGet", job[s].want, Empty, None)
        /\ Writes(s, job[s].prev.proxy, job[s].prev.hash, job[s].prev.key,
                  job[s].prev.gws, job[s].prev.gwHash)
        /\ UNCHANGED <<labels, valid, live, closer, ctxDone, restarts, givenUp>>
    <3>1. store[s] \in Entry /\ store \in [Services -> Entry]
      BY <1>0 DEF TypeOK
    <3>2. Writes(s, job[s].prev.proxy, job[s].prev.hash, job[s].prev.key,
                  job[s].prev.gws, job[s].prev.gwHash)
      BY <1>0, <1>1, <3>1 DEF FastPut, Writes, Entry, Empty
    <3> QED
      BY <1>0, <1>1, <3>2, JobSteps DEF FastPut
  <2>2. TypeOK' /\ Footprint(s)
    BY <1>0, <2>1 DEF TypeOK, Footprint, Refs, Moves, Writes
  <2>3. Keeps(s)
    BY <1>0, <2>1 DEF Keeps, Proxies, InHand, KeyHeldBy, Moves, Writes,
                      ServiceInv, Echo, HoldPCs
  <2>4. ServiceInv(s)'
    BY <1>0, <2>1 DEF ServiceInv, Whole, WholeEntry, Echo, HoldPCs, MintPCs, MintedKey,
                      WantMatches, TornDown, EgressPCs, StoredIsLive, TearingDown,
                      WantsIngress, Moves, Writes
  <2> QED
    BY <2>2, <2>3, <2>4, ReconcileKeepsIInv
<1>2. CASE Swap(s)
  <2>1. /\ job[s].pc = "swap" /\ job[s].want.ing \in Configs
        /\ \/ job[s].prev.proxy # None /\ Moves(s, "closePrev", job[s].want, job[s].prev, job[s].key)
           \/ job[s].prev.proxy = None /\ Moves(s, "egGet", job[s].want, Empty, None)
        /\ Writes(s, job[s].key, job[s].want.ing, job[s].key, job[s].prev.gws, job[s].prev.gwHash)
        /\ UNCHANGED <<labels, valid, live, closer, ctxDone, restarts, givenUp>>
    <3>1. job[s].pc = "swap" /\ job[s].want.ing \in Configs
      BY <1>0, <1>2 DEF Swap, ServiceInv, WantMatches, MintPCs, WantsIngress, Specs
    <3>2. Writes(s, job[s].key, job[s].want.ing, job[s].key, job[s].prev.gws, job[s].prev.gwHash)
      BY <1>0, <1>2, <3>1 DEF Swap, Writes, TypeOK, Job, Entry
    <3> QED
      BY <1>0, <1>2, <3>1, <3>2, JobSteps DEF Swap, PCs, IngressPCs
  <2>2. TypeOK' /\ Footprint(s)
    BY <1>0, <2>1 DEF TypeOK, Footprint, Refs, Moves, Writes
  <2>3. Keeps(s)
    BY <1>0, <2>1 DEF Keeps, Proxies, InHand, KeyHeldBy, Moves, Writes,
                      ServiceInv, Echo, HoldPCs, MintPCs, Whole, WholeEntry
  <2>4. ServiceInv(s)'
    BY <1>0, <2>1 DEF ServiceInv, Whole, WholeEntry, Echo, HoldPCs, MintPCs, MintedKey,
                      WantMatches, TornDown, EgressPCs, StoredIsLive, TearingDown,
                      WantsIngress, Moves, Writes
  <2> QED
    BY <2>2, <2>3, <2>4, ReconcileKeepsIInv
<1>3. CASE Clear(s)
  <2>1. /\ job[s].pc = "clear" /\ Moves(s, "egGet", job[s].want, Empty, None)
        /\ Writes(s, None, None, None, job[s].prev.gws,
                  IF job[s].prev.gws THEN job[s].prev.gwHash ELSE FALSE)
        /\ UNCHANGED <<labels, valid, live, closer, ctxDone, restarts, givenUp>>
    <3>1. store[s] \in Entry /\ store \in [Services -> Entry]
      BY <1>0 DEF TypeOK
    <3>2. Writes(s, None, None, None, job[s].prev.gws,
                  IF job[s].prev.gws THEN job[s].prev.gwHash ELSE FALSE)
      <4> DEFINE e == [job[s].prev EXCEPT !.proxy = None, !.hash = None, !.key = None]
      <4>1. /\ e \in Entry
            /\ e.proxy = None /\ e.hash = None /\ e.key = None
            /\ e.gws = job[s].prev.gws /\ e.gwHash = job[s].prev.gwHash
        <5>1. e \in Entry
          BY <1>0 DEF Entry
        <5>2. e.proxy = None /\ e.hash = None /\ e.key = None
          BY <1>0 DEF Entry
        <5>3. e.gws = job[s].prev.gws /\ e.gwHash = job[s].prev.gwHash
          BY <1>0 DEF Entry
        <5> QED
          BY <5>1, <5>2, <5>3
      <4>2. store' = [store EXCEPT ![s] = IF job[s].prev.gws THEN e ELSE Empty]
        BY <1>3 DEF Clear
      <4>3. Empty.gws = FALSE /\ Empty.gwHash = FALSE
        BY DEF Empty
      <4>4. job[s].prev.gws \in BOOLEAN
        BY <1>0 DEF Entry
      <4> HIDE DEF e
      <4>5. CASE job[s].prev.gws
        BY <1>0, <3>1, <4>1, <4>2, <4>5 DEF Writes
      <4>6. CASE ~job[s].prev.gws
        BY <1>0, <3>1, <4>2, <4>3, <4>4, <4>6 DEF Writes
      <4> QED
        BY <4>5, <4>6
    <3> QED
      BY <1>0, <1>3, <3>2, JobSteps DEF Clear
  <2>2. TypeOK' /\ Footprint(s)
    BY <1>0, <2>1 DEF TypeOK, Footprint, Refs, Moves, Writes
  <2>3. Keeps(s)
    BY <1>0, <2>1 DEF Keeps, Proxies, InHand, KeyHeldBy, Moves, Writes,
                      ServiceInv, Echo, HoldPCs, Whole, WholeEntry, TornDown
  <2>4. ServiceInv(s)'
    BY <1>0, <2>1 DEF ServiceInv, Whole, WholeEntry, Echo, HoldPCs, MintPCs, MintedKey,
                      WantMatches, TornDown, EgressPCs, StoredIsLive, TearingDown,
                      WantsIngress, Moves, Writes
  <2> QED
    BY <2>2, <2>3, <2>4, ReconcileKeepsIInv
<1>4. CASE PutEgress(s)
  <2>1. /\ job[s].pc = "egPut"
        /\ \/ Moves(s, "idle", None, Empty, None)
           \/ ~WantsIngress(s) /\ Moves(s, "delete", job[s].want, job[s].prev, job[s].key)
        /\ \E some \in BOOLEAN :
             Writes(s, job[s].prev.proxy, job[s].prev.hash, job[s].prev.key, some, TRUE)
        /\ UNCHANGED <<labels, valid, live, closer, ctxDone, restarts, givenUp>>
    <3>1. store[s] \in Entry /\ store \in [Services -> Entry]
      BY <1>0 DEF TypeOK
    <3>2. \E some \in BOOLEAN :
             Writes(s, job[s].prev.proxy, job[s].prev.hash, job[s].prev.key, some, TRUE)
      <4>1. PICK some \in BOOLEAN :
              store' = [store EXCEPT ![s] = [job[s].prev EXCEPT !.gws = some, !.gwHash = TRUE]]
        BY <1>4 DEF PutEgress
      <4>2. [job[s].prev EXCEPT !.gws = some, !.gwHash = TRUE] \in Entry
        BY <1>0 DEF Entry
      <4>3. Writes(s, job[s].prev.proxy, job[s].prev.hash, job[s].prev.key, some, TRUE)
        BY <1>0, <3>1, <4>1, <4>2 DEF Writes, Entry
      <4> QED
        BY <4>3
    <3> QED
      BY <1>0, <1>4, <3>2, JobSteps DEF PutEgress
  <2>2. TypeOK' /\ Footprint(s)
    BY <1>0, <2>1 DEF TypeOK, Footprint, Refs, Moves, Writes
  <2>3. Keeps(s)
    BY <1>0, <2>1 DEF Keeps, Proxies, InHand, KeyHeldBy, Moves, Writes,
                      ServiceInv, Echo, HoldPCs
  <2>4. ServiceInv(s)'
    BY <1>0, <2>1 DEF ServiceInv, Whole, WholeEntry, Echo, HoldPCs, MintPCs, MintedKey,
                      WantMatches, TornDown, EgressPCs, StoredIsLive, TearingDown,
                      WantsIngress, Moves, Writes
  <2> QED
    BY <2>2, <2>3, <2>4, ReconcileKeepsIInv
<1>5. CASE ClearEgress(s)
  <2>1. /\ job[s].pc = "egClear"
        /\ \/ Moves(s, "idle", None, Empty, None)
           \/ ~WantsIngress(s) /\ Moves(s, "delete", job[s].want, job[s].prev, job[s].key)
        /\ Writes(s, job[s].prev.proxy, job[s].prev.hash, job[s].prev.key, FALSE, FALSE)
        /\ UNCHANGED <<labels, valid, live, closer, ctxDone, restarts, givenUp>>
    <3>1. store[s] \in Entry /\ store \in [Services -> Entry]
      BY <1>0 DEF TypeOK
    <3>2. Writes(s, job[s].prev.proxy, job[s].prev.hash, job[s].prev.key, FALSE, FALSE)
      BY <1>0, <1>5, <3>1 DEF ClearEgress, Writes, Entry, Empty, ServiceInv, Whole, WholeEntry
    <3> QED
      BY <1>0, <1>5, <3>2, JobSteps DEF ClearEgress
  <2>2. TypeOK' /\ Footprint(s)
    BY <1>0, <2>1 DEF TypeOK, Footprint, Refs, Moves, Writes
  <2>3. Keeps(s)
    BY <1>0, <2>1 DEF Keeps, Proxies, InHand, KeyHeldBy, Moves, Writes,
                      ServiceInv, Echo, HoldPCs
  <2>4. ServiceInv(s)'
    BY <1>0, <2>1 DEF ServiceInv, Whole, WholeEntry, Echo, HoldPCs, MintPCs, MintedKey,
                      WantMatches, TornDown, EgressPCs, StoredIsLive, TearingDown,
                      WantsIngress, Moves, Writes
  <2> QED
    BY <2>2, <2>3, <2>4, ReconcileKeepsIInv
<1>6. CASE Delete(s)
  <2>1. /\ job[s].pc = "delete" /\ Moves(s, "idle", None, Empty, None)
        /\ Writes(s, None, None, None, FALSE, FALSE)
        /\ givenUp' = givenUp \cup ({store[s].key} \cap valid)
        /\ UNCHANGED <<labels, valid, live, closer, ctxDone, restarts>>
    <3>1. store[s] \in Entry /\ store \in [Services -> Entry]
      BY <1>0 DEF TypeOK
    <3>2. Writes(s, None, None, None, FALSE, FALSE)
      BY <1>0, <1>6, <3>1 DEF Delete, Writes, Entry, Empty
    <3> QED
      BY <1>0, <1>6, <3>2, JobSteps DEF Delete
  <2>2. TypeOK' /\ Footprint(s)
    BY <1>0, <2>1 DEF TypeOK, Footprint, Refs, Moves, Writes
  <2>3. Keeps(s)
    BY <1>0, <2>1 DEF Keeps, Proxies, InHand, KeyHeldBy, Moves, Writes,
                      ServiceInv, Whole, WholeEntry, TornDown, WantMatches
  <2>4. ServiceInv(s)'
    BY <1>0, <2>1 DEF ServiceInv, Whole, WholeEntry, Echo, HoldPCs, MintPCs, MintedKey,
                      WantMatches, TornDown, EgressPCs, StoredIsLive, TearingDown,
                      WantsIngress, Moves, Writes
  <2> QED
    BY <2>2, <2>3, <2>4, ReconcileKeepsIInv
<1> QED
  BY <1>1, <1>2, <1>3, <1>4, <1>5, <1>6

\* The calls to Headscale.
LEMMA KeyIInv ==
    ASSUME IInv, NEW s \in Services,
           MintOk(s) \/ MintFail(s) \/ Rollback(s) \/ ExpirePrev(s) \/ Expire(s) \/ WaitFail(s)
    PROVE  Footprint(s) /\ IInv'
<1>0. /\ TypeOK /\ ServiceInv(s)
      /\ job[s] \in Job /\ job[s].prev \in Entry /\ store[s] \in Entry
      /\ live \subseteq Keys /\ valid \subseteq Keys
      /\ None \notin Keys /\ Empty \in Entry
      /\ Empty.proxy = None /\ Empty.key = None /\ Empty.hash = None
  BY IngressConstants DEF IInv, TypeOK, Job, Empty, Entry
<1>1. CASE MintOk(s)
  <2>1. /\ job[s].pc = "mint"
        /\ \E k \in Keys : /\ Fresh(k) /\ valid' = valid \cup {k}
                           /\ Moves(s, "start", job[s].want, job[s].prev, k)
        /\ UNCHANGED <<labels, live, store, closer, ctxDone, restarts, givenUp>>
    <3>1. FreshKey \in Keys /\ Fresh(FreshKey)
      BY <1>1 DEF MintOk, FreshKey, FreshKeys
    <3>2. Moves(s, "start", job[s].want, job[s].prev, FreshKey)
      BY <1>0, <1>1, <3>1 DEF MintOk, Moves, TypeOK, Job, PCs, IngressPCs
    <3> QED
      BY <1>1, <3>1, <3>2 DEF MintOk
  <2>2. TypeOK' /\ Footprint(s)
    BY <1>0, <2>1 DEF TypeOK, Footprint, Refs, Moves
  <2>3. Keeps(s)
    BY <1>0, <2>1 DEF Keeps, Proxies, InHand, KeyHeldBy, Moves
  <2>4. ServiceInv(s)'
    BY <1>0, <2>1 DEF ServiceInv, Whole, WholeEntry, Echo, HoldPCs, MintPCs, MintedKey,
                      WantMatches, TornDown, EgressPCs, StoredIsLive, TearingDown,
                      WantsIngress, Moves, Fresh
  <2> QED
    BY <2>2, <2>3, <2>4, ReconcileKeepsIInv
<1>2. CASE MintFail(s)
  <2>1. /\ job[s].pc = "mint" /\ Moves(s, "egGet", job[s].want, Empty, None)
        /\ \/ UNCHANGED <<valid, givenUp>>
           \/ \E k \in Keys : Fresh(k) /\ valid' = valid \cup {k} /\ givenUp' = givenUp \cup {k}
        /\ UNCHANGED <<labels, live, store, closer, ctxDone, restarts>>
    <3>1. FreshKeys # {} => FreshKey \in Keys /\ Fresh(FreshKey)
      BY DEF FreshKey, FreshKeys
    <3> QED
      BY <1>0, <1>2, <3>1, JobSteps DEF MintFail
  <2>2. TypeOK' /\ Footprint(s)
    BY <1>0, <2>1 DEF TypeOK, Footprint, Refs, Moves
  <2>3. Keeps(s)
    BY <1>0, <2>1 DEF Keeps, Proxies, InHand, KeyHeldBy, Moves
  <2>4. ServiceInv(s)'
    BY <1>0, <2>1 DEF ServiceInv, Whole, WholeEntry, Echo, HoldPCs, MintPCs, MintedKey,
                      WantMatches, TornDown, EgressPCs, StoredIsLive, TearingDown,
                      WantsIngress, Moves
  <2> QED
    BY <2>2, <2>3, <2>4, ReconcileKeepsIInv
<1>3. CASE Rollback(s)
  <2>1. /\ job[s].pc = "rollback" /\ Moves(s, "egGet", job[s].want, Empty, None)
        /\ \/ valid' = valid \ {job[s].key} /\ givenUp' = givenUp \ {job[s].key}
           \/ valid' = valid /\ givenUp' = givenUp \cup ({job[s].key} \cap valid)
        /\ UNCHANGED <<labels, live, store, closer, ctxDone, restarts>>
    BY <1>0, <1>3, JobSteps DEF Rollback, ExpireOrGiveUp
  <2>2. TypeOK' /\ Footprint(s)
    BY <1>0, <2>1 DEF TypeOK, Footprint, Refs, Moves
  <2>3. Keeps(s)
    BY <1>0, <2>1 DEF Keeps, Proxies, InHand, KeyHeldBy, Moves
  <2>4. ServiceInv(s)'
    BY <1>0, <2>1 DEF ServiceInv, Whole, WholeEntry, Echo, HoldPCs, MintPCs, MintedKey,
                      WantMatches, TornDown, EgressPCs, StoredIsLive, TearingDown,
                      WantsIngress, Moves
  <2> QED
    BY <2>2, <2>3, <2>4, ReconcileKeepsIInv
<1>4. CASE ExpirePrev(s)
  <2>1. /\ job[s].pc = "expirePrev" /\ Moves(s, "egGet", job[s].want, Empty, None)
        /\ \/ valid' = valid \ {job[s].prev.key} /\ givenUp' = givenUp \ {job[s].prev.key}
           \/ valid' = valid /\ givenUp' = givenUp \cup ({job[s].prev.key} \cap valid)
        /\ UNCHANGED <<labels, live, store, closer, ctxDone, restarts>>
    BY <1>0, <1>4, JobSteps DEF ExpirePrev, ExpireOrGiveUp
  <2>2. TypeOK' /\ Footprint(s)
    BY <1>0, <2>1 DEF TypeOK, Footprint, Refs, Moves
  <2>3. Keeps(s)
    BY <1>0, <2>1 DEF Keeps, Proxies, InHand, KeyHeldBy, Moves
  <2>4. ServiceInv(s)'
    BY <1>0, <2>1 DEF ServiceInv, Whole, WholeEntry, Echo, HoldPCs, MintPCs, MintedKey,
                      WantMatches, TornDown, EgressPCs, StoredIsLive, TearingDown,
                      WantsIngress, Moves
  <2> QED
    BY <2>2, <2>3, <2>4, ReconcileKeepsIInv
<1>5. CASE Expire(s)
  <2>1. /\ job[s].pc = "expire" /\ Moves(s, "clear", job[s].want, job[s].prev, job[s].key)
        /\ \/ valid' = valid \ {job[s].prev.key} /\ givenUp' = givenUp \ {job[s].prev.key}
           \/ valid' = valid /\ givenUp' = givenUp \cup ({job[s].prev.key} \cap valid)
        /\ UNCHANGED <<labels, live, store, closer, ctxDone, restarts>>
    BY <1>0, <1>5, JobSteps DEF Expire, ExpireOrGiveUp, PCs, IngressPCs
  <2>2. TypeOK' /\ Footprint(s)
    BY <1>0, <2>1 DEF TypeOK, Footprint, Refs, Moves
  <2>3. Keeps(s)
    BY <1>0, <2>1 DEF Keeps, Proxies, InHand, KeyHeldBy, Moves
  <2>4. ServiceInv(s)'
    BY <1>0, <2>1 DEF ServiceInv, Whole, WholeEntry, Echo, HoldPCs, MintPCs, MintedKey,
                      WantMatches, TornDown, EgressPCs, StoredIsLive, TearingDown,
                      WantsIngress, Moves
  <2> QED
    BY <2>2, <2>3, <2>4, ReconcileKeepsIInv
<1>6. CASE WaitFail(s)
  <2>1. /\ job[s].pc = "expire" /\ ctxDone /\ Moves(s, "egGet", job[s].want, Empty, None)
        /\ UNCHANGED <<labels, valid, live, store, closer, ctxDone, restarts, givenUp>>
    BY <1>0, <1>6, JobSteps DEF WaitFail
  <2>2. TypeOK' /\ Footprint(s)
    BY <1>0, <2>1 DEF TypeOK, Footprint, Refs, Moves
  <2>3. Keeps(s)
    BY <1>0, <2>1 DEF Keeps, Proxies, InHand, KeyHeldBy, Moves
  <2>4. ServiceInv(s)'
    BY <1>0, <2>1 DEF ServiceInv, Whole, WholeEntry, Echo, HoldPCs, MintPCs, MintedKey,
                      WantMatches, TornDown, EgressPCs, StoredIsLive, TearingDown,
                      WantsIngress, Moves
  <2> QED
    BY <2>2, <2>3, <2>4, ReconcileKeepsIInv
<1> QED
  BY <1>1, <1>2, <1>3, <1>4, <1>5, <1>6

\* The steps that start or close a proxy, and the egress half failing.
LEMMA ProxyIInv ==
    ASSUME IInv, NEW s \in Services,
           StartOk(s) \/ StartFail(s) \/ ClosePrev(s) \/ Close(s) \/ FailEgress(s)
    PROVE  Footprint(s) /\ IInv'
<1>0. /\ TypeOK /\ ServiceInv(s)
      /\ job[s] \in Job /\ job[s].prev \in Entry /\ store[s] \in Entry
      /\ live \subseteq Keys /\ valid \subseteq Keys
      /\ None \notin Keys /\ Empty \in Entry
      /\ Empty.proxy = None /\ Empty.key = None /\ Empty.hash = None
  BY IngressConstants DEF IInv, TypeOK, Job, Empty, Entry
<1>1. CASE StartOk(s)
  <2>1. /\ job[s].pc = "start" /\ Moves(s, "swap", job[s].want, job[s].prev, job[s].key)
        /\ job[s].key \in Keys /\ live' = live \cup {job[s].key}
        /\ UNCHANGED <<labels, valid, store, closer, ctxDone, restarts, givenUp>>
    BY <1>0, <1>1, JobSteps DEF StartOk, PCs, IngressPCs, Job, ServiceInv, MintedKey
  <2>2. TypeOK' /\ Footprint(s)
    BY <1>0, <2>1 DEF TypeOK, Footprint, Refs, Moves
  <2>3. Keeps(s)
    BY <1>0, <2>1 DEF Keeps, Proxies, InHand, KeyHeldBy, Moves
  <2>4. ServiceInv(s)'
    BY <1>0, <2>1 DEF ServiceInv, Whole, WholeEntry, Echo, HoldPCs, MintPCs, MintedKey,
                      WantMatches, TornDown, EgressPCs, StoredIsLive, TearingDown,
                      WantsIngress, Moves
  <2> QED
    BY <2>2, <2>3, <2>4, ReconcileKeepsIInv
<1>2. CASE StartFail(s)
  <2>1. /\ job[s].pc = "start" /\ Moves(s, "rollback", job[s].want, job[s].prev, job[s].key)
        /\ UNCHANGED <<labels, valid, live, store, closer, ctxDone, restarts, givenUp>>
    BY <1>0, <1>2, JobSteps DEF StartFail, PCs, IngressPCs
  <2>2. TypeOK' /\ Footprint(s)
    BY <1>0, <2>1 DEF TypeOK, Footprint, Refs, Moves
  <2>3. Keeps(s)
    BY <1>0, <2>1 DEF Keeps, Proxies, InHand, KeyHeldBy, Moves
  <2>4. ServiceInv(s)'
    BY <1>0, <2>1 DEF ServiceInv, Whole, WholeEntry, Echo, HoldPCs, MintPCs, MintedKey,
                      WantMatches, TornDown, EgressPCs, StoredIsLive, TearingDown,
                      WantsIngress, Moves
  <2> QED
    BY <2>2, <2>3, <2>4, ReconcileKeepsIInv
<1>3. CASE ClosePrev(s)
  <2>1. /\ job[s].pc = "closePrev" /\ live' = live \ {job[s].prev.proxy}
        /\ \/ job[s].prev.key # None /\ Moves(s, "expirePrev", job[s].want, job[s].prev, job[s].key)
           \/ job[s].prev.key = None /\ Moves(s, "egGet", job[s].want, Empty, None)
        /\ UNCHANGED <<labels, valid, store, closer, ctxDone, restarts, givenUp>>
    BY <1>0, <1>3, JobSteps DEF ClosePrev, PCs, IngressPCs
  <2>2. TypeOK' /\ Footprint(s)
    BY <1>0, <2>1 DEF TypeOK, Footprint, Refs, Moves
  <2>3. Keeps(s)
    BY <1>0, <2>1 DEF Keeps, Proxies, InHand, KeyHeldBy, Moves
  <2>4. ServiceInv(s)'
    BY <1>0, <2>1 DEF ServiceInv, Whole, WholeEntry, Echo, HoldPCs, MintPCs, MintedKey,
                      WantMatches, TornDown, EgressPCs, StoredIsLive, TearingDown,
                      WantsIngress, Moves
  <2> QED
    BY <2>2, <2>3, <2>4, ReconcileKeepsIInv
<1>4. CASE Close(s)
  <2>1. /\ job[s].pc = "close" /\ live' = live \ {job[s].prev.proxy}
        /\ \/ job[s].prev.key # None /\ Moves(s, "expire", job[s].want, job[s].prev, job[s].key)
           \/ job[s].prev.key = None /\ Moves(s, "clear", job[s].want, job[s].prev, job[s].key)
        /\ UNCHANGED <<labels, valid, store, closer, ctxDone, restarts, givenUp>>
    BY <1>0, <1>4, JobSteps DEF Close, PCs, IngressPCs
  <2>2. TypeOK' /\ Footprint(s)
    BY <1>0, <2>1 DEF TypeOK, Footprint, Refs, Moves
  <2>3. Keeps(s)
    BY <1>0, <2>1 DEF Keeps, Proxies, InHand, KeyHeldBy, Moves
  <2>4. ServiceInv(s)'
    BY <1>0, <2>1 DEF ServiceInv, Whole, WholeEntry, Echo, HoldPCs, MintPCs, MintedKey,
                      WantMatches, TornDown, EgressPCs, StoredIsLive, TearingDown,
                      WantsIngress, Moves
  <2> QED
    BY <2>2, <2>3, <2>4, ReconcileKeepsIInv
<1>5. CASE FailEgress(s)
  <2>1. /\ job[s].pc = "egPut"
        /\ \/ Moves(s, "idle", None, Empty, None)
           \/ ~WantsIngress(s) /\ Moves(s, "delete", job[s].want, job[s].prev, job[s].key)
        /\ UNCHANGED <<labels, valid, live, store, closer, ctxDone, restarts, givenUp>>
    BY <1>0, <1>5, JobSteps DEF FailEgress
  <2>2. TypeOK' /\ Footprint(s)
    BY <1>0, <2>1 DEF TypeOK, Footprint, Refs, Moves
  <2>3. Keeps(s)
    BY <1>0, <2>1 DEF Keeps, Proxies, InHand, KeyHeldBy, Moves
  <2>4. ServiceInv(s)'
    BY <1>0, <2>1 DEF ServiceInv, Whole, WholeEntry, Echo, HoldPCs, MintPCs, MintedKey,
                      WantMatches, TornDown, EgressPCs, StoredIsLive, TearingDown,
                      WantsIngress, Moves
  <2> QED
    BY <2>2, <2>3, <2>4, ReconcileKeepsIInv
<1> QED
  BY <1>1, <1>2, <1>3, <1>4, <1>5

-----------------------------------------------------------------------------
(* The environment and shutdown *)

\* Nothing in the invariant but its type looks at the labels.
LEMMA LabelsAside ==
    ASSUME IInv, labels' \in [Services -> Readings],
           UNCHANGED <<valid, live, store, job, closer, ctxDone, restarts, givenUp>>
    PROVE  IInv'
<1>1. TypeOK' /\ CloserLate' /\ OwnersApart'
  BY DEF IInv, TypeOK, CloserLate, OwnersApart, Refs
<1>2. NoLeakedProxy' /\ KeysAccounted'
  BY DEF IInv, NoLeakedProxy, InHand, KeysAccounted, KeyHeld
<1>3. \A s \in Services : ServiceInv(s)'
  BY DEF IInv, ServiceInv, Whole, Echo, MintedKey, WantMatches, WantsIngress, TornDown,
         StoredIsLive, TearingDown
<1> QED
  BY <1>1, <1>2, <1>3 DEF IInv

\* Edits of labels and keys running out.
LEMMA EnvironmentIInv ==
    ASSUME IInv, (\E s \in Services : Relabel(s)) \/ (\E k \in Keys : Lapse(k))
    PROVE  IInv'
<1>1. CASE \E s \in Services : Relabel(s)
  <2>1. /\ labels' \in [Services -> Readings]
        /\ UNCHANGED <<valid, live, store, job, closer, ctxDone, restarts, givenUp>>
    BY <1>1 DEF Relabel, IInv, TypeOK
  <2> QED
    BY <2>1, LabelsAside
<1>2. CASE \E k \in Keys : Lapse(k)
  <2>1. PICK k \in Keys : /\ valid' = valid \ {k} /\ givenUp' = givenUp \ {k}
                          /\ UNCHANGED <<labels, live, store, job, closer, ctxDone, restarts>>
    BY <1>2 DEF Lapse
  <2>2. TypeOK' /\ CloserLate' /\ OwnersApart' /\ NoLeakedProxy'
    BY <2>1 DEF IInv, TypeOK, CloserLate, OwnersApart, Refs, NoLeakedProxy, InHand
  <2>3. KeysAccounted'
    BY <2>1 DEF IInv, KeysAccounted, KeyHeld
  <2>4. \A s \in Services : ServiceInv(s)'
    BY <2>1 DEF IInv, ServiceInv, Whole, Echo, MintedKey, WantMatches, WantsIngress, TornDown,
                StoredIsLive, TearingDown
  <2> QED
    BY <2>2, <2>3, <2>4 DEF IInv
<1> QED
  BY <1>1, <1>2

\* The cancel and the steps of main that touch neither the store nor a proxy.
LEMMA MainIInv ==
    ASSUME IInv, Cancel \/ Snapshot \/ CloseAllReturns \/ Exit
    PROVE  IInv'
<1>1. /\ UNCHANGED <<labels, valid, live, store, job, restarts, givenUp>>
      /\ ctxDone => ctxDone'
      /\ closer'.pc # "running" => ctxDone'
  BY DEF Cancel, Snapshot, CloseAllReturns, Exit, IInv, CloserLate
<1>2. closer' \in Closer /\ ctxDone' \in BOOLEAN
  <2>1. closer \in Closer /\ store \in [Services -> Entry] /\ Running \in Closer /\ ctxDone \in BOOLEAN
    BY DEF IInv, TypeOK, Closer, Running, Empty, Entry
  <2>2. CASE Cancel
    BY <2>1, <2>2 DEF Cancel
  <2>3. CASE Snapshot
    BY <2>1, <2>3 DEF Snapshot, Closer
  <2>4. CASE CloseAllReturns
    BY <2>1, <2>4 DEF CloseAllReturns, Closer
  <2>5. CASE Exit
    BY <2>1, <2>5 DEF Exit, Closer
  <2> QED
    BY <2>2, <2>3, <2>4, <2>5
<1>3. TypeOK' /\ CloserLate' /\ OwnersApart'
  BY <1>1, <1>2 DEF IInv, TypeOK, CloserLate, OwnersApart, Refs
<1>4. NoLeakedProxy' /\ KeysAccounted'
  BY <1>1 DEF IInv, NoLeakedProxy, InHand, KeysAccounted, KeyHeld
<1>5. \A s \in Services : ServiceInv(s)'
  BY <1>1 DEF IInv, ServiceInv, Whole, Echo, MintedKey, WantMatches, WantsIngress, TornDown,
              StoredIsLive, TearingDown
<1> QED
  BY <1>3, <1>4, <1>5 DEF IInv

\* CloseAll's Close and Delete of one entry.
LEMMA CloseAllIInv ==
    ASSUME IInv, (\E s \in Services : CloseOne(s)) \/ DeleteOne
    PROVE  IInv'
<1>0. /\ ctxDone /\ closer \in Closer /\ store \in [Services -> Entry] /\ Empty \in Entry
      /\ Empty.proxy = None /\ Empty.key = None /\ Empty.hash = None
  BY DEF CloseOne, DeleteOne, IInv, CloserLate, TypeOK, Empty, Entry
<1>1. CASE \E s \in Services : CloseOne(s)
  <2>1. /\ closer' \in Closer /\ live' \subseteq live
        /\ UNCHANGED <<labels, valid, store, job, ctxDone, restarts, givenUp>>
    <3>1. PICK s \in Services : CloseOne(s)
      BY <1>1
    <3>2. closer.todo \ {s} \in SUBSET Services
      BY <1>0 DEF Closer
    <3> QED
      BY <1>0, <3>1, <3>2 DEF CloseOne, Closer
  <2>2. TypeOK' /\ CloserLate' /\ OwnersApart'
    BY <1>0, <2>1 DEF IInv, TypeOK, CloserLate, OwnersApart, Refs
  <2>3. NoLeakedProxy' /\ KeysAccounted'
    BY <1>0, <2>1 DEF IInv, NoLeakedProxy, KeysAccounted, KeyHeld
  <2>4. \A s \in Services : ServiceInv(s)'
    BY <1>0, <2>1 DEF IInv, ServiceInv, Whole, Echo, MintedKey, WantMatches, WantsIngress, TornDown,
                      StoredIsLive, TearingDown
  <2> QED
    BY <2>2, <2>3, <2>4 DEF IInv
<1>2. CASE DeleteOne
  <2>1. /\ closer' \in Closer
        /\ store' \in [Services -> Entry]
        /\ \A t \in Services : store'[t] = store[t] \/ (t = closer.cur /\ store'[t] = Empty)
        /\ givenUp' = givenUp \cup ({store[closer.cur].key} \cap valid)
        /\ UNCHANGED <<labels, valid, live, job, ctxDone, restarts>>
    <3>1. closer' \in Closer
      BY <1>0, <1>2 DEF DeleteOne, Closer
    <3>2. store' = [store EXCEPT ![closer.cur] = Empty]
      BY <1>2 DEF DeleteOne
    <3>3. store' \in [Services -> Entry]
      BY <1>0, <3>2
    <3>4. ASSUME NEW t \in Services
          PROVE  store'[t] = store[t] \/ (t = closer.cur /\ store'[t] = Empty)
      BY <1>0, <3>2
    <3>5. /\ givenUp' = givenUp \cup ({store[closer.cur].key} \cap valid)
          /\ UNCHANGED <<labels, valid, live, job, ctxDone, restarts>>
      BY <1>2 DEF DeleteOne
    <3> QED
      BY <3>1, <3>3, <3>4, <3>5
  <2>2. TypeOK' /\ CloserLate'
    BY <1>0, <2>1 DEF IInv, TypeOK, CloserLate
  <2>3. OwnersApart'
    <3>1. \A t \in Services : Refs(t)' \subseteq Refs(t)
      BY <1>0, <2>1 DEF Refs
    <3> QED
      BY <3>1 DEF IInv, OwnersApart
  <2>4. NoLeakedProxy'
    BY <1>0, <2>1 DEF NoLeakedProxy
  <2>5. KeysAccounted'
    BY <2>1 DEF IInv, KeysAccounted, KeyHeld
  <2>6. \A s \in Services : ServiceInv(s)'
    BY <1>0, <2>1 DEF IInv, ServiceInv, Whole, WholeEntry, Echo, MintedKey, WantMatches,
                      WantsIngress, TornDown, StoredIsLive, TearingDown
  <2> QED
    BY <2>2, <2>3, <2>4, <2>5, <2>6 DEF IInv
<1> QED
  BY <1>1, <1>2

\* The memory of a process that has just started, the first or a later one;
\* the keys of an earlier one count as given up.
Started == /\ store = [s \in Services |-> Empty] /\ job = [s \in Services |-> Idle]
           /\ live = {} /\ closer = Running /\ ctxDone = FALSE /\ valid \subseteq givenUp
           /\ labels \in [Services -> Readings] /\ valid \in SUBSET Keys /\ givenUp \in SUBSET Keys
           /\ restarts \in 0 .. MaxRestarts

\* A process that has just started satisfies the invariant.
LEMMA StartedIInv == Started => IInv
<1> SUFFICES ASSUME Started PROVE IInv
  OBVIOUS
<1> USE DEF Started
<1>1. Empty \in Entry /\ Idle \in Job /\ Running \in Closer
  BY DEF Empty, Entry, Idle, Job, PCs, Running, Closer
<1>2. \A s \in Services : /\ store[s] = Empty /\ job[s].pc = "idle" /\ job[s].prev = Empty
                          /\ job[s].key = None
  BY DEF Idle
<1>3. TypeOK /\ CloserLate
  BY <1>1 DEF TypeOK, CloserLate, Running
<1>4. OwnersApart
  BY <1>2 DEF OwnersApart, Refs, Empty
<1>5. NoLeakedProxy /\ KeysAccounted
  BY DEF NoLeakedProxy, KeysAccounted
<1>6. \A s \in Services : ServiceInv(s)
  BY <1>2 DEF ServiceInv, Whole, WholeEntry, Empty, Echo, HoldPCs, MintPCs, MintedKey, WantMatches,
              TornDown, EgressPCs, StoredIsLive
<1> QED
  BY <1>3, <1>4, <1>5, <1>6 DEF IInv

\* Every step of the reconcile of s has the footprint of one and keeps the
\* invariant.
LEMMA ReconcileIInv ==
    ASSUME IInv, NEW s \in Services, Reconcile(s)
    PROVE  Footprint(s) /\ IInv'
  BY ReadIInv, StoreIInv, KeyIInv, ProxyIInv DEF Reconcile

\* The invariant holds initially and every step keeps it.
LEMMA Inductive == Spec => []IInv
<1>1. Init => IInv
  <2>1. 0 \in 0 .. MaxRestarts
    BY IngressConstants
  <2> QED
    BY <2>1, StartedIInv DEF Init, Started
<1>2. IInv /\ [Next]_vars => IInv'
  <2> SUFFICES ASSUME IInv, [Next]_vars PROVE IInv'
    OBVIOUS
  <2>1. CASE \E s \in Services : Reconcile(s)
    BY <2>1, ReconcileIInv
  <2>2. CASE (\E s \in Services : Relabel(s)) \/ (\E k \in Keys : Lapse(k))
    BY <2>2, EnvironmentIInv
  <2>3. CASE Cancel \/ CloseAll
    BY <2>3, MainIInv, CloseAllIInv DEF CloseAll
  <2>4. CASE Restart
    <3>1. restarts' \in 0 .. MaxRestarts
      BY <2>4, IngressConstants DEF Restart, IInv, TypeOK
    <3>2. Started'
      BY <2>4, <3>1 DEF Restart, Started, IInv, TypeOK
    <3> QED
      BY <3>2, StartedIInv, PTL
  <2>5. CASE Terminated \/ UNCHANGED vars
    <3>1. UNCHANGED vars
      BY <2>5 DEF Terminated
    <3> QED
      BY <3>1, LabelsAside DEF vars, IInv, TypeOK
  <2> QED
    BY <2>1, <2>2, <2>3, <2>4, <2>5 DEF Next
<1> QED
  BY <1>1, <1>2, PTL DEF Spec
-----------------------------------------------------------------------------
(* The safety invariants *)

\* Type correctness.
THEOREM TypeCorrect == Spec => []TypeOK
  BY Inductive, PTL DEF IInv

\* Until shutdown the store names running proxies only, but for the window of
\* a teardown: what the fast path of reconcileIngress trusts.
THEOREM StoredProxiesLive == Spec => []StoredProxyIsLive
<1>1. IInv => StoredProxyIsLive
  BY DEF IInv, ServiceInv, StoredIsLive, StoredProxyIsLive
<1> QED
  BY <1>1, Inductive, PTL

\* Until shutdown every running proxy is stored or in the hands of a reconcile
\* that will store or close it.
THEOREM ProxiesNeverLeak == Spec => []NoLeakedProxy
  BY Inductive, PTL DEF IInv

\* Every key Headscale accepts is stored, in hand, or knowingly given up.
THEOREM KeysNeverLost == Spec => []KeysAccounted
  BY Inductive, PTL DEF IInv
-----------------------------------------------------------------------------
(* The action properties *)

\* Until shutdown, and but for a restart, only reconciles touch the store and
\* the proxies.
LEMMA OnlyReconciles ==
    ASSUME IInv, [Next]_vars, ~ctxDone, restarts' = restarts
    PROVE  (\E t \in Services : Reconcile(t)) \/ UNCHANGED <<live, store>>
<1>1. closer.pc = "running"
  BY DEF IInv, CloserLate
<1>2. ~Restart
  BY DEF Restart, IInv, TypeOK
<1>3. CASE CloseAll
  BY <1>1, <1>3 DEF CloseAll, Snapshot, CloseOne, DeleteOne, CloseAllReturns, Exit
<1>4. CASE (\E s \in Services : Relabel(s)) \/ (\E k \in Keys : Lapse(k)) \/ Cancel
  BY <1>4 DEF Relabel, Lapse, Cancel
<1>5. CASE Terminated \/ UNCHANGED vars
  BY <1>5 DEF Terminated, vars
<1> QED
  BY <1>2, <1>3, <1>4, <1>5 DEF Next

\* The steps of a reconcile that write the store, and those that close a proxy.
LEMMA WritingSteps ==
    ASSUME NEW s \in Services, Reconcile(s)
    PROVE  /\ \/ UNCHANGED store
              \/ FastPut(s) \/ Swap(s) \/ Clear(s) \/ PutEgress(s) \/ ClearEgress(s) \/ Delete(s)
           /\ live \subseteq live' \/ ClosePrev(s) \/ Close(s)
  BY DEF Reconcile, Inspect, GetIngress, MintOk, MintFail, StartOk, StartFail, Rollback, ClosePrev,
         ExpirePrev, GetTeardown, Close, WaitFail, Expire, GetEgress, FailEgress, FastPut, Swap,
         Clear, PutEgress, ClearEgress, Delete

\* Until shutdown neither half of a reconcile undoes what the other stored: the
\* egress half leaves the ingress fields of the entry as they are, the ingress
\* half the gateway refs, and their hash too unless it deletes an entry
\* without refs.
THEOREM HalvesApart == Spec => HalvesIndependent
<1>1. ASSUME IInv, [Next]_vars, NEW s \in Services, ~ctxDone, restarts' = restarts
      PROVE  /\ job[s].pc \in IngressPCs => \/ SameEgress(store'[s], store[s])
                                            \/ ~store[s].gws /\ store'[s] = Empty
             /\ job[s].pc \in EgressPCs => SameIngress(store'[s], store[s])
  <2>1. /\ ServiceInv(s) /\ store \in [Services -> Entry] /\ store[s] \in Entry
        /\ job[s].prev \in Entry
    BY <1>1 DEF IInv, TypeOK, Job
  <2>2. CASE store'[s] = store[s]
    BY <2>2 DEF SameEgress, SameIngress
  <2>3. CASE FastPut(s) \/ Swap(s) \/ Clear(s)
    <3>1. store[s] = job[s].prev
      BY <1>1, <2>1, <2>3 DEF FastPut, Swap, Clear, ServiceInv, Echo, HoldPCs, MintPCs
    <3>2. SameEgress(store'[s], store[s]) \/ (~store[s].gws /\ store'[s] = Empty)
      <4>1. CASE FastPut(s)
        BY <2>1, <3>1, <4>1 DEF FastPut, SameEgress
      <4>2. CASE Swap(s)
        BY <2>1, <3>1, <4>2 DEF Swap, Entry, SameEgress
      <4>3. CASE Clear(s)
        BY <2>1, <3>1, <4>3 DEF Clear, Entry, SameEgress
      <4> QED
        BY <2>3, <4>1, <4>2, <4>3
    <3>3. job[s].pc \notin EgressPCs
      BY <2>3 DEF FastPut, Swap, Clear, EgressPCs
    <3> QED
      BY <3>2, <3>3
  <2>4. CASE PutEgress(s) \/ ClearEgress(s)
    <3>1. store[s] = job[s].prev /\ job[s].pc \notin IngressPCs
      BY <1>1, <2>1, <2>4 DEF PutEgress, ClearEgress, ServiceInv, Echo, HoldPCs, IngressPCs
    <3>2. SameIngress(store'[s], store[s])
      <4>1. CASE PutEgress(s)
        BY <2>1, <3>1, <4>1 DEF PutEgress, Entry, SameIngress
      <4>2. CASE ClearEgress(s)
        BY <2>1, <3>1, <4>2 DEF ClearEgress, Empty, Entry, ServiceInv, Whole, WholeEntry, SameIngress
      <4> QED
        BY <2>4, <4>1, <4>2
    <3> QED
      BY <3>1, <3>2
  <2>5. CASE Delete(s)
    BY <2>5 DEF Delete, IngressPCs, EgressPCs
  <2> QED
    BY <1>1, <2>2, <2>3, <2>4, <2>5, OnlyReconciles, WritingSteps, ReconcileIInv DEF Footprint
<1>2. IInv /\ [Next]_vars => [\A s \in Services : ~ctxDone /\ restarts' = restarts =>
          /\ job[s].pc \in IngressPCs => \/ SameEgress(store'[s], store[s])
                                         \/ ~store[s].gws /\ store'[s] = Empty
          /\ job[s].pc \in EgressPCs => SameIngress(store'[s], store[s])]_vars
  BY <1>1
<1> QED
  BY <1>2, Inductive, PTL DEF Spec, HalvesIndependent

\* A reconcile that wants the service served closes a proxy only when the store
\* already names another one that runs.
THEOREM MakesBeforeBreaking == Spec => MakeBeforeBreak
<1>1. ASSUME IInv, IInv', [Next]_vars, NEW s \in Services, ~ctxDone, restarts' = restarts,
             WantsIngress(s), job[s].prev.proxy \in live \ live'
      PROVE  store'[s].proxy \in live' /\ store'[s].proxy # job[s].prev.proxy
  <2>1. job[s].prev.proxy \in Refs(s) /\ ServiceInv(s) /\ ServiceInv(s)'
    BY <1>1, IngressConstants DEF IInv, TypeOK, Refs
  <2>2. PICK t \in Services : Reconcile(t) /\ Footprint(t) /\ (ClosePrev(t) \/ Close(t))
    BY <1>1, OnlyReconciles, WritingSteps, ReconcileIInv
  <2>3. job[t].prev.proxy = job[s].prev.proxy
    BY <1>1, <2>2 DEF Footprint
  <2>4. t = s
    BY <1>1, <2>1, <2>3, IngressConstants DEF IInv, OwnersApart, Refs
  <2>5. ~Close(s)
    BY <1>1, <2>1 DEF Close, ServiceInv, WantMatches
  <2>6. /\ store' = store /\ ctxDone' = ctxDone /\ job[s].pc = "closePrev"
        /\ job'[s].pc \in {"expirePrev", "egGet"}
    <3>1. TypeOK
      BY <1>1 DEF IInv
    <3> QED
      BY <2>2, <2>4, <2>5, <3>1, JobSteps DEF ClosePrev, Moves, PCs, IngressPCs
  <2>7. store[s].proxy = job[s].key /\ job[s].key # None /\ job[s].key # job[s].prev.proxy
    BY <1>1, <2>1, <2>6 DEF ServiceInv, MintedKey
  <2>8. store'[s].proxy \in live'
    BY <1>1, <2>1, <2>6, <2>7 DEF ServiceInv, StoredIsLive, TearingDown
  <2> QED
    BY <2>6, <2>7, <2>8
<1>2. IInv /\ IInv' /\ [Next]_vars => [\A s \in Services :
          /\ ~ctxDone
          /\ restarts' = restarts
          /\ WantsIngress(s)
          /\ job[s].prev.proxy \in live \ live'
          => /\ store'[s].proxy \in live'
             /\ store'[s].proxy # job[s].prev.proxy]_vars
  BY <1>1
<1> QED
  BY <1>2, Inductive, PTL DEF Spec, MakeBeforeBreak

\* A running proxy is replaced only by one with another configuration.
THEOREM NeverChurns == Spec => NoChurn
<1>1. ASSUME IInv, [Next]_vars, NEW s \in Services, store[s].proxy \in live,
             store'[s].proxy \notin {None, store[s].proxy}
      PROVE  store'[s].hash # store[s].hash
  <2>1. /\ ServiceInv(s) /\ store \in [Services -> Entry] /\ store[s].proxy # None
        /\ Empty.proxy = None /\ job[s].prev \in Entry
    BY <1>1, IngressConstants DEF IInv, TypeOK, Empty, Job
  <2>2. Reconcile(s)
    <3>1. CASE \E t \in Services \ {s} : Reconcile(t)
      BY <1>1, <3>1, ReconcileIInv DEF Footprint
    <3>2. CASE (\E t \in Services : Relabel(t)) \/ (\E k \in Keys : Lapse(k)) \/ Cancel
               \/ Terminated \/ UNCHANGED vars
      BY <1>1, <3>2 DEF Relabel, Lapse, Cancel, Terminated, vars
    <3>3. CASE CloseAll \/ Restart
      BY <1>1, <2>1, <3>3 DEF CloseAll, Snapshot, CloseOne, DeleteOne, CloseAllReturns, Exit, Restart
    <3> QED
      BY <1>1, <3>1, <3>2, <3>3 DEF Next
  <2>3. CASE FastPut(s) \/ PutEgress(s) \/ ClearEgress(s)
    <3>1. store[s] = job[s].prev
      BY <2>1, <2>3 DEF FastPut, PutEgress, ClearEgress, ServiceInv, Echo, HoldPCs
    <3>2. store'[s].proxy = store[s].proxy
      <4>1. CASE FastPut(s)
        BY <2>1, <3>1, <4>1 DEF FastPut
      <4>2. CASE PutEgress(s)
        BY <2>1, <3>1, <4>2 DEF PutEgress, Entry
      <4>3. CASE ClearEgress(s)
        BY <2>1, <3>1, <4>3 DEF ClearEgress, Entry
      <4> QED
        BY <2>3, <4>1, <4>2, <4>3
    <3> QED
      BY <1>1, <3>2
  <2>4. CASE Clear(s) \/ Delete(s)
    <3>1. CASE Clear(s)
      BY <1>1, <2>1, <3>1 DEF Clear, Entry
    <3>2. CASE Delete(s)
      BY <1>1, <2>1, <3>2 DEF Delete
    <3> QED
      BY <2>4, <3>1, <3>2
  <2>5. CASE Swap(s)
    <3>1. store[s] = job[s].prev
      BY <2>1, <2>5 DEF Swap, ServiceInv, Echo, HoldPCs, MintPCs
    <3>2. store'[s].hash = job[s].want.ing
      BY <2>1, <2>5 DEF Swap
    <3> QED
      BY <2>1, <2>5, <3>1, <3>2 DEF Swap, ServiceInv, WantMatches, MintPCs
  <2> QED
    BY <1>1, <2>2, <2>3, <2>4, <2>5, WritingSteps
<1>2. IInv /\ [Next]_vars => [\A s \in Services :
          /\ store[s].proxy \in live
          /\ store'[s].proxy \notin {None, store[s].proxy}
          => store'[s].hash # store[s].hash]_vars
  BY <1>1
<1> QED
  BY <1>2, Inductive, PTL DEF Spec, NoChurn
=============================================================================

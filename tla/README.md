# Specifications of tailswarm

tailswarm is a daemon on a Docker Swarm manager. It watches service labels and
gives opted-in services a place on a Headscale tailnet: *ingress* by a tsnet
proxy inside the daemon, *egress* by one gateway Docker service per target.
This directory holds TLA+ models of it, from start-up and label parsing through
the reconcilers to the data plane, the TLC configurations that check them, and
TLAPS proofs of the safety properties of every component.

Paths below are relative to `src/internal/tailswarm/`, except `main.go`
(`src/cmd/tailswarm/main.go`).

## The system

| Part | State | Operations | What makes it correct |
|---|---|---|---|
| Watcher (`watcher.go`) | event subscription, resync ticker, `Out` channel | `Run`, `fullList`, `send`, `subscribe` | never blocks; every change leads to a reconcile in the end |
| Pump (`main.go`) | none | takes IDs off `Out`, calls `Queue.Enqueue` | never blocks, ends on cancel |
| Work queue (`reconciler.go`) | per shard: pending set, channel, worker | `Enqueue`, `Run` | dedupe loses no request; one reconcile per service at a time |
| Ingress reconciler (`reconciler.go`) | the proxy, hash and key fields of a store entry | `Reconcile`, `reconcileIngress`, `teardownIngress`, `CloseAll` | entry, running proxies and live keys agree; make before break; neither half undoes what the other has stored |
| Egress reconciler (`reconciler.go`, `egress_gateway.go`) | the refs and hash of a store entry; services in the swarm | `reconcileEgress`, `teardownEgress`, create, adopt, update, remove | a no-op means all is as the labels say; no orphan, no lost key |
| Store (`state.go`) | map of entries | `Get`, `Put`, `Delete`, `Snapshot` | each is atomic; read-modify-write is not, and rests on the queue |
| Labels (`labels.go`) | none | `Parse` | only allowed tags, attached networks and well-formed targets come out |
| Docker client (`docker.go`) | the swarm (external), event stream | list, inspect, create, update, remove, subscribe | not-found, conflict and stale versions reported as such |
| Headscale client (`headscale.go`) | keys and users (external), user-ID cache | look up, mint, expire | keys of the configured user only; best-effort expiry |
| Data plane (`proxy.go`, `egress.go`) | tsnet server, listeners, accept loops, connections | bounded start, listen, accept, forward, `Close` | a proxy handed out is up; nothing outlives it; every call returns |
| Gateway process (`gateway_run.go`), gateway spec (`egress_gateway.go`) | environment of the service | build, hash, read back | writer and readers agree on every field |
| Image discovery (`own_image.go`), configuration (`config.go`) | start-up values | read once | a bad source is fatal, a good one overrides in the documented order |

How they interact: Docker's events and the periodic list feed `Out`; the pump
hands IDs to the queue; each shard's goroutine calls `Reconcile`, which reads
Docker, reads and rewrites the store entry without holding a lock, and calls
Headscale, tsnet and Docker in between. At shutdown main cancels the context and
runs `CloseAll` while the workers may still be inside a reconcile.

What is hard about it: `Enqueue` has two critical sections; every full channel
drops; a reconcile is a long sequence of remote calls, each of which may fail or
take effect with its answer lost; gateways outlive the daemon and its store; the
label filter of the resync sees only services that still opt in; a tsnet start
that was given up may still succeed; connections have four goroutines each. `PROJECT.json`
lists these hazards one by one with the properties that cover them.

## Modules

| Module | Models | Extends or instantiates |
|---|---|---|
| `Wakeup` | the queue's promise: accepted requests are owed a reconcile that starts later | |
| `WorkQueue` | `Queue`, the pump, cancellation | `Wakeup` under a refinement mapping |
| `Ingress` | `Reconcile` as a whole on the store entry, `CloseAll`, process restart | |
| `Egress` | `Reconcile`'s egress half, the swarm's gateway services | |
| `Watcher` | event stream, watcher, pump, queue, reconcile as one pipeline | `Wakeup` for the queue |
| `DataPlane` | one tsnet data plane from bring-up to `Close`: a proxy of the daemon or a gateway process | |
| `Labels` | `Parse` and all it calls, as operators | |
| `Config` | `Load`, `DiscoverGatewayImage`, the limiter's burst | `Labels` |
| `Gateway` | the gateway's name, spec and hashes, and what `RunGateway` reads back | `Labels` |
| `Minting` | start-up, then workers minting keys through the limiter and the user-ID cache | `Config`, `Gateway` |
| `MC*` | the small instances for TLC | |
| `WorkQueueProofs`, `IngressProofs`, `DataPlaneProofs`, `WatcherProofs`, `MintingProofs` | theorems about the module of that name | that module, `TLAPS`; `MintingProofs` also `LabelsProofs` |
| `EgressProofs` | types and auth keys of the gateways, for all names and faults | `Egress`, `TLAPS` |
| `EgressNameProofs` | which gateway serves which target, for distinct names; what a no-op means, and the keys, when updates, removals and mints succeed | `EgressProofs` |
| `LabelsProofs` | what the text functions of the parser compute, for all texts; induction and recursion over texts | `Labels`, `TLAPS` |

Each module also defines *mutants*: variants of an action with a plausible bug
(a dropped guard, a missing reset), named after what they get wrong. No
specification uses them; substituted for the action they vary, they violate the
property listed with them in `PROJECT.json`, which shows that the property
depends on that line of code.

### WorkQueue

`pending` and `ch` are the map and the channel of a shard. The mutex is not a
variable: each critical section is one action. `EnqueueDup` and `EnqueueMark` are
the two outcomes of the first section; `EnqueueSend` and `EnqueueFull` those of
the non-blocking select, which runs without the lock; `EnqueueDrop` is the second
section. `Receive`, `Begin` and `Return` are a worker's receive, the clearing of
the mark (after which `fn` runs), and the return of `fn`. The IDs the pump takes
off the events channel are arbitrary. The FNV hash is a constant function
`ShardFor`.

### Ingress

One `job` record per service says at which remote call or store access its
reconcile stands, with what it has read (`want`, `prev`) and minted (`key`).
Every call that leaves the process is a success action and a failure action. A
proxy is named by the key it registered with. A reading of the labels asks for
ingress, egress or both, or is `Absent`: removed, opted out or malformed, all of
which take `teardown`. The egress half follows the ingress half in the same
goroutine, here only as what it reads from and writes to the shared entry
(`GetEgress` to `ClearEgress`); its calls are the subject of `Egress`. Of the egress
fields an entry keeps whether there are refs and whether there is a `GatewayHash`: the
hash is stored even when no gateway could be created, and goes with the entry when
`teardownIngress` deletes one without refs (`Clear`). `closer` is
main: cancel, `CloseAll` (a snapshot, then close and delete one by one),
`wg.Wait`, exit. `givenUp` is a history variable: the keys the
code has knowingly stopped tracking. `Lapse` is Headscale's own expiry. After a
cancel every call may still succeed, because the cancel can come at its end.

### Egress

`gws` is the swarm: each gateway service with its name, marker, target, revision
(tag, network and image as far as the hash tells them apart) and auth key.
`store` is what the daemon remembers, `job` the pass in progress. `TrackedGateways`
is a set because the order of Docker's listing decides which of several
candidates is adopted; the loops over Go maps take their elements in any order.
A crash is `Crash`: the store and the jobs vanish, the gateways stay. For this
half a graceful shutdown is a crash too, since `CloseAll` leaves gateways alone.
`Faults` names the failures a run allows and `MaxFaults` how many, so a run says
exactly which failures its properties survive. The successive incarnations of a
redeployed app are different members of `Apps` that use the same gateway names.

### Watcher

`Listing` is a full list in progress, one label key after the other; `inflight`
the events of the live subscription; `Change` announces a change only on a live
stream. The queue is `Wakeup` itself: its `Refuse` stands for a shard filled by
other services. A reconcile is its reading of the labels (`Begin`) and its effect
(`EndOk`), or nothing (`EndFail`).

### DataPlane

`mode` says which of the two it is; they share `startTsnetBounded`, `acceptLoop`
and `forwardTCP`, and differ in who closes the listeners: tsnet its own, a
watcher goroutine the overlay ones. `caller` is the goroutine that brings the
proxy up and later calls `Close`, `start` the detached goroutine inside
`srv.Start`, `closing` a detached `srv.Close`. A connection is a record of its
forward, the ends still open, the peers that hung up, the pumps still copying, those
of them blocked in a `Write` (`Stall`) until their peer reads (`Drain`), if it ever does,
and the watchdog. Assumed of tsnet, as the code assumes: `Close` makes a blocked
`Start` return, `Start` on a closed server fails, a `Start` that fails
cleans up after itself, and `Close` closes the listeners the server handed out.

### Labels, Config, Gateway, Minting

Texts are sequences of symbols, so that trimming, splitting, globbing, number
parsing and truncation are what they are in the code and not identities. A
setting no source gives is `Unset`. A hash is the record it is taken over, and
the digest in a truncated name one symbol, `Digest` of the target's address.
`GlobMatches` is what a glob means, stated without `matchGlob`'s search: the symbols
of the pattern can be laid along the text.
`Minting` starts a daemon on each of a set of start-ups, with an assignment of services
to workers, and interleaves the workers at every request and every hold of
the cache's mutex with an administrator who renames, deletes and creates users.
`minted` is the key of the last step with its request, its user and, for egress, the
spec of its gateway.

## Runs

The exact bounds are in the cfg files.

| Run | Shows |
|---|---|
| `queue` | exact marks, dedupe, mutual exclusion, `Enqueue` never blocks, draining at shutdown, and the refinement of `Wakeup` with its liveness |
| `ingress` | store, running proxies and live keys agree under all interleavings of reconcile, faults and shutdown; neither half of a reconcile undoes the other; make before break; no churn; convergence and termination of the shutdown, over two processes |
| `egress_faults` | under any two faults, refs name running gateways, a no-op leaves no target without one and no stray one, gateways keep their keys, survivors are not touched |
| `egress_recreate` | an app recreated under a new ID while the old ID is torn down: stale updates refused, no gateway with an expired key |
| `egress_live` | when updates and removals succeed, a no-op means every target served at its revision, every key is recorded, and the gateway set converges, over failed lists, creations and expiries and crashes |
| `dataplane` | a proxy handed out is up, a connection is released when a peer hangs up and the other one reads what it sent, nothing outlives a failed bring-up or a `Close`, every call returns |
| `minting` | minted tags are allowed ones by the meaning of a glob, keys belong to a user that has had the configured name, gateway processes read back what the daemon meant, a workable daemon mints every key |
| `watcher` | a service that opts in is in the end managed for good; the resync never blocks; a cancelled watcher returns |

The bounds: two configurations rotate; three keys are the old one, the new one and
one in other hands; a shard has one service more than its channel holds; two
targets make "one of several failed" possible; two faults allow a second failure
while the first is being recovered from, after which labels may still change
without limit. `ingress` has one service, since the reconciles of two share
no entry, proxy or key and `CloseAll` takes entries one at a time. The gateway IDs
and keys suffice for all that is named at once in the bounded runs (TLC finds no
deadlock). In `dataplane` two ports make a `Listen` fail behind one that succeeded;
forwards share nothing with each other, so one connection is enough. `minting`
contains settings from the file, the environment or both, good and bad, a rate
below one call per second, an environment list that replaces the file's, and
services with allowed and refused tags, a repeated and a malformed target,
hosts too long for a name, and both directions at once; its hostnames are capped
at 8 symbols and ports at 99. `MCMinting` also assumes, and TLC
evaluates, that `matchGlob` agrees with `GlobMatches` on all patterns
and texts of up to four symbols; `MatchGlobCorrect` proves it for all. The symmetry sets are only used in runs
without liveness.

### Disagreements between code and comments

Four runs are expected to end in a violation. Each states what a comment or
the README says, and TLC's trace is the sequence of steps that breaks it:

* `egress_update_fails`: a failed update is *not* retried. The target leaves the
  tracked set and the new hash is stored; the next pass adopts the old gateway by
  its marker, the count matches, and the fast path is taken from then on.
* `egress_same_host`: two ports of one host share a gateway name, so the second
  target takes over the first's gateway and both count as served.
* `egress_orphan_restart`: an app removed around a restart keeps its gateways;
  no reconcile will ever remove them.
* `watcher_drop`: a dropped request for a service that opted out is lost, not
  delayed, because a resync lists only services that opt in.

### Where the properties stop

The `Faults` of a run and the wording of its properties mark what the code
does not survive. With the constants changed as given here, or the exception
left out of the property, TLC shows it:

* `KeysAccounted` fails with `"update"`: the failed update forgets the old key's
  ID. It also fails with `"remove"`.
* `RefsAreRunning` and `NoOpMeansPresent` are stated for behaviours without the
  `Lasting` faults. With `"recreate"` the old ID's teardown removes the gateway
  the new ID has adopted, and the new ID's ref stays; with `"external"` a gateway
  removed from outside is not recreated, for the fast path does not look; with
  `"lost"` the ref of a removed gateway stays.
* `GatewayKeyUnexpired` is stated without `"lost"`: a create that took effect
  but timed out leaves a gateway whose key the rollback expires.
* `CleansUp` fails with `"remove"` as it does with `"crash"`: a teardown drops
  its refs whether or not the gateways could be removed.
* `OptOutIsTornDown` fails with `QuietStart = FALSE` without any drop: a change between the
  first list and the subscription has no event.
* `OptInIsServed` is about label values of `true`; one of `yes` is never listed.
* `NoLeakedProxy` is stated up to the cancel: a worker may store its proxy
  after `CloseAll`'s snapshot, and the process ends with it open.
* `NothingOutlives` says that forwards end after `Close`, not before it returns:
  the comment on `Close` ("waits for all forwarding goroutines to finish") holds
  of the accept loops only, forwards are not in the WaitGroup.
* `ConnReleased` supposes that the pump reading the peer that hung up is not blocked
  for good in its `Write` to the other peer. When that other peer keeps the connection
  open and neither reads nor sends, both pumps stay blocked: `forwardTCP` sets no
  deadline, and two sockets and four goroutines stay for the life of the proxy.
  `Close` still ends them (`NothingOutlives`).
* `HalvesIndependent` lets `teardownIngress` drop a `GatewayHash` that has no refs: it
  deletes the entry when `Gateways` is empty. The next pass is then a full one.
* `HandedOutIsUp` is about listeners. Any error of `Accept`, such as a process
  out of descriptors, ends the loop of its port for good, and no part of the code
  notices a proxy that has stopped accepting.
* `EventuallyMinted` supposes a rate of at least one call per second: below,
  the limiter's burst is 0 and every `Wait` fails, although `validate` accepts
  the rate. It also supposes an API key, which `validate` does not ask for,
  and that the cached user keeps its name: the cache is never emptied.
* `KeyOfConfiguredUser` says *has had* the name: after a rename keys are still
  minted for the renamed user.
* `GatewayContract` compares targets on different hosts; for two ports of one
  host see `egress_same_host`. It takes Docker to store the network as it was
  written. Target lists are deduplicated by their text, so `d:80` and `d:080` stay two
  entries of one target.
* A malformed egress label tears down the ingress half too: `Parse` fails as a whole.

## Fairness

* `WorkQueue`: goroutines are scheduled (WF); a select with a ready `ctx.Done`
  takes it in the end (SF: Go picks at random). `Return` is fair since calls
  have timeouts. `EnqueueNeverBlocks` supposes no fairness: it says that a step is
  enabled.
* `Ingress`: every call returns; the resync starts a reconcile of opted-in
  services again and again, and of no other, hence no fairness for `Absent` ones;
  Headscale and tsnet do not fail for ever (SF); abandoned keys lapse.
* `Egress`: every call returns and every app is reconciled again and again.
  For apps that opted out this supposes more than the watcher gives (see
  `watcher_drop`): `CleansUp` is violated in spite of it. Faults are bounded in number, so they end.
* `Watcher`: the ticker is taken again and again (SF); a list, a send, an
  enqueue and a reconcile that are tried for ever succeed once (SF).
  `WatcherStops` needs only the watcher's own part, and `FullListNeverBlocks` none.
* `DataPlane`: goroutines that can run do, the start's timer fires, a dial
  ends, and a closed server, listener or end makes `Start`, `Accept` or a blocked
  `Write` return (WF). A pump whose source has ended and whose `Write`s keep
  returning gets to the end (SF: it may block and go on in between, but what the
  source had sent is finite). Nothing is assumed of peers, so neither that one hangs
  up nor that one reads, of when a healthy `Start` returns, or of who calls `Close`.
* `Minting`: every call returns and reconciles come again (WF); a lookup or mint
  that is possible again and again succeeds once (SF).

## Proofs

TLC checks the instances of the runs; the theorems hold for every value of the
constants. Each rests on an inductive invariant, which TLC checked on the
instances of the runs first. None of the properties below is inductive alone.
The assumptions on constants say that capacities are positive, sets
of ports finite, and that `None`, `Absent` and `Unset` differ from the values
they stand beside. Those of `Minting` say besides that labels, names and
patterns are texts, that a directory that is set is not empty (in the code an empty
setting is none), and that SHA-256 is what `gatewayHostname` takes it for: the
digests of two targets of one service differ and are no part of a host. The last is
the one idealisation: eight hexadecimal digits can in principle collide. TLC
evaluates all of them in the runs.

| Module | Theorem | States |
|---|---|---|
| `WorkQueueProofs` | `TypeCorrect`, `MarksExact`, `NeverQueuedTwice`, `MutualExclusion` | `TypeOK`, `PendingExact`, `Deduped`, `OneReconcilePerService` |
| | `QueueImplementsWakeup` | `Spec => W!SafeSpec`, the refinement without liveness |
| `IngressProofs` | `TypeCorrect`, `StoredProxiesLive`, `ProxiesNeverLeak`, `KeysNeverLost` | `TypeOK`, `StoredProxyIsLive`, `NoLeakedProxy`, `KeysAccounted` |
| | `HalvesApart`, `MakesBeforeBreaking`, `NeverChurns` | the action properties `HalvesIndependent`, `MakeBeforeBreak`, `NoChurn` |
| `EgressProofs` | `TypeCorrect`, `GatewayKeysUnexpired` | `TypeOK`, `GatewayKeyUnexpired` |
| `EgressNameProofs` | `RefsStayRunning`, `FastPathMissesNone`, `FastPathLeavesNoStray` | `RefsAreRunning`, `NoOpMeansPresent`, `NoOpMeansNoStray`, for `DistinctNames` |
| | `SurvivorsLeftAlone` | the action property `SurvivorsUntouched`, for `DistinctNames` |
| | `FastPathMeansServed`, `KeysStayAccounted` | `NoOpMeansServed`, `KeysAccounted`, for `DistinctNames` and `MildFaults` |
| `DataPlaneProofs` | `TypeCorrect`, `HandedOutUp`, `CloseLeavesNoLoop` | `TypeOK`, `HandedOutIsUp`, `CloseIsClean` |
| | `ForwardsOwnEnds`, `CloseEndsAccepting`, `RestIsFinal` | `EndsOwned`; the action properties `NoLateAccept` and `StaysQuiet`, the safety half of `NothingOutlives` |
| `WatcherProofs` | `TypeCorrect`, `ReadingExact` | `TypeOK`, `ReadsWhileRunning` |
| | `PipelineKeepsContract` | `Spec => W!SafeSpec`: the pipeline uses the queue within `Wakeup` |
| `LabelsProofs` | `MatchGlobCorrect` | `matchGlob(pattern, s) <=> GlobMatches(pattern, s)`, for all texts |
| `MintingProofs` | `TypeCorrect`, `KeysOfConfiguredUser` | `TypeOK`, `KeyOfConfiguredUser` |
| | `MintedTagsAllowed`, `GatewaysKeepContract` | `MintedTagAllowed`, `GatewayContract` |

**WorkQueue.** `Begin` clears a mark, which keeps `PendingExact` only if the same ID is
not queued behind it, so `Deduped` is needed; `EnqueueSend` keeps `Deduped` only if the
marked ID is nowhere in flight, which is `PumpFresh`; and both speak of one shard
only because an ID is never in a shard it does not hash to, `HomeShard`, which
also gives mutual exclusion. The lemmas `AppendElems` and `TailElems` say what a
send and a receive do to the elements of a channel. For the refinement, a duplicate
answered TRUE maps to `Accept` of a service already owed, which holds by
`PendingExact`: a marked ID that the pump does not hold is queued or received.

**Ingress.** A reconcile writes back, whole, an entry it read many calls earlier.
That this loses nothing is `Echo`: what it holds is what the store has, unless
`CloseAll` deleted it. One reconcile cannot close the proxy of another because no two
services refer to the same key (`OwnersApart`). `MintedKey`, `WantMatches` and
`TornDown` say what is known at each call, and `Whole` that an entry names a
proxy, its key and its configuration together or not at all. The order
"store, then close" of a rotation is `MintedKey` at `closePrev`, from which
`MakeBeforeBreak` follows. `HalvesIndependent` follows from `Echo`, since a half that
writes back what the store has changes its own fields only, and from `Whole`, since an
entry deleted for want of a proxy has no key or hash to lose.

**Egress.** `Phases` says what a pass knows at each program point. On it
rest three layers, each with fewer behaviours allowed and more shown:

* `IInv`, for all names and faults: a ref's key is on no gateway but its own (`RefKeys`)
  and a fresh key on none at all (`NewKeys`), so expiring the key of a
  ref that goes, or rolling back a fresh one, strikes no running gateway, also when
  another app has taken the gateway over by its name.
* `NInv`, for `DistinctNames`: a gateway has the name of its target
  (`NamedForTarget`) and Swarm keeps names unique, so a tracked target has no gateway
  besides the tracked one (`RefExact`) and a target still to be created has none
  (`Unserved`). Short of the lasting faults a tracked gateway runs (`RefsRun`). The hypothesis
  is what two ports of one host falsify (`egress_same_host`).
* `SInv`, for `DistinctNames` and `MildFaults`, the faults of `egress_live`: a target
  the loop is done with, or that the stored hash covers, is tracked at its revision
  or has no gateway at all (`Synced`, `Recorded`), never one of an older revision
  that the next pass would adopt. This is what a failed update breaks. Each valid key is
  held by its ref until a teardown is done with it (`Accounted`), which a failed
  update or removal breaks. Why other faults are excluded is said under "Where the
  properties stop".

**DataPlane.** A detached `Close` exists only once the caller has given up
(`LateClose`), and until then nobody cancelled the proxy's context (`NoCancelYet`). The
WaitGroup counts exactly the accept loops that run (`CountsLoops`), so it
never goes negative, which would be a panic, and `Close` returns only when none is left.
A forward that pipes holds both ends of its connection, or none once its watchdog has struck,
and a forward that has returned holds none (`EndsOwned`). Both together
give that after `Close` no connection is taken (`NoLateAccept`), and that what has come
to rest stays so (`StaysQuiet`); that it comes to rest is liveness, and checked.

**Watcher.** Every sender drops instead of waiting, so the channels stay within
capacity; a reconcile in progress is exactly one that has read its service
(`ReadsWhileRunning`). The theorem that the pipeline satisfies `Wakeup`'s safety part is
the use, and `QueueImplementsWakeup` the implementation, of the same contract.

**Minting.** An ID in the cache, or on its way to or from it, has had the
configured name (`CacheResolved`, `JobsResolved`, `HadName`), whichever worker filled the
cache. The targets are all the while what `Parse` made of the services (`Parsed`), so a
minted tag has passed `tagAllowed` (`TagChecked`) under patterns that are the
operator's (`Loaded`, `LoadedPatterns`), and a key goes into the specs of the request it was
minted for (`SpecOfRequest`). The rest is about texts:

* `MintedTagsAllowed` rests on `MatchGlobCorrect`. One direction turns the
  places where `matchGlob` found its parts into an alignment of pattern and text
  (`GlobSound`); the other shows that the search, which takes each part at its first
  place, is never behind an alignment, so that what is left of the text is enough
  (`GlobComplete`).
* `GatewaysKeepContract` rests on `ParsedTargets`, that a parsed host has no colon, no comma
  and no blank end, whatever the label was; on `DecimalNumeral`, that `Decimal` and
  `Number` are inverse; and on `ReadBack`, that for such a host and port the address is one
  list entry, cut where it was joined. That addresses differ follows from it, and so that
  truncated names do (`NamesDiffer`).

**Texts.** The library's induction theorems take an operator, which the provers
cannot instantiate. `LabelsProofs` derives from well-foundedness of `<` two facts
about sets and functions in their place: a set that has 0 and with each number the next has all
numbers up to n (`UpTo`), and a function given by its value at 0 and by steps from
earlier values exists (`Recursion`). `Split`, `TagList`, `Number`, `Decimal`, `matchGlob` and
`parseEgressTargets` are recursive functions, and each has a lemma that says it obeys its own
equations, from which the others argue by `UpTo` or from the least counterexample
(`LeastNat`).

Only model-checked:

* all liveness: the prover does not handle fairness;
* `EnqueueNeverBlocks` and `FullListNeverBlocks`, which say that a step is
  `ENABLED`, which it does not handle either.

Every other invariant and action property of the runs is proved.

## Not modelled

Time (timeouts and backoffs are nondeterministic), the bytes of a connection, the
syntax of YAML, JSON and HTTP, the SDK calls behind the Docker client, tsnet
itself with its state directories, collisions of SHA-256, log lines, and
`controller.go`, which has declarations only. The skip of a gateway's own events at
the head of `Reconcile` changes nothing and is left out; so is a change of
`egress.hostname`, which Swarm refuses as a rename, so that it takes the path of a failed
update.

## Plan

Done: the modules above, and the safety properties of every component proved as far
as the prover reaches. Left: of `Egress`, `KeysAccounted` under more faults, with the
keys an update or a removal forgets counted as given up; of `Ingress` and `Egress`, that both halves compose on one store entry, for which
`HalvesApart` is the first step.

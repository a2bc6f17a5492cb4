------------------------------ MODULE Minting -------------------------------
(***************************************************************************)
(* From start-up to a minted key: the daemon loads its configuration and    *)
(* discovers its image, its workers parse the labels of their services and  *)
(* mint one Headscale key per ingress proxy and per egress target, through  *)
(* the limiter and the user-ID cache of the Headscale client, and put the   *)
(* egress keys into gateway specs.                                          *)
(*                                                                          *)
(* The workers interleave at every HTTP request and every hold of the       *)
(* cache's mutex, and with an administrator who renames, deletes and        *)
(* creates Headscale users.  What becomes of the keys afterwards is the     *)
(* subject of Ingress and Egress.                                           *)
(***************************************************************************)
EXTENDS Config, Gateway

CONSTANTS Workers,
          Boots,     \* what the daemon may be started with
          Shards,    \* which service each worker may have: a set of [Workers -> service]
          Networks,  \* the swarm's networks: [ID -> name]
          Names,     \* Headscale user names
          UserIds,   \* Headscale user IDs, never used again
          None       \* a deleted user, and no ID

ASSUME MintingConstants == None \notin Names /\ None \notin UserIds /\ Unset \notin Names

\* Patterns are texts, and an empty directory is none.
ASSUME BootTexts == \A b \in Boots :
    /\ b.env.allowedTags \in Seq(STRING) \cup {Unset}
    /\ b.env.stateDir # ""
    /\ b.file # Unreadable => /\ b.file.allowedTags \in Seq(Seq(STRING)) \cup {Unset}
                              /\ b.file.stateDir # ""

\* Names and labels are texts.
Texts(labels) == {labels.tag, labels.egTag, labels.egHostname, labels.egTargets}
ASSUME ServiceTexts == \A services \in Shards, w \in Workers :
    /\ {services[w].name, services[w].stack} \subseteq Seq(STRING)
    /\ \A b \in Boots : \A c \in Load(b.file, b.env, b.keyFile) :
           Texts(services[w].labels[c.namespace]) \subseteq Seq(STRING)

\* No two targets of a service have the same digest, and none is part of a host.
ASSUME DigestAssumption == \A services \in Shards, w \in Workers, b \in Boots :
    \A c \in Load(b.file, b.env, b.keyFile) :
        \A eg \in Parse(services[w], Networks, c).egress :
            \A t, u \in ToSet(eg.targets) :
                /\ Digest(addr(t)) = Digest(addr(u)) => addr(t) = addr(u)
                /\ Digest(addr(t)) \notin ToSet(u.host)

VARIABLES phase,  \* "boot", "image", "running" or "exited"
          boot,   \* what this process was started with
          cfg,    \* the loaded configuration
          image,  \* the discovered image
          users,  \* Headscale's users, by ID; an ID yet to come is Unset (external)
          named,  \* history: the names each ID has had
          cache,  \* userIDCache, of the one name that is looked up
          svc,    \* the service of each worker
          tgt,    \* what Parse makes of it, which stays the same while the daemon runs
          job,    \* the mint in progress of each worker
          got,    \* the requests of each worker that have their key
          minted  \* the key this step minted: its request, user and gateway spec

vars    == <<phase, boot, cfg, image, users, named, cache, svc, tgt, job, got, minted>>
daemon  == <<phase, boot, cfg, image, tgt>>
scene   == <<users, named, svc>>

\* A mint for the ingress proxy has no target.
Request(dir, tag, targets) == [dir |-> dir, tag |-> tag, targets |-> targets]

\* The mints the labels of w's service call for.
Requests(w) ==
    {Request("ingress", ing.tag, {}) : ing \in tgt[w].ingress}
    \cup UNION {{Request("egress", eg.tag, {t}) : t \in ToSet(eg.targets)} : eg \in tgt[w].egress}

Idle == [pc |-> "idle", req |-> {}, id |-> None]

Init == /\ phase = "boot"
        /\ boot \in Boots
        /\ cfg = Unset
        /\ image = Unset
        /\ users = [i \in UserIds |-> Unset]
        /\ named = [i \in UserIds |-> {}]
        /\ cache = None
        /\ svc \in Shards
        /\ tgt = [w \in Workers |-> [ingress |-> {}, egress |-> {}]]
        /\ job = [w \in Workers |-> Idle]
        /\ got = [w \in Workers |-> {}]
        /\ minted = {}
-----------------------------------------------------------------------------
(* Start-up *)

LoadConfig ==
    /\ phase = "boot"
    /\ LET loaded == Load(boot.file, boot.env, boot.keyFile) IN
       \/ \E c \in loaded : cfg' = c /\ phase' = "image"
       \/ loaded = {} /\ phase' = "exited" /\ UNCHANGED cfg
    /\ UNCHANGED <<boot, image, scene, tgt, cache, job, got, minted>>

\* Any failure of the two reads of Docker is fatal too.
DiscoverImage ==
    /\ phase = "image"
    /\ LET found == DiscoverGatewayImage(boot.hostname, boot.tasks, boot.images) IN
       \/ \E i \in found : /\ image' = i
                            /\ phase' = "running"
                            /\ tgt' = [w \in Workers |-> Parse(svc[w], Networks, cfg)]
       \/ phase' = "exited" /\ UNCHANGED <<image, tgt>>
    /\ UNCHANGED <<boot, cfg, scene, cache, job, got, minted>>

-----------------------------------------------------------------------------
(* A worker's mint *)

At(w, pc)   == phase = "running" /\ job[w].pc = pc
Goto(w, pc) == job' = [job EXCEPT ![w].pc = pc]
Fail(w)     == job' = [job EXCEPT ![w] = Idle]

\* A reconcile finds a proxy or a gateway without its key, in any order.
Begin(w) == /\ At(w, "idle")
            /\ \E r \in Requests(w) \ got[w] : job' = [job EXCEPT ![w] = [Idle EXCEPT !.pc = "limit",
                                                                                    !.req = {r}]]
            /\ UNCHANGED <<daemon, scene, cache, got>> /\ minted' = {}

\* Mutant of Limit: one event more than the burst is asked for.
LimitTwo(w) == /\ At(w, "limit")
               /\ IF Burst(cfg) >= 2 THEN Goto(w, "cache") ELSE Fail(w)
               /\ UNCHANGED <<daemon, scene, cache, got>> /\ minted' = {}

\* Limiter.Wait: lets the worker through in the end, or fails at once when the
\* burst is smaller than one event.
Limit(w) == /\ At(w, "limit")
            /\ IF Burst(cfg) >= 1 THEN Goto(w, "cache") ELSE Fail(w)
            /\ UNCHANGED <<daemon, scene, cache, got>> /\ minted' = {}

\* resolveUserID, first hold of the mutex.
ReadCache(w) == /\ At(w, "cache")
                /\ job' = [job EXCEPT ![w] = [pc  |-> IF cache = None THEN "lookup" ELSE "post",
                                                req |-> @.req,
                                                id  |-> cache]]
                /\ UNCHANGED <<daemon, scene, cache, got>> /\ minted' = {}

\* Mutant of LookupOk: the first user of the answer is taken.
LookupAny(w) == /\ At(w, "lookup")
                /\ cfg.apiKey # Unset
                /\ \E i \in UserIds : /\ users[i] \in Names
                                      /\ job' = [job EXCEPT ![w] = [pc |-> "write", req |-> @.req, id |-> i]]
                /\ UNCHANGED <<daemon, scene, cache, got>> /\ minted' = {}

\* The lookup of the configured name finds its user.
LookupOk(w) == /\ At(w, "lookup")
               /\ cfg.apiKey # Unset
               /\ \E i \in UserIds : /\ users[i] \in Names /\ users[i] = cfg.user
                                     /\ job' = [job EXCEPT ![w] = [pc |-> "write", req |-> @.req, id |-> i]]
               /\ UNCHANGED <<daemon, scene, cache, got>> /\ minted' = {}

\* Mutant of WriteCache: the name of the user is cached in place of its ID.
WriteName(w) == /\ At(w, "write")
                /\ cache' = cfg.user
                /\ Goto(w, "post")
                /\ UNCHANGED <<daemon, scene, got>> /\ minted' = {}

\* resolveUserID, second hold: the last to write wins.
WriteCache(w) == /\ At(w, "write")
                 /\ cache' = job[w].id
                 /\ Goto(w, "post")
                 /\ UNCHANGED <<daemon, scene, got>> /\ minted' = {}

\* The specs an egress key goes into; an ingress key has no target.
GatewaySpecs(w, r) == {gatewaySpec(eg, t, w, cfg, image, <<"secret">>) :
                       eg \in tgt[w].egress, t \in r.targets}

\* The key is minted for a user ID that still exists; an egress key goes into
\* the spec of its target's gateway.
PostOk(w) ==
    /\ At(w, "post")
    /\ cfg.apiKey # Unset
    /\ users[job[w].id] \in Names
    /\ \E r \in job[w].req :
        /\ got' = [got EXCEPT ![w] = @ \cup {r}]
        /\ minted' = {[worker |-> w, req |-> r, user |-> job[w].id, spec |-> GatewaySpecs(w, r)]}
    /\ Fail(w)
    /\ UNCHANGED <<daemon, scene, cache>>

\* The request fails, is refused, or its answer is lost or empty; the user is
\* not found.
RequestFails(w) == /\ At(w, "lookup") \/ At(w, "post")
                   /\ Fail(w)
                   /\ UNCHANGED <<daemon, scene, cache, got>> /\ minted' = {}
-----------------------------------------------------------------------------
(* The administrator (external) *)

SetUser(i, n) == /\ users' = [users EXCEPT ![i] = n]
                 /\ named' = [named EXCEPT ![i] = @ \cup ({n} \cap Names)]
                 /\ UNCHANGED <<daemon, svc, cache, job, got>> /\ minted' = {}

Free(n) == n \in Names /\ \A i \in UserIds : users[i] # n

RenameUser(i) == users[i] \in Names /\ \E n \in Names : Free(n) /\ SetUser(i, n)
DeleteUser(i) == users[i] \in Names /\ SetUser(i, None)
CreateUser(i) == users[i] = Unset /\ \E n \in Names : Free(n) /\ SetUser(i, n)
-----------------------------------------------------------------------------
\* The process is gone, or has every key it wants.
Settled == /\ \/ phase = "exited"
              \/ phase = "running" /\ \A w \in Workers : got[w] = Requests(w)
           /\ UNCHANGED vars

Mint(w) == Begin(w) \/ Limit(w) \/ ReadCache(w) \/ LookupOk(w) \/ WriteCache(w) \/ PostOk(w)
           \/ RequestFails(w)

Next == \/ LoadConfig \/ DiscoverImage \/ Settled
        \/ \E w \in Workers : Mint(w)
        \/ \E i \in UserIds : RenameUser(i) \/ DeleteUser(i) \/ CreateUser(i)

\* Every call returns, the resync starts a reconcile of an opted-in service
\* again and again, and Headscale is not down for ever.
Fairness == \A w \in Workers : WF_vars(Mint(w)) /\ SF_vars(LookupOk(w)) /\ SF_vars(PostOk(w))

Spec == Init /\ [][Next]_vars /\ Fairness
-----------------------------------------------------------------------------
(* Properties *)

\* Type invariant; a worker's mints are mints its labels call for.
TypeOK == /\ phase \in {"boot", "image", "running", "exited"}
          /\ boot \in Boots
          /\ users \in [UserIds -> Names \cup {None, Unset}]
          /\ cache \in UserIds \cup {None}
          /\ \A w \in Workers :
                /\ job[w].pc \in {"idle", "limit", "cache", "lookup", "write", "post"}
                /\ job[w].id \in UserIds \cup {None}
          /\ phase = "running" => \A w \in Workers : got[w] \cup job[w].req \subseteq Requests(w)

\* The patterns the operator gave: the environment's pieces before the file's
\* list, a blank piece of the environment being none.
OperatorPatterns ==
    IF boot.env.allowedTags # Unset
    THEN {Trim(piece) : piece \in ToSet(CommaList(boot.env.allowedTags))} \ {<<>>}
    ELSE IF boot.file.allowedTags # Unset THEN ToSet(boot.file.allowedTags) ELSE {}

\* No key is minted for a tag the operator did not allow: it is the service's
\* derived tag, or matches one of the operator's patterns by the meaning of a
\* glob.  Loading neither loses a pattern nor makes one up.
MintedTagAllowed ==
    /\ \A k \in minted : \/ k.req.tag = derivedTag(svc[k.worker])
                          \/ \E p \in OperatorPatterns : GlobMatches(p, k.req.tag)
    /\ cfg # Unset => ToSet(cfg.allowedTags) = OperatorPatterns

\* A key belongs to a user that has had the configured name, whichever worker
\* filled the cache and whatever the administrator did in between.
KeyOfConfiguredUser == \A k \in minted : cfg.user \in named[k.user]

\* A gateway process reads back from its environment the one target it was
\* made for, its own drift hash is the one the daemon compares with, and no
\* target on another host has a gateway of the same name.
GatewayContract == \A k \in minted : \A spec \in k.spec : \A t \in k.req.targets :
    \A eg \in tgt[k.worker].egress :
        /\ RunGateway(spec.env).ok
        /\ RunGateway(spec.env).targets = <<t>>
        /\ RunGateway(spec.env).tag = k.req.tag
        /\ liveGatewayHash(spec) = targetGatewayHash(eg, t, image)
        /\ \A u \in ToSet(eg.targets) :
              u.host # t.host => gatewayHostname(eg, u) # gatewayHostname(eg, t)

\* A daemon with an API key and a rate of at least one call per second in the
\* end mints every key its services call for, unless the administrator takes
\* the configured name from the ID that is cached.
CacheFresh == cache # None => users[cache] = cfg.user
UserExists == cfg # Unset /\ \E i \in UserIds : users[i] = cfg.user
Workable   == phase = "running" /\ cfg.apiKey # Unset /\ cfg.rps >= RPS(1)
EventuallyMinted ==
    []CacheFresh /\ <>[]UserExists /\ <>Workable =>
        <>(phase = "running" /\ \A w \in Workers : got[w] = Requests(w))
=============================================================================

------------------------------- MODULE Config -------------------------------
(***************************************************************************)
(* config.go and own_image.go: what the daemon makes of its YAML file, its  *)
(* environment and its API key file, and of the swarm's tasks, before it    *)
(* starts.  A setting no source gives is Unset; a zero in the file reads as *)
(* one (mergeConfig), a zero in the environment does not.                   *)
(***************************************************************************)
EXTENDS Labels

CONSTANTS Unset,      \* the zero value of any setting
          Malformed,  \* a value that does not parse, or an invalid URL or namespace
          Unreadable  \* a file that cannot be read or decoded

ASSUME UnsetAssumption == Unset \notin Seq(Seq(STRING))

\* Rates are counted in half calls per second, so that a fraction is a number.
RPS(n) == 2 * n

defaultConfig == [url |-> Unset, apiKey |-> Unset, apiKeyFile |-> Unset, user |-> Unset,
                  keyExpiration |-> 300, stateDir |-> "/var/lib/tailswarm", resync |-> 30,
                  rps |-> RPS(5), namespace |-> "tailswarm", allowedTags |-> <<>>,
                  network |-> <<"tailswarm-overlay">>]

Settings == DOMAIN defaultConfig

mergeConfig(dst, src) == [f \in Settings |-> IF src[f] = Unset THEN dst[f] ELSE src[f]]

\* The environment's comma-separated tag patterns, blank ones left out.
AddTag(tags, tag) == IF tag = <<>> THEN tags ELSE Append(tags, tag)

TagList(text) ==
    LET pieces == CommaList(text)
        tags[i \in 0 .. Len(pieces)] == IF i = 0 THEN <<>> ELSE AddTag(tags[i - 1], Trim(pieces[i]))
    IN tags[Len(pieces)]

\* Only the durations and the rate can fail to parse here.
EnvOk(env) == \A f \in {"keyExpiration", "resync", "rps"} : env[f] # Malformed

applyEnv(cfg, env) ==
    mergeConfig(cfg, IF env.allowedTags = Unset THEN env
                     ELSE [env EXCEPT !.allowedTags = TagList(env.allowedTags)])

validate(c) == /\ c.url \notin {Unset, Malformed}
               /\ c.user # Unset
               /\ c.stateDir # Unset
               /\ c.keyExpiration > 0
               /\ c.resync > 0
               /\ c.rps > 0
               /\ c.namespace # Malformed
               /\ c.network # <<>>

\* Load: the configuration, or nothing when a source is bad.  The API key file
\* is read only when the environment gives no key; that there is a key at all
\* is not checked.
Load(file, env, keyFile) ==
    LET merged == applyEnv(mergeConfig(defaultConfig, file), env)
        reads  == merged.apiKey = Unset /\ merged.apiKeyFile # Unset
        cfg    == IF reads THEN [merged EXCEPT !.apiKey = keyFile] ELSE merged
    IN IF file = Unreadable \/ ~EnvOk(env) \/ (reads /\ keyFile = Unreadable) THEN {}
       ELSE {c \in {cfg} : validate(c)}

\* DiscoverGatewayImage: the image of the service of the first task whose
\* container ID is a prefix of the host name or the other way round.
DiscoverGatewayImage(hostname, tasks, images) ==
    LET Mine(t) == t.container # <<>> /\ (IsPrefix(hostname, t.container)
                                          \/ IsPrefix(t.container, hostname))
        at      == SelectInSeq(tasks, Mine)
    IN IF hostname = <<>> \/ at = 0 THEN {}
       ELSE {images[tasks[at].service]} \ {Unset}

\* NewReconciler's limiter: Wait of one event always fails on a burst of none.
Burst(cfg) == cfg.rps \div RPS(1)
=============================================================================

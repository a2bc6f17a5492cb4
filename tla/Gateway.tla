------------------------------ MODULE Gateway -------------------------------
(***************************************************************************)
(* egress_gateway.go and the reading side of gateway_run.go: the service    *)
(* spec of a target's gateway, the hashes that detect its drift, and what   *)
(* the gateway process makes of the environment in it.  Hashes are the      *)
(* records they are taken over.                                             *)
(***************************************************************************)
EXTENDS Labels

CONSTANTS MaxHostname,  \* maxTailnetHostname
          DigestLen,    \* the length of the hash suffix of a truncated name
          Digest(_)     \* that suffix, as a symbol of its own

ASSUME HostnameAssumption == MaxHostname \in Nat /\ DigestLen \in Nat

Decimal(n) == LET dec[i \in 0 .. n] == IF i < 10 THEN <<Digits[i + 1]>>
                                       ELSE dec[i \div 10] \o <<Digits[(i % 10) + 1]>>
              IN dec[n]

addr(t) == t.host \o <<":">> \o Decimal(t.port)

\* Mutant of gatewayHostname: a long name is only cut off.
gatewayHostnameCut(eg, t) ==
    LET name == eg.hostname \o <<"-">> \o t.host IN
    IF Len(name) <= MaxHostname THEN name ELSE SubSeq(name, 1, MaxHostname)

\* A name too long keeps what the cap allows besides a digest of the target.
gatewayHostname(eg, t) ==
    LET name == eg.hostname \o <<"-">> \o t.host IN
    IF Len(name) <= MaxHostname THEN name
    ELSE SubSeq(name, 1, MaxHostname - DigestLen) \o <<Digest(addr(t))>>

gatewaySpec(eg, t, app, cfg, image, authKey) ==
    [name    |-> <<"tsgw-">> \o gatewayHostname(eg, t),
     for     |-> app,
     image   |-> image,
     network |-> eg.network,
     alias   |-> t.host,
     env     |-> [headscaleURL |-> cfg.url, stateDir |-> cfg.stateDir,
                  hostname |-> gatewayHostname(eg, t), tag |-> eg.tag, targets |-> addr(t),
                  authKey |-> authKey]]

targetGatewayHash(eg, t, image) ==
    [hostname |-> gatewayHostname(eg, t), tag |-> eg.tag, network |-> eg.network,
     target |-> addr(t), image |-> image]

\* Read back from the running service; Docker is taken to keep the network as
\* it was written.
liveGatewayHash(gw) ==
    [hostname |-> gw.env.hostname, tag |-> gw.env.tag, network |-> gw.network,
     target |-> gw.env.targets, image |-> gw.image]

\* The configuration RunGateway starts its data plane with.
RunGateway(env) ==
    LET parsed == parseEgressTargets(env.targets) IN
    [ok       |-> /\ parsed.ok /\ parsed.out # <<>>
                  /\ env.hostname # <<>>
                  /\ env.stateDir # "",
     hostname |-> env.hostname,
     tag      |-> env.tag,
     authKey  |-> env.authKey,
     stateDir |-> env.stateDir,
     loginURL |-> env.headscaleURL,
     targets  |-> parsed.out]
=============================================================================

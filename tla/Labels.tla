------------------------------- MODULE Labels -------------------------------
(***************************************************************************)
(* labels.go: what Parse makes of a service's deploy labels.  A text is a   *)
(* sequence of symbols, <<>> being both an empty and a missing label, and   *)
(* the two enable labels are taken as isTrue reads them (Watcher models the *)
(* spellings).                                                              *)
(*                                                                          *)
(* A service is a record of its name, its stack label, the networks its     *)
(* tasks are attached to, its endpoint ports, and its labels under each     *)
(* label namespace.                                                         *)
(***************************************************************************)
EXTENDS Integers, FiniteSets, SequencesExt

CONSTANT MaxPort  \* the largest port number: 2^16 - 1

ASSUME MaxPortAssumption == MaxPort \in Nat \ {0}

\* The pieces of a text between the separators, symbol by symbol.
AddSymbol(parts, c, sep) == IF c = sep THEN Append(parts, <<>>)
                            ELSE [parts EXCEPT ![Len(parts)] = Append(@, c)]

Split(text, sep) ==
    LET parts[i \in 0 .. Len(text)] ==
            IF i = 0 THEN <<<<>>>> ELSE AddSymbol(parts[i - 1], text[i], sep)
    IN parts[Len(text)]

Comma == ","
Blank == " "

CommaList(text) == Split(text, Comma)

\* strings.TrimSpace.
Trim(text) == LET solid == {i \in DOMAIN text : text[i] # Blank} IN
              IF solid = {} THEN <<>> ELSE SubSeq(text, Min(solid), Max(solid))

Drop(text, n) == SubSeq(text, n + 1, Len(text))
-----------------------------------------------------------------------------
(* Tags *)

\* The end of the first mid in s behind its first `from` symbols
\* (strings.Index), a place behind s if there is none.
EndOf(s, from, mid) ==
    LET found == {i \in from .. Len(s) - Len(mid) : SubSeq(s, i + 1, i + Len(mid)) = mid} IN
    IF found = {} THEN Len(s) + 1 ELSE Min(found) + Len(mid)

\* The first part is a prefix, each middle part is searched for behind the one
\* before it, and the last part is a suffix of what is left.
matchGlob(pattern, s) ==
    LET parts == Split(pattern, "*")
        taken[k \in 0 .. Len(parts) - 2] ==
            IF k = 0 THEN Len(parts[1]) ELSE EndOf(s, taken[k - 1], parts[k + 1])
    IN IF Len(parts) = 1 THEN pattern = s
       ELSE /\ IsPrefix(parts[1], s)
            /\ taken[Len(parts) - 2] + Len(Last(parts)) <= Len(s)
            /\ IsSuffix(Last(parts), s)

\* Mutant of tagAllowed: an empty list allows every tag.
tagAllowedByDefault(tag, derived, allowedTags) ==
    \/ tag = derived
    \/ allowedTags = <<>>
    \/ \E i \in DOMAIN allowedTags : matchGlob(allowedTags[i], tag)

tagAllowed(tag, derived, allowedTags) ==
    tag = derived \/ \E i \in DOMAIN allowedTags : matchGlob(allowedTags[i], tag)

\* The meaning of a glob, which matchGlob is measured against: end[i] symbols
\* of the text stand for the first i of the pattern, a star for any number.
GlobMatches(pattern, s) ==
    \E end \in [0 .. Len(pattern) -> 0 .. Len(s)] :
        /\ end[0] = 0
        /\ end[Len(pattern)] = Len(s)
        /\ \A i \in DOMAIN pattern : IF pattern[i] = "*" THEN end[i - 1] <= end[i]
                                     ELSE end[i] = end[i - 1] + 1 /\ s[end[i]] = pattern[i]
-----------------------------------------------------------------------------
(* Ports, networks and egress targets *)

\* The TCP target ports, each once, in the order of their declaration.
tcpPorts(svc) ==
    FoldLeft(LAMBDA out, p : IF p.proto = "udp" \/ p.target = 0 \/ Contains(out, p.target) THEN out
                             ELSE Append(out, p.target),
             <<>>, svc.ports)

\* An attachment names its network or its ID.
serviceAttachedTo(svc, networks, name) ==
    \/ name \in svc.attached
    \/ \E id \in svc.attached \cap DOMAIN networks : networks[id] = name

Digits == <<"0", "1", "2", "3", "4", "5", "6", "7", "8", "9">>

DigitOf(c) == CHOOSE d \in 0 .. 9 : Digits[d + 1] = c

Number(text) ==
    LET sum[i \in 0 .. Len(text)] == IF i = 0 THEN 0 ELSE 10 * sum[i - 1] + DigitOf(text[i])
    IN sum[Len(text)]

\* strconv.ParseUint(text, 10, 16), -1 being its errors.
ParsePort(text) ==
    IF text # <<>> /\ ToSet(text) \subseteq ToSet(Digits) /\ Number(text) <= MaxPort
    THEN Number(text) ELSE -1

\* strings.Cut at the first colon: what is before and what is behind it.
Cut(text) == LET colons == {i \in DOMAIN text : text[i] = ":"} IN
             IF colons = {} THEN [found |-> FALSE, host |-> Trim(text), port |-> <<>>]
             ELSE [found |-> TRUE,
                   host  |-> Trim(SubSeq(text, 1, Min(colons) - 1)),
                   port  |-> Trim(Drop(text, Min(colons)))]

\* One entry of the list: blank and repeated ones are skipped, a malformed one
\* spoils the whole.
AddEntry(acc, raw) ==
    LET entry == Trim(raw)
        cut   == Cut(entry)
    IN IF entry = <<>> \/ ~acc.ok THEN acc
       ELSE IF ~cut.found \/ cut.host = <<>> \/ ParsePort(cut.port) <= 0
       THEN [acc EXCEPT !.ok = FALSE]
       ELSE IF entry \in acc.seen THEN acc
       ELSE [acc EXCEPT !.seen = @ \cup {entry},
                        !.out = Append(@, [host |-> cut.host, port |-> ParsePort(cut.port)])]

parseEgressTargets(raw) ==
    LET entries == CommaList(raw)
        acc[i \in 0 .. Len(entries)] == IF i = 0 THEN [ok |-> TRUE, seen |-> {}, out |-> <<>>]
                                        ELSE AddEntry(acc[i - 1], entries[i])
    IN acc[Len(entries)]
-----------------------------------------------------------------------------
(* Parse *)

\* The service's name without the stack prefix, and the tag derived from it.
shortName(svc) == LET prefix == svc.stack \o <<"_">> IN
                  IF IsPrefix(prefix, svc.name) THEN Drop(svc.name, Len(prefix)) ELSE svc.name

derivedTag(svc) == <<"tag:swarm-">> \o shortName(svc)

baseName(svc) == (IF svc.stack = <<>> THEN <<>> ELSE svc.stack \o <<"-">>) \o shortName(svc)

\* An override that is set, or else the default.
Or(override, default) == IF override = <<>> THEN default ELSE override

NetworkOk(svc, networks, override) == override = <<>> \/ serviceAttachedTo(svc, networks, override)
TagOk(svc, allowed, override) == override = <<>> \/ tagAllowed(override, derivedTag(svc), allowed)

\* parseIngress: whether the labels are well formed, and what they say.
parseIngress(svc, labels, networks, cfg) ==
    [ok       |-> /\ NetworkOk(svc, networks, labels.network)
                  /\ TagOk(svc, cfg.allowedTags, labels.tag)
                  /\ tcpPorts(svc) # <<>>,
     network  |-> Or(labels.network, cfg.network),
     hostname |-> Or(labels.hostname, baseName(svc)),
     tag      |-> Or(labels.tag, derivedTag(svc)),
     ports    |-> tcpPorts(svc)]

parseEgress(svc, labels, networks, cfg) ==
    LET parsed == parseEgressTargets(labels.egTargets) IN
    [ok       |-> /\ parsed.ok /\ parsed.out # <<>>
                  /\ NetworkOk(svc, networks, labels.egNetwork)
                  /\ TagOk(svc, cfg.allowedTags, labels.egTag),
     network  |-> Or(labels.egNetwork, cfg.network),
     hostname |-> Or(labels.egHostname, baseName(svc) \o <<"-", "egress">>),
     tag      |-> Or(labels.egTag, derivedTag(svc)),
     targets  |-> parsed.out]

\* Not opted in, or malformed in either direction: neither direction is served.
Parse(svc, networks, cfg) ==
    LET labels == svc.labels[cfg.namespace]
        ing    == parseIngress(svc, labels, networks, cfg)
        eg     == parseEgress(svc, labels, networks, cfg)
        ok     == (labels.enable => ing.ok) /\ (labels.egEnable => eg.ok)
    IN [ingress |-> IF labels.enable /\ ok THEN {ing} ELSE {},
        egress  |-> IF labels.egEnable /\ ok THEN {eg} ELSE {}]
=============================================================================

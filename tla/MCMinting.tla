----------------------------- MODULE MCMinting ------------------------------
(* Minting on a handful of start-ups and services: settings from the file,  *)
(* the environment or both, good and bad; tags inside and outside the       *)
(* allowed patterns; ports, networks and target lists with the corners of   *)
(* the parser.  matchGlob is measured against its reference on all short    *)
(* patterns and texts.                                                      *)
EXTENDS Minting

CONSTANTS w1, w2

MCDigest(text) == ToString(text)

ASSUME GlobAgrees == \A p \in BoundedSeq({"a", "b", "*"}, 4), s \in BoundedSeq({"a", "b"}, 4) :
                        matchGlob(p, s) = GlobMatches(p, s)

Nothing  == [f \in Settings |-> Unset]
FullFile == [Nothing EXCEPT !.url = "https://hs", !.user = "ts", !.apiKeyFile = "/run/key",
                            !.allowedTags = <<<<"x">>, <<"a", "*", "b">>>>]
Env      == [Nothing EXCEPT !.url = "https://hs", !.user = "ts", !.apiKey = "key"]

Boot(file, env, keyFile) ==
    [file |-> file, env |-> env, keyFile |-> keyFile,
     hostname |-> <<"c", "1">>,
     tasks    |-> <<[container |-> <<>>, service |-> "other"],
                    [container |-> <<"c", "1", "f">>, service |-> "self"]>>,
     images   |-> [other |-> "other@1", self |-> "tailswarm@1"]]

MCBoots ==
    {Boot(FullFile, Nothing, "key"),
     Boot(FullFile, Nothing, Unset),
     Boot(FullFile, Nothing, Unreadable),
     Boot(Unreadable, Env, "key"),
     Boot(FullFile, [Nothing EXCEPT !.rps = Malformed], "key"),
     Boot(FullFile, [Nothing EXCEPT !.rps = 0], "key"),
     Boot(Nothing, Env, "key"),
     Boot(Nothing, [Env EXCEPT !.rps = 1], "key"),
     Boot(FullFile, [Env EXCEPT !.rps = RPS(1), !.namespace = "stage",
                                !.allowedTags = <<"a", "*", ",", " ", ",", "*", "c">>], "key"),
     [Boot(Nothing, Env, "key") EXCEPT !.hostname = <<"d">>]}

NoLabels == [enable |-> FALSE, egEnable |-> FALSE, network |-> <<>>, hostname |-> <<>>,
             tag |-> <<>>, egTargets |-> <<>>, egNetwork |-> <<>>, egHostname |-> <<>>,
             egTag |-> <<>>]

Service(labels, stage) ==
    [name |-> <<"s", "_", "w">>, stack |-> <<"s">>, attached |-> {<<"id1">>},
     ports |-> <<[proto |-> "tcp", target |-> 80], [proto |-> "udp", target |-> 53],
                 [proto |-> "", target |-> 80]>>,
     labels |-> [tailswarm |-> labels, stage |-> stage]]

Tagged(tag) == [NoLabels EXCEPT !.enable = TRUE, !.tag = tag, !.network = <<"net">>]
Targets(raw) == [NoLabels EXCEPT !.egEnable = TRUE, !.egTargets = raw]

\* d:80 twice, two hosts too long for a name that differ only at the end
Dial == <<"d", ":", "8", "0", ",", " ", "l", "l", "a", ":", "7", ",", "l", "l", "b", ":", "7",
          ",", "d", " ", ":", "0", "8", "0">>

S1 == Service(Tagged(<<"a", "c", "b">>), Tagged(<<"a">>))
S2 == Service(Tagged(<<"a", "b", "c">>), Tagged(<<"b", "c", "b">>))
S3 == Service(Targets(Dial), Targets(<<"d", ":", "0">>))
S4 == Service([Targets(<<"e", ":", "9">>) EXCEPT !.enable = TRUE, !.egTag = <<"x">>], NoLabels)

MCShards == {(w1 :> S1 @@ w2 :> S2), (w1 :> S3 @@ w2 :> S1), (w1 :> S4 @@ w2 :> S2)}

MCNetworks == (<<"id1">> :> <<"net">>)
=============================================================================

------------------------------ MODULE MCEgress ------------------------------
(* Egress on small sets: OwnNames gives every target of an app a gateway    *)
(* name of its own (targets on different hosts), HostNames one name to the  *)
(* targets of one host (gatewayHostname leaves the port out), both the same *)
(* for every incarnation of the app.                                        *)
EXTENDS Egress, TLC

OwnNames  == [a \in Apps |-> [t \in Targets |-> t]]
HostNames == [a \in Apps |-> [t \in Targets |-> "host"]]

Symmetry == Permutations(Targets) \cup Permutations(Revs)
=============================================================================

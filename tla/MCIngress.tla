----------------------------- MODULE MCIngress ------------------------------
(* Ingress on small sets of services, configurations and keys. *)
EXTENDS Ingress
=============================================================================

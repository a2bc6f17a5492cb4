---------------------------- MODULE MCDataPlane -----------------------------
(* DataPlane on small sets of ports and connections. *)
EXTENDS DataPlane
=============================================================================

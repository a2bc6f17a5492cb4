------------------------------ MODULE MCWatcher -----------------------------
(* Watcher on small sets; the constants are all given in the cfg files.     *)
EXTENDS Watcher
=============================================================================

---------------------------- MODULE MCWorkQueue -----------------------------
(* WorkQueue with three services on one shard, one more than its channel    *)
(* holds, and a fourth alone on another.                                    *)
EXTENDS WorkQueue, TLC

CONSTANTS a, b, c, d, x, y

MCServices == {a, b, c, d}
MCShards   == {x, y}
MCShardFor == (a :> x) @@ (b :> x) @@ (c :> x) @@ (d :> y)
=============================================================================

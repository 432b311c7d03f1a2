------------------------------ MODULE MCShards ------------------------------
(* Instances of Shards: rows whose timestamps are some granularities apart. *)
EXTENDS Shards

CONSTANTS ra, rb, rc, t1, t2

StampOf == ra :> 20 @@ rb :> 40 @@ rc :> 30
Stamps  == [r \in Rows |-> StampOf[r]]

ThreadSymmetry == Permutations(Threads)
====

------------------------------ MODULE RowStore ------------------------------
(***************************************************************************)
(* What a table promises of its rows: a set to which rows are added one at   *)
(* a time and from which they are erased one at a time. Shards, their        *)
(* splits, caches and files, threads and restarts are how db::table keeps    *)
(* such a set, and must leave it alone.                                      *)
(***************************************************************************)
CONSTANT Rows

VARIABLE rows

Init == rows = {}

Add(r)    == rows' = rows \cup {r}
Remove(r) == rows' = rows \ {r}

Next == \E r \in Rows : Add(r) \/ Remove(r)

Spec == Init /\ [][Next]_rows
====

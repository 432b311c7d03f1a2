---------------------------- MODULE ShardsClaims ----------------------------
(* What a comment in the source says of tables and the code does not do: the   *)
(* run finds a behaviour that contradicts it.                                 *)
EXTENDS MCShards

\* raddi_database_table.h, get: "finds 'entry' in this table, reconstruct full
\* entry for transmission". A read leaves the position of the content file
\* behind the row it has read, and the next insertion writes there.
ContentOfTheRow ==
  \A k \in DOMAIN shards : \A x \in shards[k].cache :
    files[shards[k].base].content[x.offset + 1] = x.id
====

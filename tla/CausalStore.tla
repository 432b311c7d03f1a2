---------------------------- MODULE CausalStore ----------------------------
(***************************************************************************)
(* What the acceptance pipeline promises about the database: it holds       *)
(* entries, an entry is admitted only after the entries it refers to (its   *)
(* parent and its author's announcement) have been, and an entry goes only  *)
(* when a user erases it. Everything else about `embrace` (src/node/        *)
(* node.cpp), the caches, the threads, the peers, is how it keeps to this.  *)
(***************************************************************************)
CONSTANTS Identities, Channels, Posts, Parent, Author, Installed

VARIABLES stored, gone

Refers(e) == IF e \in Posts THEN {Parent[e], Author[e]}
             ELSE IF e \in Channels THEN {Author[e]} ELSE {}

Init == stored = Installed /\ gone = {}

Admit(e) ==
  /\ Refers(e) \subseteq stored \cup gone
  /\ stored' = stored \cup {e}
  /\ UNCHANGED gone

Remove(e) ==
  /\ stored' = stored \ {e}
  /\ gone' = gone \cup {e}

Next == \/ \E e \in Identities \cup Channels \cup Posts : Admit(e)
        \/ \E e \in stored : Remove(e)

Spec == Init /\ [][Next]_<<stored, gone>>
====

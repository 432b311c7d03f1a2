----------------------------- MODULE MCEmbrace -----------------------------
(* Instances of Embrace: an identity i, a channel c and, below it, a thread t, *)
(* a reply r to it, a comment n nested under the reply and a second thread u.   *)
(* A configuration takes the posts it needs of these.                          *)
EXTENDS Embrace, TLC

CONSTANTS i, c, t, r, n, u, w1, w2, c1, c2

ParentOf    == t :> c @@ u :> c @@ r :> t @@ n :> r
TreeParent  == [e \in Posts |-> ParentOf[e]]
TreeAuthor  == [e \in Channels \cup Posts |-> i]
TreeRoot    == [e \in Posts |->
                  [channel |-> c, thread |-> IF e = u THEN u ELSE t]]
\* all entries written at time 0
SameTime    == [e \in Entries |-> 0]

\* how often each entry may arrive
Once   == [e \in Entries |-> 1]
Twice  == [e \in Entries |-> 2]
UTwice == [e \in Entries |-> IF e = u THEN 2 ELSE 1]

WorkerSymmetry == Permutations(Workers)
====

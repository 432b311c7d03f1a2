--------------------------- MODULE MCSubscriptions ---------------------------
(* An instance of Subscriptions: two applications and one channel, of which the *)
(* node has enough for a request with spans.                                   *)
EXTENDS Subscriptions, TLC
CONSTANTS a1, a2, p1, c, x, y, z, w
Where  == [r \in Rows |-> {c}]
Times  == x :> 1 @@ y :> 5 @@ z :> 8 @@ w :> 10
First  == p1 :> {x}
Coming == p1 :> {w}

\* A node that is no leaf makes nothing of the commands but lists, and files are
\* saved while no peer is connected.
Brief == /\ participates => commands <= 1
         /\ saving # {} => \A p \in Peers : state[p] = "closed"
=============================================================================

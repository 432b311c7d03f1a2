------------------------------- MODULE MCSync -------------------------------
EXTENDS Sync, TLC
CONSTANTS a, b, h, i, j, g, l, f, c
Kinds1  == [r \in Rows |-> IF r = c THEN "channels" ELSE "identities"]
Stamps  == i :> 1 @@ h :> 2 @@ j :> 2 @@ l :> 3 @@ g :> 3 @@ c :> 3 @@ f :> 5
Authors == [r \in Rows |-> IF r = c THEN i ELSE Nothing]
Both    == [n \in Nodes |-> TRUE]
AtStart == {a :> {i, j, f, c} @@ b :> {j, g}, a :> {h, j} @@ b :> {j, g}}
Coming  == a :> {l} @@ b :> {}
=============================================================================

------------------------------ MODULE FifoLink ------------------------------
(* What a connection promises to the code above it: what one end says the     *)
(* other hears, in order and once, for as long as the connection lasts.      *)
EXTENDS Naturals, Sequences

CONSTANTS Ends, Messages, Other(_)
VARIABLES said, got

vars == <<said, got>>

Init == said = [e \in Ends |-> <<>>] /\ got = [e \in Ends |-> <<>>]

Say(e) == /\ \E m \in Messages : said' = [said EXCEPT ![e] = Append(@, m)]
          /\ UNCHANGED got

Hear(e) == LET n == Len(got[e]) + 1 IN
  /\ n \in 1 .. Len(said[Other(e)])
  /\ got' = [got EXCEPT ![e] = Append(@, said[Other(e)][n])]
  /\ UNCHANGED said

Next == \E e \in Ends : Say(e) \/ Hear(e)

Spec == Init /\ [][Next]_vars
====

------------------------------ MODULE MCPeers ------------------------------
(* An instance of Peers with small assessments, a core node that also         *)
(* connects to this one, and an announced node that does not.                *)
EXTENDS Peers, TLC

CONSTANTS h1, h2

SomeKnown == (core :> {h1}) @@ (announced :> {h2}) @@ [l \in Levels |-> {}]
OneDay    == [w \in {"disagreed", "reflected", "unusable", "user"} |-> 1]
Places    == Permutations(Slots)

\* Two at a time, next to the main thread: connections, a command or an
\* announcement; the change of the day comes alone.
Pairs == Cardinality(Used) + heard + 2 * day <= 2
=============================================================================

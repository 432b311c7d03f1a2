------------------------------- MODULE MCLink -------------------------------
(* An instance of Link in which one end has two messages for the other.       *)
EXTENDS Link, TLC

CONSTANTS a, b

Modes   == a :> "automatic" @@ b :> "force_gcm"
Ciphers == a :> {"gcm", "aegis"} @@ b :> {"gcm"}
TwoMessages == a :> <<"hello", "world">> @@ b :> <<>>
====

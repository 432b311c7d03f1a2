-------------------------------- MODULE Sync --------------------------------
(***************************************************************************)
(* How two nodes that connect bring their tables of identities and channels  *)
(* up to date (raddi::coordinator, raddi::request).                        *)
(*                                                                         *)
(* As soon as the encryption works each node tells the other how much it    *)
(* has: the time of its tables, cut into spans at bases of shards, with the   *)
(* number of rows in each. The other sends the spans of which it has more,   *)
(* everything before them and everything after. What comes later is passed  *)
(* on when it is inserted. Workers insert and pass on rows all the time, so   *)
(* a row could slip through between the two.                               *)
(***************************************************************************)
EXTENDS Integers, Sequences, FiniteSets

CONSTANTS
  Nodes,          \* the two nodes
  Rows, Nothing,  \* announcements
  Kind, Stamp, Author,     \* of a row: its table, timestamp, and for a channel
                           \* the identity that signed it
  Participates,   \* channels_synchronization_participation
  Stored,         \* what the nodes may have at the start
  Arriving,       \* what may come to them from elsewhere
  Scale, Depth,   \* 4, and short_history::depth, 21
  Width,          \* 2^24, the width of a span in a request
  Offset,         \* synchronization_base_offset, 3600 s
  Backtrack,      \* backtrack_granularity of the tables
  MaxAge, MaxSkew,       \* consensus: 600 s and 180 s
  Start, MaxNow, MaxBreaks, MaxShards     \* bounds

Kinds == {"identities", "channels"}
Many  == 0 - 1    \* a number of rows that stands for "too many"

ASSUME SyncAssumption ==
  /\ \E a, b \in Nodes : a # b /\ Nodes = {a, b}
  /\ IsFiniteSet(Rows) /\ Nothing \notin Rows
  /\ Kind \in [Rows -> Kinds] /\ Stamp \in [Rows -> Nat]
  /\ Author \in [Rows -> Rows \cup {Nothing}]
  /\ Participates \in [Nodes -> BOOLEAN] /\ Stored \subseteq [Nodes -> SUBSET Rows]
  /\ Arriving \in [Nodes -> SUBSET Rows]
  /\ {Scale, Width, Backtrack} \subseteq Nat \ {0}
  /\ {Depth, Offset, MaxAge, MaxSkew, Start, MaxNow, MaxBreaks, MaxShards} \subseteq Nat
  /\ Start <= MaxNow

Other(n) == CHOOSE o \in Nodes : o # n

VARIABLES
  table,      \* database.identities and database.channels
  bases,      \* the bases of their shards
  state,      \* connection::state
  wire,       \* what is on its way to a node
  reply,      \* the request that a node is answering
  passing,    \* rows that a worker has inserted and not yet broadcast
  now, breaks,
  left        \* history: what a node is not told of, by the rules of the code

vars == <<table, bases, state, wire, reply, passing, now, breaks, left>>

Span    == [from : Int, to : Int, number : Nat \cup {Many}]
Initial == [type |-> "initial"]
\* Mutated form of Entry: the row goes out without its header.
Bare(r) == [row |-> r]
Entry(r) == [type |-> "entry", row |-> r]
History(k, t, s) == [type |-> "history", of |-> k, threshold |-> t, spans |-> s]
Message == {Initial} \cup [type : {"entry"}, row : Rows]
           \cup [type : {"history"}, of : Kinds, threshold : Int, spans : SUBSET Span]
Idle    == [of |-> "nothing", threshold |-> 0, spans |-> {}]

TypeOK ==
  /\ table \in [Nodes -> SUBSET Rows]
  /\ bases \in [Nodes -> [Kinds -> SUBSET Int]]
  /\ state \in [Nodes -> {"closed", "securing", "secured"}]
  /\ wire \in [Nodes -> Seq(Message)]
  /\ reply \in [Nodes -> {Idle} \cup [of : Kinds, threshold : Int, spans : SUBSET Span]]
  /\ passing \in [Nodes -> SUBSET Rows] /\ left \in [Nodes -> SUBSET Rows]
  /\ now \in Start .. MaxNow /\ breaks \in 0 .. MaxBreaks

Of(S, k) == {r \in S : Kind[r] = k}
Bases(S) == {B \in SUBSET {Stamp[r] : r \in S} : \A r \in S : \E b \in B : b <= Stamp[r]}

Init ==
  /\ table \in Stored
  /\ bases \in [Nodes -> [Kinds -> UNION {Bases(Of(table[n], k)) : n \in Nodes, k \in Kinds}]]
  /\ \A n \in Nodes, k \in Kinds : bases[n][k] \in Bases(Of(table[n], k))
  /\ state = [n \in Nodes |-> "closed"] /\ wire = [n \in Nodes |-> <<>>]
  /\ reply = [n \in Nodes |-> Idle]
  /\ passing = [n \in Nodes |-> {}] /\ left = [n \in Nodes |-> {}]
  /\ now = Start /\ breaks = 0
-----------------------------------------------------------------------------
(* Insertion. *)

Least(S)    == CHOOSE x \in S : \A y \in S : x <= y
Greatest(S) == CHOOSE x \in S : \A y \in S : x >= y

\* table::unsynchronized_get_shard: the bases after the insertion of a row. There
\* may be a shard for it, in front of which a new one begins where the newest is
\* outgrown or the one that it belongs to is split.
Sharded(B, S, t) ==
  IF B = {} THEN {{t}}
  ELSE IF t < Least(B)
  THEN {B \cup {Least(B) - Backtrack * ((Least(B) - t + Backtrack - 1) \div Backtrack)}}
  ELSE {B} \cup {B \cup {d} : d \in {e \in Least(B) .. Greatest(S) : Cardinality(B) < MaxShards}}

\* db::assess knows the author of a channel; an identity is its own.
Known(n, r) == Kind[r] = "identities" \/ Author[r] \in table[n]

\* raddi::older
Old(r) == Stamp[r] + MaxAge < now

\* db::insert, for an announcement that is not in its table yet.
Insert(n, r) ==
  LET k == Kind[r] IN
  /\ r \notin table[n] /\ Known(n, r)
  /\ table' = [table EXCEPT ![n] = @ \cup {r}]
  /\ \E B \in Sharded(bases[n][k], {Stamp[x] : x \in Of(table[n], k) \cup {r}}, Stamp[r]) :
       bases' = [bases EXCEPT ![n][k] = B]

\* embrace of an announcement from somewhere else. It is broadcast next, unless it
\* is old.
Arrive(n, r) ==
  /\ r \in Arriving[n] /\ Insert(n, r) /\ Stamp[r] <= now + MaxSkew
  /\ \/ /\ ~Old(r)
        /\ passing' = [passing EXCEPT ![n] = @ \cup {r}] /\ UNCHANGED left
     \/ /\ Old(r)
        /\ left' = [left EXCEPT ![Other(n)] = @ \cup {r}] /\ UNCHANGED passing
  /\ UNCHANGED <<state, wire, reply, now, breaks>>

\* coordinator::broadcast looks for connections that are secured.
Reaches(n) == state[n] = "secured"

Send(n, messages) == wire' = [wire EXCEPT ![Other(n)] = @ \o messages]

Broadcast(n, r) ==
  /\ r \in passing[n]
  /\ passing' = [passing EXCEPT ![n] = @ \ {r}]
  /\ IF Reaches(n) THEN Send(n, <<Entry(r)>>) ELSE UNCHANGED wire
  /\ UNCHANGED <<table, bases, state, reply, now, breaks, left>>
-----------------------------------------------------------------------------
(* coordinator::report_table_history *)

\* The bases of shards that are looked at.
Reported(n, k) == {b \in bases[n][k] : b + Offset < now}

\* The shards that do not belong to the span that begins at `t`.
Later(B, t) == {b \in B : b >= t + (now - t) \div Scale + 1}

\* Where the spans begin, and the last of these is the threshold of the request.
Division(B, S) ==
  /\ Cardinality(S) <= Depth + 1
  /\ B # {} => Least(B) \in S
  /\ \A b \in S : b = Least(B) \/ \E t \in S : Later(B, t) # {} /\ b = Least(Later(B, t))
  /\ \A t \in S : Later(B, t) # {} /\ Cardinality(S) <= Depth => Least(Later(B, t)) \in S

After(S, t) == Least({u \in S : u > t})

Within(n, k, from, to) == {r \in Of(table[n], k) : from <= Stamp[r] /\ Stamp[r] <= to}

\* The number goes into the request less one, so that none at all is too many.
Number(n, k, from, to) ==
  LET S == Within(n, k, from, to) IN IF S = {} THEN Many ELSE Cardinality(S)

\* Where spans begin for the receiver: each is given by its distance to the next,
\* less one, of which Width is kept. short_history::decode
Decoded(S) ==
  LET from[t \in S] == IF t = Greatest(S) THEN t
                       ELSE from[After(S, t)] - 1 - ((After(S, t) - t - 1) % Width)
  IN from

Report(n, k, S) ==
  LET ends == S \ {Greatest(S)}
  IN  IF Cardinality(S) <= 1 THEN History(k, 0, {})
      ELSE History(k, Greatest(S),
             {[from |-> Decoded(S)[t], to |-> Decoded(S)[After(S, t)] - 1,
               number |-> Number(n, k, t, After(S, t) - 1)] : t \in ends})

\* A span is too long for its width.
Wrapped(S) == \E t \in S : t # Greatest(S) /\ After(S, t) - t > Width
-----------------------------------------------------------------------------
(* The connection. *)

\* coordinator::established sends the first request, before the connection is
\* secured.
Established(n) ==
  /\ state[n] = "closed"
  /\ state' = [state EXCEPT ![n] = "securing"]
  /\ Send(n, <<Initial>>)
  /\ UNCHANGED <<table, bases, reply, passing, now, breaks, left>>

Secure(n) ==
  /\ state[n] = "securing"
  /\ state' = [state EXCEPT ![n] = "secured"]
  /\ UNCHANGED <<table, bases, wire, reply, passing, now, breaks, left>>

\* coordinator::corroborated
Corroborated(n) ==
  \E I \in SUBSET Reported(n, "identities"), C \in SUBSET Reported(n, "channels") :
    /\ Division(Reported(n, "identities"), I) /\ Division(Reported(n, "channels"), C)
    /\ wire' = [wire EXCEPT ![n] = Tail(@), ![Other(n)] = @ \o
                  <<Report(n, "identities", I), Report(n, "channels", C)>>]
    /\ left' = [left EXCEPT ![n] = IF Wrapped(I) \/ Wrapped(C) THEN Rows ELSE {}]
    /\ UNCHANGED <<table, bases, reply, passing>>

First(spans) == {s \in spans : \A u \in spans : s.from <= u.from}

\* All that is before the first span, "total ancient history", is compared with no
\* rows.
Ancient(spans) == {[from |-> 0, to |-> s.from - 1, number |-> 0] : s \in First(spans)}

\* coordinator::process of a history
Process(n, m) ==
  /\ reply' = [reply EXCEPT ![n] = IF ~Participates[n] THEN Idle
                 ELSE [of |-> m.of, threshold |-> m.threshold,
                       spans |-> m.spans \cup Ancient(m.spans)]]
  /\ left' = [left EXCEPT ![Other(n)] = IF Participates[n] THEN @ ELSE Rows]
  /\ wire' = [wire EXCEPT ![n] = Tail(@)]
  /\ UNCHANGED <<table, bases, passing>>

\* connection::message of an entry: embrace, which does not send it back. The
\* other had it in time, by the same clock.
Embrace(n, r) ==
  /\ \/ Insert(n, r)
     \/ (r \in table[n] \/ ~Known(n, r)) /\ UNCHANGED <<table, bases>>
  /\ wire' = [wire EXCEPT ![n] = Tail(@)]
  /\ UNCHANGED <<reply, passing, left>>

Receive(n) ==
  /\ state[n] = "secured" /\ reply[n] = Idle /\ wire[n] # <<>>
  /\ LET m == Head(wire[n]) IN
       \/ m.type = "initial" /\ Corroborated(n)
       \/ m.type = "history" /\ Process(n, m)
       \/ m.type = "entry" /\ Embrace(n, m.row)
  /\ UNCHANGED <<state, now, breaks>>
-----------------------------------------------------------------------------
(* coordinator::process_table_history, one query of the table at a time. *)

\* The rows of a query, as they are found: in the order of their timestamps.
Listings(S) ==
  {q \in [1 .. Cardinality(S) -> S] :
     /\ \A r \in S : \E i \in DOMAIN q : q[i] = r
     /\ \A i, j \in DOMAIN q : i < j => Stamp[q[i]] <= Stamp[q[j]]}

SendAll(n, S) ==
  \E q \in Listings(S) : Send(n, [i \in DOMAIN q |-> Entry(q[i])])

\* What comes before the first span is always looked for among the identities.
Selected(n, k, s) ==
  Within(n, IF s.number = 0 THEN "identities" ELSE k, s.from, s.to)

\* Mutated form of HasMore: as many rows are not enough.
HasManyMore(n, k, s) == s.number # Many /\ Cardinality(Within(n, k, s.from, s.to)) > s.number + 1

HasMore(n, k, s) == s.number # Many /\ Cardinality(Within(n, k, s.from, s.to)) > s.number

\* A span that is not sent hides what the other does not have if the other has
\* something instead, or if its number stands for too many. Channels from before
\* the first span are never sent.
Hidden(n, k, s) ==
  LET o == Other(n) IN
  IF s.number = Many \/ (HasMore(n, k, s) /\ Selected(n, k, s) # Within(n, k, s.from, s.to))
     \/ ~(Within(o, k, s.from, s.to) \subseteq table[n])
  THEN Within(n, k, s.from, s.to) ELSE {}

Compare(n) ==
  LET k == reply[n].of IN
  \E s \in First(reply[n].spans) :
    /\ reply' = [reply EXCEPT ![n].spans = @ \ {s}]
    /\ IF HasMore(n, k, s) THEN SendAll(n, Selected(n, k, s)) ELSE UNCHANGED wire
    /\ left' = [left EXCEPT ![Other(n)] = @ \cup Hidden(n, k, s)]
    /\ UNCHANGED <<table, bases, state, passing, now, breaks>>

\* Mutated form of Recent: the threshold itself is left out.
RecentAfter(n) ==
  Within(n, reply[n].of, IF reply[n].threshold = 0 THEN 0 ELSE reply[n].threshold + 1, now)

Recent(n) == Within(n, reply[n].of, reply[n].threshold, now)

\* ... and "finish with the most recent data", up to now: rows with timestamps in
\* the future are not among it.
Finish(n) ==
  /\ reply[n] # Idle /\ reply[n].spans = {}
  /\ SendAll(n, Recent(n))
  /\ left' = [left EXCEPT ![Other(n)] =
                @ \cup {r \in Of(table[n], reply[n].of) \ passing[n] : Stamp[r] > now}]
  /\ reply' = [reply EXCEPT ![n] = Idle]
  /\ UNCHANGED <<table, bases, state, passing, now, breaks>>
-----------------------------------------------------------------------------
Tick ==
  /\ now < MaxNow /\ now' = now + 1
  /\ UNCHANGED <<table, bases, state, wire, reply, passing, breaks, left>>

\* The connection is lost with all that is on its way. If a node stops, so do its
\* workers between insertion and broadcast.
Break ==
  /\ breaks < MaxBreaks /\ breaks' = breaks + 1
  /\ \E n \in Nodes : state[n] # "closed"
  /\ state' = [n \in Nodes |-> "closed"] /\ wire' = [n \in Nodes |-> <<>>]
  /\ reply' = [n \in Nodes |-> Idle]
  /\ \E S \in SUBSET Nodes : passing' = [n \in Nodes |-> IF n \in S THEN {} ELSE passing[n]]
  /\ UNCHANGED <<table, bases, now, left>>

Handle(n) == Established(n) \/ Secure(n) \/ Receive(n) \/ Compare(n) \/ Finish(n)

Next ==
  \/ Tick \/ Break
  \/ \E n \in Nodes :
       \/ Handle(n)
       \/ \E r \in Rows : Arrive(n, r) \/ Broadcast(n, r)

\* Connections are opened again, handlers and workers finish: that one of them
\* goes on is enough. Nothing has to arrive, and nothing has to break.
Fairness == WF_vars(\E n \in Nodes : Handle(n) \/ \E r \in Rows : Broadcast(n, r))

Spec == Init /\ [][Next]_vars /\ Fairness
-----------------------------------------------------------------------------
Quiet ==
  \A n \in Nodes : /\ state[n] = "secured" /\ wire[n] = <<>>
                   /\ reply[n] = Idle /\ passing[n] = {}

\* Each node has the identities of the other, but for those that the rules of the
\* code keep back: the row came when it was old, or was in the future when the
\* request was answered, or lies in a span of which the other counted too many, or
\* in which each has something that the other does not.
InStep == \A n \in Nodes : Of(table[Other(n)], "identities") \subseteq table[n] \cup left[n]

\* When all has been said, the nodes are in step, whatever was inserted while they
\* talked: no row slips through between the answer to a request
\* (process_table_history) and the broadcast of what is new.
CaughtUp == Quiet => InStep

\* When rows come no more (there are finitely many here), the nodes get in step and
\* stay it, across lost connections and restarts.
Converges == <>[]InStep
=============================================================================

---------------------------- MODULE Subscriptions ----------------------------
(***************************************************************************)
(* What the applications of a leaf node subscribe to, and what its peers    *)
(* then send it (raddi::subscription_set, raddi::coordinator).             *)
(*                                                                         *)
(* The node keeps a list for each application, in a file of its own, and     *)
(* tells every peer it is connected to what it wants. A peer keeps a list    *)
(* for the connection: it answers a subscription with what it has and       *)
(* passes on what comes later. Commands of applications are processed in     *)
(* one thread, requests and entries in others, and the lists of the node     *)
(* are under a lock that neither of them holds while it sends.              *)
(***************************************************************************)
EXTENDS Integers, Sequences, FiniteSets, FiniteSetsExt, Functions

CONSTANTS
  Apps, Peers, Core,    \* of the peers, the core nodes
  Topics, Identities,   \* what is subscribed to; of these, identity channels
  Rows, Nothing,        \* entries below a channel
  Root,           \* of a row: its channel and thread
  Near,           \*   ... with its parent and itself
  Own,            \*   ... with itself and its author
  Stamp,          \*   its timestamp
  Stored, Held,   \* what the node and its peers have at the start
  Arriving,       \* what comes to the peers from elsewhere
  MaxIndividual,  \* max_individual_subscriptions, 65536
  MaxUnsolicited, \* max_allowed_unsolicited_entries
  Scale, Depth,   \* 3, and subscription::depth, 19
  Since, Offset,  \* synchronization_threshold and _base_offset
  MaxAge,         \* consensus: 600 s
  Start, MaxNow, MaxCommands, MaxBreaks     \* bounds

ASSUME SubscriptionsAssumption ==
  /\ \A S \in {Apps, Peers, Topics, Rows} : IsFiniteSet(S)
  /\ Core \subseteq Peers /\ Identities \subseteq Topics /\ Nothing \notin Apps \cup Topics
  /\ {Root, Near, Own} \subseteq [Rows -> SUBSET Topics]
  /\ \A r \in Rows : Root[r] \subseteq Near[r] /\ Root[r] \subseteq Own[r]
  /\ Stamp \in [Rows -> Nat]
  /\ Stored \subseteq Rows /\ {Held, Arriving} \subseteq [Peers -> SUBSET Rows]
  /\ {MaxIndividual, MaxUnsolicited, Depth, Since, Offset, MaxAge, Start, MaxNow,
      MaxCommands, MaxBreaks} \subseteq Nat
  /\ Scale \in Nat \ {0} /\ Start <= MaxNow
  /\ \A p \in Peers : \A r \in Held[p] : Stamp[r] <= Start

VARIABLES
  participates,         \* network_propagation_participation: whether it is no leaf
  wanted,     \* subscription_set: how often an application has subscribed
  changed, file,        \* subscriptions::changed, and what is in the files
  saving, open,         \* what subscription_set::flush has still to save
  job,        \* the command that is processed
  state,      \* of a connection, on this side
  wire, feed,           \* requests on their way to a peer, rows on their way back
  list, everything,     \* subscriptions of the connection, at the peer
  reply,      \* the subscription that a peer answers
  held, passing,        \* rows of a peer, and those it has still to broadcast
  stored, recent,       \* database.data and `recent` of the node
  unsolicited,          \* rows that a connection has brought unasked
  now, commands, breaks,
  since       \* history: from when on a peer has been asked for a topic

node  == <<participates, wanted, changed, file, saving, open>>
peer  == <<list, everything, reply, since>>
rows  == <<held, passing>>
data  == <<stored, recent, unsolicited>>
times == <<now, commands, breaks>>
vars  == <<node, job, state, wire, feed, peer, rows, data, times>>

Never == MaxNow + 1      \* a time that is not reached
None  == [t \in Topics |-> 0]
Subscribe(t, from, spans) == [type |-> "subscribe", topic |-> t, from |-> from, spans |-> spans]
Unsubscribe(t) == [type |-> "unsubscribe", topic |-> t]
Everything == [type |-> "everything"]
Request == {Everything} \cup [type : {"unsubscribe"}, topic : Topics]
           \cup [type : {"subscribe"}, topic : Topics, from : Int, spans : Nat]
Idle == [topic |-> Nothing, from |-> 0, older |-> FALSE]
Done == [topic |-> Nothing, step |-> "done"]

TypeOK ==
  /\ participates \in BOOLEAN
  /\ wanted \in [Apps -> [Topics -> Nat]] /\ file \in [Apps -> [Topics -> Nat]]
  /\ changed \in [Apps -> BOOLEAN] /\ saving \subseteq Apps /\ open \in Apps \cup {Nothing}
  /\ job \in {Done} \cup [topic : Topics, step : {"subscribe", "unsubscribe"}]
  /\ state \in [Peers -> {"closed", "secured", "corroborated"}]
  /\ wire \in [Peers -> Seq(Request)] /\ feed \in [Peers -> Seq(Rows)]
  /\ list \in [Peers -> [Topics -> Nat]] /\ everything \in [Peers -> BOOLEAN]
  /\ reply \in [Peers -> {Idle} \cup [topic : Topics, from : Int, older : BOOLEAN]]
  /\ held \in [Peers -> SUBSET Rows] /\ passing \in [Peers -> SUBSET Rows]
  /\ stored \subseteq Rows /\ recent \subseteq Rows
  /\ unsolicited \in [Peers -> 0 .. MaxUnsolicited]
  /\ since \in [Peers -> [Topics -> Int]]
  /\ now \in Start .. MaxNow /\ commands \in 0 .. MaxCommands /\ breaks \in 0 .. MaxBreaks

Init ==
  /\ participates \in BOOLEAN
  /\ wanted = [a \in Apps |-> None] /\ file = [a \in Apps |-> None]
  /\ changed = [a \in Apps |-> FALSE] /\ saving = {} /\ open = Nothing
  /\ job = Done /\ state = [p \in Peers |-> "closed"]
  /\ wire = [p \in Peers |-> <<>>] /\ feed = [p \in Peers |-> <<>>]
  /\ list = [p \in Peers |-> None] /\ everything = [p \in Peers |-> FALSE]
  /\ reply = [p \in Peers |-> Idle] /\ since = [p \in Peers |-> [t \in Topics |-> Never]]
  /\ held = Held /\ passing = [p \in Peers |-> {}]
  /\ stored = Stored /\ recent = {} /\ unsolicited = [p \in Peers |-> 0]
  /\ now = Start /\ commands = 0 /\ breaks = 0
-----------------------------------------------------------------------------
(* coordinator::gather_history *)

\* The timestamps that are counted.
Counted(t) == {Stamp[r] : r \in {x \in stored : t \in Root[x]}}
              \cap ((now - Since) .. (now - Offset))

\* Those that do not belong to the span that begins at `b`.
Beyond(S, b) == {s \in S : s >= b + (now - b) \div Scale + 1}

\* Where the spans begin; the last, or the one at which there are too many, is
\* the threshold from which on everything is requested.
Begins(S) ==
  LET begin[i \in 0 .. Depth] ==
        IF i = 0 THEN Min(S)
        ELSE LET B == Beyond(S, begin[i - 1]) IN IF B = {} THEN begin[i - 1] ELSE Min(B)
  IN  {begin[i] : i \in 0 .. Depth}

Gathered(t) ==
  LET B == IF Counted(t) = {} THEN {} ELSE Begins(Counted(t))
  IN  IF Cardinality(B) <= 1 THEN Subscribe(t, now - Since, 0)
      ELSE Subscribe(t, Max(B), Cardinality(B) - 1)
-----------------------------------------------------------------------------
(* subscription_set, and the commands of the applications. *)

\* subscription_set::is_subscribed
Wants(W, T) == \E a \in Apps : \E t \in T : W[a][t] > 0

\* Flush holds the lock of the set while it saves.
Unlocked == saving = {}

\* coordinator::broadcast of a request
Broadcast(m) ==
  wire' = [p \in Peers |-> IF state[p] = "closed" THEN wire[p] ELSE Append(wire[p], m)]

Command(a, t) ==
  /\ job = Done /\ Unlocked /\ commands < MaxCommands /\ commands' = commands + 1
  /\ changed' = [changed EXCEPT ![a] = TRUE]
  /\ UNCHANGED <<participates, file, saving, open, state, wire, feed, peer, rows, data, now, breaks>>

\* coordinator::subscribe: peers are asked if this is the first to want it.
Add(a, t) ==
  /\ Command(a, t)
  /\ wanted' = [wanted EXCEPT ![a][t] = @ + 1]
  /\ job' = IF participates \/ Wants(wanted, {t}) THEN Done
            ELSE [topic |-> t, step |-> "subscribe"]

\* Mutated form of Remove: the peers are told whoever else wants it.
RemoveForAll(a, t) ==
  /\ wanted[a][t] > 0 /\ Command(a, t)
  /\ wanted' = [wanted EXCEPT ![a][t] = @ - 1]
  /\ job' = IF participates THEN Done ELSE [topic |-> t, step |-> "unsubscribe"]

\* coordinator::unsubscribe: they are told if it was the last.
Remove(a, t) ==
  /\ wanted[a][t] > 0 /\ Command(a, t)
  /\ wanted' = [wanted EXCEPT ![a][t] = @ - 1]
  /\ job' = IF participates \/ Wants(wanted', {t}) THEN Done
            ELSE [topic |-> t, step |-> "unsubscribe"]

Announce ==
  /\ job # Done /\ job' = Done
  /\ Broadcast(IF job.step = "subscribe" THEN Gathered(job.topic) ELSE Unsubscribe(job.topic))
  /\ UNCHANGED <<node, state, feed, peer, rows, data, times>>

\* subscription_set::flush, and subscriptions::save of each list that has changed:
\* the file is created anew and then written, which may fail.
Flush ==
  /\ Unlocked /\ open = Nothing /\ saving' = {a \in Apps : changed[a]}
  /\ UNCHANGED <<participates, wanted, changed, file, open, job, state, wire, feed, peer, rows, data, times>>

Create(a) ==
  /\ a \in saving /\ open = Nothing /\ open' = a
  /\ file' = [file EXCEPT ![a] = None]
  /\ UNCHANGED <<participates, wanted, changed, saving, job, state, wire, feed, peer, rows, data, times>>

\* Mutated form of Write: a list that could not be saved counts as saved.
WriteOnce(a) ==
  /\ open = a /\ open' = Nothing /\ saving' = saving \ {a}
  /\ file' \in {file, [file EXCEPT ![a] = wanted[a]]}
  /\ changed' = [changed EXCEPT ![a] = FALSE]
  /\ UNCHANGED <<participates, wanted, job, state, wire, feed, peer, rows, data, times>>

Write(a) ==
  /\ open = a /\ open' = Nothing /\ saving' = saving \ {a}
  /\ \/ /\ file' = [file EXCEPT ![a] = wanted[a]]
        /\ changed' = [changed EXCEPT ![a] = FALSE]
     \/ UNCHANGED <<file, changed>>
  /\ UNCHANGED <<participates, wanted, job, state, wire, feed, peer, rows, data, times>>
-----------------------------------------------------------------------------
(* Connections, on the side of the node. *)

Secure(p) ==
  /\ state[p] = "closed" /\ state' = [state EXCEPT ![p] = "secured"]
  /\ UNCHANGED <<node, job, wire, feed, peer, rows, data, times>>

\* subscription_set::enumerate: every copy in every list, in some fixed order.
Enumeration(T) ==
  LET D == UNION {{<<a, t>>} \X (1 .. wanted[a][t]) : a \in Apps, t \in T}
  IN  CHOOSE q \in [1 .. Cardinality(D) -> D] : \A d \in D : \E i \in DOMAIN q : q[i] = d

\* Identity channels are asked for of core nodes only.
Enumerable(p) == {t \in Topics : t \notin Identities \/ p \in Core}

\* coordinator::corroborated: the lists are under their lock until all is sent.
Corroborated(p) ==
  /\ state[p] = "secured" /\ state' = [state EXCEPT ![p] = "corroborated"]
  /\ LET q == Enumeration(Enumerable(p)) IN
       wire' = [wire EXCEPT ![p] = @ \o (IF participates THEN <<Everything>> ELSE <<>>)
                                     \o [i \in DOMAIN q |-> Gathered(q[i][1][2])]]
  /\ UNCHANGED <<node, job, feed, peer, rows, data, times>>

\* raddi::older
Old(r) == Stamp[r] + MaxAge < now

\* The connections that end, with all that is on its way and what the peer
\* remembers.
Close(C) ==
  /\ state' = [p \in Peers |-> IF p \in C THEN "closed" ELSE state[p]]
  /\ wire' = [p \in Peers |-> IF p \in C THEN <<>> ELSE wire[p]]
  /\ feed' = [p \in Peers |-> IF p \in C THEN <<>> ELSE feed[p]]
  /\ list' = [p \in Peers |-> IF p \in C THEN None ELSE list[p]]
  /\ everything' = [p \in Peers |-> p \notin C /\ everything[p]]
  /\ reply' = [p \in Peers |-> IF p \in C THEN Idle ELSE reply[p]]
  /\ since' = [p \in Peers |-> IF p \in C THEN [t \in Topics |-> Never] ELSE since[p]]

\* embrace of a row that has come from a peer. The ones whose parents are not known
\* are left to Embrace.
Embrace(p) ==
  /\ feed[p] # <<>>
  /\ LET r == Head(feed[p]) IN
       /\ recent' = recent \cup {r}
       /\ stored' = IF r \notin recent /\ Wants(wanted, Own[r]) THEN stored \cup {r} ELSE stored
       /\ IF r \in recent \/ participates \/ Wants(wanted, Own[r])
          THEN /\ feed' = [feed EXCEPT ![p] = Tail(@)]
               /\ UNCHANGED <<state, wire, peer, unsolicited>>
          ELSE IF unsolicited[p] < MaxUnsolicited
          THEN /\ feed' = [feed EXCEPT ![p] = Tail(@)]
               /\ unsolicited' = [unsolicited EXCEPT ![p] = @ + 1]
               /\ UNCHANGED <<state, wire, peer>>
          ELSE /\ Close({p}) /\ unsolicited' = [unsolicited EXCEPT ![p] = 0]
  /\ UNCHANGED <<node, job, rows, times>>

\* noticed::clean
Clean ==
  /\ recent' = {r \in recent : ~Old(r)} /\ recent' # recent
  /\ UNCHANGED <<node, job, state, wire, feed, peer, rows, stored, unsolicited, times>>
-----------------------------------------------------------------------------
(* The peer. *)

\* subscriptions::subscribe
Full(p) == SumFunction(list[p]) >= MaxIndividual

\* request::validate: request::subscription::size would have counted the topic, too,
\* so two spans are missing from what is sent.
Valid(m) == m.spans >= 2

TakeSubscribe(p, m) ==
  /\ m.type = "subscribe" /\ Valid(m)
  /\ \/ /\ everything[p] /\ UNCHANGED <<list, everything>>
     \/ /\ ~everything[p] /\ ~Full(p)
        /\ list' = [list EXCEPT ![p][m.topic] = @ + 1] /\ UNCHANGED everything
     \/ /\ ~everything[p] /\ Full(p)
        /\ list' = [list EXCEPT ![p] = None] /\ everything' = [everything EXCEPT ![p] = TRUE]
  /\ since' = [since EXCEPT ![p][m.topic] = m.from]
  /\ reply' = [reply EXCEPT ![p] = [topic |-> m.topic, from |-> m.from, older |-> TRUE]]

\* Mutated form of TakeUnsubscribe: a copy is taken away though there may be none.
TakeUnsubscribeBlindly(p, m) ==
  /\ m.type = "unsubscribe"
  /\ list' = [list EXCEPT ![p][m.topic] = IF everything[p] THEN @ ELSE @ - 1]
  /\ UNCHANGED <<everything, reply, since>>

\* subscriptions::unsubscribe takes one copy away.
TakeUnsubscribe(p, m) ==
  /\ m.type = "unsubscribe"
  /\ \/ /\ ~everything[p] /\ list[p][m.topic] > 0
        /\ list' = [list EXCEPT ![p][m.topic] = @ - 1]
        /\ since' = [since EXCEPT ![p][m.topic] = IF list'[p][m.topic] = 0 THEN Never ELSE @]
     \/ (everything[p] \/ list[p][m.topic] = 0) /\ UNCHANGED <<list, since>>
  /\ UNCHANGED <<everything, reply>>

TakeEverything(p, m) ==
  /\ m = Everything
  /\ list' = [list EXCEPT ![p] = None] /\ everything' = [everything EXCEPT ![p] = TRUE]
  /\ UNCHANGED <<reply, since>>

\* coordinator::process
Process(p) ==
  /\ wire[p] # <<>> /\ reply[p] = Idle
  /\ LET m == Head(wire[p]) IN
       \/ TakeSubscribe(p, m) \/ TakeUnsubscribe(p, m) \/ TakeEverything(p, m)
  /\ wire' = [wire EXCEPT ![p] = Tail(@)]
  /\ UNCHANGED <<node, job, state, feed, rows, data, times>>

\* The request is not understood: the peer disconnects.
Refuse(p) ==
  /\ wire[p] # <<>> /\ reply[p] = Idle
  /\ Head(wire[p]).type = "subscribe" /\ ~Valid(Head(wire[p]))
  /\ Close({p}) /\ unsolicited' = [unsolicited EXCEPT ![p] = 0]
  /\ UNCHANGED <<node, job, rows, stored, recent, times>>

About(p) == {r \in held[p] : reply[p].topic \in Root[r]}

\* The rows of a query, as they are found: in the order of their timestamps.
Listings(S) ==
  {q \in [1 .. Cardinality(S) -> S] :
     /\ \A r \in S : \E i \in DOMAIN q : q[i] = r
     /\ \A i, j \in DOMAIN q : i < j => Stamp[q[i]] <= Stamp[q[j]]}

SendAll(p, S) == \E q \in Listings(S) : feed' = [feed EXCEPT ![p] = @ \o q]

\* coordinator::process_history: threads and the spans. Of these the last two are
\* read from beyond the request, and the others follow them: what they are is not
\* known.
Older(p) ==
  /\ reply[p] # Idle /\ reply[p].older
  /\ \E S \in SUBSET {r \in About(p) : Stamp[r] < reply[p].from} : SendAll(p, S)
  /\ reply' = [reply EXCEPT ![p].older = FALSE]
  /\ UNCHANGED <<node, job, state, wire, list, everything, since, rows, data, times>>

\* Mutated form of Recent: what has just been inserted is left to the broadcast.
RecentBefore(p) == {r \in About(p) : reply[p].from <= Stamp[r] /\ Stamp[r] < now}

\* ... "finish with the most recent data"
Recent(p) == {r \in About(p) : reply[p].from <= Stamp[r] /\ Stamp[r] <= now}

Finish(p) ==
  /\ reply[p] # Idle /\ ~reply[p].older
  /\ SendAll(p, Recent(p))
  /\ reply' = [reply EXCEPT ![p] = Idle]
  /\ UNCHANGED <<node, job, state, wire, list, everything, since, rows, data, times>>

\* embrace at the peer: a row is inserted, then broadcast unless it is old.
Arrive(p, r) ==
  /\ r \in Arriving[p] \ held[p] /\ Stamp[r] <= now
  /\ held' = [held EXCEPT ![p] = @ \cup {r}]
  /\ passing' = IF Old(r) THEN passing ELSE [passing EXCEPT ![p] = @ \cup {r}]
  /\ UNCHANGED <<node, job, state, wire, feed, peer, data, times>>

\* subscriptions::is_subscribed of the connection
Subscribed(p, T) == everything[p] \/ \E t \in T : list[p][t] > 0

\* coordinator::broadcast of an entry
Pass(p, r) ==
  /\ r \in passing[p] /\ passing' = [passing EXCEPT ![p] = @ \ {r}]
  /\ feed' = IF state[p] # "closed" /\ Subscribed(p, Near[r])
             THEN [feed EXCEPT ![p] = Append(@, r)] ELSE feed
  /\ UNCHANGED <<node, job, state, wire, peer, held, data, times>>
-----------------------------------------------------------------------------
Tick ==
  /\ now < MaxNow /\ now' = now + 1
  /\ UNCHANGED <<node, job, state, wire, feed, peer, rows, data, commands, breaks>>

Break(p) ==
  /\ state[p] # "closed" /\ breaks < MaxBreaks /\ breaks' = breaks + 1
  /\ Close({p}) /\ unsolicited' = [unsolicited EXCEPT ![p] = 0]
  /\ UNCHANGED <<node, job, rows, stored, recent, now, commands>>

\* The node stops, at any moment, and starts with what it finds in the files
\* (subscription_set::load).
Restart ==
  /\ breaks < MaxBreaks /\ breaks' = breaks + 1
  /\ wanted' = file /\ changed' = [a \in Apps |-> FALSE] /\ saving' = {} /\ open' = Nothing
  /\ job' = Done /\ Close(Peers) /\ unsolicited' = [p \in Peers |-> 0]
  /\ recent' = {}
  /\ UNCHANGED <<participates, file, rows, stored, now, commands>>

Next ==
  \/ Announce \/ Flush \/ Clean \/ Tick \/ Restart
  \/ \E a \in Apps : Create(a) \/ Write(a) \/ \E t \in Topics : Add(a, t) \/ Remove(a, t)
  \/ \E p \in Peers :
       \/ Secure(p) \/ Corroborated(p) \/ Embrace(p) \/ Break(p)
       \/ Process(p) \/ Refuse(p) \/ Older(p) \/ Finish(p)
       \/ \E r \in Rows : Arrive(p, r) \/ Pass(p, r)

Spec == Init /\ [][Next]_vars
-----------------------------------------------------------------------------
\* A peer that knows all that the node wants has been asked for it: commands,
\* connections that are made, and requests on their way do not overtake each other.
Asked ==
  \A p \in Peers : state[p] = "corroborated" /\ wire[p] = <<>> /\ job = Done =>
    \A t \in Enumerable(p) : Wants(wanted, {t}) => Subscribed(p, {t})

\* No row falls between the answer to a subscription and the broadcast of what is
\* new: what the peer has since the time it was asked for is at the node (which may
\* have dropped it), on its way, or about to be sent, until it is too old.
NoGap ==
  \A p \in Peers : \A t \in Topics : \A r \in held[p] :
    /\ Subscribed(p, {t}) /\ t \in Root[r] /\ since[p][t] <= Stamp[r] /\ ~Old(r)
    => \/ r \in stored \cup recent \cup passing[p]
       \/ \E i \in DOMAIN feed[p] : feed[p][i] = r
       \/ reply[p].topic = t /\ reply[p].from <= Stamp[r]

\* What a restart finds is what the applications want, but for lists that have yet
\* to be saved: a write that fails is done again.
FilesFollow == \A a \in Apps : ~changed[a] => file[a] = wanted[a]
=============================================================================

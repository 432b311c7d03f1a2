------------------------------- MODULE Peers -------------------------------
(***************************************************************************)
(* The addresses that a node knows, on their levels (raddi::db::peerset),    *)
(* and the coordinator that moves them from level to level, bans them and    *)
(* connects to them.                                                       *)
(*                                                                         *)
(* Each level has a lock of its own and the connections have another, so     *)
(* coordinator::move, which finds an address, erases it and inserts it,      *)
(* takes its steps between those of others: the handlers of connections, the *)
(* user's commands and the main thread.                                    *)
(***************************************************************************)
EXTENDS Integers, FiniteSets

CONSTANTS
  Hosts,           \* IP addresses; each listens on one port
  Callers,         \* those that connect to this node
  Mirrors,         \* those that lead back to this node
  Slots,           \* places for connections; a bound
  Main, User,      \* the main thread; the one that runs the user's commands
  Absent, Nobody,
  Connections,     \* settings: as many connections as to keep established,
  MaxConnections,  \*   and as many as there may be, 0 for any number;
  MinCore, MaxCore,     \*   connections to core nodes
  MaxAttempts,     \* coordinator_max_concurrent_connection_attempts, 8
  New, Fresh,      \* assessments: 0x40 of most, 2 of announced addresses
  Penalty, Top,    \* 0xF for a disagreement; the largest, 0xFF
  Days,            \* how long who bans: 14, 28, 64 and 365
  MaxDay, MaxHeard, MaxInbound,   \* bounds
  Known            \* the addresses known at the start, by level

core == 0   established == 1   validated == 2   announced == 3   blacklisted == 4
Levels == 0 .. 4

Threads   == Slots \cup {Main, User}
Addresses == Hosts \X {"port", "any"}
Port(h)   == <<h, "port">>     \* where the host listens
Whole(h)    == <<h, "any">>      \* port 0: all of the host

Stages == {"free", "connecting", "pending", "securing", "secured", "failing", "forgetting",
           "retired"}
Phases == {"idle", "choose", "open", "flush", "dead"}

ASSUME PeersAssumption ==
  /\ Mirrors \subseteq Hosts /\ Callers \subseteq Hosts /\ Main # User /\ {Main, User} \cap Slots = {}
  /\ IsFiniteSet(Slots)
  /\ Absent \notin Int /\ Nobody \notin Hosts
  /\ {Connections, MaxConnections, MinCore, MaxCore, MaxAttempts, MaxDay,
      MaxHeard, MaxInbound} \subseteq Nat
  /\ {New, Fresh, Penalty, Top} \subseteq Nat \ {0} /\ Fresh <= Top
  /\ New <= Top /\ (9 * (New - 1)) \div 8 + 1 <= Top
  /\ Days \in [{"disagreed", "reflected", "unusable", "user"} -> Nat \ {0}]
  /\ Known \in [Levels -> SUBSET Hosts]
  /\ \A k, l \in Levels : k # l => Known[k] \cap Known[l] = {}

VARIABLES
  peers,       \* database.peers: assessments by level and address; of the
               \* blacklist, the day on which the ban ends
  conn,        \* coordinator::connections
  task,        \* where each thread is within coordinator::move
  main,        \* where the main thread is within coordinator::operator ()
  requests,    \* connect_requests
  oneMore,     \* connect_one_more_announced_node
  day,         \* raddi::now () / 86400
  heard,    \* history: commands given and announcements heard
  raced        \* history: hosts that two threads have been at, at once

vars == <<peers, conn, task, main, requests, oneMore, day, heard, raced>>

NoConnection == [stage |-> "free", host |-> Nobody, out |-> FALSE,
                 level |-> blacklisted]
Connection == [stage : Stages, host : Hosts \cup {Nobody}, out : BOOLEAN, level : Levels]
NoTask == [pc |-> "none", addr |-> <<Nobody, "any">>, from |-> core, to |-> core,
           rank |-> 0, kind |-> "insert"]
Task == [pc : {"none", "find", "erase", "insert", "adjust"},
         addr : Addresses \cup {<<Nobody, "any">>}, from : Levels, to : Levels,
         rank : Nat, kind : {"insert", "adjust", "connection"}]

On(l, a)    == peers[l][a] # Absent
Found(a)    == {l \in Levels : On(l, a)}
Highest(S)  == CHOOSE l \in S : \A k \in S : k <= l      \* coordinator::find
Peer(c)     == IF conn[c].out THEN Port(conn[c].host) ELSE Whole(conn[c].host)
Used        == {c \in Slots : conn[c].stage # "free"}
Alive       == {c \in Used : conn[c].stage # "retired"}
Secured     == {c \in Slots : conn[c].stage = "secured"}
Idle        == [pc |-> "idle", n |-> 0, core |-> FALSE,
                batch |-> [h \in Hosts |-> Absent]]

TypeOK ==
  /\ peers \in [Levels -> [Addresses -> Nat \cup {Absent}]]
  /\ \A l \in Levels \ {blacklisted}, a \in Addresses : On(l, a) => peers[l][a] <= Top
  /\ conn \in [Slots -> Connection] /\ task \in [Threads -> Task]
  /\ main \in [pc : Phases, n : Nat, core : BOOLEAN,
               batch : [Hosts -> Levels \cup {Absent}]]
  /\ requests \subseteq Hosts /\ oneMore \in BOOLEAN
  /\ day \in 0 .. MaxDay /\ heard \in 0 .. MaxHeard /\ raced \subseteq Hosts

Init ==
  /\ peers = [l \in Levels |-> [a \in Addresses |->
       IF a[2] = "port" /\ a[1] \in Known[l]
       THEN IF l = blacklisted THEN 1 ELSE New ELSE Absent]]
  /\ conn = [c \in Slots |-> NoConnection] /\ task = [t \in Threads |-> NoTask]
  /\ main = Idle /\ requests = {} /\ oneMore = FALSE
  /\ day = 0 /\ heard = 0 /\ raced = {}
-----------------------------------------------------------------------------
(* peerset::erase, insert and adjust, each under the lock of its level. *)

\* The address without a port stands for all of its host.
Erased(l, a) == [peers EXCEPT ![l] = [b \in Addresses |->
  IF b = a \/ (a[2] = "any" /\ b[1] = a[1]) THEN Absent ELSE @[b]]]

Inserted(l, a, r) == IF On(l, a) THEN peers ELSE [peers EXCEPT ![l][a] = r]

\* Mutated form of Clamp: the assessment is not kept within a byte.
ClampBelow(r) == IF r < 0 THEN 0 ELSE r

Clamp(r) == IF r < 0 THEN 0 ELSE IF r > Top THEN Top ELSE r

Adjusted(l, a, d) == IF On(l, a) THEN [peers EXCEPT ![l][a] = Clamp(@ + d)] ELSE peers
Rank(l, a, d)     == IF On(l, a) THEN Clamp(peers[l][a] + d) ELSE 0
-----------------------------------------------------------------------------
(* coordinator::move, in any thread. *)

\* Mutated form of Start: the address is not looked for on the other levels.
StartInserting(t, a, to, r, kind) ==
  task' = [task EXCEPT ![t] = [pc |-> "insert", addr |-> a, from |-> to, to |-> to,
                               rank |-> r, kind |-> kind]]

Start(t, a, to, r, kind) ==
  task' = [task EXCEPT ![t] = [pc |-> IF kind = "insert" THEN "insert" ELSE "find",
                               addr |-> a, from |-> to, to |-> to, rank |-> r, kind |-> kind]]
Finish(t) == task' = [task EXCEPT ![t] = NoTask]
GoTo(t, pc) == task' = [task EXCEPT ![t].pc = pc]

\* The lock of the connections is free: `open` holds it exclusively.
Unlocked == main.pc # "dead" /\ ~(main.pc = "open" /\ \E h \in Hosts : main.batch[h] # Absent)

\* Mutated form of MoveFind: a banned address is moved like any other.
MoveFindAny(t) ==
  /\ task[t].pc = "find"
  /\ LET S == Found(task[t].addr) IN
       \/ S = {} /\ GoTo(t, "insert")
       \/ S # {} /\ task' = [task EXCEPT ![t].pc = "erase", ![t].from = Highest(S)]
  /\ UNCHANGED <<peers, conn, main, requests, oneMore, day, heard>>

MoveFind(t) ==
  /\ task[t].pc = "find"
  /\ LET S == Found(task[t].addr) IN
       \/ S = {} /\ GoTo(t, "insert")
       \/ blacklisted \in S /\ Finish(t)
       \/ /\ S # {} /\ blacklisted \notin S
          /\ task' = [task EXCEPT ![t].pc = "erase", ![t].from = Highest(S)]
  /\ UNCHANGED <<peers, conn, main, requests, oneMore, day, heard>>

\* Mutated form of MoveErase: the move ends with the erasure.
MoveEraseOnly(t) ==
  /\ task[t].pc = "erase"
  /\ peers' = Erased(task[t].from, task[t].addr)
  /\ Finish(t)
  /\ UNCHANGED <<conn, main, requests, oneMore, day, heard>>

MoveErase(t) ==
  /\ task[t].pc = "erase"
  /\ peers' = Erased(task[t].from, task[t].addr)
  /\ task' = [task EXCEPT ![t].pc = "find", ![t].from = task[t].to]
  /\ UNCHANGED <<conn, main, requests, oneMore, day, heard>>

MoveInsert(t) ==
  /\ task[t].pc = "insert"
  /\ peers' = Inserted(task[t].to, task[t].addr, task[t].rank)
  /\ \/ task[t].kind = "insert" /\ Finish(t) /\ UNCHANGED conn
     \/ task[t].kind = "adjust" /\ GoTo(t, "adjust") /\ UNCHANGED conn
     \/ task[t].kind = "connection" /\ Finish(t) /\ t \in Slots
        /\ conn' = [conn EXCEPT ![t].level = task[t].to]
  /\ UNCHANGED <<main, requests, oneMore, day, heard>>

MoveAdjust(t) ==
  /\ task[t].pc = "adjust" /\ Unlocked
  /\ conn' = [c \in Slots |-> IF c \in Alive /\ Peer(c) = task[t].addr
                              THEN [conn[c] EXCEPT !.level = task[t].to] ELSE conn[c]]
  /\ Finish(t)
  /\ UNCHANGED <<peers, main, requests, oneMore, day, heard>>

Move(t) == MoveFind(t) \/ MoveErase(t) \/ MoveInsert(t) \/ MoveAdjust(t)

Ban(t, a, who) == Start(t, a, blacklisted, day + Days[who], "adjust")
-----------------------------------------------------------------------------
(* Connections: what their handlers do with the coordinator. *)

In(c, s)  == conn[c].stage = s /\ task[c].pc = "none"
To(c, s)  == conn' = [conn EXCEPT ![c].stage = s]

Accept(c, h) ==      \* coordinator::incomming
  /\ conn[c].stage = "free" /\ h \in Callers /\ Unlocked /\ ~On(blacklisted, Whole(h))
  /\ Cardinality({d \in Used : ~conn[d].out}) < MaxInbound
  /\ conn' = [conn EXCEPT ![c] = [stage |-> "pending", host |-> h, out |-> FALSE,
                level |-> IF On(core, Port(h)) THEN core ELSE blacklisted]]
  /\ UNCHANGED <<peers, task, main, requests, oneMore, day, heard>>

Connected(c) ==
  /\ In(c, "connecting") /\ To(c, "pending")
  /\ UNCHANGED <<peers, task, main, requests, oneMore, day, heard>>

Fail(c) ==           \* the connection fails, or the other end closes it
  /\ \/ (In(c, "connecting") \/ In(c, "pending")) /\ To(c, "failing")
     \/ In(c, "secured") /\ To(c, "retired")
  /\ UNCHANGED <<peers, task, main, requests, oneMore, day, heard>>

\* coordinator::reciprocal
Reciprocal(c) == \E d \in Secured \ {c} : conn[d].host = conn[c].host

Reflected(c, d) ==   \* coordinator::reflecting: the keys of `c` are those of `d`
  /\ In(c, "pending") /\ Unlocked /\ c # d
  /\ conn[d].stage \in {"pending", "connecting"} /\ conn[d].host = conn[c].host
  /\ conn[c].host \in Mirrors
  /\ To(c, "failing") /\ Ban(c, Peer(d), "reflected")
  /\ UNCHANGED <<peers, main, requests, oneMore, day, heard>>

\* connection::head goes well: coordinator::established.
Established(c) ==
  /\ In(c, "pending") /\ Unlocked /\ ~Reciprocal(c)
  /\ LET l == conn[c].level   a == Peer(c)   raised == Rank(l, a, 1) > New + 1 IN
       \/ /\ ~conn[c].out \/ l \in {core, blacklisted}
          /\ UNCHANGED <<peers, task>>
       \/ /\ conn[c].out /\ l \in {established, validated}
          /\ peers' = Adjusted(l, a, 1)
          /\ IF l = validated /\ raised THEN Start(c, a, established, New, "connection")
                                        ELSE UNCHANGED task
       \/ /\ conn[c].out /\ l = announced
          /\ Start(c, a, validated, New, "connection") /\ UNCHANGED peers
  /\ To(c, "securing")
  /\ UNCHANGED <<main, requests, oneMore, day, heard>>

Secure(c) ==
  /\ In(c, "securing") /\ To(c, "secured")
  /\ UNCHANGED <<peers, task, main, requests, oneMore, day, heard>>

\* The ends disagree: on the proposal (for one that is reciprocal, too), a frame, an
\* entry or a request. coordinator::disagreed.
Disagreed(c) ==
  /\ Unlocked
  /\ \/ In(c, "pending") /\ To(c, "failing")
     \/ In(c, "secured") /\ To(c, "retired")
  /\ LET l == conn[c].level   a == Peer(c) IN
       \/ /\ l # blacklisted /\ conn[c].out
          /\ peers' = Adjusted(l, a, -Penalty)
          /\ IF Rank(l, a, -Penalty) = 0 THEN Ban(c, a, "disagreed") ELSE UNCHANGED task
       \/ (l = blacklisted \/ ~conn[c].out) /\ UNCHANGED <<peers, task>>
  /\ UNCHANGED <<main, requests, oneMore, day, heard>>

Unavailable(c) ==    \* one that is not secured fails: coordinator::unavailable
  /\ In(c, "failing") /\ Unlocked
  /\ LET l == conn[c].level   a == Peer(c) IN
       \/ /\ conn[c].out /\ Secured # {} /\ l # blacklisted
          /\ peers' = Adjusted(l, a, -1)
          /\ To(c, IF Rank(l, a, -1) = 0 THEN "forgetting" ELSE "retired")
       \/ /\ ~conn[c].out \/ Secured = {} \/ l = blacklisted
          /\ To(c, "retired") /\ UNCHANGED peers
  /\ UNCHANGED <<task, main, requests, oneMore, day, heard>>

\* The level is read again: another thread may have changed it since.
Forget(c) ==
  /\ In(c, "forgetting")
  /\ peers' = Erased(conn[c].level, Peer(c))
  /\ To(c, "retired")
  /\ UNCHANGED <<task, main, requests, oneMore, day, heard>>
-----------------------------------------------------------------------------
(* What peers announce (coordinator::process), and what the user commands. *)

\* Announced addresses are sometimes taken for validated, with any assessment.
FakeRanks == {(9 * r) \div 8 + 1 : r \in 0 .. New - 1}

Hear == heard < MaxHeard /\ heard' = heard + 1

NewPeer(c, h, fromCore) ==     \* ipv4peer, ipv6peer
  /\ Hear
  /\ In(c, "secured") /\ h # conn[c].host /\ ~On(blacklisted, Port(h))
  /\ \/ fromCore /\ conn[c].level = core /\ Start(c, Port(h), core, New, "adjust")
     \/ /\ ~(fromCore /\ conn[c].level = core) /\ Found(Port(h)) = {}
        /\ \/ Start(c, Port(h), announced, Fresh, "insert")
           \/ \E r \in FakeRanks : Start(c, Port(h), validated, r, "insert")
  /\ UNCHANGED <<peers, conn, main, requests, oneMore, day>>

Listening(c) ==
  /\ Hear
  /\ In(c, "secured") /\ Found(Port(conn[c].host)) = {}
  /\ Start(c, Port(conn[c].host), announced, New, "insert")
  /\ oneMore' = TRUE
  /\ UNCHANGED <<peers, conn, main, requests, day>>

\* coordinator::add
Add(t, h, where) ==
  \/ Found(Port(h)) = {} /\ Start(t, Port(h), where, New, "insert")
  \/ Found(Port(h)) # {} /\ Highest(Found(Port(h))) > where
     /\ Start(t, Port(h), where, New, "adjust")

Command ==
  /\ Hear /\ task[User].pc = "none"
  /\ \/ /\ \E a \in Addresses : Ban(User, a, "user")
        /\ UNCHANGED <<peers, requests>>
     \/ /\ \E a \in Addresses : peers' = Erased(blacklisted, a)             \* unban_peer
        /\ UNCHANGED <<task, requests>>
     \/ /\ \E h \in Hosts : peers' = [l \in Levels |-> IF l = blacklisted THEN peers[l]
                                      ELSE Erased(l, Port(h))[l]]           \* rem_peer
        /\ UNCHANGED <<task, requests>>
     \/ /\ \E h \in Hosts, l \in {announced, core} : Add(User, h, l)
        /\ UNCHANGED <<peers, requests>>
     \/ /\ Unlocked                                                         \* connect_peer
        /\ \E h \in Hosts : /\ requests' = requests \cup {h}
                            /\ Add(User, h, announced) \/ UNCHANGED task
        /\ UNCHANGED peers
  /\ UNCHANGED <<conn, main, oneMore, day>>
-----------------------------------------------------------------------------
(* The main thread: coordinator::operator (), and sweep. *)

AtLevel(S, l) == Cardinality({c \in S : conn[c].level = l})

\* How many connections to try: as many as are missing, and as there is room for.
Missing == IF Cardinality(Secured) < Connections THEN Connections - Cardinality(Secured) ELSE 0
Wanted  == IF Missing > MaxAttempts THEN MaxAttempts ELSE Missing
Room    == MaxConnections - Cardinality(Used)
Clipped == MaxConnections > 0 /\ Wanted > Room
Budget  == IF Clipped THEN Room ELSE Wanted

\* Whether to try a core node; `waited`: 30 s without any connection.
CoreWanted(waited) ==
  /\ Budget > 0
  /\ AtLevel({c \in Slots : conn[c].stage = "connecting"}, core) < MaxCore
  /\ \/ AtLevel(Secured, core) < MinCore
     \/ Cardinality(Secured) <= 1 /\ waited

Tick ==
  /\ main.pc = "idle"
  /\ \/ /\ MaxConnections > 0 /\ Room <= 0
        /\ main' = [main EXCEPT !.pc = "flush"] /\ UNCHANGED oneMore
     \/ /\ MaxConnections = 0 \/ Room > 0
        /\ \E waited \in BOOLEAN :
             main' = [main EXCEPT !.pc = "choose", !.n = Budget, !.core = CoreWanted(waited)]
        /\ oneMore' = (oneMore /\ ~Clipped)
  /\ UNCHANGED <<peers, conn, task, requests, day, heard>>

\* Mutated form of InUse: attempts under way are not counted.
InUseSecured(h) == \E c \in Secured : conn[c].host = h

InUse(h) == \E c \in Used : conn[c].host = h
Banned(h) == On(blacklisted, Port(h)) \/ On(blacklisted, Whole(h))

\* select_unused_addresses takes as many random addresses of a level as are wanted,
\* and of these the ones that pass.
Selectable(l) == {h \in Hosts : On(l, Port(h)) /\ ~InUse(h) /\ ~Banned(h)}
Lesser(i, j)  == IF i < j THEN i ELSE j

\* The levels are looked through one after the other, and in between the user's
\* requests, which are not looked up in the blacklist. `batch` is by address, so
\* the first level to yield an address keeps it.
Choose ==
  /\ main.pc = "choose"
  /\ \E batch \in [Hosts -> {core, established, validated, announced, Absent}],
        S \in SUBSET (requests \ {conn[c].host : c \in {d \in Alive : conn[d].out}}) :
       LET at(l) == {h \in Hosts : batch[h] = l}
           left  == requests \ {conn[c].host : c \in {d \in Alive : conn[d].out}}
           n1    == main.n - Cardinality(at(core))
           n2    == n1 - Cardinality(S)
           n3    == n2 - Cardinality(at(established))
           n4    == n3 - Cardinality(at(validated))
           more  == n4 > 0 \/ oneMore
       IN /\ Cardinality(at(core)) <= IF main.core THEN 1 ELSE 0
          /\ IF n1 > 0 THEN n2 >= 0 /\ (n2 > 0 => S = left) ELSE S = {}
          /\ S \subseteq at(core) \cup at(announced)
          /\ Cardinality(at(established)) <= Lesser(n2, Connections \div 2)
          /\ Cardinality(at(validated)) <= Lesser(n3, Connections \div 4)
          /\ Cardinality(at(announced) \ S) <= IF more THEN 1 ELSE 0
          /\ \A h \in Hosts \ S : batch[h] # Absent => h \in Selectable(batch[h])
          /\ requests' = IF n1 > 0 THEN left \ S ELSE requests
          /\ oneMore' = (oneMore /\ ~more)
          /\ main' = [pc |-> "open", n |-> 0, core |-> FALSE, batch |-> batch]
  /\ UNCHANGED <<peers, conn, task, day, heard>>

\* The connections are added under the exclusive lock.
Open(c, h) ==
  /\ main.pc = "open" /\ main.batch[h] # Absent /\ conn[c].stage = "free"
  /\ conn' = [conn EXCEPT ![c] = [stage |-> "connecting", host |-> h, out |-> TRUE,
                                  level |-> main.batch[h]]]
  /\ main' = [main EXCEPT !.batch[h] = Absent]
  /\ UNCHANGED <<peers, task, requests, oneMore, day, heard>>

\* One cannot be created, and its address is banned, or fails to connect at once:
\* move, or unavailable, then waits for the lock that its own thread holds.
OpenFails(h) ==
  /\ main.pc = "open" /\ main.batch[h] # Absent
  /\ main' = [main EXCEPT !.pc = "dead"]
  /\ Ban(Main, Port(h), "unusable") \/ UNCHANGED task
  /\ UNCHANGED <<peers, conn, requests, oneMore, day, heard>>

\* coordinator::flush: peerset::prune of the blacklist.
Flush ==
  /\ \/ main.pc = "flush"
     \/ main.pc = "open" /\ \A h \in Hosts : main.batch[h] = Absent
  /\ main' = Idle
  /\ peers' = [peers EXCEPT ![blacklisted] = [a \in Addresses |->
                 IF On(blacklisted, a) /\ day >= @[a] THEN Absent ELSE @[a]]]
  /\ UNCHANGED <<conn, task, requests, oneMore, day, heard>>

Sweep(c) ==
  /\ main.pc = "idle" /\ conn[c].stage = "retired" /\ task[c].pc = "none"
  /\ conn' = [conn EXCEPT ![c] = NoConnection]
  /\ UNCHANGED <<peers, task, main, requests, oneMore, day, heard>>

NextDay ==
  /\ day < MaxDay /\ day' = day + 1
  /\ UNCHANGED <<peers, conn, task, main, requests, oneMore, heard>>
-----------------------------------------------------------------------------
Coordinator == Tick \/ Choose \/ Flush \/ \E c \in Slots, h \in Hosts : Open(c, h)

Handler(c) == Secure(c) \/ Unavailable(c) \/ Forget(c)

\* The hosts that a thread is about to change something of.
At(t) == (IF task[t].pc # "none" THEN {task[t].addr[1]} ELSE {})
         \cup (IF t \in Slots /\ conn[t].stage = "forgetting" THEN {conn[t].host} ELSE {})
         \cup (IF t = Main THEN {h \in Hosts : main.batch[h] # Absent} ELSE {})

Meeting == {h \in Hosts : Cardinality({t \in Threads : h \in At(t)}) > 1}

Step ==
  \/ Coordinator \/ Command \/ NextDay
  \/ \E h \in Hosts : OpenFails(h)
  \/ \E t \in Threads : Move(t)
  \/ \E c \in Slots :
       \/ Handler(c) \/ Sweep(c) \/ Connected(c) \/ Fail(c) \/ Established(c)
       \/ Disagreed(c) \/ Listening(c)
       \/ \E d \in Slots : Reflected(c, d)
       \/ \E h \in Hosts : Accept(c, h) \/ \E fromCore \in BOOLEAN : NewPeer(c, h, fromCore)

Next == Step /\ raced' = raced \cup Meeting'

Spec == Init /\ [][Next]_vars
-----------------------------------------------------------------------------
\* A known address is on one level, unless two threads have been at it at once:
\* move erases it wherever it is before it inserts it.
OneLevel == \A a \in Addresses : a[1] \notin raced => Cardinality(Found(a)) <= 1

\* A ban ends on its day or by the user's command, and nothing else takes the
\* address off the blacklist, unless two threads have been at it at once.
BansHold ==
  [][\A a \in Addresses :
       On(blacklisted, a) /\ ~On(blacklisted, a)' =>
         a[1] \in raced \/ day >= peers[blacklisted][a] \/ heard' > heard]_vars

\* No address is lost while it is moved, even if several threads move it: what is
\* known stays known, or some thread is about to insert it, until it has failed
\* too often, its ban is over, or the user removes it.
HasPlace(h) ==
  Found(Port(h)) # {} \/ \E t \in Threads : /\ task[t].pc \in {"find", "erase", "insert"}
                                             /\ task[t].addr = Port(h)

MovedNotLost ==
  [][\A h \in Hosts :
       HasPlace(h) /\ ~HasPlace(h)' =>
         \/ heard' > heard
         \/ \E c \in Slots : conn[c].stage = "forgetting" /\ conn[c].host = h
         \/ On(blacklisted, Port(h)) /\ day >= peers[blacklisted][Port(h)]]_vars

\* Nobody is connected to twice: inuse and the batch see to it while connections
\* come and go.
OutboundOnce ==
  \A c, d \in Alive : c # d /\ conn[c].out /\ conn[d].out => conn[c].host # conn[d].host
=============================================================================

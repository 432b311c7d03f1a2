---------------------------- MODULE PeersProofs ----------------------------
(* Theorems about Peers, for any addresses, connections and settings.         *)
EXTENDS Peers, FiniteSetTheorems, TLAPS

-----------------------------------------------------------------------------
(* Types. An assessment about to be written fits the level it is for.         *)

PeersType ==
  /\ peers \in [Levels -> [Addresses -> Nat \cup {Absent}]]
  /\ \A l \in Levels \ {blacklisted}, a \in Addresses : On(l, a) => peers[l][a] <= Top
ConnType == conn \in [Slots -> Connection]
TaskType == task \in [Threads -> Task]
Fitting  == \A t \in Threads : task[t].to # blacklisted => task[t].rank <= Top
MainType == main \in [pc : Phases, n : Nat, core : BOOLEAN,
                      batch : [Hosts -> Levels \cup {Absent}]]
RestType ==
  /\ requests \subseteq Hosts /\ oneMore \in BOOLEAN
  /\ day \in 0 .. MaxDay /\ heard \in 0 .. MaxHeard

Named    ==
  /\ \A c \in Slots : conn[c].stage # "free" => conn[c].host \in Hosts
  /\ \A t \in Threads : task[t].pc # "none" => task[t].addr \in Addresses

TypeInv == TypeOK /\ Fitting /\ Named

LEMMA Constants ==
  /\ Absent \notin Int /\ Main \notin Slots /\ User \notin Slots /\ Main # User
  /\ IsFiniteSet(Slots) /\ IsFiniteSet(Threads)
  /\ New \in Nat /\ Fresh \in Nat /\ Top \in Nat /\ Penalty \in Nat
  /\ New <= Top /\ Fresh <= Top
  /\ \A r \in FakeRanks : r \in Nat /\ r <= Top
  /\ \A w \in {"disagreed", "reflected", "unusable", "user"} : Days[w] \in Nat
  <1>1. IsFiniteSet(Slots) /\ IsFiniteSet(Slots \cup {Main} \cup {User})
    BY FS_AddElement, PeersAssumption
  <1>2. Threads = Slots \cup {Main} \cup {User}
    BY DEF Threads
  <1>3. New \in Nat \ {0} /\ Top \in Nat /\ (9 * (New - 1)) \div 8 + 1 <= Top
    BY PeersAssumption
  <1>4. ASSUME NEW r \in FakeRanks PROVE r \in Nat /\ r <= Top
    <2>1. PICK i \in 0 .. New - 1 : r = (9 * i) \div 8 + 1
      BY DEF FakeRanks
    <2>2. (9 * i) \div 8 \in Nat /\ (9 * i) \div 8 <= (9 * (New - 1)) \div 8
      BY <1>3, <2>1
    <2> QED
      BY <1>3, <2>1, <2>2
  <1> QED
    BY <1>1, <1>2, <1>4, PeersAssumption

LEMMA AddressTypes ==
  /\ \A h \in Hosts : Port(h) \in Addresses /\ Whole(h) \in Addresses
  /\ \A h \in Hosts : Port(h)[1] = h /\ Whole(h)[1] = h /\ Port(h)[2] = "port"
  /\ \A a \in Addresses : a[1] \in Hosts
  BY DEF Port, Whole, Addresses

LEMMA HighestIn ==
  ASSUME NEW S \in SUBSET Levels, S # {}
  PROVE  Highest(S) \in S
  <1>1. \E l \in S : \A k \in S : k <= l
    <2>1. CASE 4 \in S
      BY <2>1 DEF Levels
    <2>2. CASE 4 \notin S /\ 3 \in S
      BY <2>2 DEF Levels
    <2>3. CASE 4 \notin S /\ 3 \notin S /\ 2 \in S
      BY <2>3 DEF Levels
    <2>4. CASE 4 \notin S /\ 3 \notin S /\ 2 \notin S /\ 1 \in S
      BY <2>4 DEF Levels
    <2>5. CASE 4 \notin S /\ 3 \notin S /\ 2 \notin S /\ 1 \notin S
      <3>1. \A k \in S : k = 0
        BY <2>5 DEF Levels
      <3> QED
        BY <3>1
    <2> QED
      BY <2>1, <2>2, <2>3, <2>4, <2>5
  <1> QED
    BY <1>1 DEF Highest

LEMMA ClampType == ASSUME NEW r \in Int PROVE Clamp(r) \in Nat /\ Clamp(r) <= Top
  BY Constants DEF Clamp

TaskInv ==
  TaskType /\ Fitting /\ \A t \in Threads : task[t].pc # "none" => task[t].addr \in Addresses

ConnInv == ConnType /\ \A c \in Slots : conn[c].stage # "free" => conn[c].host \in Hosts

Types == PeersType /\ ConnInv /\ TaskInv /\ MainType /\ RestType

LEMMA TypeParts == TypeInv <=> Types /\ raced \subseteq Hosts
  BY DEF TypeInv, TypeOK, PeersType, ConnType, TaskType, Fitting, Named, MainType, RestType,
         TaskInv, ConnInv, Types

LEMMA TypePartsNext == TypeInv' <=> Types' /\ (raced \subseteq Hosts)'
  BY DEF TypeInv, TypeOK, PeersType, ConnType, TaskType, Fitting, Named, MainType, RestType,
         TaskInv, ConnInv, Types

LEMMA SameTypes ==
  /\ PeersType /\ UNCHANGED peers => PeersType'
  /\ ConnInv /\ UNCHANGED conn => ConnInv'
  /\ TaskInv /\ UNCHANGED task => TaskInv'
  /\ MainType /\ UNCHANGED main => MainType'
  /\ RestType /\ UNCHANGED <<requests, oneMore, day, heard>> => RestType'
  BY DEF PeersType, On, ConnInv, ConnType, TaskInv, TaskType, Fitting, MainType, RestType

LEMMA ErasedType ==
  ASSUME PeersType, NEW l \in Levels, NEW a \in Addresses, peers' = Erased(l, a)
  PROVE  PeersType'
  BY DEF PeersType, Erased, On

LEMMA InsertedType ==
  ASSUME PeersType, NEW l \in Levels, NEW a \in Addresses, NEW r \in Nat,
         l # blacklisted => r <= Top, peers' = Inserted(l, a, r)
  PROVE  PeersType'
  BY DEF PeersType, Inserted, On

LEMMA AdjustedType ==
  ASSUME PeersType, NEW l \in Levels, NEW a \in Addresses, NEW d \in Int,
         peers' = Adjusted(l, a, d), l # blacklisted
  PROVE  PeersType'
  <1>1. CASE ~On(l, a)
    BY <1>1 DEF Adjusted, PeersType, On
  <1>2. CASE On(l, a)
    <2>1. peers[l][a] \in Nat
      BY <1>2 DEF PeersType, On
    <2>2. Clamp(peers[l][a] + d) \in Nat /\ Clamp(peers[l][a] + d) <= Top
      BY <2>1, ClampType
    <2>3. peers' = [peers EXCEPT ![l][a] = Clamp(peers[l][a] + d)]
      BY <1>2 DEF Adjusted, PeersType
    <2> QED
      BY <2>2, <2>3 DEF PeersType, On
  <1> QED
    BY <1>1, <1>2

LEMMA StartType ==
  ASSUME TaskInv, NEW t \in Threads, NEW a \in Addresses, NEW to \in Levels, NEW r \in Nat,
         NEW kind \in {"insert", "adjust", "connection"},
         to # blacklisted => r <= Top, Start(t, a, to, r, kind)
  PROVE  TaskInv'
  BY DEF TaskInv, TaskType, Fitting, Task, Start

LEMMA FinishType ==
  ASSUME TaskInv, NEW t \in Threads, Finish(t)
  PROVE  TaskInv'
  <1>1. NoTask \in Task /\ NoTask.pc = "none" /\ NoTask.to = core /\ NoTask.rank = 0
    BY DEF NoTask, Task, core, Levels
  <1> QED
    BY <1>1, Constants DEF TaskInv, TaskType, Fitting, Finish

LEMMA GoToType ==
  ASSUME TaskInv, NEW t \in Threads, NEW pc \in {"insert", "adjust"}, task[t].pc # "none",
         GoTo(t, pc)
  PROVE  TaskInv'
  BY DEF TaskInv, TaskType, Task, Fitting, GoTo

LEMMA ToType ==
  ASSUME ConnInv, NEW c \in Slots, NEW s \in Stages, conn[c].stage # "free", To(c, s)
  PROVE  ConnInv'
  BY DEF ConnInv, ConnType, Connection, To

LEMMA PeerType ==
  ASSUME ConnInv, NEW c \in Slots, conn[c].stage # "free"
  PROVE  /\ Peer(c) \in Addresses /\ Peer(c)[1] = conn[c].host
         /\ conn[c].level \in Levels
  BY AddressTypes DEF ConnInv, ConnType, Connection, Peer

LEMMA MoveTypes == ASSUME Types, NEW t \in Threads, Move(t) PROVE Types'
  <1>0. PeersType /\ ConnInv /\ TaskInv /\ MainType /\ RestType
    BY DEF Types
  <1>t. /\ task[t].pc # "none" => task[t].addr \in Addresses
        /\ task[t].from \in Levels /\ task[t].to \in Levels /\ task[t].rank \in Nat
        /\ task[t].to # blacklisted => task[t].rank <= Top
    BY <1>0 DEF TaskInv, TaskType, Task, Fitting
  <1>1. CASE MoveFind(t)
    <2>1. TaskInv'
      <3>1. task[t].pc # "none" /\ Found(task[t].addr) \in SUBSET Levels
        BY <1>1 DEF MoveFind, Found
      <3>2. CASE Found(task[t].addr) = {} /\ GoTo(t, "insert")
        BY <1>0, <3>1, <3>2, GoToType
      <3>3. CASE Finish(t)
        BY <1>0, <3>3, FinishType
      <3>4. CASE /\ Found(task[t].addr) # {}
                 /\ task' = [task EXCEPT ![t].pc = "erase", ![t].from = Highest(Found(task[t].addr))]
        <4>1. Highest(Found(task[t].addr)) \in Levels
          BY <3>1, <3>4, HighestIn
        <4> HIDE DEF Found
        <4> QED
          BY <1>0, <3>1, <3>4, <4>1, ZenonT(60) DEF TaskInv, TaskType, Task, Fitting
      <3> QED
        BY <1>1, <3>2, <3>3, <3>4 DEF MoveFind
    <2> QED
      BY <1>0, <1>1, <2>1, SameTypes DEF MoveFind, Types
  <1>2. CASE MoveErase(t)
    <2>1. PeersType'
      BY <1>0, <1>t, <1>2, ErasedType DEF MoveErase
    <2>2. TaskInv'
      BY <1>0, <1>2, <1>t, ZenonT(60) DEF MoveErase, TaskInv, TaskType, Task, Fitting
    <2> QED
      BY <1>0, <1>2, <2>1, <2>2, SameTypes DEF MoveErase, Types
  <1>3. CASE MoveInsert(t)
    <2>1. PeersType'
      BY <1>0, <1>t, <1>3, InsertedType DEF MoveInsert
    <2>2. TaskInv'
      <3>1. task[t].pc # "none"
        BY <1>3 DEF MoveInsert
      <3>2. CASE Finish(t)
        BY <1>0, <3>2, FinishType
      <3>3. CASE GoTo(t, "adjust")
        BY <1>0, <3>1, <3>3, GoToType
      <3> QED
        BY <1>3, <3>2, <3>3 DEF MoveInsert
    <2>3. ConnInv'
      BY <1>0, <1>t, <1>3 DEF MoveInsert, ConnInv, ConnType, Connection
    <2> QED
      BY <1>0, <1>3, <2>1, <2>2, <2>3, SameTypes DEF MoveInsert, Types
  <1>4. CASE MoveAdjust(t)
    <2>1. TaskInv'
      BY <1>0, <1>4, FinishType DEF MoveAdjust
    <2>2. ConnInv'
      BY <1>0, <1>t, <1>4 DEF MoveAdjust, ConnInv, ConnType, Connection
    <2> QED
      BY <1>0, <1>4, <2>1, <2>2, SameTypes DEF MoveAdjust, Types
  <1> QED
    BY <1>1, <1>2, <1>3, <1>4 DEF Move

LEMMA RankType == ASSUME PeersType, NEW l \in Levels, NEW a \in Addresses, NEW d \in Int
                  PROVE  Rank(l, a, d) \in Nat
  <1>1. CASE On(l, a)
    BY <1>1, ClampType DEF Rank, PeersType, On
  <1>2. CASE ~On(l, a)
    BY <1>2 DEF Rank
  <1> QED
    BY <1>1, <1>2

LEMMA BanType ==
  ASSUME TaskInv, RestType, NEW t \in Threads, NEW a \in Addresses,
         NEW who \in {"disagreed", "reflected", "unusable", "user"}, Ban(t, a, who)
  PROVE  TaskInv'
  <1>1. day + Days[who] \in Nat /\ blacklisted \in Levels
    BY Constants, PeersAssumption DEF RestType, blacklisted, Levels
  <1>2. Start(t, a, blacklisted, day + Days[who], "adjust")
    BY DEF Ban
  <1> QED
    BY <1>1, <1>2, StartType

LEMMA ConnectionTypes ==
  ASSUME Types, NEW c \in Slots,
         \/ Connected(c) \/ Fail(c) \/ Established(c) \/ Secure(c) \/ Disagreed(c)
         \/ Unavailable(c) \/ Forget(c) \/ Sweep(c)
         \/ \E h \in Hosts : Accept(c, h)
         \/ \E d \in Slots : Reflected(c, d)
  PROVE  Types'
  <1>0. PeersType /\ ConnInv /\ TaskInv /\ MainType /\ RestType /\ c \in Threads
    BY DEF Types, Threads
  <1>1. \A s \in Stages : conn[c].stage # "free" /\ To(c, s) => ConnInv'
    BY <1>0, ToType
  <1>2. conn[c].stage # "free" => Peer(c) \in Addresses /\ conn[c].level \in Levels
    BY <1>0, PeerType
  <1>3. CASE Connected(c) \/ Fail(c) \/ Secure(c)
    <2>1. ConnInv'
      BY <1>1, <1>3 DEF Connected, Fail, Secure, In, Stages
    <2> QED
      BY <1>0, <1>3, <2>1, SameTypes DEF Connected, Fail, Secure, Types
  <1>4. CASE Established(c)
    <2>1. ConnInv' /\ conn[c].stage # "free"
      BY <1>1, <1>4 DEF Established, In, Stages
    <2>2. established \in Levels /\ validated \in Levels /\ New \in Nat /\ New <= Top
      BY Constants DEF established, validated, Levels
    <2>3. TaskInv'
      BY <1>0, <1>2, <1>4, <2>1, <2>2, StartType, SameTypes DEF Established
    <2>4. PeersType'
      <3>1. CASE UNCHANGED peers
        BY <1>0, <3>1, SameTypes
      <3>2. CASE /\ conn[c].level \in {established, validated}
                 /\ peers' = Adjusted(conn[c].level, Peer(c), 1)
        <4>1. conn[c].level # blacklisted
          BY <3>2 DEF established, validated, blacklisted
        <4> QED
          BY <1>0, <1>2, <2>1, <3>2, <4>1, AdjustedType
      <3> QED
        BY <1>4, <3>1, <3>2 DEF Established
    <2> QED
      BY <1>0, <1>4, <2>1, <2>3, <2>4, SameTypes DEF Established, Types
  <1>5. CASE Disagreed(c)
    <2>1. ConnInv' /\ conn[c].stage # "free"
      BY <1>1, <1>5 DEF Disagreed, In, Stages
    <2>2. -Penalty \in Int
      BY Constants
    <2>3. TaskInv'
      BY <1>0, <1>2, <1>5, <2>1, BanType, SameTypes DEF Disagreed
    <2>4. PeersType'
      BY <1>0, <1>2, <1>5, <2>1, <2>2, AdjustedType, SameTypes DEF Disagreed
    <2> QED
      BY <1>0, <1>5, <2>1, <2>3, <2>4, SameTypes DEF Disagreed, Types
  <1>6. CASE Unavailable(c)
    <2>1. ConnInv' /\ conn[c].stage # "free"
      BY <1>1, <1>6 DEF Unavailable, In, Stages
    <2>2. PeersType'
      BY <1>0, <1>2, <1>6, <2>1, AdjustedType, SameTypes DEF Unavailable
    <2> QED
      BY <1>0, <1>6, <2>1, <2>2, SameTypes DEF Unavailable, Types
  <1>7. CASE Forget(c)
    <2>1. ConnInv' /\ conn[c].stage # "free"
      BY <1>1, <1>7 DEF Forget, In, Stages
    <2>2. PeersType'
      BY <1>0, <1>2, <1>7, <2>1, ErasedType DEF Forget
    <2> QED
      BY <1>0, <1>7, <2>1, <2>2, SameTypes DEF Forget, Types
  <1>8. CASE Sweep(c)
    <2>1. NoConnection \in Connection /\ NoConnection.stage = "free"
      BY DEF NoConnection, Connection, Stages, Levels, blacklisted
    <2>2. ConnInv'
      BY <1>0, <1>8, <2>1 DEF Sweep, ConnInv, ConnType
    <2> QED
      BY <1>0, <1>8, <2>2, SameTypes DEF Sweep, Types
  <1>9. ASSUME NEW h \in Hosts, Accept(c, h) PROVE Types'
    <2>1. ConnInv'
      BY <1>0, <1>9 DEF Accept, ConnInv, ConnType, Connection, Stages, Levels,
                        core, blacklisted
    <2> QED
      BY <1>0, <1>9, <2>1, SameTypes DEF Accept, Types
  <1>10. ASSUME NEW d \in Slots, Reflected(c, d) PROVE Types'
    <2>1. ConnInv'
      BY <1>1, <1>10 DEF Reflected, In, Stages
    <2>2. Peer(d) \in Addresses
      BY <1>0, <1>10, PeerType DEF Reflected
    <2>3. TaskInv'
      BY <1>0, <1>10, <2>2, BanType DEF Reflected
    <2> QED
      BY <1>0, <1>10, <2>1, <2>3, SameTypes DEF Reflected, Types
  <1> QED
    BY <1>3, <1>4, <1>5, <1>6, <1>7, <1>8, <1>9, <1>10

LEMMA AddType ==
  ASSUME TaskInv, NEW t \in Threads, NEW h \in Hosts, NEW l \in {announced, core}, Add(t, h, l)
  PROVE  TaskInv'
  <1>1. l \in Levels /\ New \in Nat /\ New <= Top /\ Port(h) \in Addresses
    BY Constants, AddressTypes DEF announced, core, Levels
  <1> QED
    BY <1>1, StartType DEF Add

LEMMA HeardTypes ==
  ASSUME Types, NEW c \in Slots,
         \/ Listening(c)
         \/ \E h \in Hosts, fromCore \in BOOLEAN : NewPeer(c, h, fromCore)
  PROVE  Types'
  <1>0. /\ PeersType /\ ConnInv /\ TaskInv /\ MainType /\ RestType
        /\ c \in Threads /\ MaxHeard \in Nat
    BY PeersAssumption DEF Types, Threads
  <1>1. /\ {core, validated, announced} \subseteq Levels
        /\ New \in Nat /\ New <= Top /\ Fresh \in Nat /\ Fresh <= Top
        /\ \A r \in FakeRanks : r \in Nat /\ r <= Top
    BY Constants DEF core, validated, announced, Levels
  <1>2. CASE Listening(c)
    <2>1. conn[c].host \in Hosts
      BY <1>0, <1>2 DEF Listening, In, ConnInv
    <2>2. Port(conn[c].host) \in Addresses
      BY <2>1, AddressTypes
    <2>3. TaskInv'
      BY <1>0, <1>1, <1>2, <2>2, StartType DEF Listening
    <2>4. RestType'
      BY <1>0, <1>2 DEF Listening, Hear, RestType
    <2> QED
      BY <1>0, <1>2, <2>3, <2>4, SameTypes DEF Listening, Types
  <1>3. ASSUME NEW h \in Hosts, NEW fromCore \in BOOLEAN, NewPeer(c, h, fromCore) PROVE Types'
    <2>1. Port(h) \in Addresses
      BY AddressTypes
    <2>2. CASE Start(c, Port(h), core, New, "adjust")
      <3>1. TaskInv'
        BY <1>0, <1>1, <2>1, <2>2, StartType
      <3>2. RestType'
        BY <1>0, <1>3 DEF NewPeer, Hear, RestType
      <3> QED
        BY <1>0, <1>3, <3>1, <3>2, SameTypes DEF NewPeer, Types
    <2>3. ASSUME NEW r \in {Fresh} \cup FakeRanks, NEW l \in {announced, validated},
                 Start(c, Port(h), l, r, "insert")
          PROVE  Types'
      <3>1. TaskInv'
        <4>1. r \in Nat /\ r <= Top /\ l \in Levels
          BY <1>1
        <4> QED
          BY <1>0, <2>1, <2>3, <4>1, StartType
      <3>2. RestType'
        BY <1>0, <1>3 DEF NewPeer, Hear, RestType
      <3> QED
        BY <1>0, <1>3, <3>1, <3>2, SameTypes DEF NewPeer, Types
    <2> QED
      BY <1>3, <2>2, <2>3 DEF NewPeer
  <1> QED
    BY <1>2, <1>3

LEMMA CommandTypes == ASSUME Types, Command PROVE Types'
  <1>0. /\ PeersType /\ ConnInv /\ TaskInv /\ MainType /\ RestType
        /\ User \in Threads /\ MaxHeard \in Nat
    BY PeersAssumption DEF Types, Threads
  <1>1. ASSUME PeersType', TaskInv', requests' \subseteq Hosts PROVE Types'
    <2>1. RestType'
      BY <1>0, <1>1 DEF Command, Hear, RestType
    <2> QED
      BY <1>0, <1>1, <2>1, SameTypes DEF Command, Types
  <1>2. requests \subseteq Hosts
    BY <1>0 DEF RestType
  <1>3. ASSUME NEW a \in Addresses, Ban(User, a, "user"), UNCHANGED <<peers, requests>>
        PROVE  Types'
    BY <1>0, <1>1, <1>2, <1>3, BanType, SameTypes
  <1>4. ASSUME NEW a \in Addresses, peers' = Erased(blacklisted, a), UNCHANGED <<task, requests>>
        PROVE  Types'
    <2>1. blacklisted \in Levels
      BY DEF blacklisted, Levels
    <2> QED
      BY <1>0, <1>1, <1>2, <1>4, <2>1, ErasedType, SameTypes
  <1>5. ASSUME NEW h \in Hosts, UNCHANGED <<task, requests>>,
               peers' = [l \in Levels |-> IF l = blacklisted THEN peers[l]
                                          ELSE Erased(l, Port(h))[l]]
        PROVE  Types'
    <2>1. PeersType'
      BY <1>0, <1>5 DEF PeersType, Erased, On
    <2> QED
      BY <1>0, <1>1, <1>2, <1>5, <2>1, SameTypes
  <1>6. ASSUME NEW h \in Hosts, NEW l \in {announced, core}, Add(User, h, l),
               UNCHANGED <<peers, requests>>
        PROVE  Types'
    BY <1>0, <1>1, <1>2, <1>6, AddType, SameTypes
  <1>7. ASSUME NEW h \in Hosts, requests' = requests \cup {h},
               Add(User, h, announced) \/ UNCHANGED task, UNCHANGED peers
        PROVE  Types'
    BY <1>0, <1>1, <1>2, <1>7, AddType, SameTypes
  <1> QED
    BY <1>3, <1>4, <1>5, <1>6, <1>7 DEF Command

LEMMA MainTypes ==
  ASSUME Types,
         \/ Tick \/ Choose \/ Flush \/ NextDay
         \/ \E c \in Slots, h \in Hosts : Open(c, h)
         \/ \E h \in Hosts : OpenFails(h)
  PROVE  Types'
  <1>0. /\ PeersType /\ ConnInv /\ TaskInv /\ MainType /\ RestType /\ Main \in Threads
        /\ Connections \in Nat /\ MaxConnections \in Nat /\ MaxAttempts \in Nat /\ MaxDay \in Nat
    BY PeersAssumption DEF Types, Threads
  <1>1. Cardinality(Secured) \in Nat /\ Cardinality(Used) \in Nat
    BY Constants, FS_Subset, FS_CardinalityType DEF Secured, Used
  <1>2. CASE Tick
    <2>1. MaxConnections = 0 \/ Room > 0 => Budget \in Nat
      BY <1>0, <1>1 DEF Budget, Clipped, Room, Wanted, Missing
    <2>2. MainType'
      <3>1. CASE main' = [main EXCEPT !.pc = "flush"]
        BY <1>0, <3>1 DEF MainType, Phases
      <3>2. ASSUME MaxConnections = 0 \/ Room > 0, NEW waited \in BOOLEAN,
                   main' = [main EXCEPT !.pc = "choose", !.n = Budget, !.core = CoreWanted(waited)]
            PROVE  MainType'
        <4>1. Budget \in Nat /\ CoreWanted(waited) \in BOOLEAN
          BY <2>1, <3>2 DEF CoreWanted
        <4> HIDE DEF Budget, CoreWanted
        <4> QED
          BY <1>0, <3>2, <4>1 DEF MainType, Phases
      <3> QED
        BY <1>2, <3>1, <3>2 DEF Tick
    <2>3. RestType'
      BY <1>0, <1>2 DEF Tick, RestType
    <2> QED
      BY <1>0, <1>2, <2>2, <2>3, SameTypes DEF Tick, Types
  <1>3. CASE Choose
    <2>1. PICK batch \in [Hosts -> {core, established, validated, announced, Absent}] :
            main' = [pc |-> "open", n |-> 0, core |-> FALSE, batch |-> batch]
      BY <1>3 DEF Choose
    <2>2. MainType'
      BY <2>1 DEF MainType, Phases, Levels, core, established, validated, announced
    <2>3. RestType'
      BY <1>0, <1>3 DEF Choose, RestType
    <2> QED
      BY <1>0, <1>3, <2>2, <2>3, SameTypes DEF Choose, Types
  <1>4. CASE Flush
    <2>1. PeersType'
      BY <1>0, <1>4 DEF Flush, PeersType, On, blacklisted, Levels
    <2>2. MainType'
      BY <1>4 DEF Flush, MainType, Idle, Phases
    <2> QED
      BY <1>0, <1>4, <2>1, <2>2, SameTypes DEF Flush, Types
  <1>5. CASE NextDay
    <2>1. RestType'
      BY <1>0, <1>5 DEF NextDay, RestType
    <2> QED
      BY <1>0, <1>5, <2>1, SameTypes DEF NextDay, Types
  <1>6. ASSUME NEW c \in Slots, NEW h \in Hosts, Open(c, h) PROVE Types'
    <2>1. ConnInv'
      BY <1>0, <1>6 DEF Open, ConnInv, ConnType, Connection, Stages, MainType
    <2>2. MainType'
      BY <1>0, <1>6 DEF Open, MainType
    <2> QED
      BY <1>0, <1>6, <2>1, <2>2, SameTypes DEF Open, Types
  <1>7. ASSUME NEW h \in Hosts, OpenFails(h) PROVE Types'
    <2>1. TaskInv'
      BY <1>0, <1>7, AddressTypes, BanType, SameTypes DEF OpenFails
    <2>2. MainType'
      BY <1>0, <1>7 DEF OpenFails, MainType, Phases
    <2> QED
      BY <1>0, <1>7, <2>1, <2>2, SameTypes DEF OpenFails, Types
  <1> QED
    BY <1>2, <1>3, <1>4, <1>5, <1>6, <1>7

LEMMA StepTypes == ASSUME Types, Step PROVE Types'
  <1>1. CASE Coordinator \/ NextDay \/ \E h \in Hosts : OpenFails(h)
    BY <1>1, MainTypes DEF Coordinator
  <1>2. CASE Command
    BY <1>2, CommandTypes
  <1>3. CASE \E t \in Threads : Move(t)
    BY <1>3, MoveTypes
  <1>4. ASSUME NEW c \in Slots,
               \/ Handler(c) \/ Sweep(c) \/ Connected(c) \/ Fail(c) \/ Established(c)
               \/ Disagreed(c) \/ \E d \in Slots : Reflected(c, d)
               \/ \E h \in Hosts : Accept(c, h)
        PROVE  Types'
    BY <1>4, ConnectionTypes DEF Handler
  <1>5. ASSUME NEW c \in Slots,
               Listening(c) \/ \E h \in Hosts, fromCore \in BOOLEAN : NewPeer(c, h, fromCore)
        PROVE  Types'
    BY <1>5, HeardTypes
  <1> QED
    BY <1>1, <1>2, <1>3, <1>4, <1>5 DEF Step

LEMMA InitTypes == Init => TypeInv
  <1> SUFFICES ASSUME Init PROVE Types /\ raced \subseteq Hosts
    BY TypeParts
  <1>1. PeersType
    <2>1. New \in Nat /\ New <= Top /\ Absent \notin Int
      BY Constants
    <2>2. peers = [l \in Levels |-> [a \in Addresses |->
            IF a[2] = "port" /\ a[1] \in Known[l]
            THEN IF l = blacklisted THEN 1 ELSE New ELSE Absent]]
      BY DEF Init
    <2> HIDE DEF Levels, Addresses, blacklisted
    <2>3. \A l \in Levels, a \in Addresses :
            peers[l][a] \in Nat \cup {Absent} /\ (l # blacklisted => peers[l][a] \in {New, Absent})
      BY <2>1, <2>2
    <2> QED
      BY <2>1, <2>2, <2>3 DEF PeersType, On
  <1>2. ConnInv
    BY DEF Init, ConnInv, ConnType, NoConnection, Connection, Stages, Levels, blacklisted
  <1>3. TaskInv
    <2>1. NoTask \in Task /\ NoTask.pc = "none" /\ NoTask.rank = 0 /\ 0 <= Top
      BY Constants DEF NoTask, Task, core, Levels
    <2> QED
      BY <2>1 DEF Init, TaskInv, TaskType, Fitting
  <1>4. MainType
    BY DEF Init, MainType, Idle, Phases
  <1>5. RestType /\ raced \subseteq Hosts
    <2>1. MaxDay \in Nat /\ MaxHeard \in Nat
      BY PeersAssumption
    <2>2. 0 \in 0 .. MaxDay /\ 0 \in 0 .. MaxHeard /\ FALSE \in BOOLEAN
      BY <2>1
    <2>3. requests = {} /\ oneMore = FALSE /\ day = 0 /\ heard = 0 /\ raced = {}
      BY DEF Init
    <2> QED
      BY <2>2, <2>3, Zenon DEF RestType
  <1> QED
    BY <1>1, <1>2, <1>3, <1>4, <1>5 DEF Types

LEMMA NextTypes == TypeInv /\ [Next]_vars => TypeInv'
  <1> SUFFICES ASSUME TypeInv, [Next]_vars PROVE Types' /\ (raced \subseteq Hosts)'
    BY TypePartsNext
  <1>1. Types /\ raced \subseteq Hosts
    BY TypeParts
  <1>2. CASE Next
    <2>1. Types'
      BY <1>1, <1>2, StepTypes DEF Next
    <2>2. raced' \subseteq Hosts
      BY <1>1, <1>2 DEF Next, Meeting
    <2> QED
      BY <2>1, <2>2
  <1>3. CASE UNCHANGED vars
    BY <1>1, <1>3, SameTypes DEF Types, vars
  <1> QED
    BY <1>2, <1>3

\* Type correctness, for any hosts, connections, settings and assessments.
THEOREM TypeCorrect == Spec => []TypeOK
  <1>1. Spec => []TypeInv
    BY InitTypes, NextTypes, PTL DEF Spec
  <1>2. TypeInv => TypeOK
    BY DEF TypeInv
  <1> QED
    BY <1>1, <1>2, PTL
-----------------------------------------------------------------------------
(* No address is connected to twice. While the chosen addresses are being opened,
   no outbound connection that is alive goes to one of them.                 *)

Outbound == {c \in Alive : conn[c].out}

Unopened ==
  main.pc = "open" =>
    \A h \in Hosts, c \in Outbound : main.batch[h] # Absent => conn[c].host # h

OnceInv == OutboundOnce /\ Unopened

\* No connection comes to life, and none changes its end.
LEMMA FewerOutbound ==
  ASSUME OnceInv, main' = main \/ main'.pc # "open",
         \A c \in Outbound' : c \in Outbound /\ conn'[c].host = conn[c].host
  PROVE  OnceInv'
  BY DEF OnceInv, OutboundOnce, Unopened, Outbound, Alive, Used

\* Every step but the main thread's.
LEMMA OthersOpenNone ==
  ASSUME Types, NEW c \in Slots, NEW t \in Threads,
         \/ Move(t) \/ Command \/ NextDay
         \/ Handler(c) \/ Sweep(c) \/ Connected(c) \/ Fail(c) \/ Established(c)
         \/ Disagreed(c) \/ Listening(c) \/ \E d \in Slots : Reflected(c, d)
         \/ \E h \in Hosts : Accept(c, h)
         \/ \E h \in Hosts, fromCore \in BOOLEAN : NewPeer(c, h, fromCore)
  PROVE  /\ main' = main
         /\ \A d \in Outbound' : d \in Outbound /\ conn'[d].host = conn[d].host
  <1>0. conn \in [Slots -> Connection]
    BY DEF Types, ConnInv, ConnType
  <1>1. CASE UNCHANGED <<main, conn>>
    BY <1>1 DEF Outbound, Alive, Used
  <1>2. CASE Move(t)
    <2>1. CASE MoveFind(t) \/ MoveErase(t)
      BY <1>1, <2>1 DEF MoveFind, MoveErase
    <2>2. CASE MoveInsert(t)
      <3>1. main' = main
        BY <2>2 DEF MoveInsert
      <3>2. CASE UNCHANGED conn
        BY <1>1, <3>1, <3>2
      <3>3. CASE t \in Slots /\ conn' = [conn EXCEPT ![t].level = task[t].to]
        BY <1>0, <3>1, <3>3 DEF Outbound, Alive, Used
      <3> QED
        BY <2>2, <3>2, <3>3 DEF MoveInsert
    <2>3. CASE MoveAdjust(t)
      BY <1>0, <2>3 DEF MoveAdjust, Outbound, Alive, Used
    <2> QED
      BY <1>2, <2>1, <2>2, <2>3 DEF Move
  <1>3. CASE \E h \in Hosts : Accept(c, h)
    BY <1>0, <1>3 DEF Accept, Outbound, Alive, Used
  <1>4. CASE Sweep(c)
    BY <1>0, <1>4 DEF Sweep, NoConnection, Outbound, Alive, Used
  <1>5. ASSUME NEW s \in Stages, conn[c].stage \notin {"free", "retired"}, To(c, s), main' = main
        PROVE  /\ main' = main
               /\ \A d \in Outbound' : d \in Outbound /\ conn'[d].host = conn[d].host
    BY <1>0, <1>5 DEF To, Outbound, Alive, Used
  <1>6. CASE Connected(c) \/ Fail(c) \/ Secure(c) \/ Established(c)
    BY <1>5, <1>6 DEF Connected, Fail, Secure, Established, In, Stages
  <1>7. CASE Disagreed(c) \/ Unavailable(c) \/ Forget(c) \/ \E d \in Slots : Reflected(c, d)
    BY <1>5, <1>7 DEF Disagreed, Unavailable, Forget, Reflected, In, Stages
  <1>8. CASE Command \/ NextDay \/ Listening(c)
             \/ \E h \in Hosts, fromCore \in BOOLEAN : NewPeer(c, h, fromCore)
    BY <1>1, <1>8 DEF Command, NextDay, Listening, NewPeer
  <1> QED
    BY <1>2, <1>3, <1>4, <1>6, <1>7, <1>8 DEF Handler

LEMMA OnceStep == ASSUME TypeInv, OnceInv, [Next]_vars PROVE OnceInv'
  <1>0. Types /\ conn \in [Slots -> Connection] /\ main.batch \in [Hosts -> Levels \cup {Absent}]
        /\ main \in [pc : Phases, n : Nat, core : BOOLEAN,
                    batch : [Hosts -> Levels \cup {Absent}]]
    BY TypeParts DEF Types, ConnInv, ConnType, MainType
  <1>1. CASE UNCHANGED vars
    BY <1>1, FewerOutbound DEF vars, Outbound, Alive, Used
  <1>2. CASE Tick \/ Flush \/ \E h \in Hosts : OpenFails(h)
    <2>1. main'.pc # "open" /\ UNCHANGED conn
      <3>1. CASE Tick
        <4>1. \/ main' = [main EXCEPT !.pc = "flush"]
              \/ \E n, w : main' = [main EXCEPT !.pc = "choose", !.n = n, !.core = w]
          BY <3>1 DEF Tick
        <4> QED
          BY <1>0, <3>1, <4>1 DEF Tick
      <3>2. CASE Flush
        BY <3>2 DEF Flush, Idle
      <3>3. CASE \E h \in Hosts : OpenFails(h)
        BY <1>0, <3>3 DEF OpenFails
      <3> QED
        BY <1>2, <3>1, <3>2, <3>3
    <2> QED
      BY <2>1, FewerOutbound DEF Outbound, Alive, Used
  <1>3. CASE Choose
    <2>1. PICK batch \in [Hosts -> {core, established, validated, announced, Absent}],
               S \in SUBSET (requests \ {conn[c].host : c \in {d \in Alive : conn[d].out}}) :
            /\ main' = [pc |-> "open", n |-> 0, core |-> FALSE, batch |-> batch]
            /\ \A h \in Hosts \ S : batch[h] # Absent => h \in Selectable(batch[h])
      BY <1>3 DEF Choose
    <2>2. \A h \in Hosts, c \in Outbound : batch[h] # Absent => conn[c].host # h
      BY <2>1 DEF Selectable, InUse, Outbound, Alive
    <2>3. UNCHANGED conn
      BY <1>3 DEF Choose
    <2> QED
      BY <2>1, <2>2, <2>3 DEF OnceInv, OutboundOnce, Unopened, Outbound, Alive, Used
  <1>4. ASSUME NEW c \in Slots, NEW h \in Hosts, Open(c, h) PROVE OnceInv'
    <2>1. /\ \A d \in Outbound' : IF d = c THEN conn'[d].host = h
                                  ELSE d \in Outbound /\ conn'[d].host = conn[d].host
          /\ main'.pc = "open" /\ main'.batch = [main.batch EXCEPT ![h] = Absent]
          /\ main.pc = "open" /\ main.batch[h] # Absent /\ c \notin Alive
      BY <1>0, <1>4 DEF Open, Outbound, Alive, Used
    <2>2. Alive' \subseteq Alive \cup {c}
      BY <1>0, <1>4 DEF Open, Alive, Used
    <2> QED
      BY <1>0, <2>1, <2>2 DEF OnceInv, OutboundOnce, Unopened, Outbound
  <1>5. ASSUME NEW c \in Slots, NEW t \in Threads,
               \/ Move(t) \/ Command \/ NextDay
               \/ Handler(c) \/ Sweep(c) \/ Connected(c) \/ Fail(c) \/ Established(c)
               \/ Disagreed(c) \/ Listening(c) \/ \E d \in Slots : Reflected(c, d)
               \/ \E h \in Hosts : Accept(c, h)
               \/ \E h \in Hosts, fromCore \in BOOLEAN : NewPeer(c, h, fromCore)
        PROVE  OnceInv'
    BY <1>0, <1>5, OthersOpenNone, FewerOutbound
  <1>6. CASE Command \/ NextDay
    <2>1. UNCHANGED <<main, conn>>
      BY <1>6 DEF Command, NextDay
    <2> QED
      BY <2>1, FewerOutbound DEF Outbound, Alive, Used
  <1>7. ASSUME NEW t \in Threads, Move(t) PROVE OnceInv'
    <2>1. CASE Slots = {}
      BY <1>7, <2>1 DEF OnceInv, OutboundOnce, Unopened, Outbound, Alive, Used
    <2>2. CASE Slots # {}
      BY <1>5, <1>7, <2>2
    <2> QED
      BY <2>1, <2>2
  <1>8. CASE Step
    <2>1. \A c \in Slots : c \in Threads
      BY DEF Threads
    <2> QED
      BY <1>2, <1>3, <1>4, <1>5, <1>6, <1>7, <1>8, <2>1 DEF Step, Coordinator
  <1> QED
    BY <1>1, <1>8 DEF Next

\* A node never has two connections that it opened to one address, however
\* connections come, go and are asked for while it chooses the next ones.
THEOREM ConnectedOnce == Spec => []OutboundOnce
  <1>1. Init => OnceInv
    BY DEF Init, OnceInv, OutboundOnce, Unopened, Outbound, Alive, Used, NoConnection, Idle
  <1>2. TypeInv /\ OnceInv /\ [Next]_vars => OnceInv'
    BY OnceStep
  <1>3. OnceInv => OutboundOnce
    BY DEF OnceInv
  <1> QED
    BY <1>1, <1>2, <1>3, InitTypes, NextTypes, PTL DEF Spec
-----------------------------------------------------------------------------
(* Levels and bans. Where only one thread is at a host, an address about to be
   inserted is on no level, one about to be erased is not banned, and the level
   that unavailable reads again is not the blacklist.                        *)

AtMostOne ==
  \A a \in Addresses : a[1] \notin raced =>
    \A k, l \in Levels : On(k, a) /\ On(l, a) => k = l

ToInsert ==
  \A t \in Threads : task[t].pc = "insert" /\ task[t].addr[1] \notin raced =>
    \A l \in Levels : ~On(l, task[t].addr)

ToErase == \A t \in Threads : task[t].pc = "erase" => task[t].from # blacklisted

ToForget ==
  \A c \in Slots : conn[c].stage = "forgetting" =>
    task[c].pc = "none" /\ (conn[c].host \notin raced => conn[c].level # blacklisted)

RaceInv == Meeting \subseteq raced /\ AtMostOne /\ ToInsert /\ ToErase /\ ToForget

LEMMA Alone ==
  ASSUME Meeting \subseteq raced, NEW h \in Hosts \ raced,
         NEW t \in Threads, NEW u \in Threads, h \in At(t), h \in At(u)
  PROVE  t = u
  <1> SUFFICES ASSUME t # u PROVE FALSE
    OBVIOUS
  <1> DEFINE S == {v \in Threads : h \in At(v)}
  <1>1. IsFiniteSet(S) /\ {t, u} \subseteq S
    BY Constants, FS_Subset
  <1>2. Cardinality({t, u}) = 2
    <2>1. IsFiniteSet({t}) /\ Cardinality({t}) = 1
      BY FS_Singleton
    <2>2. {t} \cup {u} = {t, u} /\ u \notin {t}
      OBVIOUS
    <2>3. Cardinality({t} \cup {u}) = 1 + 1
      BY <2>1, <2>2, FS_AddElement
    <2> QED
      BY <2>2, <2>3
  <1>3. 2 <= Cardinality(S) /\ Cardinality(S) \in Nat
    BY <1>1, <1>2, FS_Subset, FS_CardinalityType
  <1>4. h \notin Meeting
    OBVIOUS
  <1>5. ~(Cardinality(S) > 1)
    BY <1>4 DEF Meeting
  <1> HIDE DEF S
  <1> QED
    BY <1>3, <1>5

\* What each of a step's two parts may do: of addresses and tasks ...
Calm ==
  /\ \A l \in Levels, a \in Addresses : On(l, a)' => On(l, a)
  /\ \A t \in Threads :
       /\ task'[t].pc = "insert" => task'[t] = task[t] \/ \A l \in Levels : ~On(l, task'[t].addr)
       /\ task'[t].pc = "erase" => task'[t] = task[t] \/ task'[t].from # blacklisted

\* ... and of connections that are about to be forgotten.
Steady ==
  \A c \in Slots : conn'[c].stage = "forgetting" =>
    /\ task'[c].pc = "none"
    /\ \/ conn[c].stage = "forgetting" /\ conn'[c].level = conn[c].level
           /\ conn'[c].host = conn[c].host
       \/ conn'[c].level # blacklisted
       \/ conn'[c].host \in raced

\* A ban is left alone, but for what `raced`, the day and the user excuse.
Kept ==
  \A a \in Addresses :
    On(blacklisted, a) =>
      \/ On(blacklisted, a)'
      \/ a[1] \in raced \/ day >= peers[blacklisted][a] \/ heard' > heard

LEMMA CalmKeeps ==
  ASSUME TaskInv', AtMostOne, ToInsert, ToErase, Calm, raced \subseteq raced'
  PROVE  AtMostOne' /\ ToInsert' /\ ToErase'
  <1>1. AtMostOne'
    BY DEF AtMostOne, Calm
  <1>2. ToInsert'
    BY DEF ToInsert, Calm, TaskInv
  <1>3. ToErase'
    BY DEF ToErase, Calm
  <1> QED
    BY <1>1, <1>2, <1>3

LEMMA SteadyKeeps == ASSUME ToForget, Steady, raced \subseteq raced' PROVE ToForget'
  BY DEF ToForget, Steady

LEMMA ErasedOn ==
  ASSUME PeersType, NEW l \in Levels, NEW a \in Addresses, peers' = Erased(l, a)
  PROVE  \A k \in Levels, b \in Addresses :
           /\ On(k, b)' => On(k, b)
           /\ k # l \/ b[1] # a[1] => (On(k, b)' <=> On(k, b))
  BY DEF PeersType, Erased, On

LEMMA AdjustedOn ==
  ASSUME PeersType, NEW l \in Levels, NEW a \in Addresses, NEW d \in Int, peers' = Adjusted(l, a, d)
  PROVE  \A k \in Levels, b \in Addresses : On(k, b)' <=> On(k, b)
  <1>1. CASE ~On(l, a)
    BY <1>1 DEF Adjusted, On
  <1>2. CASE On(l, a)
    <2>1. Clamp(peers[l][a] + d) # Absent
      BY <1>2, ClampType, Constants DEF PeersType, On
    <2>2. peers' = [peers EXCEPT ![l][a] = Clamp(peers[l][a] + d)]
      BY <1>2 DEF Adjusted, PeersType
    <2> QED
      BY <1>2, <2>1, <2>2 DEF PeersType, On
  <1> QED
    BY <1>1, <1>2

LEMMA Started ==
  ASSUME TaskInv, NEW t \in Threads, NEW a, NEW to, NEW r, NEW kind, Start(t, a, to, r, kind)
  PROVE  /\ \A u \in Threads \ {t} : task'[u] = task[u]
         /\ task'[t].addr = a /\ task'[t].pc = IF kind = "insert" THEN "insert" ELSE "find"
  BY DEF Start, TaskInv, TaskType

LEMMA CalmStart ==
  ASSUME TaskInv, NEW t \in Threads, NEW a, NEW to, NEW r, NEW kind, Start(t, a, to, r, kind),
         kind = "insert" => \A l \in Levels : ~On(l, a),
         \A l \in Levels, b \in Addresses : On(l, b)' => On(l, b)
  PROVE  Calm
  BY Started DEF Calm

LEMMA CalmSame ==
  ASSUME UNCHANGED task, \A l \in Levels, a \in Addresses : On(l, a)' => On(l, a)
  PROVE  Calm
  BY DEF Calm

LEMMA SteadyAt ==
  ASSUME ToForget, NEW c \in Slots, conn'[c].stage # "forgetting",
         \A d \in Slots \ {c} : task'[d] = task[d] /\ conn'[d] = conn[d]
  PROVE  Steady
  BY DEF Steady, ToForget

LEMMA SteadySame ==
  ASSUME ToForget, UNCHANGED conn, \A d \in Slots : task'[d] = task[d]
  PROVE  Steady
  BY DEF Steady, ToForget

LEMMA SamePeersOn ==
  UNCHANGED peers => Kept /\ \A l \in Levels, a \in Addresses : On(l, a)' => On(l, a)
  BY DEF Kept, On

LEMMA KeptOn ==
  ASSUME \A a \in Addresses : On(blacklisted, a) => On(blacklisted, a)'
  PROVE  Kept
  BY DEF Kept

LEMMA ToChanges ==
  ASSUME ConnInv, NEW c \in Slots, NEW s \in Stages, To(c, s)
  PROVE  /\ conn'[c] = [conn[c] EXCEPT !.stage = s] /\ conn'[c].stage = s
         /\ conn'[c].host = conn[c].host /\ conn'[c].level = conn[c].level
         /\ \A d \in Slots \ {c} : conn'[d] = conn[d]
  BY DEF To, ConnInv, ConnType, Connection

\* The steps of move, but for the insertion.
LEMMA MoveCalm ==
  ASSUME Types, RaceInv, NEW t \in Threads, MoveFind(t) \/ MoveErase(t) \/ MoveAdjust(t)
  PROVE  Calm /\ Steady /\ Kept
  <1>0. PeersType /\ ConnInv /\ TaskInv /\ ToForget /\ ToErase /\ task \in [Threads -> Task]
    BY DEF Types, RaceInv, TaskInv, TaskType
  <1>1. \A d \in Slots : conn[d].stage = "forgetting" => d \in Threads /\ task[d].pc = "none"
    BY <1>0 DEF ToForget, Threads
  <1>2. CASE MoveFind(t)
    <2>1. task[t].pc = "find" /\ UNCHANGED <<peers, conn>>
      BY <1>2 DEF MoveFind
    <2>2. \A u \in Threads \ {t} : task'[u] = task[u]
      BY <1>0, <1>2 DEF MoveFind, GoTo, Finish
    <2>3. /\ task'[t].pc = "insert" => /\ task'[t].addr = task[t].addr
                                       /\ Found(task[t].addr) = {}
          /\ task'[t].pc = "erase" => task'[t].from # blacklisted
      <3>1. CASE Found(task[t].addr) = {} /\ GoTo(t, "insert")
        BY <1>0, <3>1 DEF GoTo, Task
      <3>2. CASE Finish(t)
        BY <1>0, <3>2 DEF Finish, NoTask
      <3>3. CASE /\ Found(task[t].addr) # {} /\ blacklisted \notin Found(task[t].addr)
                 /\ task' = [task EXCEPT ![t].pc = "erase", ![t].from = Highest(Found(task[t].addr))]
        <4>1. Highest(Found(task[t].addr)) # blacklisted
          BY <3>3, HighestIn DEF Found
        <4> HIDE DEF Found
        <4> QED
          BY <1>0, <3>3, <4>1 DEF Task
      <3> QED
        BY <1>2, <3>1, <3>2, <3>3 DEF MoveFind
    <2>4. Calm
      BY <2>1, <2>2, <2>3, SamePeersOn DEF Calm, Found
    <2>5. Steady
      BY <1>0, <1>1, <2>1, <2>2 DEF Steady, ToForget
    <2> QED
      BY <2>1, <2>4, <2>5, SamePeersOn
  <1>3. CASE MoveErase(t)
    <2>1. /\ task[t].pc = "erase" /\ task[t].from # blacklisted /\ UNCHANGED conn
          /\ task[t].from \in Levels /\ task[t].addr \in Addresses
          /\ peers' = Erased(task[t].from, task[t].addr)
      BY <1>0, <1>3 DEF MoveErase, ToErase, TaskInv, Task
    <2>2. /\ \A u \in Threads \ {t} : task'[u] = task[u]
          /\ task'[t].pc = "find"
      BY <1>0, <1>3 DEF MoveErase, Task
    <2>3. \A k \in Levels, b \in Addresses :
            /\ On(k, b)' => On(k, b)
            /\ k # task[t].from => (On(k, b)' <=> On(k, b))
      BY <1>0, <2>1, ErasedOn
    <2>4. Calm
      BY <2>2, <2>3 DEF Calm
    <2>5. Steady
      BY <1>0, <1>1, <2>1, <2>2 DEF Steady, ToForget
    <2>6. Kept
      BY <2>1, <2>3, KeptOn DEF blacklisted, Levels
    <2> QED
      BY <2>4, <2>5, <2>6
  <1>4. CASE MoveAdjust(t)
    <2>1. /\ task[t].pc = "adjust" /\ UNCHANGED peers
          /\ \A u \in Threads \ {t} : task'[u] = task[u]
          /\ task'[t].pc = "none"
      BY <1>0, <1>4 DEF MoveAdjust, Finish, NoTask
    <2>2. Calm
      BY <2>1, SamePeersOn DEF Calm
    <2>3. ASSUME NEW c \in Slots, conn'[c].stage = "forgetting"
          PROVE  /\ task'[c].pc = "none" /\ conn[c].stage = "forgetting"
                 /\ conn'[c].host = conn[c].host
                 /\ conn'[c].level = conn[c].level \/ conn[c].host \in raced
      <3>1. /\ conn[c].stage = "forgetting" /\ conn'[c].host = conn[c].host
            /\ conn'[c].level = conn[c].level \/ Peer(c) = task[t].addr
        BY <1>0, <1>4, <2>3 DEF MoveAdjust, ConnInv, ConnType, Connection
      <3>2. c \in Threads /\ task[c].pc = "none" /\ c # t
        BY <1>1, <2>1, <3>1
      <3>3. ASSUME Peer(c) = task[t].addr PROVE conn[c].host \in raced
        <4>1. Peer(c)[1] = conn[c].host /\ conn[c].host \in Hosts
          BY <1>0, <3>1, PeerType DEF ConnInv
        <4>2. conn[c].host \in At(c) /\ conn[c].host \in At(t)
          BY <2>1, <3>1, <3>3, <4>1 DEF At
        <4> QED
          BY <3>2, <4>1, <4>2, Alone DEF RaceInv
      <3> QED
        BY <2>1, <3>1, <3>2, <3>3
    <2>4. Steady
      BY <2>3 DEF Steady
    <2> QED
      BY <2>1, <2>2, <2>4, SamePeersOn
  <1> QED
    BY <1>2, <1>3, <1>4

LEMMA InsertKeeps ==
  ASSUME Types, Types', RaceInv, raced \subseteq raced', NEW t \in Threads, MoveInsert(t)
  PROVE  Steady /\ Kept /\ AtMostOne' /\ ToInsert' /\ ToErase'
  <1>0. /\ PeersType /\ ConnInv /\ TaskInv /\ TaskInv' /\ task \in [Threads -> Task]
        /\ Meeting \subseteq raced /\ AtMostOne /\ ToInsert /\ ToErase /\ ToForget
    BY DEF Types, RaceInv, TaskInv, TaskType
  <1>1. /\ task[t].pc = "insert" /\ task[t].to \in Levels /\ task[t].addr \in Addresses
        /\ task[t].rank \in Nat /\ Absent \notin Int
        /\ peers' = Inserted(task[t].to, task[t].addr, task[t].rank)
    BY <1>0, Constants DEF MoveInsert, TaskInv, Task
  <1>2. \A u \in Threads \ {t} : task'[u] = task[u]
    BY <1>0 DEF MoveInsert, Finish, GoTo
  <1>3. task'[t].pc \in {"none", "adjust"}
    BY <1>0 DEF MoveInsert, Finish, GoTo, NoTask, Task
  <1>4. \A l \in Levels, a \in Addresses :
          On(l, a)' <=> On(l, a) \/ (l = task[t].to /\ a = task[t].addr)
    BY <1>0, <1>1 DEF Inserted, On, PeersType
  <1>5. AtMostOne'
    <2> SUFFICES ASSUME NEW a \in Addresses, a[1] \notin raced, NEW k \in Levels, NEW l \in Levels,
                        On(k, a)', On(l, a)'
                 PROVE  k = l
      BY DEF AtMostOne
    <2>1. CASE a = task[t].addr
      BY <1>0, <1>1, <1>4, <2>1 DEF ToInsert
    <2>2. CASE a # task[t].addr
      BY <1>0, <1>4, <2>2 DEF AtMostOne
    <2> QED
      BY <2>1, <2>2
  <1>6. ToInsert'
    <2> SUFFICES ASSUME NEW u \in Threads, task'[u].pc = "insert", task'[u].addr[1] \notin raced,
                        NEW l \in Levels, peers'[l][task'[u].addr] # Absent
                 PROVE  FALSE
      BY DEF ToInsert, On
    <2>1. u # t /\ task[u] = task'[u]
      BY <1>2, <1>3
    <2>2. task[u].addr \in Addresses /\ ~On(l, task[u].addr)
      BY <1>0, <2>1 DEF ToInsert, TaskInv
    <2>3. task[u].addr = task[t].addr
      BY <1>4, <2>1, <2>2 DEF On
    <2>4. task[u].addr[1] \in Hosts /\ task[u].addr[1] \in At(u) /\ task[u].addr[1] \in At(t)
      BY <1>1, <2>1, <2>2, <2>3, AddressTypes DEF At
    <2> QED
      BY <1>0, <2>1, <2>4, Alone
  <1>7. ToErase'
    BY <1>0, <1>2, <1>3 DEF ToErase
  <1>8. Steady
    <2>1. \A d \in Slots : conn[d].stage = "forgetting" => d \in Threads /\ d # t
      BY <1>0, <1>1 DEF ToForget, Threads
    <2>2. \A d \in Slots : /\ conn'[d].stage = conn[d].stage
                           /\ d # t => conn'[d] = conn[d]
      <3>1. CASE UNCHANGED conn
        BY <3>1
      <3>2. CASE conn' = [conn EXCEPT ![t].level = task[t].to]
        BY <1>0, <3>2 DEF ConnInv, ConnType, Connection
      <3> QED
        BY <3>1, <3>2 DEF MoveInsert
    <2> QED
      BY <1>0, <1>2, <2>1, <2>2 DEF Steady, ToForget
  <1>9. Kept
    BY <1>4, KeptOn DEF blacklisted, Levels
  <1> QED
    BY <1>5, <1>6, <1>7, <1>8, <1>9

LEMMA ConnectionCalm ==
  ASSUME Types, RaceInv, NEW c \in Slots,
         \/ Connected(c) \/ Fail(c) \/ Established(c) \/ Secure(c) \/ Disagreed(c)
         \/ Unavailable(c) \/ Forget(c) \/ Sweep(c)
         \/ \E h \in Hosts : Accept(c, h)
         \/ \E d \in Slots : Reflected(c, d)
  PROVE  Calm /\ Steady /\ Kept
  <1>0. PeersType /\ ConnInv /\ TaskInv /\ ToForget /\ c \in Threads /\ conn \in [Slots -> Connection]
    BY DEF Types, RaceInv, Threads, ConnInv, ConnType
  <1>1. \A d \in Slots : d \in Threads
    BY DEF Threads
  <1>2. conn[c].stage # "free" => Peer(c) \in Addresses /\ conn[c].level \in Levels
                                  /\ Peer(c)[1] = conn[c].host
    BY <1>0, PeerType
  <1>3. ASSUME NEW s \in Stages \ {"forgetting"}, To(c, s),
               \A u \in Threads \ {c} : task'[u] = task[u]
        PROVE  Steady
    <2>1. conn'[c].stage # "forgetting" /\ \A d \in Slots \ {c} : conn'[d] = conn[d]
      BY <1>0, <1>3, ToChanges
    <2> QED
      BY <1>0, <1>1, <1>3, <2>1, SteadyAt
  <1>4. ASSUME \/ UNCHANGED peers
               \/ \E l \in Levels, d \in Int : conn[c].stage # "free" /\ peers' = Adjusted(l, Peer(c), d)
        PROVE  Kept /\ \A l \in Levels, a \in Addresses : On(l, a)' => On(l, a)
    <2>1. ASSUME NEW l \in Levels, NEW d \in Int, conn[c].stage # "free",
                 peers' = Adjusted(l, Peer(c), d)
          PROVE  \A k \in Levels, a \in Addresses : On(k, a)' <=> On(k, a)
      BY <1>0, <1>2, <2>1, AdjustedOn
    <2>2. blacklisted \in Levels
      BY DEF blacklisted, Levels
    <2> QED
      BY <1>4, <2>1, <2>2, KeptOn, SamePeersOn
  <1>5. CASE Connected(c) \/ Fail(c) \/ Secure(c)
    <2>1. UNCHANGED <<peers, task>>
      BY <1>5 DEF Connected, Fail, Secure
    <2>2. Steady
      BY <1>3, <1>5, <2>1 DEF Connected, Fail, Secure, Stages
    <2> QED
      BY <1>4, <2>1, <2>2, CalmSame
  <1>6. CASE Established(c)
    <2>1. /\ To(c, "securing") /\ conn[c].stage # "free"
          /\ UNCHANGED task \/ \E to, r : Start(c, Peer(c), to, r, "connection")
          /\ UNCHANGED peers \/ (conn[c].level \in Levels /\ peers' = Adjusted(conn[c].level, Peer(c), 1))
      BY <1>2, <1>6 DEF Established, In
    <2>2. Kept /\ \A l \in Levels, a \in Addresses : On(l, a)' => On(l, a)
      BY <1>4, <2>1
    <2>3. Calm /\ \A u \in Threads \ {c} : task'[u] = task[u]
      BY <1>0, <2>1, <2>2, CalmStart, CalmSame, Started
    <2> QED
      BY <1>3, <2>1, <2>2, <2>3 DEF Stages
  <1>7. CASE Disagreed(c)
    <2>1. /\ To(c, "failing") \/ To(c, "retired")
          /\ conn[c].stage # "free" /\ -Penalty \in Int
          /\ UNCHANGED task \/ \E to, r : Start(c, Peer(c), to, r, "adjust")
          /\ UNCHANGED peers
               \/ (conn[c].level \in Levels /\ peers' = Adjusted(conn[c].level, Peer(c), -Penalty))
      BY <1>2, <1>7, Constants DEF Disagreed, In, Ban
    <2>2. Kept /\ \A l \in Levels, a \in Addresses : On(l, a)' => On(l, a)
      BY <1>4, <2>1
    <2>3. Calm /\ \A u \in Threads \ {c} : task'[u] = task[u]
      BY <1>0, <2>1, <2>2, CalmStart, CalmSame, Started
    <2> QED
      BY <1>3, <2>1, <2>2, <2>3 DEF Stages
  <1>8. CASE Unavailable(c)
    <2>1. /\ conn[c].stage = "failing" /\ task[c].pc = "none" /\ UNCHANGED task
          /\ UNCHANGED peers \/ (conn[c].level \in Levels /\ peers' = Adjusted(conn[c].level, Peer(c), -1))
      BY <1>2, <1>8 DEF Unavailable, In
    <2>2. Kept /\ \A l \in Levels, a \in Addresses : On(l, a)' => On(l, a)
      BY <1>4, <2>1
    <2>3. Steady
      <3>1. CASE To(c, "retired")
        BY <1>3, <2>1, <3>1 DEF Stages
      <3>2. CASE To(c, "forgetting") /\ conn[c].level # blacklisted
        <4>1. conn'[c].level = conn[c].level /\ \A d \in Slots \ {c} : conn'[d] = conn[d]
          BY <1>0, <3>2, ToChanges DEF Stages
        <4> QED
          BY <1>0, <2>1, <3>2, <4>1 DEF Steady, ToForget
      <3> QED
        BY <1>8, <3>1, <3>2 DEF Unavailable
    <2> QED
      BY <2>1, <2>2, <2>3, CalmSame
  <1>9. CASE Forget(c)
    <2>1. /\ conn[c].stage = "forgetting" /\ UNCHANGED task /\ To(c, "retired")
          /\ peers' = Erased(conn[c].level, Peer(c))
      BY <1>9 DEF Forget, In
    <2>2. \A k \in Levels, a \in Addresses :
            /\ On(k, a)' => On(k, a)
            /\ k # conn[c].level \/ a[1] # conn[c].host => (On(k, a)' <=> On(k, a))
      BY <1>0, <1>2, <2>1, ErasedOn
    <2>3. conn[c].host \in raced \/ conn[c].level # blacklisted
      BY <1>0, <2>1 DEF ToForget
    <2>4. Kept
      BY <2>2, <2>3 DEF Kept, blacklisted, Levels
    <2> QED
      BY <1>3, <2>1, <2>2, <2>4, CalmSame DEF Stages
  <1>10. CASE Sweep(c)
    <2>1. UNCHANGED <<peers, task>> /\ conn'[c].stage = "free"
          /\ \A d \in Slots \ {c} : conn'[d] = conn[d]
      BY <1>0, <1>10 DEF Sweep, NoConnection
    <2> QED
      BY <1>0, <1>4, <2>1, CalmSame, SteadyAt
  <1>11. CASE \E h \in Hosts : Accept(c, h)
    <2>1. UNCHANGED <<peers, task>> /\ conn'[c].stage = "pending"
          /\ \A d \in Slots \ {c} : conn'[d] = conn[d]
      BY <1>0, <1>11 DEF Accept
    <2> QED
      BY <1>0, <1>4, <2>1, CalmSame, SteadyAt
  <1>12. ASSUME NEW d \in Slots, Reflected(c, d) PROVE Calm /\ Steady /\ Kept
    <2>1. /\ To(c, "failing") /\ UNCHANGED peers
          /\ Start(c, Peer(d), blacklisted, day + Days["reflected"], "adjust")
      BY <1>12 DEF Reflected, Ban
    <2>2. Kept /\ \A l \in Levels, a \in Addresses : On(l, a)' => On(l, a)
      BY <1>4, <2>1
    <2>3. Calm /\ \A u \in Threads \ {c} : task'[u] = task[u]
      BY <1>0, <2>1, <2>2, CalmStart, Started
    <2> QED
      BY <1>3, <2>1, <2>2, <2>3 DEF Stages
  <1> QED
    BY <1>5, <1>6, <1>7, <1>8, <1>9, <1>10, <1>11, <1>12

LEMMA HeardCalm ==
  ASSUME Types, RaceInv, NEW c \in Slots,
         \/ Listening(c)
         \/ \E h \in Hosts, fromCore \in BOOLEAN : NewPeer(c, h, fromCore)
  PROVE  Calm /\ Steady /\ Kept
  <1>0. TaskInv /\ ToForget /\ c \in Threads /\ UNCHANGED <<peers, conn>>
    BY DEF Types, RaceInv, Threads, Listening, NewPeer
  <1>1. conn[c].stage = "secured"
    BY DEF Listening, NewPeer, In
  <1>2. \E a, to, r, kind : /\ Start(c, a, to, r, kind)
                            /\ kind = "insert" => Found(a) = {}
    BY DEF Listening, NewPeer
  <1>3. \A a : Found(a) = {} => \A l \in Levels : ~On(l, a)
    BY DEF Found
  <1>4. Calm /\ \A u \in Threads \ {c} : task'[u] = task[u]
    BY <1>0, <1>2, <1>3, CalmStart, Started, SamePeersOn
  <1>5. conn'[c].stage # "forgetting" /\ \A d \in Slots \ {c} : conn'[d] = conn[d] /\ d \in Threads
    BY <1>0, <1>1 DEF Threads
  <1>6. Steady
    BY <1>0, <1>4, <1>5, SteadyAt
  <1> QED
    BY <1>0, <1>4, <1>6, SamePeersOn

LEMMA CommandCalm ==
  ASSUME Types, RaceInv, Command
  PROVE  Calm /\ Steady /\ Kept
  <1>0. /\ PeersType /\ TaskInv /\ ToForget /\ User \in Threads /\ User \notin Slots
        /\ heard \in Nat /\ UNCHANGED conn /\ heard' = heard + 1
    BY Constants, PeersAssumption DEF Types, RaceInv, RestType, Threads, Command, Hear
  <1>1. Kept
    BY <1>0 DEF Kept
  <1>2. \A a : Found(a) = {} => \A l \in Levels : ~On(l, a)
    BY DEF Found
  <1>3. \/ UNCHANGED task
        \/ /\ UNCHANGED peers
           /\ \E a, to, r, kind : Start(User, a, to, r, kind) /\ (kind = "insert" => Found(a) = {})
    BY DEF Command, Ban, Add
  <1>4. \A d \in Slots : d \in Threads \ {User}
    BY <1>0 DEF Threads
  <1>5. \A d \in Slots : task'[d] = task[d]
    BY <1>0, <1>3, <1>4, Started
  <1>6. \A l \in Levels, a \in Addresses : On(l, a)' => On(l, a)
    <2>1. CASE UNCHANGED peers
      BY <2>1, SamePeersOn
    <2>2. ASSUME NEW a \in Addresses, peers' = Erased(blacklisted, a)
          PROVE  \A l \in Levels, b \in Addresses : On(l, b)' => On(l, b)
      <3>1. blacklisted \in Levels
        BY DEF blacklisted, Levels
      <3> QED
        BY <1>0, <2>2, <3>1, ErasedOn
    <2>3. ASSUME NEW h \in Hosts,
                 peers' = [l \in Levels |-> IF l = blacklisted THEN peers[l]
                                            ELSE Erased(l, Port(h))[l]]
          PROVE  \A l \in Levels, b \in Addresses : On(l, b)' => On(l, b)
      BY <1>0, <2>3 DEF PeersType, Erased, On
    <2> QED
      BY <2>1, <2>2, <2>3 DEF Command
  <1>7. Calm
    <2>1. CASE UNCHANGED task
      BY <1>6, <2>1, CalmSame
    <2>2. ASSUME NEW a, NEW to, NEW r, NEW kind, Start(User, a, to, r, kind),
                 kind = "insert" => Found(a) = {}
          PROVE  Calm
      BY <1>0, <1>2, <1>6, <2>2, CalmStart
    <2> QED
      BY <1>3, <2>1, <2>2
  <1>8. Steady
    BY <1>0, <1>5, SteadySame
  <1> QED
    BY <1>1, <1>7, <1>8

LEMMA MainCalm ==
  ASSUME Types, RaceInv,
         \/ Tick \/ Choose \/ Flush \/ NextDay
         \/ \E c \in Slots, h \in Hosts : Open(c, h)
         \/ \E h \in Hosts : OpenFails(h)
  PROVE  Calm /\ Steady /\ Kept
  <1>0. /\ PeersType /\ TaskInv /\ ToForget /\ Main \in Threads /\ conn \in [Slots -> Connection]
        /\ Main \notin Slots /\ \A d \in Slots : d \in Threads
    BY Constants DEF Types, RaceInv, Threads, ConnInv, ConnType
  <1>1. CASE Tick \/ Choose \/ NextDay
    <2>1. UNCHANGED <<peers, conn, task>>
      BY <1>1 DEF Tick, Choose, NextDay
    <2> QED
      BY <1>0, <2>1, CalmSame, SteadySame, SamePeersOn
  <1>2. CASE Flush
    <2>1. \A l \in Levels, a \in Addresses : On(l, a)' => On(l, a)
      BY <1>0, <1>2 DEF Flush, PeersType, On
    <2>2. Kept
      BY <1>0, <1>2 DEF Flush, PeersType, On, Kept, blacklisted, Levels
    <2>3. UNCHANGED <<conn, task>>
      BY <1>2 DEF Flush
    <2> QED
      BY <1>0, <2>1, <2>2, <2>3, CalmSame, SteadySame
  <1>3. ASSUME NEW c \in Slots, NEW h \in Hosts, Open(c, h) PROVE Calm /\ Steady /\ Kept
    <2>1. /\ UNCHANGED <<peers, task>> /\ conn'[c].stage # "forgetting"
          /\ \A d \in Slots \ {c} : conn'[d] = conn[d]
      BY <1>0, <1>3 DEF Open
    <2> QED
      BY <1>0, <2>1, CalmSame, SteadyAt, SamePeersOn
  <1>4. ASSUME NEW h \in Hosts, OpenFails(h) PROVE Calm /\ Steady /\ Kept
    <2>1. /\ UNCHANGED <<peers, conn>>
          /\ \/ UNCHANGED task
             \/ Start(Main, Port(h), blacklisted, day + Days["unusable"], "adjust")
      BY <1>4 DEF OpenFails, Ban
    <2>2. Calm /\ \A d \in Slots : task'[d] = task[d]
      BY <1>0, <2>1, CalmSame, CalmStart, Started, SamePeersOn
    <2> QED
      BY <1>0, <2>1, <2>2, SteadySame, SamePeersOn
  <1> QED
    BY <1>1, <1>2, <1>3, <1>4

\* Every step but an insertion is calm, all are steady and keep bans.
LEMMA StepCalm ==
  ASSUME Types, RaceInv, Step
  PROVE  (Calm /\ Steady /\ Kept) \/ \E t \in Threads : MoveInsert(t)
  <1>1. CASE Coordinator \/ NextDay \/ \E h \in Hosts : OpenFails(h)
    BY <1>1, MainCalm DEF Coordinator
  <1>2. CASE Command
    BY <1>2, CommandCalm
  <1>3. CASE \E t \in Threads : Move(t)
    BY <1>3, MoveCalm DEF Move
  <1>4. ASSUME NEW c \in Slots,
               \/ Handler(c) \/ Sweep(c) \/ Connected(c) \/ Fail(c) \/ Established(c)
               \/ Disagreed(c) \/ \E d \in Slots : Reflected(c, d)
               \/ \E h \in Hosts : Accept(c, h)
        PROVE  Calm /\ Steady /\ Kept
    BY <1>4, ConnectionCalm DEF Handler
  <1>5. ASSUME NEW c \in Slots,
               Listening(c) \/ \E h \in Hosts, fromCore \in BOOLEAN : NewPeer(c, h, fromCore)
        PROVE  Calm /\ Steady /\ Kept
    BY <1>5, HeardCalm
  <1> QED
    BY <1>1, <1>2, <1>3, <1>4, <1>5 DEF Step

LEMMA RaceInit == Init => RaceInv
  <1> SUFFICES ASSUME Init PROVE RaceInv
    OBVIOUS
  <1>1. \A t \in Threads : task[t].pc = "none"
    BY DEF Init, NoTask
  <1>2. \A c \in Slots : conn[c].stage = "free"
    BY DEF Init, NoConnection
  <1>3. Meeting \subseteq raced
    <2>1. \A h \in Hosts : {t \in Threads : h \in At(t)} = {}
      BY <1>1, <1>2 DEF At, Init, Idle
    <2>2. Cardinality({}) = 0
      BY FS_EmptySet
    <2> QED
      BY <2>1, <2>2 DEF Meeting
  <1>4. AtMostOne
    <2> SUFFICES ASSUME NEW a \in Addresses, NEW k \in Levels, NEW l \in Levels, On(k, a), On(l, a)
                 PROVE  k = l
      BY DEF AtMostOne
    <2>1. \A m \in Levels : peers[m] = [b \in Addresses |->
            IF b[2] = "port" /\ b[1] \in Known[m]
            THEN IF m = blacklisted THEN 1 ELSE New ELSE Absent]
      BY DEF Init
    <2> HIDE DEF Levels
    <2>2. a[1] \in Known[k] /\ a[1] \in Known[l]
      BY <2>1 DEF On
    <2> QED
      BY <2>2, PeersAssumption
  <1> QED
    BY <1>1, <1>2, <1>3, <1>4 DEF RaceInv, ToInsert, ToErase, ToForget

LEMMA RaceStep ==
  ASSUME TypeInv, TypeInv', RaceInv, Next
  PROVE  RaceInv' /\ Kept
  <1>0. /\ Types /\ Types' /\ TaskInv' /\ raced' = raced \cup Meeting' /\ Step
        /\ AtMostOne /\ ToInsert /\ ToErase /\ ToForget
    BY TypeParts, TypePartsNext DEF Next, Types, RaceInv
  <1>1. (Meeting \subseteq raced)' /\ raced \subseteq raced'
    BY <1>0
  <1>2. Steady /\ Kept /\ AtMostOne' /\ ToInsert' /\ ToErase'
    BY <1>0, <1>1, StepCalm, CalmKeeps, InsertKeeps
  <1>3. ToForget'
    BY <1>0, <1>1, <1>2, SteadyKeeps
  <1> QED
    BY <1>1, <1>2, <1>3 DEF RaceInv

LEMMA RaceNext == TypeInv /\ TypeInv' /\ RaceInv /\ [Next]_vars => RaceInv'
  <1>1. TypeInv /\ TypeInv' /\ RaceInv /\ Next => RaceInv'
    BY RaceStep
  <1>2. RaceInv /\ UNCHANGED vars => RaceInv'
    BY DEF RaceInv, Meeting, At, AtMostOne, ToInsert, ToErase, ToForget, On, vars
  <1> QED
    BY <1>1, <1>2

LEMMA AlwaysRaceInv == Spec => [](TypeInv /\ RaceInv)
  BY InitTypes, NextTypes, RaceInit, RaceNext, PTL DEF Spec

\* An address that no two threads have been at, at once, is on one level at most,
\* through any sequence of moves, bans, announcements and commands.
THEOREM LevelsDisjoint == Spec => []OneLevel
  <1>1. RaceInv => OneLevel
    <2> SUFFICES ASSUME RaceInv, NEW a \in Addresses, a[1] \notin raced
                 PROVE  Cardinality(Found(a)) <= 1
      BY DEF OneLevel
    <2>1. CASE Found(a) = {}
      BY <2>1, FS_EmptySet
    <2>2. CASE Found(a) # {}
      <3>1. PICK l \in Found(a) : TRUE
        BY <2>2
      <3>2. Found(a) = {l}
        BY <3>1 DEF RaceInv, AtMostOne, Found
      <3> QED
        BY <3>2, FS_Singleton
    <2> QED
      BY <2>1, <2>2
  <1> QED
    BY <1>1, AlwaysRaceInv, PTL

\* A ban on an address that no two threads have been at, at once, lasts until its
\* day or the user's command.
THEOREM BansLast == Spec => BansHold
  <1> DEFINE Held == \A a \in Addresses :
                      On(blacklisted, a) /\ ~On(blacklisted, a)' =>
                        a[1] \in raced \/ day >= peers[blacklisted][a] \/ heard' > heard
  <1>1. TypeInv /\ TypeInv' /\ RaceInv /\ [Next]_vars => [Held]_vars
    BY RaceStep DEF Kept
  <1> HIDE DEF Held
  <1>2. Spec => [][Held]_vars
    BY <1>1, AlwaysRaceInv, PTL DEF Spec
  <1> QED
    BY <1>2, Zenon DEF BansHold, Held
-----------------------------------------------------------------------------
(* Nothing is lost in a move. Whole hosts are only ever banned, so that erasing
   one erases no port; no thread begins a move while it is in another, and the
   main thread begins one only to wait for ever.                              *)

WholeBanned ==
  \A l \in Levels, a \in Addresses : On(l, a) /\ a[2] = "any" => l = blacklisted

WholeTasks ==
  \A t \in Threads : task[t].pc # "none" /\ task[t].addr[2] = "any" =>
    task[t].to = blacklisted /\ task[t].pc # "erase"

MainFree == main.pc # "dead" => task[Main].pc = "none"

PlaceInv == WholeBanned /\ WholeTasks /\ MainFree

\* A step begins at most one move, in a thread that is in none.
Begins(t) ==
  \E a \in Addresses, to \in Levels : \E r, kind :
    /\ task[t].pc = "none" /\ Start(t, a, to, r, kind)
    /\ to = blacklisted \/ a[2] = "port"

Begun ==
  /\ UNCHANGED task \/ \E t \in Threads : Begins(t) /\ (t = Main => main'.pc = "dead")
  /\ main.pc = "dead" => main'.pc = "dead"

\* A step takes an address off a level only for what MovedNotLost excuses.
Excused(h) ==
  \/ heard' > heard
  \/ \E c \in Slots : conn[c].stage = "forgetting" /\ conn[c].host = h
  \/ On(blacklisted, Port(h)) /\ day >= peers[blacklisted][Port(h)]

Lasts ==
  /\ \A l \in Levels, a \in Addresses : On(l, a)' => On(l, a)
  /\ \A l \in Levels, h \in Hosts : On(l, Port(h)) => On(l, Port(h))' \/ Excused(h)

LEMMA LevelNames == {core, established, validated, announced, blacklisted} \subseteq Levels
  BY DEF core, established, validated, announced, blacklisted, Levels

LEMMA StillOn ==
  ASSUME UNCHANGED peers
  PROVE  \A l \in Levels, a \in Addresses : On(l, a)' <=> On(l, a)
  BY DEF On

LEMMA LastsSame ==
  ASSUME \A l \in Levels, a \in Addresses : On(l, a)' <=> On(l, a)
  PROVE  Lasts
  BY AddressTypes DEF Lasts

LEMMA MainStays ==
  ASSUME MainFree, UNCHANGED main, UNCHANGED task \/ \E t \in Slots \cup {User} : Begins(t)
  PROVE  Begun
  BY Constants DEF Begun, Threads

LEMMA ConnectionPlaces ==
  ASSUME Types, PlaceInv, NEW c \in Slots,
         \/ Connected(c) \/ Fail(c) \/ Established(c) \/ Secure(c) \/ Disagreed(c)
         \/ Unavailable(c) \/ Forget(c) \/ Sweep(c)
         \/ \E h \in Hosts : Accept(c, h)
         \/ \E d \in Slots : Reflected(c, d)
  PROVE  Begun /\ Lasts
  <1>0. PeersType /\ ConnInv /\ TaskInv /\ MainFree
    BY DEF Types, PlaceInv
  <1>1. conn[c].stage # "free" => Peer(c) \in Addresses /\ conn[c].level \in Levels
                                  /\ Peer(c)[1] = conn[c].host
                                  /\ (conn[c].out => Peer(c)[2] = "port")
    BY <1>0, PeerType, AddressTypes DEF Peer, Port
  <1>2. UNCHANGED peers => Lasts
    BY StillOn, LastsSame
  <1>3. ASSUME NEW l \in Levels, NEW d \in Int, conn[c].stage # "free", peers' = Adjusted(l, Peer(c), d)
        PROVE  Lasts
    BY <1>0, <1>1, <1>3, AdjustedOn, LastsSame
  <1>4. CASE \/ Connected(c) \/ Fail(c) \/ Secure(c) \/ Sweep(c) \/ \E h \in Hosts : Accept(c, h)
    <2>1. UNCHANGED <<peers, task, main>>
      BY <1>4 DEF Connected, Fail, Secure, Sweep, Accept
    <2> QED
      BY <1>0, <1>2, <2>1, MainStays
  <1>5. CASE Established(c)
    <2>1. /\ conn[c].stage # "free" /\ task[c].pc = "none" /\ UNCHANGED main
          /\ \/ UNCHANGED task
             \/ conn[c].out /\ Start(c, Peer(c), established, New, "connection")
             \/ conn[c].out /\ Start(c, Peer(c), validated, New, "connection")
          /\ UNCHANGED peers \/ peers' = Adjusted(conn[c].level, Peer(c), 1)
      BY <1>5 DEF Established, In
    <2>2. UNCHANGED task \/ Begins(c)
      BY <1>1, <2>1, LevelNames DEF Begins
    <2> QED
      BY <1>0, <1>1, <1>2, <1>3, <2>1, <2>2, MainStays
  <1>6. CASE Disagreed(c)
    <2>1. /\ conn[c].stage # "free" /\ task[c].pc = "none" /\ UNCHANGED main /\ -Penalty \in Int
          /\ \/ UNCHANGED task
             \/ Start(c, Peer(c), blacklisted, day + Days["disagreed"], "adjust")
          /\ UNCHANGED peers \/ peers' = Adjusted(conn[c].level, Peer(c), -Penalty)
      BY <1>6, Constants DEF Disagreed, In, Ban
    <2>2. UNCHANGED task \/ Begins(c)
      BY <1>1, <2>1, LevelNames DEF Begins
    <2> QED
      BY <1>0, <1>1, <1>2, <1>3, <2>1, <2>2, MainStays
  <1>7. CASE Unavailable(c)
    <2>1. /\ conn[c].stage # "free" /\ UNCHANGED <<main, task>> /\ -1 \in Int
          /\ UNCHANGED peers \/ peers' = Adjusted(conn[c].level, Peer(c), -1)
      BY <1>7 DEF Unavailable, In
    <2> QED
      BY <1>0, <1>1, <1>2, <1>3, <2>1, MainStays
  <1>8. CASE Forget(c)
    <2>1. /\ conn[c].stage = "forgetting" /\ UNCHANGED <<main, task>>
          /\ peers' = Erased(conn[c].level, Peer(c))
      BY <1>8 DEF Forget, In
    <2>2. \A k \in Levels, b \in Addresses :
            /\ On(k, b)' => On(k, b)
            /\ b[1] # conn[c].host => (On(k, b)' <=> On(k, b))
      BY <1>0, <1>1, <2>1, ErasedOn
    <2>3. Lasts
      BY <2>1, <2>2, AddressTypes DEF Lasts, Excused
    <2> QED
      BY <1>0, <2>1, <2>3, MainStays
  <1>9. ASSUME NEW d \in Slots, Reflected(c, d) PROVE Begun /\ Lasts
    <2>1. /\ task[c].pc = "none" /\ UNCHANGED <<main, peers>> /\ conn[d].stage # "free"
          /\ Start(c, Peer(d), blacklisted, day + Days["reflected"], "adjust")
      BY <1>9 DEF Reflected, In, Ban
    <2>2. Begins(c)
      BY <1>0, <2>1, PeerType, LevelNames DEF Begins
    <2> QED
      BY <1>0, <1>2, <2>1, <2>2, MainStays
  <1> QED
    BY <1>4, <1>5, <1>6, <1>7, <1>8, <1>9

LEMMA OtherPlaces ==
  ASSUME Types, PlaceInv,
         \/ Command
         \/ \E c \in Slots : Listening(c) \/ \E h \in Hosts, fromCore \in BOOLEAN : NewPeer(c, h, fromCore)
  PROVE  Begun /\ Lasts
  <1>0. PeersType /\ ConnInv /\ TaskInv /\ MainFree /\ heard \in Nat /\ heard' = heard + 1
    BY PeersAssumption DEF Types, PlaceInv, RestType, Command, Listening, NewPeer, Hear
  <1>1. \A h : Excused(h)
    BY <1>0 DEF Excused
  <1>2. (\A l \in Levels, a \in Addresses : On(l, a)' => On(l, a)) => Lasts
    BY <1>1 DEF Lasts
  <1>3. \A h \in Hosts : Port(h) \in Addresses /\ Port(h)[2] = "port"
    BY AddressTypes
  <1>4. CASE Command
    <2>1. UNCHANGED task \/ Begins(User)
      BY <1>3, <1>4, LevelNames DEF Command, Ban, Add, Begins
    <2>2. \A l \in Levels, a \in Addresses : On(l, a)' => On(l, a)
      <3>1. CASE UNCHANGED peers
        BY <3>1, StillOn
      <3>2. ASSUME NEW a \in Addresses, peers' = Erased(blacklisted, a)
            PROVE  \A l \in Levels, b \in Addresses : On(l, b)' => On(l, b)
        BY <1>0, <3>2, LevelNames, ErasedOn
      <3>3. ASSUME NEW h \in Hosts,
                   peers' = [l \in Levels |-> IF l = blacklisted THEN peers[l]
                                              ELSE Erased(l, Port(h))[l]]
            PROVE  \A l \in Levels, b \in Addresses : On(l, b)' => On(l, b)
        BY <1>0, <3>3 DEF PeersType, Erased, On
      <3> QED
        BY <1>4, <3>1, <3>2, <3>3 DEF Command
    <2>3. UNCHANGED main
      BY <1>4 DEF Command
    <2> QED
      BY <1>0, <1>2, <2>1, <2>2, <2>3, MainStays
  <1>5. ASSUME NEW c \in Slots,
               Listening(c) \/ \E h \in Hosts, fromCore \in BOOLEAN : NewPeer(c, h, fromCore)
        PROVE  Begun /\ Lasts
    <2>1. UNCHANGED <<peers, main>> /\ task[c].pc = "none" /\ conn[c].stage # "free"
      BY <1>5 DEF Listening, NewPeer, In
    <2>2. conn[c].host \in Hosts
      BY <1>0, <2>1 DEF ConnInv
    <2>3. \E h \in Hosts, to \in Levels : \E r, kind : Start(c, Port(h), to, r, kind)
      BY <1>5, <2>2, LevelNames DEF Listening, NewPeer
    <2>4. Begins(c)
      BY <1>3, <2>1, <2>3 DEF Begins
    <2> QED
      BY <1>0, <1>2, <2>1, <2>4, StillOn, MainStays
  <1> QED
    BY <1>4, <1>5

LEMMA MainPlaces ==
  ASSUME Types, PlaceInv,
         \/ Tick \/ Choose \/ Flush \/ NextDay
         \/ \E c \in Slots, h \in Hosts : Open(c, h)
         \/ \E h \in Hosts : OpenFails(h)
  PROVE  Begun /\ Lasts
  <1>0. PeersType /\ MainType /\ MainFree /\ Main \in Threads
    BY DEF Types, PlaceInv, Threads
  <1>1. CASE Tick \/ Choose \/ NextDay \/ \E c \in Slots, h \in Hosts : Open(c, h)
    <2>1. UNCHANGED <<peers, task>> /\ (main.pc = "dead" => main' = main)
      BY <1>1 DEF Tick, Choose, NextDay, Open
    <2> QED
      BY <2>1, StillOn, LastsSame DEF Begun
  <1>2. CASE Flush
    <2>1. UNCHANGED task /\ main.pc # "dead"
      BY <1>2 DEF Flush
    <2>2. \A l \in Levels, a \in Addresses : On(l, a)' => On(l, a)
      BY <1>0, <1>2 DEF Flush, PeersType, On
    <2>3. \A l \in Levels, a \in Addresses :
            On(l, a) => On(l, a)' \/ (l = blacklisted /\ day >= peers[l][a])
      BY <1>0, <1>2 DEF Flush, PeersType, On
    <2>4. Lasts
      BY <2>2, <2>3, AddressTypes DEF Lasts, Excused
    <2> QED
      BY <2>1, <2>4 DEF Begun
  <1>3. ASSUME NEW h \in Hosts, OpenFails(h) PROVE Begun /\ Lasts
    <2>1. /\ UNCHANGED peers /\ main.pc = "open" /\ main' = [main EXCEPT !.pc = "dead"]
          /\ UNCHANGED task \/ Start(Main, Port(h), blacklisted, day + Days["unusable"], "adjust")
      BY <1>3 DEF OpenFails, Ban
    <2>2. main'.pc = "dead" /\ task[Main].pc = "none"
      BY <1>0, <2>1 DEF MainType, MainFree
    <2>3. UNCHANGED task \/ Begins(Main)
      BY <2>1, <2>2, AddressTypes, LevelNames DEF Begins
    <2> QED
      BY <1>0, <2>1, <2>2, <2>3, StillOn, LastsSame DEF Begun
  <1> QED
    BY <1>1, <1>2, <1>3

\* Every step is one of a move, or begins at most one and loses nothing.
LEMMA StepPlaces ==
  ASSUME Types, PlaceInv, Step
  PROVE  (Begun /\ Lasts) \/ \E t \in Threads : Move(t)
  <1>1. CASE Coordinator \/ NextDay \/ \E h \in Hosts : OpenFails(h)
    BY <1>1, MainPlaces DEF Coordinator
  <1>2. CASE Command
    BY <1>2, OtherPlaces
  <1>3. ASSUME NEW c \in Slots,
               \/ Handler(c) \/ Sweep(c) \/ Connected(c) \/ Fail(c) \/ Established(c)
               \/ Disagreed(c) \/ \E d \in Slots : Reflected(c, d)
               \/ \E h \in Hosts : Accept(c, h)
        PROVE  Begun /\ Lasts
    BY <1>3, ConnectionPlaces DEF Handler
  <1>4. ASSUME NEW c \in Slots,
               Listening(c) \/ \E h \in Hosts, fromCore \in BOOLEAN : NewPeer(c, h, fromCore)
        PROVE  Begun /\ Lasts
    BY <1>4, OtherPlaces
  <1> QED
    BY <1>1, <1>2, <1>3, <1>4 DEF Step

LEMMA BegunKeeps ==
  ASSUME Types, PlaceInv, Begun, Lasts
  PROVE  PlaceInv' /\ \A h \in Hosts : HasPlace(h) => HasPlace(h)' \/ Excused(h)
  <1>0. TaskInv /\ WholeBanned /\ WholeTasks /\ MainFree /\ Main \in Threads
    BY DEF Types, PlaceInv, Threads
  <1>1. WholeBanned'
    BY <1>0 DEF WholeBanned, Lasts
  <1>2. ASSUME NEW t \in Threads, Begins(t)
        PROVE  /\ \A u \in Threads \ {t} : task'[u] = task[u]
               /\ task[t].pc = "none" /\ task'[t].pc # "erase"
               /\ task'[t].addr[2] = "any" => task'[t].to = blacklisted
    <2>1. PICK a \in Addresses, to \in Levels :
            \E r, kind : /\ task[t].pc = "none" /\ Start(t, a, to, r, kind)
                         /\ to = blacklisted \/ a[2] = "port"
      BY <1>2 DEF Begins
    <2>2. PICK r, kind : task[t].pc = "none" /\ Start(t, a, to, r, kind)
                         /\ (to = blacklisted \/ a[2] = "port")
      BY <2>1
    <2>3. task'[t].to = to
      BY <1>0, <2>2 DEF Start, TaskInv, TaskType
    <2> QED
      BY <1>0, <2>2, <2>3, Started
  <1>3. WholeTasks'
    <2>1. CASE UNCHANGED task
      BY <1>0, <2>1 DEF WholeTasks
    <2>2. ASSUME NEW t \in Threads, Begins(t) PROVE WholeTasks'
      BY <1>0, <1>2, <2>2 DEF WholeTasks
    <2> QED
      BY <2>1, <2>2 DEF Begun
  <1>4. MainFree'
    BY <1>0, <1>2 DEF Begun, MainFree
  <1>5. ASSUME NEW h \in Hosts, HasPlace(h) PROVE HasPlace(h)' \/ Excused(h)
    <2>1. ASSUME NEW l \in Levels, On(l, Port(h)) PROVE HasPlace(h)' \/ Excused(h)
      BY <2>1 DEF Lasts, HasPlace, Found
    <2>2. ASSUME NEW t \in Threads, task[t].pc \in {"find", "erase", "insert"}, task[t].addr = Port(h)
          PROVE  HasPlace(h)'
      <3>1. task'[t] = task[t]
        BY <1>2, <2>2 DEF Begun
      <3> QED
        BY <2>2, <3>1 DEF HasPlace
    <2> QED
      BY <1>5, <2>1, <2>2 DEF HasPlace, Found
  <1> QED
    BY <1>1, <1>3, <1>4, <1>5 DEF PlaceInv

LEMMA FindKeeps ==
  ASSUME Types, PlaceInv, NEW t \in Threads, MoveFind(t)
  PROVE  PlaceInv' /\ \A h \in Hosts : HasPlace(h) => HasPlace(h)'
  <1>0. TaskInv /\ WholeBanned /\ WholeTasks /\ MainFree /\ Main \in Threads
    BY DEF Types, PlaceInv, Threads
  <1>1. task[t].pc = "find" /\ task[t].addr \in Addresses /\ UNCHANGED <<peers, main>>
    BY <1>0 DEF MoveFind, TaskInv
  <1>2. /\ \A u \in Threads \ {t} : task'[u] = task[u]
        /\ \/ /\ task'[t].addr = task[t].addr /\ task'[t].to = task[t].to
              /\ \/ task'[t].pc = "insert"
                 \/ /\ task'[t].pc = "erase" /\ Found(task[t].addr) # {}
                    /\ blacklisted \notin Found(task[t].addr)
           \/ task'[t].pc = "none" /\ blacklisted \in Found(task[t].addr)
    <2>1. CASE GoTo(t, "insert")
      BY <1>0, <2>1 DEF GoTo, TaskInv, TaskType, Task
    <2>2. CASE blacklisted \in Found(task[t].addr) /\ Finish(t)
      BY <1>0, <2>2 DEF Finish, NoTask, TaskInv, TaskType
    <2>3. CASE /\ Found(task[t].addr) # {} /\ blacklisted \notin Found(task[t].addr)
               /\ task' = [task EXCEPT ![t].pc = "erase", ![t].from = Highest(Found(task[t].addr))]
      <3> DEFINE l == Highest(Found(task[t].addr))   F == Found(task[t].addr)
      <3> HIDE DEF l, F
      <3>1. F # {} /\ blacklisted \notin F /\ task' = [task EXCEPT ![t].pc = "erase", ![t].from = l]
        BY <2>3 DEF l, F
      <3>2. /\ \A u \in Threads \ {t} : task'[u] = task[u]
            /\ task'[t].addr = task[t].addr /\ task'[t].to = task[t].to /\ task'[t].pc = "erase"
        BY <1>0, <3>1 DEF TaskInv, TaskType, Task
      <3> QED
        BY <3>1, <3>2 DEF F
    <2> QED
      BY <2>1, <2>2, <2>3 DEF MoveFind
  <1>3. \A l \in Levels, a \in Addresses : On(l, a)' <=> On(l, a)
    BY <1>1, StillOn
  <1>4. WholeBanned'
    BY <1>0, <1>3 DEF WholeBanned
  <1>5. task[t].addr[2] = "any" =>
          Found(task[t].addr) = {} \/ blacklisted \in Found(task[t].addr)
    BY <1>0, <1>1 DEF WholeBanned, Found
  <1>6. WholeTasks'
    BY <1>0, <1>1, <1>2, <1>5 DEF WholeTasks
  <1>7. MainFree'
    BY <1>0, <1>1, <1>2 DEF MainFree
  <1>8. ASSUME NEW h \in Hosts, HasPlace(h) PROVE HasPlace(h)'
    <2>1. Port(h) \in Addresses
      BY AddressTypes
    <2>2. CASE Found(Port(h)) # {}
      BY <1>3, <2>1, <2>2 DEF Found, HasPlace
    <2>3. ASSUME NEW u \in Threads, task[u].pc \in {"find", "erase", "insert"}, task[u].addr = Port(h),
                 Found(Port(h)) = {}
          PROVE  HasPlace(h)'
      <3>1. task'[u].pc \in {"find", "erase", "insert"} /\ task'[u].addr = Port(h)
        BY <1>2, <2>3
      <3> QED
        BY <3>1 DEF HasPlace
    <2> QED
      BY <1>8, <2>2, <2>3 DEF HasPlace
  <1> QED
    BY <1>4, <1>6, <1>7, <1>8 DEF PlaceInv

LEMMA EraseKeeps ==
  ASSUME Types, PlaceInv, NEW t \in Threads, MoveErase(t)
  PROVE  PlaceInv' /\ \A h \in Hosts : HasPlace(h) => HasPlace(h)'
  <1>0. PeersType /\ TaskInv /\ WholeBanned /\ WholeTasks /\ MainFree /\ Main \in Threads
    BY DEF Types, PlaceInv, Threads
  <1>1. /\ task[t].pc = "erase" /\ task[t].addr \in Addresses /\ task[t].from \in Levels
        /\ UNCHANGED main
    BY <1>0 DEF MoveErase, TaskInv, TaskType, Task
  <1>2. /\ \A u \in Threads \ {t} : task'[u] = task[u]
        /\ task'[t].pc = "find" /\ task'[t].addr = task[t].addr /\ task'[t].to = task[t].to
    BY <1>0 DEF MoveErase, TaskInv, TaskType, Task
  <1>3. task[t].addr[2] # "any"
    BY <1>0, <1>1 DEF WholeTasks
  <1>4. /\ \A l \in Levels, a \in Addresses : On(l, a)' => On(l, a)
        /\ \A l \in Levels, a \in Addresses : a # task[t].addr => (On(l, a)' <=> On(l, a))
    BY <1>0, <1>1, <1>3 DEF MoveErase, PeersType, Erased, On
  <1>5. WholeBanned'
    BY <1>0, <1>4 DEF WholeBanned
  <1>6. WholeTasks'
    BY <1>0, <1>2, <1>3 DEF WholeTasks
  <1>7. MainFree'
    BY <1>0, <1>1, <1>2 DEF MainFree
  <1>8. ASSUME NEW h \in Hosts, HasPlace(h) PROVE HasPlace(h)'
    <2>1. CASE task[t].addr = Port(h)
      BY <1>2, <2>1 DEF HasPlace
    <2>2. CASE task[t].addr # Port(h) /\ Found(Port(h)) # {}
      BY <1>4, <2>2, AddressTypes DEF Found, HasPlace
    <2>3. ASSUME NEW u \in Threads, task[u].pc \in {"find", "erase", "insert"}, task[u].addr = Port(h)
          PROVE  HasPlace(h)'
      <3>1. task'[u].pc \in {"find", "erase", "insert"} /\ task'[u].addr = Port(h)
        BY <1>2, <2>3
      <3> QED
        BY <3>1 DEF HasPlace
    <2> QED
      BY <1>8, <2>1, <2>2, <2>3 DEF HasPlace
  <1> QED
    BY <1>5, <1>6, <1>7, <1>8 DEF PlaceInv

LEMMA InsertPlaces ==
  ASSUME Types, PlaceInv, NEW t \in Threads, MoveInsert(t)
  PROVE  PlaceInv' /\ \A h \in Hosts : HasPlace(h) => HasPlace(h)'
  <1>0. PeersType /\ TaskInv /\ WholeBanned /\ WholeTasks /\ MainFree /\ Main \in Threads
    BY DEF Types, PlaceInv, Threads
  <1>1. /\ task[t].pc = "insert" /\ task[t].addr \in Addresses /\ task[t].to \in Levels
        /\ task[t].rank \in Nat /\ task[t].rank # Absent /\ UNCHANGED main
    BY <1>0, Constants DEF MoveInsert, TaskInv, TaskType, Task
  <1>2. /\ \A u \in Threads \ {t} : task'[u] = task[u]
        /\ \/ task'[t].pc = "none"
           \/ task'[t].pc = "adjust" /\ task'[t].addr = task[t].addr /\ task'[t].to = task[t].to
    BY <1>0 DEF MoveInsert, Finish, NoTask, GoTo, TaskInv, TaskType, Task
  <1>3. \A l \in Levels, a \in Addresses :
          On(l, a)' <=> On(l, a) \/ (l = task[t].to /\ a = task[t].addr)
    BY <1>0, <1>1 DEF MoveInsert, PeersType, Inserted, On
  <1>4. WholeBanned'
    BY <1>0, <1>1, <1>3 DEF WholeBanned, WholeTasks
  <1>5. WholeTasks'
    BY <1>0, <1>1, <1>2 DEF WholeTasks
  <1>6. MainFree'
    BY <1>0, <1>1, <1>2 DEF MainFree
  <1>7. ASSUME NEW h \in Hosts, HasPlace(h) PROVE HasPlace(h)'
    <2>1. Port(h) \in Addresses
      BY AddressTypes
    <2>2. CASE Found(Port(h)) # {} \/ task[t].addr = Port(h)
      <3>1. PICK l \in Levels : On(l, Port(h)) \/ (l = task[t].to /\ task[t].addr = Port(h))
        BY <1>1, <2>2 DEF Found
      <3>2. On(l, Port(h))'
        BY <1>3, <2>1, <3>1
      <3> QED
        BY <3>2 DEF HasPlace, Found
    <2>3. ASSUME NEW u \in Threads, task[u].pc \in {"find", "erase", "insert"}, task[u].addr = Port(h),
                 task[t].addr # Port(h)
          PROVE  HasPlace(h)'
      <3>1. task'[u] = task[u]
        BY <1>2, <2>3
      <3> QED
        BY <2>3, <3>1 DEF HasPlace
    <2> QED
      BY <1>7, <2>2, <2>3 DEF HasPlace
  <1> QED
    BY <1>4, <1>5, <1>6, <1>7 DEF PlaceInv

LEMMA AdjustKeeps ==
  ASSUME Types, PlaceInv, NEW t \in Threads, MoveAdjust(t)
  PROVE  PlaceInv' /\ \A h \in Hosts : HasPlace(h) => HasPlace(h)'
  <1>0. TaskInv /\ WholeBanned /\ WholeTasks /\ MainFree /\ Main \in Threads
    BY DEF Types, PlaceInv, Threads
  <1>1. /\ task[t].pc = "adjust" /\ UNCHANGED <<peers, main>>
        /\ \A u \in Threads \ {t} : task'[u] = task[u]
        /\ task'[t].pc = "none"
    BY <1>0 DEF MoveAdjust, Finish, NoTask, TaskInv, TaskType
  <1>2. \A l \in Levels, a \in Addresses : On(l, a)' <=> On(l, a)
    BY <1>1, StillOn
  <1>3. WholeBanned' /\ WholeTasks' /\ MainFree'
    BY <1>0, <1>1, <1>2 DEF WholeBanned, WholeTasks, MainFree
  <1>4. ASSUME NEW h \in Hosts, HasPlace(h) PROVE HasPlace(h)'
    <2>1. CASE Found(Port(h)) # {}
      BY <1>2, <2>1, AddressTypes DEF Found, HasPlace
    <2>2. ASSUME NEW u \in Threads, task[u].pc \in {"find", "erase", "insert"}, task[u].addr = Port(h)
          PROVE  HasPlace(h)'
      <3>1. task'[u] = task[u]
        BY <1>1, <2>2
      <3> QED
        BY <2>2, <3>1 DEF HasPlace
    <2> QED
      BY <1>4, <2>1, <2>2 DEF HasPlace
  <1> QED
    BY <1>3, <1>4 DEF PlaceInv

LEMMA PlaceStep ==
  ASSUME TypeInv, PlaceInv, Next
  PROVE  PlaceInv' /\ \A h \in Hosts : HasPlace(h) => HasPlace(h)' \/ Excused(h)
  <1>1. Types /\ Step
    BY TypeParts DEF Next
  <1>2. ASSUME NEW t \in Threads, Move(t)
        PROVE  PlaceInv' /\ \A h \in Hosts : HasPlace(h) => HasPlace(h)'
    BY <1>1, <1>2, FindKeeps, EraseKeeps, InsertPlaces, AdjustKeeps DEF Move
  <1> QED
    BY <1>1, <1>2, StepPlaces, BegunKeeps

LEMMA PlaceInit == Init => PlaceInv
  <1> SUFFICES ASSUME Init PROVE PlaceInv
    OBVIOUS
  <1>1. \A t \in Threads : task[t].pc = "none"
    BY DEF Init, NoTask
  <1>2. WholeBanned
    BY DEF Init, WholeBanned, On
  <1> QED
    BY <1>1, <1>2 DEF PlaceInv, WholeTasks, MainFree, Threads

\* A known address that is moved from level to level, by any number of threads at
\* once, is always on a level or about to be inserted, until it is forgotten for
\* failing, its ban ends, or the user removes it.
THEOREM MovesComplete == Spec => MovedNotLost
  <1> DEFINE Lost == \A h \in Hosts :
                 HasPlace(h) /\ ~HasPlace(h)' =>
                   \/ heard' > heard
                   \/ \E c \in Slots : conn[c].stage = "forgetting" /\ conn[c].host = h
                   \/ On(blacklisted, Port(h)) /\ day >= peers[blacklisted][Port(h)]
  <1>1. TypeInv /\ PlaceInv /\ Next => PlaceInv' /\ Lost
    BY PlaceStep DEF Excused
  <1>2. PlaceInv /\ UNCHANGED vars => PlaceInv'
    BY DEF PlaceInv, WholeBanned, WholeTasks, MainFree, On, vars
  <1>3. TypeInv /\ PlaceInv /\ [Next]_vars => PlaceInv' /\ [Lost]_vars
    BY <1>1, <1>2
  <1> HIDE DEF Lost
  <1>4. Spec => [][Lost]_vars
    BY <1>3, InitTypes, NextTypes, PlaceInit, PTL DEF Spec
  <1> QED
    BY <1>4, Zenon DEF MovedNotLost, Lost
=============================================================================

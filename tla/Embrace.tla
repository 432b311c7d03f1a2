------------------------------ MODULE Embrace ------------------------------
(***************************************************************************)
(* The node's acceptance pipeline: what `embrace` (src/node/node.cpp) does  *)
(* with an entry that a connection received or an application submitted,   *)
(* from the database's assessment to insertion, rebroadcast and the        *)
(* processing of entries that were waiting for their parent.               *)
(*                                                                         *)
(* Several worker threads run the pipeline at once. A step of a worker is   *)
(* what it does under one lock: the tables, `recent`, `refused` and         *)
(* `detached` have a lock each, so the steps of workers interleave between  *)
(* them. `embrace` calls itself, through detached::accept, for every entry  *)
(* that waited for the one just inserted; the recursion is a depth-first    *)
(* walk, and todo[w] holds the entries it has yet to visit.                 *)
(***************************************************************************)
EXTENDS Naturals, Sequences, FiniteSets

CONSTANTS
  Identities, Channels,  \* announcements (raddi::identity, raddi::channel)
  Posts,                 \* all other entries: threads, replies, nested replies
  Parent,                \* entry::parent of a post
  Author,                \* entry::id.identity of a channel or a post
  Root,                  \* the channel and the thread a post truly belongs to
  Timestamp,             \* entry::id.timestamp
  Forged,                \* entries whose signature does not verify
  WeakProof,             \* entries failing assess_proof_requirements
  WeakThread, LongThread,    \* threads failing assess_extra_proof_requirements
                         \* and assess_extra_size_requirements
  Workers,               \* threads of the I/O completion port
  Connections, Local,    \* sources of entries; Local is the nullptr source
  NoFrame, NoRow,
  Installed,             \* announcements in the database the node starts with
  Blacklist, Subscriptions,  \* ids on coordinator->blacklist, ->subscriptions
  TrackAllChannels,      \* settings.track_all_channels
  StoreEverything,       \* database->settings.store_everything
  NetworkPropagation,    \* settings.network_propagation_participation
  ProofAdjusted,         \* settings.proof_complexity_requirements_adjustment # 0
  MaxRejected, MaxUnsolicited,   \* coordinator settings
  MaxAge, MaxSkew,       \* consensus::max_entry_age_allowed, ..skew_allowed
  WritesFail,            \* whether the model lets table writes fail
  MaxNow, MaxErasures,   \* bounds on the clock and on the erases
  MaxCopies              \* bound on the arrivals of each entry

Announcements == Identities \cup Channels
Entries == Announcements \cup Posts
Sources == Connections \cup {Local}
Roots   == [channel : Announcements, thread : Posts]

\* A post has a parent, which is not itself, and an author who signs it, as a
\* channel has. Root is what following the parents up to the channel gives; a
\* post is not its own ancestor.
ASSUME EntryAssumption ==
  /\ Identities \cap Channels = {} /\ Announcements \cap Posts = {}
  /\ Parent \in [Posts -> Entries]
  /\ Author \in [Channels \cup Posts -> Identities]
  /\ Timestamp \in [Entries -> Nat]
  /\ Installed \subseteq Announcements
  /\ Root \in [Posts -> Roots]
  /\ \A e \in Posts :
       /\ Parent[e] # e
       /\ IF Parent[e] \in Posts
          THEN Root[e] = Root[Parent[e]] /\ Root[e].thread # e
          ELSE Root[e] = [channel |-> Parent[e], thread |-> e]

ASSUME NameAssumption ==
  /\ Local \notin Connections /\ NoRow \notin Roots
  /\ NoFrame \notin [entry : Entries, source : Sources, nested : BOOLEAN,
                     old : BOOLEAN, gated : BOOLEAN, top : Roots \cup {NoRow}]

ASSUME SettingAssumption ==
  /\ {TrackAllChannels, StoreEverything, NetworkPropagation, ProofAdjusted,
      WritesFail} \subseteq BOOLEAN
  /\ {MaxRejected, MaxUnsolicited, MaxAge, MaxSkew} \subseteq Nat
  /\ {MaxNow, MaxErasures} \subseteq Nat /\ MaxCopies \in [Entries -> Nat]

VARIABLES
  announced,   \* identities and channels tables
  threads,     \* threads table
  data,        \* data table: post -> top (channel and thread) of its row, or NoRow
  recent, refused,    \* noticed caches of the coordinator
  detached,    \* detached cache: parent id -> posts waiting for it
  connected,   \* connections not disconnected yet
  rejected, unsolicited,  \* connection::rejected, connection::unsolicited
  pc, frame, todo,    \* each worker: next step, innermost embrace, entries left
  now,         \* raddi::now ()
  copies,      \* bound: how many times an entry has arrived
  \* history, read by properties only
  relays,      \* times an entry was broadcast after passing `recent`
  floods,      \* times an entry was broadcast while detached
  lives,       \* times an entry has left `recent`
  submitted,   \* entries that came from an application
  erased       \* entries erased by a user

tables  == <<announced, threads, data>>
caches  == <<recent, refused, detached>>
peers   == <<connected, rejected, unsolicited>>
control == <<pc, frame, todo>>
history == <<relays, floods, lives, submitted, erased>>
vars == <<tables, caches, peers, control, now, copies, history>>

Frames == [entry : Entries, source : Sources, nested : BOOLEAN,
           old : BOOLEAN, gated : BOOLEAN, top : Roots \cup {NoRow}]
Labels == {"idle", "assess", "strike", "parent", "refuse", "drop", "detach",
           "gate", "weak", "thread", "insert", "remember", "accept"}

-----------------------------------------------------------------------------
(* Reading the database and the settings *)

Stored == announced \cup threads \cup {e \in Posts : data[e] # NoRow}

\* raddi::older, away from the wrap-around of the 32-bit clock
Older(t, age) == t + age < now

\* entry::validate: an entry is no older than what it refers to, nor too new
ValidatesAt(e, time) ==
  /\ e \in Posts => Timestamp[Parent[e]] <= Timestamp[e]
  /\ e \notin Identities => Timestamp[Author[e]] <= Timestamp[e]
  /\ Timestamp[e] <= time + MaxSkew
Validates(e) == ValidatesAt(e, now)

\* db::assess: the author is known and signed it
AuthenticIfSigned(e) == e \notin Forged  \* mutant: an unknown author passes
Authentic(e) ==
  /\ e \notin Forged
  /\ IF e \in Identities THEN TRUE ELSE Author[e] \in announced

Attached(e) == Parent[e] \in Stored

\* db::assess: top of an attached post, from the table the parent is found in
TopOfParent(e) ==   \* mutant: the parent of a nested reply taken for its thread
  IF Parent[e] \in announced THEN [channel |-> Parent[e], thread |-> e]
  ELSE IF Parent[e] \in threads
       THEN [channel |-> Parent[Parent[e]], thread |-> Parent[e]]
       ELSE [channel |-> data[Parent[e]].channel, thread |-> Parent[e]]
Top(e) ==
  IF Parent[e] \in announced THEN [channel |-> Parent[e], thread |-> e]
  ELSE IF Parent[e] \in threads
       THEN [channel |-> Parent[Parent[e]], thread |-> Parent[e]]
       ELSE data[Parent[e]]

\* the ids that subscriptions and the blacklist are matched against
Keys(f) == {f.top.channel, f.top.thread, f.entry, Author[f.entry]}
IsThread(f) == f.entry \in Posts /\ f.top.thread = f.entry
\* mutant: entries that come from an application are not checked
BlacklistedOfPeers(f) == f.source # Local /\ Keys(f) \cap Blacklist # {}
Blacklisted(f) == Keys(f) \cap Blacklist # {}
\* mutant: entries that waited for their parent are taken for solicited
WantedOrNested(f) == \/ f.source = Local \/ StoreEverything \/ f.nested
                     \/ Keys(f) \cap Subscriptions # {}
Wanted(f) == \/ f.source = Local \/ StoreEverything
             \/ Keys(f) \cap Subscriptions # {}
ExceedsNever(count, limit) == FALSE  \* mutant: the limits are not enforced
Exceeds(count, limit) == count > limit
\* noticed::insert into `recent` returns whether the id was not there
NewAlways(e) == TRUE  \* mutant: the result of recent.insert is not looked at
New(e) == e \notin recent
-----------------------------------------------------------------------------
(* Control of a worker *)

Begin(e, s, nested) ==
  [entry |-> e, source |-> s, nested |-> nested,
   old |-> FALSE, gated |-> FALSE, top |-> NoRow]

Goto(w, label) ==
  /\ pc' = [pc EXCEPT ![w] = label]
  /\ UNCHANGED <<frame, todo>>

\* start or resume the walk over the entries in `left`, or be done
Walk(w, left) ==
  IF left = <<>>
  THEN /\ pc' = [pc EXCEPT ![w] = "idle"]
       /\ frame' = [frame EXCEPT ![w] = NoFrame]
       /\ todo' = [todo EXCEPT ![w] = <<>>]
  ELSE /\ pc' = [pc EXCEPT ![w] = "assess"]
       /\ frame' = [frame EXCEPT ![w] = Begin(Head(left), @.source, TRUE)]
       /\ todo' = [todo EXCEPT ![w] = Tail(left)]

\* `return true`: the caller, detached::accept, goes on with the next entry
ReturnTrue(w) == Walk(w, todo[w])

\* `return false`: every accept on the stack stops and drops what it has left,
\* and the connection is disconnected
ReturnFalse(w) ==
  /\ Walk(w, <<>>)
  /\ connected' = connected \ {frame[w].source}

-----------------------------------------------------------------------------
(* Arrivals *)

Busy(s) == \E w \in Workers : pc[w] # "idle" /\ frame[w].source = s

Start(w, e, s) ==
  /\ pc' = [pc EXCEPT ![w] = "assess"]
  /\ frame' = [frame EXCEPT ![w] = Begin(e, s, FALSE)]
  /\ UNCHANGED todo

Arrive(w, e, s) ==
  /\ pc[w] = "idle" /\ ~Busy(s)
  /\ copies[e] < MaxCopies[e]
  /\ copies' = [copies EXCEPT ![e] = @ + 1]

\* what raddi::connection::message returns on insufficient proof of work; its
\* caller keeps the connection on true
KeptOnWeakProof == LET disconnect == ~ProofAdjusted IN disconnect

(* connection::message: an entry arrives from a peer *)
Receive(w, c, e) ==
  /\ c \in connected /\ Arrive(w, e, c)
  /\ \/ /\ ~Validates(e)
        /\ connected' = connected \ {c}
        /\ UNCHANGED <<refused, control>>
     \/ /\ Validates(e) /\ e \in WeakProof
        /\ refused' = refused \cup {e}
        /\ connected' = IF KeptOnWeakProof THEN connected ELSE connected \ {c}
        /\ UNCHANGED control
     \/ /\ Validates(e) /\ e \notin WeakProof
        /\ Start(w, e, c)
        /\ UNCHANGED <<refused, connected>>
  /\ UNCHANGED <<tables, recent, detached, rejected, unsolicited, now, history>>

(* Source::entry: an application drops a file for the node to insert *)
Submit(w, e) ==
  /\ Arrive(w, e, Local)
  /\ Validates(e)
  /\ Start(w, e, Local)
  /\ submitted' = submitted \cup {e}
  /\ UNCHANGED <<tables, caches, peers, now, relays, floods, lives, erased>>

-----------------------------------------------------------------------------
(* embrace *)

(* db::assess and the branch on its result. The tables are read one after   *)
(* another, each under its own lock; as db::insert writes threads before    *)
(* data, in the order they are read, reading all at once gives the same top. *)
Assess(w) ==
  LET f == frame[w]  e == f.entry  old == Older(Timestamp[e], MaxAge)
      Proceed(label, top) ==
        /\ pc' = [pc EXCEPT ![w] = label]
        /\ frame' = [frame EXCEPT ![w].old = old, ![w].top = top]
        /\ UNCHANGED todo
  IN
  /\ pc[w] = "assess"
  /\ \/ /\ ~Authentic(e)                                        \* rejected
        /\ IF f.source = Local THEN ReturnTrue(w) ELSE Goto(w, "strike")
     \/ /\ Authentic(e) /\ e \in Announcements                  \* required
        /\ Proceed("insert", NoRow)
     \/ /\ Authentic(e) /\ e \in Posts /\ Attached(e)           \* classify
        /\ Proceed("gate", Top(e))
     \/ /\ Authentic(e) /\ e \in Posts /\ ~Attached(e)          \* detached
        /\ IF old THEN ReturnTrue(w) ELSE Proceed("parent", NoRow)
  /\ UNCHANGED <<tables, caches, peers, now, copies, history>>

\* detached::reject: the posts waiting for `id`, and what the recursion reaches
\* from them. It recurses on the parent of each erased post, which is id again.
RejectKeys(id) == {id} \cup {Parent[detached[id][i]] : i \in DOMAIN detached[id]}
Reject(id) ==
  detached' = [p \in Entries |-> IF p \in RejectKeys(id) THEN <<>> ELSE detached[p]]

(* case rejected: forget what waits for the entry, hold it against the peer *)
Strike(w) ==
  LET f == frame[w]  strikes == rejected[f.source] + 1 IN
  /\ pc[w] = "strike"
  /\ Reject(f.entry)
  /\ rejected' = [rejected EXCEPT ![f.source] = strikes]
  /\ IF Exceeds(strikes, MaxRejected) THEN ReturnFalse(w)
                                ELSE ReturnTrue(w) /\ UNCHANGED connected
  /\ UNCHANGED <<tables, recent, refused, unsolicited, now, copies, history>>

(* case detached: refused.count (entry->parent) *)
CheckParent(w) ==
  /\ pc[w] = "parent"
  /\ Goto(w, IF Parent[frame[w].entry] \in refused THEN "refuse" ELSE "detach")
  /\ UNCHANGED <<tables, caches, peers, now, copies, history>>

\* mutant: the parent's id is refused where the entry's should be
RefuseParent(w) ==
  /\ pc[w] = "refuse"
  /\ refused' = refused \cup {Parent[frame[w].entry]}
  /\ Goto(w, "drop")
  /\ UNCHANGED <<tables, recent, detached, peers, now, copies, history>>

(* refused.insert, before Drop *)
Refuse(w) ==
  /\ pc[w] = "refuse"
  /\ refused' = refused \cup {frame[w].entry}
  /\ Goto(w, "drop")
  /\ UNCHANGED <<tables, recent, detached, peers, now, copies, history>>

(* detached.reject (entry->id), the last thing done with a refused entry *)
Drop(w) ==
  /\ pc[w] = "drop"
  /\ Reject(frame[w].entry)
  /\ ReturnTrue(w)
  /\ UNCHANGED <<tables, recent, refused, peers, now, copies, history>>

(* detached.insert and the broadcast of the detached entry *)
Detach(w) ==
  LET f == frame[w] IN
  /\ pc[w] = "detach"
  /\ detached' = [detached EXCEPT ![Parent[f.entry]] = Append(@, f.entry)]
  /\ floods' = IF f.nested THEN floods ELSE [floods EXCEPT ![f.entry] = @ + 1]
  /\ ReturnTrue(w)
  /\ UNCHANGED <<tables, recent, refused, peers, now, copies,
                 relays, lives, submitted, erased>>

\* coordinator->broadcast, unless the entry is old or the caller says not to
Relay(f, wish) ==
  relays' = IF wish /\ ~f.old THEN [relays EXCEPT ![f.entry] = @ + 1] ELSE relays

(* case classify: each entry passes `recent` once, then its thread's size and *)
(* proof, the blacklist and the subscriptions decide                          *)
Gate(w) ==
  LET f == frame[w]  e == f.entry
      substandard == IsThread(f) /\ e \in WeakThread \cup LongThread
      tracked == ~substandard /\ TrackAllChannels
      blocked == ~substandard /\ ~tracked /\ Blacklisted(f)
      passing == ~substandard /\ ~tracked /\ ~blocked
  IN
  /\ pc[w] = "gate"
  /\ recent' = recent \cup {e}
  /\ \/ /\ ~New(e) \/ tracked
        /\ ReturnTrue(w)
        /\ UNCHANGED <<connected, unsolicited, relays>>
     \/ /\ New(e)
        /\ \/ substandard /\ Goto(w, "weak")
           \/ blocked /\ Goto(w, "refuse")
        /\ UNCHANGED <<connected, unsolicited, relays>>
     \/ /\ New(e) /\ passing /\ ~Wanted(f)
        /\ unsolicited' = IF NetworkPropagation THEN unsolicited
                          ELSE [unsolicited EXCEPT ![f.source] = @ + 1]
        /\ IF Exceeds(unsolicited'[f.source], MaxUnsolicited)
           THEN ReturnFalse(w) /\ UNCHANGED relays
           ELSE ReturnTrue(w) /\ Relay(f, TRUE) /\ UNCHANGED connected
     \/ /\ New(e) /\ passing /\ Wanted(f)
        /\ pc' = [pc EXCEPT ![w] = IF IsThread(f) THEN "thread" ELSE "insert"]
        /\ frame' = [frame EXCEPT ![w].gated = TRUE]
        /\ UNCHANGED <<todo, connected, unsolicited, relays>>
  /\ UNCHANGED <<tables, refused, detached, rejected, now, copies,
                 floods, lives, submitted, erased>>

(* refused.insert in assess_extra_{size,proof}_requirements *)
RefuseThread(w) ==
  LET e == frame[w].entry IN
  /\ pc[w] = "weak"
  /\ refused' = refused \cup {e}
  /\ IF e \in LongThread \/ ProofAdjusted
     THEN ReturnTrue(w) /\ UNCHANGED connected
     ELSE ReturnFalse(w)
  /\ UNCHANGED <<tables, recent, detached, rejected, unsolicited,
                 now, copies, history>>

(* db::insert of a thread, first half: the threads table *)
InsertThread(w) ==
  /\ pc[w] = "thread"
  /\ \/ threads' = threads \cup {frame[w].entry} /\ Goto(w, "insert")
     \/ WritesFail /\ ReturnTrue(w) /\ UNCHANGED threads
  /\ UNCHANGED <<announced, data, caches, peers, now, copies, history>>

(* db::insert: the data table, or that of the announcement *)
Insert(w) ==
  LET f == frame[w]  e == f.entry
      exists == e \in announced \/ (e \in Posts /\ data[e] # NoRow)
  IN
  /\ pc[w] = "insert"
  /\ \/ /\ exists \/ WritesFail
        /\ ReturnTrue(w)
        /\ UNCHANGED <<announced, data, relays>>
     \/ /\ ~exists
        /\ IF e \in Posts
           THEN data' = [data EXCEPT ![e] = f.top] /\ UNCHANGED announced
           ELSE announced' = announced \cup {e} /\ UNCHANGED data
        /\ Goto(w, IF f.gated THEN "accept" ELSE "remember")
        /\ Relay(f, f.gated /\ ~f.nested)
  /\ UNCHANGED <<threads, caches, peers, now, copies,
                 floods, lives, submitted, erased>>

(* recent.insert of an entry that was not classified *)
Remember(w) ==
  LET f == frame[w] IN
  /\ pc[w] = "remember"
  /\ recent' = recent \cup {f.entry}
  /\ IF New(f.entry)
     THEN Goto(w, "accept") /\ Relay(f, ~f.nested)
     ELSE ReturnTrue(w) /\ UNCHANGED relays
  /\ UNCHANGED <<tables, refused, detached, peers, now, copies,
                 floods, lives, submitted, erased>>

AcceptForgetting(w) ==  \* mutant: the walk forgets the siblings of the entry
  LET e == frame[w].entry IN
  /\ pc[w] = "accept"
  /\ detached' = [detached EXCEPT ![e] = <<>>]
  /\ Walk(w, detached[e])
  /\ UNCHANGED <<tables, recent, refused, peers, now, copies, history>>

AcceptOne(w) ==         \* mutant: only the first of the posts that wait is taken
  LET e == frame[w].entry
      first == SelectSeq(detached[e], LAMBDA p : p = Head(detached[e])) IN
  /\ pc[w] = "accept"
  /\ detached' = [detached EXCEPT ![e] = SelectSeq(@, LAMBDA p : p # Head(@))]
  /\ Walk(w, first \o todo[w])
  /\ UNCHANGED <<tables, recent, refused, peers, now, copies, history>>

(* detached::accept: take the posts that wait for the entry, embrace each *)
Accept(w) ==
  LET e == frame[w].entry IN
  /\ pc[w] = "accept"
  /\ detached' = [detached EXCEPT ![e] = <<>>]
  /\ Walk(w, detached[e] \o todo[w])
  /\ UNCHANGED <<tables, recent, refused, peers, now, copies, history>>

-----------------------------------------------------------------------------
(* The coordinator's tick, the user and the clock *)

DetachedAge == MaxAge + MaxSkew + 1

\* mutant: nobody cleans the reordering cache
CleanRecentOnly ==
  LET gone == {e \in recent : Older(Timestamp[e], MaxAge)} IN
  /\ recent' = recent \ gone
  /\ lives' = [e \in Entries |-> IF e \in gone THEN lives[e] + 1 ELSE lives[e]]
  /\ UNCHANGED <<tables, refused, detached, peers, control, now, copies,
                 relays, floods, submitted, erased>>

(* coordinator::operator (): recent.clean and detached.clean; the latter goes *)
(* by the key of the cache, the timestamp of the parent                       *)
Clean ==
  LET gone == {e \in recent : Older(Timestamp[e], MaxAge)} IN
  /\ recent' = recent \ gone
  /\ lives' = [e \in Entries |-> IF e \in gone THEN lives[e] + 1 ELSE lives[e]]
  /\ detached' = [p \in Entries |-> IF Older(Timestamp[p], DetachedAge)
                                    THEN <<>> ELSE detached[p]]
  /\ UNCHANGED <<tables, refused, peers, control, now, copies,
                 relays, floods, submitted, erased>>

(* Source::command, db::erase: the user erases an entry *)
Erase(e) ==
  /\ e \in Stored /\ Cardinality(erased) < MaxErasures
  /\ announced' = announced \ {e}
  /\ threads' = threads \ {e}
  /\ data' = [p \in Posts |-> IF p = e THEN NoRow ELSE data[p]]
  /\ erased' = erased \cup {e}
  /\ UNCHANGED <<caches, peers, control, now, copies,
                 relays, floods, lives, submitted>>

Tick ==
  /\ now < MaxNow
  /\ now' = now + 1
  /\ UNCHANGED <<tables, caches, peers, control, copies, history>>

-----------------------------------------------------------------------------
Init ==
  /\ announced = Installed /\ threads = {} /\ data = [e \in Posts |-> NoRow]
  /\ recent = {} /\ refused = {} /\ detached = [p \in Entries |-> <<>>]
  /\ connected = Connections
  /\ rejected = [c \in Connections |-> 0]
  /\ unsolicited = [c \in Connections |-> 0]
  /\ pc = [w \in Workers |-> "idle"]
  /\ frame = [w \in Workers |-> NoFrame]
  /\ todo = [w \in Workers |-> <<>>]
  /\ now = 0
  /\ copies = [e \in Entries |-> 0]
  /\ relays = [e \in Entries |-> 0]
  /\ floods = [e \in Entries |-> 0]
  /\ lives = [e \in Entries |-> 0]
  /\ submitted = {} /\ erased = {}

Step(w) ==
  \/ Assess(w) \/ Strike(w) \/ CheckParent(w) \/ Refuse(w) \/ Drop(w)
  \/ Detach(w) \/ Gate(w) \/ RefuseThread(w) \/ InsertThread(w) \/ Insert(w)
  \/ Remember(w) \/ Accept(w)

Next ==
  \/ \E w \in Workers :
       \/ Step(w)
       \/ \E e \in Entries : Submit(w, e)
       \/ \E e \in Entries, c \in Connections : Receive(w, c, e)
  \/ \E e \in Entries : Erase(e)
  \/ Clean \/ Tick

Spec == Init /\ [][Next]_vars

-----------------------------------------------------------------------------
(* Properties *)

Quiescent == \A w \in Workers : pc[w] = "idle"
Waiting(p) == {detached[p][i] : i \in DOMAIN detached[p]}

\* Types; a connection is dropped no later than its first rejected or
\* unsolicited entry over the limit, so the counters stop one above it.
TypeOK ==
  /\ announced \subseteq Announcements /\ threads \subseteq Posts
  /\ data \in [Posts -> Roots \cup {NoRow}]
  /\ recent \subseteq Entries /\ refused \subseteq Entries
  /\ detached \in [Entries -> Seq(Posts)]
  /\ connected \subseteq Connections
  /\ rejected \in [Connections -> 0 .. MaxRejected + 1]
  /\ unsolicited \in [Connections -> 0 .. MaxUnsolicited + 1]
  /\ pc \in [Workers -> Labels]
  /\ frame \in [Workers -> Frames \cup {NoFrame}]
  /\ todo \in [Workers -> Seq(Posts)]
  /\ now \in 0 .. MaxNow /\ copies \in [Entries -> Nat]
  /\ relays \in [Entries -> Nat] /\ floods \in [Entries -> Nat]
  /\ lives \in [Entries -> Nat]
  /\ submitted \subseteq Entries /\ erased \subseteq Entries

\* The tables are causally closed: whatever order entries arrive in and however
\* workers interleave, a post is stored only when its parent and its author's
\* announcement have been, and only the user's erase can take those away.
CausallyClosed ==
  \A e \in Stored \cap Posts :
    /\ e \notin Forged
    /\ Parent[e] \in Stored \cup erased
    /\ Author[e] \in announced \cup erased

\* The channel and thread written in a row, copied from row to row as replies
\* come in, are those the chain of parents leads to: subscriptions, history
\* requests and the blacklist all rely on them.
RowsKnowTheirRoot == \A e \in Posts : data[e] # NoRow => data[e] = Root[e]

\* No post on the blacklist, of a blacklisted channel, thread or author is
\* stored, at any depth below the blacklisted entry.
BlacklistedNeverStored ==
  \A e \in Stored \cap Posts :
    {Root[e].channel, Root[e].thread, e, Author[e]} \cap Blacklist = {}

\* A refused post is never stored, nor (the tables being closed) is anything
\* below it: no other worker lets in what one worker refuses. (The proof of
\* work of a post that an application submits is not looked at, so a post of
\* WeakProof may be stored first and refused when it comes from a peer.)
RefusedNeverStored == WeakProof = {} => Stored \cap refused = {}

\* The entry, its parent, and so on up to the channel.
Line[e \in Entries] == IF e \in Posts THEN {e} \cup Line[Parent[e]] ELSE {e}

\* A node that does not store everything keeps a post nobody subscribed to only
\* if an application submitted the post or something above it.
OnlySubscribedStored ==
  \A e \in Posts :
    data[e] # NoRow =>
      \/ StoreEverything
      \/ {Root[e].channel, Root[e].thread, e, Author[e]} \cap Subscriptions # {}
      \/ Line[e] \cap submitted # {}

\* An entry that got past `recent` is broadcast once for each time it enters
\* that cache: workers that receive the same entry at once do not repeat it.
RelayedOncePerLife == \A e \in Entries : relays[e] <= lives[e] + 1

\* Nothing about the entry or what is above it makes the node turn it down.
Sound(e) ==
  \A a \in Line[e] :
    /\ a \notin Forged \cup WeakProof \cup WeakThread \cup LongThread \cup Blacklist
    /\ a \notin Identities =>
         Author[a] \in Installed /\ Author[a] \notin Blacklist
    /\ a \in Posts => StoreEverything \/ Root[a].channel \in Subscriptions
    /\ ValidatesAt(a, 0)

\* Between arrivals, a sound post that has arrived is stored or waits for its
\* parent, unless the parent is too old to be waited for: the reordering cache
\* loses nothing.
NothingLost ==
  Quiescent =>
    \A e \in Posts :
      copies[e] > 0 /\ Sound(e) /\ erased = {} =>
        \/ data[e] # NoRow \/ e \in Waiting(Parent[e])
        \/ Older(Timestamp[Parent[e]], MaxAge)

\* Between arrivals, no post waits for a parent that is in the database: with
\* NothingLost, the order in which entries arrive makes no difference.
NobodyWaitsInVain ==
  Quiescent /\ erased = {} => \A p \in Stored : Waiting(p) = {}

\* The pipeline implements CausalStore: each of its steps admits one entry,
\* removes one, or leaves the tables as they are.
Store == INSTANCE CausalStore WITH stored <- Stored, gone <- erased
ImplementsStore == Store!Spec

\* The memory of the reordering cache is given back: whatever waits for a parent
\* that never comes is dropped in the end (the coordinator's tick goes on).
DetachedDrains ==
  \A p \in Entries : detached[p] # <<>> ~> detached[p] = <<>>

\* Worker threads keep taking steps, the clock advances, and the main loop calls
\* the coordinator every time its wait times out.
FairSpec ==
  Spec /\ WF_vars(Clean) /\ WF_vars(Tick) /\ \A w \in Workers : WF_vars(Step(w))
====

# A TLA+ development of raddi

raddi is a node of a peer-to-peer discussion network. Nodes gossip *entries*: announcements
of identities and of channels, and posts (threads in a channel, replies, replies to
replies). Each entry is signed, carries a proof of work and names its parent. A node
decides what to store and what to pass on; applications read its database from disk and
hand it new entries as files.

This directory holds TLA+ models of the node's own logic, TLC configurations that check
them on small instances, and theorems that the TLA+ proof system checks for every value of
the constants. Paths below are relative to `src/`.

## 1. Inventory

| component | source | state | operations | what is hard |
|---|---|---|---|---|
| acceptance pipeline | `node/node.cpp` `embrace`, `message`, `Source::entry` | none of its own; tables and caches of others | receive, submit, embrace (recursive) | workers interleave between the locks; entries out of order; early returns that skip a cache |
| reordering cache | `core/raddi_detached.*` | parent id -> entries waiting | insert, reject, accept, clean | entries lost, left for ever, or given back to the wrong walk |
| noticed caches | `core/raddi_noticed.*` | `recent`, `refused` | insert, count, clean, load, save | check and insert must be one step; saved piecemeal |
| database, table, shard | `core/raddi_database*.{cpp,tcc}` | shards by base timestamp; index and content file and row cache of each | insert, get, erase, split, close, advance, reload | lazily opened shards, splits, crashes in a split, readers against the optimizer |
| peersets, coordinator | `core/raddi_database_peerset.*`, `core/raddi_coordinator.*` | addresses by level with an assessment; connections | add, move, ban, established, corroborated, unavailable, connect, sweep | moves are not atomic; limits; simultaneous connections |
| requests and history | `core/raddi_coordinator.cpp` | per-connection limiter and subscriptions | process, history, download, peers | replies bounded by thresholds; what is inserted while a request is answered; retries |
| subscriptions | `core/raddi_subscription*` | application -> set of ids, `everything` | subscribe, unsubscribe, is_subscribed, load, save | duplicates; what is not persisted |
| connection, handshake | `core/raddi_connection.*`, `core/raddi_protocol.*` | state, encryption with a nonce for each direction | inbound, head, decode, send, keepalive | nonce order under concurrent senders; the change of state |
| transmitter, receiver, listener | `node/server.*` | pending and awaiting buffers; frame being received | prepare, transmit, completion | failed completion; buffers at their limit; partial frames |
| main loop, termination | `node/node.cpp` | events, worker threads | wait, tick, terminate | waiting for threads that wait |
| discovery, DNS, downloads, instance, timers | `core/raddi_discovery.*`, `node/*` | little | wrappers of system services | - |
| proof of work | `core/raddi_proof.*`, `lib/cuckoocycle.*`, `common/threadpool*.tcc` | edges in buckets by row, names of nodes, a forest; queue and counters of a pool | generate, verify; dispatch, join | fibers that share buckets without a lock; names that must be undone; cancellation anywhere |
| content, ids, addresses | `core/` | none | pure functions | wrap-around of 32-bit time |
| applications, tools, installer | `app/`, `com/`, `benchmark/`, `installer/` | user interface | clients of the above | out of scope |

Interaction: I/O completions run on a pool of worker threads. A worker decodes a frame and
calls `connection::message`; an entry goes to `embrace`, a request to
`coordinator::process`. `embrace` reads and writes the tables, the three caches of the
coordinator, and broadcasts through the coordinator's connections. The main thread calls
`coordinator ()` about once a second, which cleans the caches, opens connections and saves
state. Everything is shared between threads under one reader-writer lock per object; no
lock is held across two objects in the pipeline.

What makes each correct: *pipeline* - tables causally closed, nothing excluded by the
settings stored, nothing sound lost, no entry broadcast again and again, memory given back;
*tables* - what has been inserted is found, once, until erased, across closing, splitting
and restarting; *coordinator* - an address is on one level, bans hold, limits hold;
*connection* - frames leave in nonce order, every queued frame leaves or the connection is
closed; *subscriptions and history* - what is subscribed arrives; *proof of work* - the
search ends, misses no cycle and finds what verifies.

## 2. Modules

| module | what it is |
|---|---|
| `CausalStore` | abstract: a set of entries, each admitted only after those it refers to |
| `Embrace` | the acceptance pipeline, all workers; its properties; mutated forms of some definitions |
| `MCEmbrace` | an instance: identity, channel, threads and replies as model values |
| `EmbraceClaims` | a sentence of the source's comments that the code contradicts |
| `EmbraceProofs` | theorems about what `Embrace` stores and refuses, with their proofs |
| `EmbraceFlowProofs` | theorems about how entries flow through `Embrace`: relays, subscriptions, losses, waiting |
| `RowStore` | abstract: a set of rows, changed by one row at a time |
| `Shards` | one table: its shards, their files and caches, the threads that use it |
| `MCShards` | an instance: rows whose timestamps lie some granularities apart |
| `ShardsClaims` | a sentence of a comment that the code of shards contradicts |
| `ShardsProofs` | theorems about `Shards` with their proofs |
| `FifoLink` | abstract: what one end says, the other hears, in the order it was said |
| `Link` | one connection and both of its ends: handshake, nonces, transmitter buffers, keep-alives, the network |
| `MCLink` | an instance: two threads at each end, two messages |
| `LinkProofs` | theorems about `Link` with their proofs |
| `Peers` | the levels of known addresses, the coordinator's connections, and the threads that move addresses between levels |
| `MCPeers` | an instance: a core node that also calls and is reachable by two names, and an announced one |
| `PeersClaims` | what the comment at the bans promises |
| `PeersProofs` | theorems about `Peers` with their proofs |
| `Sync` | two nodes that tell each other what announcements they have, answer, and pass on what is new |
| `MCSync` | an instance: seven announcements, two situations to start from |
| `SyncProofs` | theorems about `Sync` with their proofs |
| `Subscriptions` | what the applications of a node subscribe to, its files, what its peers are asked for and what they send then |
| `MCSubscriptions` | an instance: two applications, a peer, a channel of which both have something |
| `SubscriptionsProofs` | theorems about `Subscriptions` with their proofs |
| `Solver` | how a proof of work is made by the fibers of a pool, and checked |
| `MCSolver` | an instance: graphs of eight edges |
| `SolverProofs` | theorems about `Solver` with their proofs |

`Embrace` and `Shards` are two levels of one system: the tables of `Embrace` are sets of
rows with atomic operations, which is what `RowStore` says and `Shards` is shown to be.
The sets of `Embrace` do hold more than a table delivers: in a table a row may be missed by
a search (after a split, or a closing, as described below). `Embrace` is about tables
that work.

`Link` lies below `Embrace`: `Receive` of `Embrace` is what an end of `Link` has `heard`.
`Embrace` assumes no order of arrival and no delivery, so it needs from `Link` only what
`Genuine` of `LinkProofs` says, that a frame that decodes is one the other end said. `Peers`
stands beside both: it decides which links there are, and its `Disagreed` is the end of a
link that `Link` calls a discord. `Sync` composes two nodes over one such link: its `wire` is
what `FifoLink` promises, its `Insert` a row of `RowStore`, its `Embrace` and `Arrive` the
part of the pipeline that announcements take. `Solver` is apart from the others: it is where
the proofs come from that `WeakProof` of `Embrace` is the verdict on.

### Embrace and the code

A worker's step is what the code does under one lock. `pc[w]` says which step comes next,
`frame[w]` holds the local variables of the innermost `embrace` (entry, source, nesting,
`old`, `inserted` as `gated`, `top`), and `todo[w]` the entries that the `detached::accept`
loops on the stack have yet to visit. The recursion is a depth-first walk, so the stack of
loops is one sequence: an `accept` puts its entries in front. `return true` from `embrace`
continues the walk (`ReturnTrue`); `return false` makes every loop on the stack stop, drops
`todo`, and disconnects the peer (`ReturnFalse`).

| action | code |
|---|---|
| `Receive`, `Submit` | `connection::message` (validation, proof of work), `Source::entry` |
| `Assess` | `db::assess` and the dispatch on its result |
| `Strike` | `case rejected` |
| `CheckParent`, `Refuse`, `Drop`, `Detach` | `case detached`: `refused.count`, `refused.insert`, `detached.reject`, `detached.insert` and broadcast |
| `Gate` | `case classify`: `recent.insert`, thread requirements, `track_all_channels`, blacklist, subscriptions, unsolicited limit |
| `RefuseThread` | `assess_extra_size_requirements`, `assess_extra_proof_requirements` |
| `InsertThread`, `Insert` | `db::insert`: the `threads` table, then `data` (or `channels`, `identities`) |
| `Remember` | `recent.insert` of an announcement, broadcast |
| `Accept` | `detached::accept` and the nested `embrace` calls |
| `Clean`, `Tick` | `coordinator ()`: `recent.clean`, `detached.clean`; the clock |
| `Erase` | the erase command, `db::erase` |

What stands for data: an entry is a model value; `Parent`, `Author`, `Timestamp` are its
header. Whether its signature verifies (`Forged`; an announcement whose content is not a
plain line counts as forged), whether its proof suffices (`WeakProof`, `WeakThread`) and
whether it is too long (`LongThread`) are constants: verdicts of pure functions on its
bytes. One id has one content, as the signature covers both. `Root` is where the chain of
parents leads. The blacklist and the subscriptions do not change during a behaviour.
`relays`, `floods`, `lives`, `submitted`, `erased` are history that no action reads, except
that `Erase` bounds itself by `erased`.

Simplifications: `db::assess` takes its reads of the four tables at once. They are separate
locks in the code, but `threads` is written before `data` and read before it, and gives the
same top, so every order of reads is one of the outcomes. A connection is served by one
worker at a time (`Busy`): a socket has one receive outstanding, and the directory of
submitted entries is read by one callback. `db::erase` is one step. Exceptions are not
modelled. Timestamps stay away from the 32-bit wrap-around.

### Shards and the code

`shards` is `table::shards`: of each shard its base, whether its files are open, the row
cache, and the positions of the two file handles. `files` maps a base to the index and
content file of that name; a place in a file is counted in rows or contents, whatever their
length. `call[t]` is what a thread is doing between two locks.

| action | code |
|---|---|
| `Find`, `FindNone` | `table::get` up to `shard::advance`, which opens a closed shard: reads the index, sorts the cache, leaves both handles at the ends |
| `Get` | `shard::get`, under the shard's lock again; a row that is missing is inserted next (`db::assess`, then `db::insert`) |
| `Insert` | `table::insert` under the exclusive lock: `unsynchronized_get_shard` and `shard::insert` |
| ... `InsertNewest` | a new shard, on an empty table, past the forward granularity, or because the newest is large |
| ... `InsertOldest` | a new shard in front, whole backtrack granularities earlier |
| ... `InsertHere` | the shard of the timestamp |
| ... `InsertSplit` | the shard is full: `shard::split` copies its rows to two new pairs of files and the row goes to the upper one |
| `Erase` | `table::erase`: out of the cache, and the cell of the index overwritten |
| `Close` | `table::optimize` and `table::prune`, which hold the same shared lock as `get` |
| `Restart` | the node stops between two steps; `table::reload` lists the files |

Two things about files matter. `insert` writes at the file pointer and does not seek to the end. A
read at an offset moves that pointer, because the handles are opened for synchronous use:
`Get` of a content leaves `cpos` behind what it read. `Erase` finds its row by reading ids at
offsets, so it leaves the pointer of the index behind the id of the row it has erased (`ipos` is
the number of rows before that one, `inside` is set). Until the shard is closed or split, which
opens its files anew, the next insertion writes from there (`IndexWritten`): the erased row keeps
its zeros, the rest of it gets the beginning of the new row, and the row after it gets the end of
the new row for its id (`Torn`). If there is no row after it, the file ends with a piece that
opening does not count. So the new row is in the cache but not in the file, and the row after the
erased one is no longer in the file. That step sets `damaged`, and `Next` follows a behaviour no
further, because what the id of a torn row is, and which shard it would belong to, is not modelled.

Simplifications: writes and renames succeed, or a split fails as a whole (`InsertHere` of a full
shard); there is no crash inside a split; `advance` does not fail; the optimizer may close any open
shard, as the idle time that it waits for is not modelled; rows are looked up by their own id and
`reinsertion_validation` is off, as in release builds; one process, the one that writes; `Erase` is that of
the tables whose rows have an `eid` (for identities see section 3). A bound of
the model is that a row is looked up for insertion only while the files hold fewer than `MaxCopies`
of it; two threads can both be past that.

### Link and the code

`end[s]` is one end's connection: its state (`open`, `shaken`, `secured`, `closed`), the
`encryption` with a nonce for each direction, whether it has offered its half of the
handshake, failure and probe counters. `tx[s]` is its transmitter (`pending`, `awaiting`,
whether an operation is outstanding), `task[t]` a thread within `send` or `keepalive`,
`wire[s]` the bytes under way, as whole frames. A frame is a record of who encoded it, with
which cipher and nonce and what it says; it decodes when cipher and nonce agree. `Cipher` is
chosen by `proposal::accept` from both offers.

| action | code |
|---|---|
| `Connected`, `Overloaded` | `connection::connected`, `connection::overloaded` |
| `SendBegin`, `SendEnd`, `Encode` | `connection::send` under the transmitter's lock, `encryption::encode` |
| `Prepare`, `TransmitOk`, `TransmitFails` | `Transmitter::prepare` and `Transmitter::transmit`: into `pending`, or behind `awaiting` |
| `Sent`, `SendAborted` | `Transmitter::completion` |
| `Receive` with `Handshake`, `Refuse`, `Decode`, `Secure`, `Answer` | `connection::inbound`, `head`, `decode`: the whole handler of a frame |
| `Keepalive`, `Probe` | `connection::keepalive`, `sweep`'s decision to probe: without the lock |
| `Closed` | the receiver's completion with an error or no bytes |
| `Break` | the network (external) |

Simplifications: SOCKS prologue, assembly of a frame from partial reads and lack of memory
are left out; `Refuse` stands for all reasons that a handshake fails after it has been
received (reflected, reciprocal, checksum, clock). Where two threads have been inside the
transmitter at once (`torn`), its buffers may hold anything, and the model does not follow
that transmitter any further.

### Peers and the code

`on[l]` is the peerset of level `l`: address to assessment. `conn` maps slots to the
connections of the coordinator, `task[u]` is what a thread has yet to do of
`coordinator::move` or `unavailable`: each lock that they take is a step. The coordinator's
lock is shared between the callbacks and exclusive for some of the main thread's steps, as
in the code.

| action | code |
|---|---|
| `MoveFind`, `MoveErase`, `MoveInsert`, `MoveAdjust` | the steps of `coordinator::move` |
| `Accept`, `Reflected`, `Established`, `Disagreed` | `incomming`, `reflecting`, `established`, and the disagreement that `disconnect`s with a ban |
| `Unavailable`, `Forget` | `unavailable`, before and after it reads the level again |
| `NewPeer`, `Listening` | `process` of `ipv4peer`, `ipv6peer`, `listening` |
| `Command` | connect, add, ban and remove of the user |
| `Tick`, `Choose`, `Open`, `OpenFails`, `Flush` | `coordinator ()`: the number of connections is read in one step and used in the next |
| `Sweep`, `NextDay` | `sweep`, and the daily decay of assessments and bans |

`raced` is history that no action reads: the hosts that two threads have been at at the same time.

Simplifications: a host has one port beside the address without one; addresses are selected from all
levels in one step (`Choose`); the four erasures of `rem_peer` are one step; `move` of a connection
sets its level together with the insertion; files of the peersets, and the handling of local and of
proxied addresses are left out.

### Sync and the code

`table[n]` are the identities and channels that a node has, `bases[n]` the bases of their
shards, `wire[n]` the messages on their way to it, `reply[n]` the request that a worker is
answering, `passing[n]` the rows that workers have inserted and not yet broadcast.

| action | code |
|---|---|
| `Established`, `Secure` | `coordinator::established` sends the first request; `connection::inbound` changes the state |
| `Receive` with `Corroborated` | `process` of `initial`: both requests of `report_table_history`, cut into spans (`Division`, `Number`), encoded and decoded (`Decoded`) |
| ... `Process` | `process` of `identities` or `channels` |
| ... `Embrace` | an entry that was sent as an answer or broadcast |
| `Compare`, `Finish` | `process_table_history`, one query of the table at a time |
| `Arrive`, `Broadcast` | an announcement comes from elsewhere: inserted under the lock of the table and broadcast under that of the coordinator |
| `Break` | the connection is lost, or a node stops and starts again (external) |

`left[n]` is history that no action reads: the rows that `n` does not get *because the rules
of the code keep them back*. What it collects is said where it grows: rows that came when
they were too old to be broadcast (`Arrive`), rows in the future when the request was
answered (`Finish`), spans of which the other has something else instead, or that were
empty (`Hidden`), and everything when a span was too long for its 24 bits (`Wrapped`). A
request asks anew for all of it, so `Corroborated` begins with nothing left.

Simplifications: the two requests of `corroborated` go out in one step (a worker may insert
a row between them, into one table or the other); a shard's rows are counted by their
stamps, so a row that a split put into the wrong shard is counted where it
belongs; shards are not looked into, and where a new one begins is any place that
`unsynchronized_get_shard` could choose; the limit on requests per minute and the other
requests are left out; both nodes have one clock; timestamps stay away from the wrap-around.

### Subscriptions and the code

`wanted`, `file`, `changed` are the `subscription_set` of the node, its files and their
marks; `saving` and `open` how far `flush` has come. `job` is a command between the two locks
that it takes, that of the lists and that of the coordinator. Of each connection `state` is
this side's, `wire` and `feed` what is on its way in both directions, `list` and `everything`
are the subscriptions that the peer keeps for it, and `reply` the answer that the peer
is giving. `held` and `passing` are rows of the peer, the latter inserted and not yet broadcast.

| action | code |
|---|---|
| `Add`, `Remove`, `Announce` | `coordinator::subscribe`, `unsubscribe`: the list first, then the peers, unless other lists have it |
| `Gathered` | `gather_history`: the spans of a request, from the rows that the node has |
| `Flush`, `Create`, `Write` | `subscription_set::flush`, `subscriptions::save` of each list that has changed: the file is created anew, then written, which may fail |
| `Secure`, `Corroborated` | the connection becomes usable; `coordinator::corroborated` sends all lists (`enumerate`) |
| `Process`, `Refuse` | `process` of a subscription, its cancellation and `everything`; a request that is not valid |
| `Older`, `Finish` | `process_history`: what is older than the request's threshold, then "the most recent data" |
| `Arrive`, `Pass` | `embrace` at the peer: insertion, then broadcast to who has subscribed |
| `Embrace`, `Clean` | what `embrace` of the node does with it; `noticed::clean` |
| `Break`, `Restart` | a connection is lost; the node stops, at any step, and loads its files |

`since` is history that no action reads: since when a peer has been asked for a topic.

Simplifications: `gather_history` is taken together with the lock that broadcasts it (between them
rows may still come, and are then sent twice); the blacklist and the retained ids, which are lists
of the same class and are not told to peers, the limit on requests per minute, `store_everything`,
rows in the future, and a list that cannot be loaded are left out. In the answer the last two spans
are read from beyond the request (see below), and those before them depend on them, so `Older` sends
any part of what is older than the threshold. An entry that has come is embraced by its parents'
leave: the reordering cache is left to the module `Embrace`.

### Solver and the code

`graph` is what the hash gives: the two ends of every edge. `alive` are the edges that are in
the buckets and `names` their ends as they are called there: a bucket is a row of either
side, so the buckets of a row of `u` are the edges whose `names` are in that row (`Column`).
`phase` counts the fan-outs of `solve`: generation of both sides, the rounds, the last
renaming, and the match of a cycle that was found. `pc` says where the caller is; `queue`,
`consumed`, `remains`, `deferred`, `permits` (the semaphore) and `done` (the event) are the
members of the two pools, and `busy[w]` is what a thread runs and the row it has got to.

| action | code |
|---|---|
| `Attempt`, `Closed` | `proof::generate`, `attempt`, and `solve` of `raddi_proof.cpp`: one complexity after the other |
| `InitPool`, `CreateThreads` | `threadpool::init`, `threadpool2::init`, which may fail |
| `Begin`, `Dispatch`, `Join`, `Joined` | `begin`, `dispatch` and `join` of either pool, and what `solve` does next |
| `Take`, `Finish`, `Leave` | `ThreadProc`, `threadpool2::thread` |
| `Step` with `GenUnodes`, `TrimEdges`, `TrimRename`, `MatchRow` | one row of a fiber |
| `Recover` with `ReadSlot`, `Path`, `Turned`, `Loop`, `Original` | the recovery of cycles, one slot of a bucket at a time: `path`, `recordedge` |
| `Report` with `Encoded` | the callback of `solve`: the proof is written |
| `Verify`, `Accepts` | `cuckoo::verify`, `proof::verify` |
| `Stop`, `Stopped` | the destructor, `threadpool2::stop` |
| `Cancel` | the user |

Simplifications: all complexities have graphs of one size; buckets and slots have room for
what comes (in the code a bucket that is full loses edges, and so may lose a cycle); `uxymap`,
which only spares comparisons, is left out; nodes are renamed in any fixed order; what
the time required decides, whether another complexity is tried, is any choice; the hash, bytes
and lack of memory are left out. `threadpool::none`, which runs each item at once, is a
schedule of either pool.

## 3. Runs

Bounds, everywhere: an announcement or post arrives at most `MaxCopies[e]` times, the clock
reaches `MaxNow`, `MaxErasures` entries are erased. A deadlock check makes no sense with
bounded arrivals (the node goes idle), so it is off; in `Link` both ends may have retired, and in
`Peers` everything may be at rest.

| run | instance | shows |
|---|---|---|
| `MCEmbrace` | 2 workers; one peer and the application; `i`, `c`, the chain `t`, `r`, `n` and a thread `u` that fails the requirements; only `c` installed, so entries of an unknown author are rejected and cost the connection; writes may fail; one erase | `TypeOK`, `CausallyClosed`, `RowsKnowTheirRoot`, `ImplementsStore`. A chain of three is the shortest where the top is copied from a row that copied it (`Top`'s last case) |
| `MCEmbracePolicy` | leaf node; thread `t` blacklisted with a reply `r`, `u` not subscribed and arriving twice; 2 workers, symmetric; clock 0..1 with age limit 0, so `recent` is cleaned in between | `BlacklistedNeverStored`, `RefusedNeverStored`, `OnlySubscribedStored`, `RelayedOncePerLife` |
| `MCEmbraceOrder` | 1 worker, fair; two siblings `t`, `u` and a reply `r`; nothing but `i` installed, so the channel itself may come last; clock 0..3, past the age where waiting posts are cleaned | `NothingLost`, `NobodyWaitsInVain`, `DetachedDrains`. With two workers the middle one fails: see `ClaimRace` |
| `ClaimRace` | two workers, a post and its channel | violated: the post waits for a channel that is there |
| `MCShards` | 2 threads, symmetric; rows at 20, 30 and 40; shards of two rows are large and full; forward granularity 50, backtrack 4; one erase, one restart | `TypeOK`, `NoRowAboveItsShard`, `CacheIsFile`, `ContentPresent`, `ImplementsRowStore`; `CacheIsFile` and `ImplementsRowStore` up to the insertion that damages the index. According to the order of insertion a new shard begins in front or behind, or all three rows come to one shard and split it; a row is inserted twice, and shards are closed under readers |
| `ClaimContent` | 1 thread, no split | violated: content inserted after a read overwrites another row's |
| `MCLink` | two ends with two threads each; one end says two messages; one frame may wait (`MaxQueued`), one failed answer is tolerated (`MaxFailures`), `Patience` 1: a keep-alive and one probe | `TypeOK`, `GarbledHasCause`, `TornByKeepalives`, `HealthyStays`, `ImplementsFifo`, `Flushed`. 476,442 states; buffers fill, an operation completes or aborts with frames behind it, both ends probe at once |
| `MCPeers` | 2 hosts: `h1` a core node that also calls and has a mirror, `h2` announced; 2 slots, symmetric; an assessment starts at 1, top 3; at most 2 connections; one command or announcement; one day passes | `TypeOK`, `OneLevel`, `OutboundOnce`, `BansHold`, `MovedNotLost`. 451,409 states: of connections, commands and announcements two at a time next to the main thread, or the change of the day (`Pairs`), which is what it takes for two threads to be within `move` at once |
| `ClaimBan` | the same | violated: the user's ban of an address is erased by the thread that forgets the failed connection to it |
| `MCSync` | 2 nodes; in one situation `a` has an old identity, one in the future and a channel that `b` has not, in the other one more than `b` in the middle of `b`'s only span; `b` has a newer one; one more comes to `a` at the time of the threshold; clock 4..5; `Width` 1, so that a gap of two wraps; one lost connection | `TypeOK`, `CaughtUp`, `Converges`. 368,727 states; rows come before, between and after the queries of an answer, with the connection securing, secured or lost |
| `MCSubscriptions` | a node that takes part in propagation or not; 2 applications, 1 peer, 1 channel; the node has three rows, of which the peer has one and gets another; clock 10..11, `Scale` 3, `Depth` 2, so that requests with none, one and two spans are made; one copy fills a list (`MaxIndividual` 1); three commands; one lost connection or restart | `TypeOK`, `Asked`, `NoGap`, `FilesFollow`. 669,433 states; two applications are what it takes for one to leave what the other wants, three commands for a list to be taken and given up while its first request is under way. `Brief` leaves out states in which files are saved while a peer is connected, for connections read nothing that saving writes |
| `MCSolver` | 2 fibers and 2 threads of either pool; 8 nodes a side in two rows, 11 graphs of 8 edges with none, one or several cycles of two and four, one with six; a cycle of four is looked for, there is no room for six; one round, 2 complexities; one thread or item of work may not be had; the user cancels at any moment | `OnePhase`, `CoreKept`, `VerifyExact`, `ProofHolds`, `MissesNothing`, `Terminates`. 89,454 states. One round is enough for edges to be dropped, renamed twice and looked up; the cycles are in one row or across both |

Fairness (`FairSpec`): weak fairness of each worker's next step (the threads run), of the clock, and
of `Clean` (the main loop's wait times out, and the coordinator's tick cleans). Arrivals are not
fair: no peer has to send anything. Weak fairness is enough, since none of these steps is disabled
by another before it is taken, once the clock has stopped. In `Link`, operations that have been
started complete, handlers that have begun end, and the timer ticks; nobody has to send and nothing
has to fail. A `prompt` network carries everything within a period of the keep-alives:
`HealthyStays` is said of it only. In `Sync` one weak fairness over all handlers and broadcasts is
enough: somebody who can go on does; nothing has to arrive or break. In `Solver` the caller and the
threads run on, and `Terminates` is said of runs in which threads and items of work can be had.
`Peers` states no fairness and no liveness: its main thread may wait for a lock that it holds itself
(below). `Shards` states no liveness: its calls end because the code has no loops that wait. Its
instance has no row past the forward granularity of a table that is not empty: three rows that fit
in one shard leave no room for one, and a fourth with two threads is out of reach of a run. The
theorems cover that case.

Every property of a passing run has a mutated definition that breaks it (`PROJECT.json`,
`mutants`); the mutated forms stand in the modules right before the definitions they replace.

Seen while modelling, without a run of their own: a nested `embrace` of an unsubscribed post
broadcasts it a second time (`node.cpp:700` does not look at `broadcast`); `detached.accept` drops
the rest of its list when one entry makes `embrace` return false; `detached.clean` goes by the
parent's timestamp, so a new reply to an old, missing post is dropped at the next tick; a thread
refused for its size or proof leaves its waiting replies in the cache, unlike one refused by the
blacklist; `message` returns `disconnect` the wrong way round when the proof is too weak
(`node.cpp:249`); a detached entry is broadcast once per arrival (`node.cpp:605`); `detached.reject`
recurses with the id of the parent and not of the entry it removed (`raddi_detached.cpp:41`); a
thread of too little proof of work that waited for its channel ends the walk over all that waited
with it, which loses sound threads (unless requirements are adjusted: `Lossless` of
`EmbraceFlowProofs`, without which nothing is proved of losses); with `track_all_channels`, nothing
is stored but announcements (`node.cpp:647`).

In a table: a split gives the row that caused it to its upper part whatever its timestamp
(`raddi_database_table.tcc:217`), though a shard's base is its "base timestamp (lowest)"
(`raddi_database_shard.h:17`), and a search for it looks in the lower one; a split gives shards with
one base when neighbours are a second apart (with rows at 20, 21 and 22 `CacheIsFile` fails: an
insertion through one of the two is not in the cache of the other), and so does a row as old as the
base of the newest shard that comes when that shard is large and all of its rows are older than its
base; after an erase, the next insertion into the shard is written across two rows of the index
(`raddi_database_shard.tcc:373` and 325): the new row is in memory only, the row after the erased
one is lost from the file, and both `CacheIsFile` and `ImplementsRowStore` are false without their
exception for it (`damaged`); an identity that is erased stays in the file and is back after the
next opening, because `shard.tcc:374` compares the row's bytes, read as an `eid`, with an `eid` made
of the identity, and the two have their parts in different places; a shard closed
between `advance` and `get` makes a row that is there look missing; it is then inserted a second
time, since `insert` looks for it in the empty cache of the closed shard, though
`raddi_database.h:191` says that it tells of an entry that is there.

In a connection: when a completion's next `WSASend` fails at once, a later frame goes out
through `pending` ahead of those left in `awaiting`, and the other end finds the stream
garbled; this is the cause `GarbledHasCause` names.

Keep-alives and the answers to them are prepared and sent without the transmitter's lock
(`raddi_connection.cpp:146` and 236), though `raddi_connection.cpp:107` says that the "transmitter
lock is required except in 'connected' and 'overloaded'": a completion may send the buffer that one
is being written to. `TornByKeepalives` says that nothing else does so.

In the proof of work: an item that `QueueUserWorkItem` does not take is counted all the same, so
`join` never returns (`threadpool.tcc:28`); when a thread cannot be created, `init` stops the
others, and the destructor stops them again and waits for ever (`threadpool2.tcc:40`); a
cancellation during the match of a cycle leaves some of `solution` as it was, and the callback
reports it (`cuckoocycle.tcc:263`), which is why `ProofHolds` is said of searches that were not
cancelled; when memory for the fibers cannot be had, the solver goes on without any and with the
buckets deleted (`cuckoocycle.h:315`); two cycles that share an edge may hide each other from the
recovery, as a forest keeps one of them.

In the exchange of histories: the distance between two spans is cut to 24 bits, so after a pause of
more than 194 days between two of the shards that spans begin at, the spans before it are decoded as
later ones, and a peer is not asked for "everything within each span" (`raddi_request.h:133-138`);
channels older than the first span are never sent, as they are counted among the channels and
selected from the identities; a span is compared by number only, so two nodes that have different
rows in it stay different; an empty span is counted as too many, and nothing of it is sent.

In subscriptions: the size of a request with spans does not count its channel
(`raddi_coordinator.cpp:1273`), so a request with none or one is refused, which costs the connection
(`Refuse`), and a longer one arrives without its last two spans, which the peer reads from
what follows it in memory; `enumerate` asks for a topic once for each copy in a list, and
`unsubscribe` takes one copy away, so a peer goes on sending what nobody wants any more and is
disconnected for it; a row that was dropped as unsolicited stays in `recent`, so when it is
sent again as the answer to a subscription it is not stored; a node that takes part in
propagation never requests the history of what its applications subscribe to; a
list is emptied on disk before it is written, so that a crash there loses it; `everything` is
not saved.

In the coordinator: the main thread deadlocks itself when a connection cannot be created,
since `ban` takes the lock shared that `operator ()` holds exclusively, and likewise when a
connection fails at once (`disconnected`, `unavailable`); `incomming` never looks at
`max_connections`, although `raddi_coordinator.h:161` calls it an absolute maximum that
includes inbound connections; announced addresses start with an assessment of 2, and are
banned on their first disagreement, although `raddi_coordinator.h:214` allows "a few honest
errors"; `adjust` of an address that is not on `connection->level` returns 0, and so bans at
once; what the user requests is not looked up in the blacklist; a core node requested by the
user is opened as an announced one, and demoted when it is established; two connections
opened by both sides at the same time may both be refused.

## 4. Proofs

`EmbraceProofs` proves, for any finite or infinite sets of entries, workers and connections
and any settings that satisfy the named assumptions of `Embrace`:

- `TypeCorrect`: `Spec => []TypeOK`
- `RootsCorrect`: `Spec => []RowsKnowTheirRoot`
- `TablesClosed`: `Spec => []CausallyClosed`
- `BlacklistHolds`: `Spec => []BlacklistedNeverStored`
- `RefusalsFinal`: `Spec => []RefusedNeverStored`
- `Implementation`: `Spec => ImplementsStore`

Two inductive invariants carry them. `TypeInv` adds to `TypeOK` what the types of a worker's frame
are in each step (`FrameTyped`, `FrameMeant`: past `Assess` the frame holds a post whose top is its
`Root`), that no two workers serve one source (`SourcesApart`, which is why a counter passes its
limit by at most one), that counters of connected peers are within limits, and that
`RowsKnowTheirRoot` and its counterpart for the `threads` table hold; the row property is not
inductive without the frames, as a worker carries a top from the assessment of an entry to its
insertion while others write and erase. `PolicyInv` says of every post *ever stored* (in the tables
or erased), and of the entry of every worker past its assessment, that it is genuine, that its
parent and author have been stored, and, past the gate, that nothing about it is bad (its size, its
proof, the blacklist). A post is refused only for being bad or for having a refused parent; as
everything above a stored post has been stored and nothing stored is bad, what is refused and what
has been stored stay disjoint whichever worker comes first. Neither half is inductive without the
frames: a worker acts on what its assessment found while others write, refuse and erase. Each action
has a lemma that it keeps each invariant; `Implementation` maps `Insert`, `InsertThread` and `Erase`
to `Admit` and `Remove` and everything else to a stutter.

`EmbraceFlowProofs` proves what else the runs of `Embrace` check, under the same assumptions:

- `RelaysBounded`: `Spec => []RelayedOncePerLife`
- `OnlyFavouredStored`: `Spec => []OnlySubscribedStored`
- `SoundPostsKept`: if `Lossless`, `Spec => []NothingLost`
- `AllAwaitedAbsent`: if `OneWorker`, `Spec => []NobodyWaitsInVain`

All rest on `FlowInv`: what waits under a post waits for its parent, and the list a worker walks is
of one channel. `RelayInv` counts: an entry has been broadcast, or is owed a broadcast by some
worker (`Owes`), no more often than it has come into `recent`; what makes it inductive is that the
worker that puts it there owes the one broadcast until it has made or dropped it. `FavourInv`
carries the verdict of the gate, which looks at the subscriptions, from the gate to the insertion
(`FavourFrame`). What waited under a post that an application submits passes the gate on its behalf,
and is `Vouched` for: something above it was submitted. `LossInv` says of each sound post that
arrived that it is stored, waits, is too old, or is in the hands of a worker (`Held`); for this
`recent`, `refused` and every verdict a worker carries (`LossFrame`) must say the truth of sound
entries. Its hypothesis `Lossless` names the settings under which the code drops on purpose:
`track_all_channels`, failing writes, and the weak thread above. `VainInv` is about the one worker
between its look at the tables and what it does then (`VainFrame`); with two it is false
(`ClaimRace`), which is why `OneWorker` is a hypothesis and no convenience.

`ShardsProofs` proves, for any rows, timestamps, sizes, granularities and threads:

- `ShardsInvariance`: `Spec => []ShardsInv`, the inductive invariant
- `ShardsTypes`: `Spec => []TypeOK`; this includes the order of the shards
- `RowsAreFound`: `Spec => []NoRowAboveItsShard`
- `CachesExact`: `Spec /\ []BasesApart => []CacheIsFile`
- `ContentReadable`: `Spec /\ []BasesApart => []ContentPresent`
- `RowsKept`: `Spec /\ []BasesApart => ImplementsRowStore`

`NoRowAboveItsShard` is far from inductive. A split distributes what is in the *cache*, so
caches must hold nothing that is not below the next base (`CachesBelow`) and their offsets
must be within the content (`CachesWithin`, `FilesSound`). Both hold only for the last of
several shards with one base (`Leads`): such shards share their files and one can be open
while the other writes, but a search returns only the last. A new shard at the end is safe
because the newest one has nothing past the forward granularity, and when it is outgrown,
because its cache has all of its rows that are not older than its base (`Newest`,
`Covering`). A row put into the upper part of a split though it is older than that part's
base is the exception that `Covering` has to allow. The last shard must have a file
(`NewestHasFile`), or a restart would make another one the newest, for which `Newest` is
not known. As the code builds shards and files in steps,
all of it is said of intermediate values `ss` and `ff`, and the lemmas follow the code:
`Replace` (one shard and its file change), `AddFreshSound` (an empty shard is put anywhere
in the order), `LowerSound` and `SplitSound` (the two parts of a split), `InsertIntoSound`
(`shard::insert`), and then one lemma per action.

The last three theorems are about tables in which no two shards have one base (`BasesApart`), and
need it: two shards of one base share their files, and each has a cache of its own. Such shards
arise from a split of rows one second apart and behind a newest shard whose rows are all older than
itself (section 3), so `BasesApart` is a hypothesis about the behaviour and not an assumption. It is
an invariant of all 675,923 states of `MCShards`. Given it, `ExactInv`, which adds to `ShardsInv`
that, while the index is undamaged, an open shard has in its cache what `Load` makes of its index and
its handle at the end of the index, unless that stands within a row (`Faithful`), is inductive: the
lemmas follow the code again, `ReplaceFaithful` for a shard that changes together with its file, and
then the two parts of a split, whose indexes together have the rows of the old one. `RowsKept` maps
`insert` and `erase` to one row more and one less, and a split, a closing, a restart and everything
else to a stutter. `CachesExact` and `RowsKept` say nothing of the insertion that damages the index,
and could not: without `~damaged` both properties are false of the code, and of the model.
`ContentReadable` holds of that step too.

`LinkProofs` proves, for any script, any senders, modes and limits:

- `TypeCorrect`: `Spec => []TypeOK`
- `CiphersAgree`: two ends that accept each other's offer have chosen the same cipher
- `LockHolds`: `Spec => []TornByKeepalives`
- `Implementation`: `Spec => ImplementsFifo`
- `DiscordHasCause`: `Spec => []GarbledHasCause`
- `PromptnessRewarded`: `Spec => []HealthyStays`

Four invariants carry them. `TypeInv` adds to the types that a sender that holds the lock has
something left to say (`Ready`). `FifoInv` says of every frame in the two buffers and on the wire
that it is `Genuine`: its payload stands at its nonce in what its sender has said; together with
`Authenticates` this makes each decoded frame the next one. Order does not matter for it, so it
holds through failures and overlaps. `OrderInv` is about order: as long as nothing has failed or
overlapped (`Undisturbed`), wire, `pending` and `awaiting` together, with the control frames taken
out, carry the nonces from `inbound + 1` to `outbound` without gaps (`Orderly`). `PatienceInv` says
why a `prompt` network keeps a healthy connection: as long as that is what it is (`Calm`: both ends
open, nothing failed or overlapped, the network prompt), an end that has been silent for a period
has asked (`Asking`: the question or the answer to it is being written, in a buffer, or on the
wire), and as a period is not over before these are empty (`Settled`), the silence is over when the
timer looks again (`SettledSilent`). That a frame is not lost between buffer and wire is
`FrameKept`, that one who is about to write does write is `WriterKept`.

`PeersProofs` proves, for any hosts, slots, assessments, settings and bounds:

- `TypeCorrect`: `Spec => []TypeOK`, which includes that assessments fit a byte
- `ConnectedOnce`: `Spec => []OutboundOnce`
- `LevelsDisjoint`: `Spec => []OneLevel`
- `BansLast`: `Spec => BansHold`
- `MovesComplete`: `Spec => MovedNotLost`

`OutboundOnce` needs that what is in the batch of the main thread is not connected to (`Unopened`).
`RaceInv` carries the other two: hosts that two threads are at now are in `raced`, so for any other
host there is one thread at most between the steps of a move; a thread about to insert has found the
address nowhere (`ToInsert`), one about to erase has not found it on the blacklist (`ToErase`), and
one about to forget has a connection that is not on the blacklist (`ToForget`). None of these would
be inductive for a host in `raced`, and this is what `ClaimBan` exploits. `MovedNotLost` holds of
hosts in `raced` as well: a move erases before it inserts, but whoever has erased an address inserts
it, or has found it on the blacklist by then. What could lose a port is an erase of a whole host
(port 0), and `PlaceInv` says that whole hosts are only ever banned, and that no thread begins a
move while it is in one: the main thread only when it is about to wait for ever.

`SyncProofs` proves, for any announcements, tables, shards, widths, arrivals and numbers of
breaks:

- `TypeCorrect`: `Spec => []TypeOK`
- `NothingMissed`: `Spec => []CaughtUp`

Half of it is about the request as data. `DecodingExists` says that the recursion of `decode` has a
value for any finite set of ends, `DecodedIs` that it gives the spans back when none is too long,
`ReportComplete` that spans, what is before them and what is after the threshold leave no time out,
and `ReportHonest` that the node has as many rows as it says. `SyncInv` then says of every identity
that the other has and this node has not that it is `Covered` until it comes: by a request that has
yet to be made (`Unasked`), is under way (`Asking`) or is being answered and still has the row's
span or the threshold before it (`Remains`), by an entry under way, or by a worker that has yet to
broadcast it. `Asked` closes the gap between the handshake and the first broadcast: while the
other's connection is not secured, so that broadcasts pass this node by, its request cannot have
been answered. `Sound` is what lets a span go unsent: the asking node still has what it counted, so
if the other has no more and has all of these, the two have the same (`Compared`).

`SubscriptionsProofs` proves, for any applications, peers, topics and rows:

- `TypeCorrect`: `Spec => []TypeOK`
- `FilesKept`: `Spec => []FilesFollow`
- `AllAsked`: `Spec => []Asked`
- `GapsExcluded`: `Spec => []NoGap`

`BeginsOf` and `GatheredIs` say that `gather_history` makes a request from any rows (its recursion
has a value, and its spans begin at rows that it counted), `EnumerationOf` that every topic that is
wanted is enumerated. `FileInv` adds to `FilesFollow` that what is being saved is marked as changed:
only so may a file be empty in between. `AskInv` says of every topic that is wanted, and that no
command has yet to ask for, that the peer has it in its list and no cancellation is on its way, or
that a request for it is on its way and no cancellation behind it (`Covers`); that cancellations are
only sent for what is not wanted any more is what keeps this when a command overlaps with
`corroborated`. `WireConcat` and `WireTail` are its lemmas about requests that are sent and taken.
`GapInv` is `NoGap` with what makes it inductive: a topic that is not in the list of a connection
has not been asked for since, so that `everything` adds nothing to answer for, and rows are not in
the future, so that the end of an answer has them all. The answer in progress (`Answering`) covers
what came since; when it ends its rows are on the way (`GapSend`), and what comes later is in
`passing`, which is read when the subscription is there already (`GapPass`).

`SolverProofs` proves, for any graphs, fibers, threads, rounds and complexities and either pool:

- `PhasesApart`: `Spec => []OnePhase`
- `CyclesOutlastTrimming`: `Spec => []CoreKept`
- `CyclesAccepted`: `Spec => []VerifyExact`
- `ProofsAreAccepted`: `Spec => []ProofHolds`
- `NothingMissed`: `Spec /\ []PathsFit => []MissesNothing`

`PoolInv` is the barrier, taken apart: nothing runs between phases (`Still`), the queue is a
beginning of the phase's items in their order (`Queued`), what has been taken belongs to this phase
(`Taken`), and `remains` and the semaphore count what is left, whichever pool does the counting and
whether or not threads could be made (`CountedAll`); so the event that ends a phase is set when
nothing runs. `CoreInv` needs the barrier: each round trims on one side by what the round before
left, and what it has trimmed so far must be a part of what may go. `Generated` says that the first
phase makes every edge (rows are divided over the fibers without a gap: `EveryRowHasFiber`),
`Renamed` that renamed nodes meet where the nodes did (`Numbering`). `CyclesInCore` says what it is
good for: every cycle is in the core, so trimming loses none.

`CyclesAccepted` is about what a walk computes, and induction is replaced by the least number of
steps at which something would go wrong (`LeastOf`). The walk of `verify` goes from an end to the
only other one on its node, then along that edge; so it can be walked back (`MetBack`), comes first
to its beginning again, and until then meets no end twice (`WalkSpreads`). An accepted list is
therefore covered by the walk (`WalkCovers`), each of its ends has one partner, and a part with
that property would hold all that the walk visits (`AcceptedIsCycle`). The other way round, what the
walk has visited when it comes back is a part in which every end has a partner, thus the whole cycle
(`CycleIsAccepted`); the test by exclusive or passes because partners come in pairs (`PairsAreEven`,
`RegularIsEven`).

`ProofsAreAccepted` follows a proof from the graph to the target, by `SolveInv`. Which rows a phase
has been through is a function of the queue and of what the threads have got to (`Processed`); a
step takes a row that has not been (`StepProcesses`), and when the phase ends all have been
(`AllProcessed`). `NamingInv` says by that how the tables of names stand in the middle of a
phase: the name of an end, looked up once or twice, is its node (`RenameMeans`, `NamesUndone`).
`LinkInv` says that a link goes along an edge that is left, also when a path is turned around
(`TurnedLinks`). Two nodes of paths that end in one root are the same only at the same distance from
it (`NotDeeper`, `SameDepth`), so what two paths go through before they meet, and the new edge, are
different edges in a ring (`LoopIs`, `LoopEdges`), and a ring is a single cycle: its parts are not
closed (`Ring`, `RingOrder`, `LoopIsCycle`). `MatchInv` says that the edges of the rows that `match`
has been through have been found. The edges so found are a cycle of the graph (`CarriedOver`) without
a repetition (`CycleIsSimple`), even (`CycleIsEven`), and in ascending order after the sort
(`SortedIs`); the differences that are written add up to them again (`SumsBack`), and so
`CycleIsAccepted` applies. Nothing is said of a search that was cancelled, for the reason given in
section 3.

`NothingMissed` adds `ReadInv`: as long as there is no answer, the links make no cycle (`NoCircle`),
the core of the graph is among the edges that are left, and each edge that has been read is
accounted for, which is to say that it is on a link (`Carries`) or in a cycle that was looked at and
was not wanted, or is being matched now. A tree that is turned around keeps its edges
(`CarriesOn`), takes the new one (`CarriesNew`) and stays a tree when it is hung below a node of
another (`RootsApart`, `StaysOpen`); an edge between two nodes of one tree is on a link already or
closes a cycle of as many edges as the loop is long (`LoopFound`), and a loop for which there is no
room is not a wanted one (`Report`). In the end everything has been read. Some edge of a
cycle of more than two is not in the forest (`NotInForest`), therefore in another cycle that was
looked at. `StuckInv` is about construction that failed: the destructor waits a second time for
threads that have left, so that nothing is returned then, in particular not "no cycle".
The hypothesis `PathsFit` says that no path in the forest is longer than `MaxPath`. The code
drops the edge otherwise (`cuckoocycle.tcc:246`), and the cycle with it: a cycle of four
that two edges join to a doubled edge is missed if `MaxPath` is four, and is found if it is twelve.
The sizes in the code do not imply it: a path may hold 8192 nodes and a graph of complexity 29 has
2^29 edges (`cuckoocycle.h:176`). In the instance that TLC checks every path fits.

Assumption of `Solver`: `SolverAssumption` (sizes, and graphs with nodes of the numbers there are;
the lengths looked for are at least 4 and at most the longest path, as the comment at
`cuckoocycle.h:116` asks, and the least length of a proof is even, which is 12 in the code,
`raddi_proof.h:31`).

Assumptions of `Subscriptions`: `SubscriptionsAssumption` (finite sets, types of constants,
an entry's top is among what it is near to, and rows of the start are not in the future).

Assumptions of `Sync`: `SyncAssumption` (two nodes, finitely many rows, types).

Assumptions of `Link` and `Peers`: `LinkAssumption` (two different ends, distinct threads, types of
the limits, and a patience of at least one period: the code's is four) and `PeersAssumption` (types,
distinct threads, levels disjoint at the start, and that assessments of new addresses are within the
byte).

Assumptions of `Shards`: `StampAssumption` (timestamps are numbers at least a backtrack granularity
above zero, and `Erased` and `Torn` are no rows and differ) and `SizeAssumption` (sizes and granularities are positive).

Assumptions of `Embrace`: `EntryAssumption` (an entry's parent is not itself and `Root` follows the
parents), `NameAssumption` (the null values are outside the sets they extend),
`SettingAssumption` (types of settings). TLC evaluates all ten in the runs of their modules.

Every invariant and action property of the passing runs is a theorem, for every value of the
constants that the assumptions allow; one of them, `MissesNothing` of `Solver`, under the hypothesis
that no path is too long, without which it is false. What is liveness, which the prover does not
do (`DetachedDrains` of `Embrace`, `Terminates` of `Solver`, `Flushed` of `Link`, `Converges` of
`Sync`), is model-checked only, within the bounds of section 3.

## 5. Plan

1. `Embrace` and its abstract `CausalStore`: done.
2. `Shards` and its abstract `RowStore`: done, but for a crash in a split and writes that
   fail.
3. `Gossip`: several nodes, each an abstraction of `Embrace`; an entry reaches every
   connected subscriber.
4. `Peers`: done.
5. `Link` and its abstract `FifoLink`: done, but for partial frames.
6. `Sync` and `Subscriptions`: done, the latter but for what spans that are not the last two
   bring and for the limit on requests.
7. Termination of the workers; persistence of `refused`.
8. `Solver`: done, but for what does not fit in a bucket.

Each of these gets one run, with its bounds as small as the hazards listed for it allow,
and one theorem about its safety.

Not planned: what is listed as out of scope in the inventory, and the pure functions on
bytes (content analysis, text forms), whose verdicts the models take as
constants.

------------------------------- MODULE Shards -------------------------------
(***************************************************************************)
(* A table of the database (src/core/raddi_database_table.tcc): shards in    *)
(* the order of their base timestamps, each with an index file, a content    *)
(* file and, while it is open, a cache of the index in memory                *)
(* (src/core/raddi_database_shard.tcc).                                      *)
(*                                                                         *)
(* Threads of the node look a row up and insert it if it is missing (what    *)
(* db::assess and db::insert do), or read its content to send it. A get      *)
(* finds its shard and opens it, then searches it, under two acquisitions    *)
(* of the shard's lock; the optimizer may close the shard in between. An     *)
(* insert holds the table's lock alone and is one step, splits included.     *)
(***************************************************************************)
EXTENDS Integers, FiniteSetsExt, SequencesExt

CONSTANTS
  Rows,               \* ids of entries
  Stamp,              \* eid::timestamp of each
  Erased,             \* the zeros an erased index row is overwritten with
  Torn,               \* the id left by a write that ends within an index row
  Threads,
  MinimumShardSize, MaximumShardSize,   \* settings of the database
  ForwardGranularity, BacktrackGranularity,
  MaxCopies,          \* bound on the copies of a row in the files
  MaxErasures, MaxRestarts

\* The smallest timestamp leaves room for a shard before it: the clock of the
\* protocol has run for longer than a backtrack granularity.
ASSUME StampAssumption ==
  /\ Stamp \in [Rows -> Nat]
  /\ \A r \in Rows : Stamp[r] >= BacktrackGranularity
  /\ Erased \notin Rows /\ Torn \notin Rows /\ Torn # Erased

ASSUME SizeAssumption ==
  /\ MinimumShardSize \in Nat \ {0} /\ MaximumShardSize \in Nat \ {0}
  /\ ForwardGranularity \in Nat \ {0} /\ BacktrackGranularity \in Nat \ {0}

VARIABLES
  shards,    \* table::shards
  files,     \* base timestamp -> index and content file of that name
  call,      \* what each thread is doing
  damaged,   \* an index row was written across two others, or beyond the last
  erasures, restarts

vars == <<shards, files, call, damaged, erasures, restarts>>

-----------------------------------------------------------------------------
(* Types *)

\* A row of an index file: its id and where its content lies. Places in files
\* are counted in rows and in contents, the unit being one of them.
Cell == [id : Rows \cup {Erased, Torn}, offset : Nat]
File == [index : Seq(Cell), content : Seq(Rows)]

\* A row in memory, with its place in the index file.
Entry == [id : Rows, offset : Nat, slot : Nat]

\* ipos and cpos are the positions of the two file handles, counted in rows and
\* contents before them; `inside` tells that the index handle stands further on,
\* an id's length into the next row.
Shard == [base : Nat, open : BOOLEAN, cache : SUBSET Entry,
          ipos : Nat, cpos : Nat, inside : BOOLEAN]

Idle  == [op |-> "idle"]
Calls == {Idle}
         \cup [op : {"get"}, want : {"row", "content"}, row : Rows, shard : Nat]
         \cup [op : {"insert"}, row : Rows]

TypeOK ==
  /\ shards \in Seq(Shard)
  /\ \A j, k \in DOMAIN shards : j < k => shards[j].base <= shards[k].base
  /\ DOMAIN files \subseteq {shards[k].base : k \in DOMAIN shards}
  /\ \A b \in DOMAIN files : files[b] \in File
  /\ call \in [Threads -> Calls]
  /\ damaged \in BOOLEAN
  /\ erasures \in Nat /\ restarts \in Nat

-----------------------------------------------------------------------------
(* A shard and its files *)

Fresh(b) == [base |-> b, open |-> FALSE, cache |-> {},
             ipos |-> 0, cpos |-> 0, inside |-> FALSE]

NoFile == [index |-> <<>>, content |-> <<>>]

\* file::mode::always: a missing file is created
FileOf(ff, b) == IF b \in DOMAIN ff THEN ff[b] ELSE NoFile

\* Both files of the shard of base b become f.
WithFile(ff, b, f) == [x \in DOMAIN ff \cup {b} |-> IF x = b THEN f ELSE ff[x]]

\* The rows of an index file, those erased left out. (No behaviour opens a file
\* with a torn row, which would be loaded as a row nobody has inserted.)
Load(index) ==
  {[id |-> index[n].id, offset |-> index[n].offset, slot |-> n] :
     n \in {m \in DOMAIN index : index[m].id \in Rows}}

\* Mutated: the index handle is left at the start of the file.
OpenedAtStart(s, f) ==
  [s EXCEPT !.open = TRUE, !.cache = Load(f.index), !.ipos = 0,
            !.cpos = Len(f.content), !.inside = FALSE]

\* Opening reads the index and leaves both handles at the ends of their files.
Opened(s, f) ==
  [s EXCEPT !.open = TRUE, !.cache = Load(f.index), !.ipos = Len(f.index),
            !.cpos = Len(f.content), !.inside = FALSE]

\* shard::unsynchronized_advance, for the process that writes
Advanced(s, f) == IF s.open THEN s ELSE Opened(s, f)

\* What std::lower_bound finds in the cache: of several copies of a row, which
\* std::sort leaves in any order, the first in the file.
Matches(s, r, c) ==
  c \in s.cache /\ c.id = r /\ \A d \in s.cache : d.id = r => c.slot <= d.slot

-----------------------------------------------------------------------------
(* Which shard a timestamp belongs to *)

\* std::upper_bound, less one: the last shard that does not begin after ts
Covers(k, ts) ==
  /\ k \in DOMAIN shards /\ shards[k].base <= ts
  /\ \A j \in DOMAIN shards : j > k => shards[j].base > ts

\* The shards are in order, so a timestamp before the first one has no shard.
Before(ts) == shards # <<>> => ts < shards[1].base

\* A new shard is begun: on an empty table, past the forward granularity, ...
PastForward(ts) ==
  shards # <<>> => ts >= Last(shards).base + ForwardGranularity

\* Mutated: a row as new as the newest begins a shard.
OutgrownByEqual(ts) ==
  LET s == Last(shards) IN
  /\ shards # <<>> /\ ts >= s.base
  /\ Cardinality(s.cache) >= MinimumShardSize
  /\ \A c \in s.cache : Stamp[c.id] <= ts

\* ... or when the newest shard is large and holds nothing as new.
Outgrown(ts) ==
  LET s == Last(shards) IN
  /\ shards # <<>> /\ ts >= s.base
  /\ Cardinality(s.cache) >= MinimumShardSize
  /\ \A c \in s.cache : Stamp[c.id] < ts

AverageStamp(rows) ==
  MapThenSumSet(LAMBDA c : Stamp[c.id], rows) \div Cardinality(rows)

\* Where shard k is split: at the average of its timestamps if it is the newest,
\* else in the middle between its base and the next one.
Divider(k) ==
  IF k = Len(shards) THEN AverageStamp(shards[k].cache) + 1
  ELSE shards[k].base + (shards[k+1].base - shards[k].base - 1) \div 2 + 1

Full(k) == Cardinality(shards[k].cache) >= MaximumShardSize

\* Rows of a cache in its order
InOrder(rows) ==
  {q \in SetToSeqs(rows) :
     \A m, n \in DOMAIN q : m < n => Stamp[q[m].id] <= Stamp[q[n].id]}

\* Mutated: rows are copied as they are, though their content moves.
CopiedAsTheyAre(q, content) ==
  [index   |-> [n \in DOMAIN q |-> [id |-> q[n].id, offset |-> q[n].offset]],
   content |-> [n \in DOMAIN q |-> content[q[n].offset + 1]]]

\* The files that insertion of these rows, with their old content, makes.
Copied(q, content) ==
  [index   |-> [n \in DOMAIN q |-> [id |-> q[n].id, offset |-> n - 1]],
   content |-> [n \in DOMAIN q |-> content[q[n].offset + 1]]]

\* A shard made by a split is open, unless no row went to it.
Made(b, f) == IF f.index = <<>> THEN Fresh(b) ELSE Opened(Fresh(b), f)

\* Mutated: the upper part is put before the lower one.
SplitShardsSwapped(k, d, lower, upper) ==
  InsertAt([shards EXCEPT ![k] = Made(shards[k].base, lower)], k, Made(d, upper))

\* `lower` takes the place of shard k, `upper` is put after it.
SplitShards(k, d, lower, upper) ==
  InsertAt([shards EXCEPT ![k] = Made(shards[k].base, lower)], k + 1, Made(d, upper))

\* Mutated: the files of the upper part are not written.
SplitFilesLower(k, d, lower, upper) ==
  LET without == Restrict(files, DOMAIN files \ {shards[k].base}) IN
  IF lower.index = <<>> THEN without ELSE WithFile(without, shards[k].base, lower)

SplitFiles(k, d, lower, upper) ==
  LET without == Restrict(files, DOMAIN files \ {shards[k].base})
      made(ff, b, f) == IF f.index = <<>> THEN ff ELSE WithFile(ff, b, f)
  IN made(made(without, shards[k].base, lower), d, upper)

-----------------------------------------------------------------------------
(* Insertion *)

\* A write at position p replaces what is there, or extends the file.
Write(seq, p, x) == IF p < Len(seq) THEN [seq EXCEPT ![p + 1] = x] ELSE Append(seq, x)

\* The index after a row is written at its handle. From within a row, the write
\* leaves the id of that row, which was erased, and ends behind the id of the
\* next one, which it replaces by its own last bytes. Behind the last row it
\* leaves a piece that is no row, and that opening the file does not count.
IndexWritten(s, index, row) ==
  IF s.inside
  THEN [n \in DOMAIN index |->
          IF n = s.ipos + 2 THEN [index[n] EXCEPT !.id = Torn] ELSE index[n]]
  ELSE Write(index, s.ipos, row)

\* shard::insert of r into shard k of the shards ss with the files ff. Whether
\* the row exists is looked up in the cache as it is; only then is a closed
\* shard opened.
InsertInto(ss, ff, k, r) ==
  LET s == Advanced(ss[k], FileOf(ff, ss[k].base))
      f == FileOf(ff, s.base)
  IN
  IF \E c \in ss[k].cache : c.id = r
  THEN shards' = ss /\ files' = ff /\ UNCHANGED damaged
  ELSE
  /\ shards' = [ss EXCEPT ![k] =
       [s EXCEPT !.cache = @ \cup {[id |-> r, offset |-> s.cpos, slot |-> s.ipos + 1]},
                 !.ipos = @ + 1, !.cpos = @ + 1]]
  /\ files' = WithFile(ff, s.base,
       [index   |-> IndexWritten(s, f.index, [id |-> r, offset |-> s.cpos]),
        content |-> Write(f.content, s.cpos, r)])
  /\ damaged' = s.inside

\* table::unsynchronized_get_shard, with the shard::insert it is called for:
\* a new shard at the end, ...
InsertNewest(r) ==
  /\ PastForward(Stamp[r]) \/ Outgrown(Stamp[r])
  /\ InsertInto(Append(shards, Fresh(Stamp[r])), files, Len(shards) + 1, r)

\* ... a new shard at the front, whole granularities before the first one, ...
InsertOldest(r) ==
  /\ shards # <<>> /\ Stamp[r] < shards[1].base
  /\ \E n \in 1 .. shards[1].base :
       LET b == shards[1].base - n * BacktrackGranularity IN
       /\ b <= Stamp[r] /\ Stamp[r] < b + BacktrackGranularity
       /\ InsertInto(<<Fresh(b)>> \o shards, files, 1, r)

\* ... the shard of the timestamp, which is not full or fails to split, ...
InsertHere(r) ==
  /\ ~PastForward(Stamp[r]) /\ ~Outgrown(Stamp[r])
  /\ \E k \in DOMAIN shards :
       /\ Covers(k, Stamp[r])
       /\ InsertInto(shards, files, k, r)

\* ... or, of a full shard, its upper part: the lower part stays, and the rows
\* go to new files by way of their old content.
InsertSplit(r) ==
  /\ ~PastForward(Stamp[r]) /\ ~Outgrown(Stamp[r])
  /\ \E k \in DOMAIN shards :
       /\ Covers(k, Stamp[r]) /\ Full(k)
       /\ \E d \in {Divider(k)} \cap Nat :
            /\ shards[k].base < d
            /\ \E lo \in InOrder({c \in shards[k].cache : Stamp[c.id] < d}),
                  hi \in InOrder({c \in shards[k].cache : Stamp[c.id] >= d}) :
                 LET old   == files[shards[k].base].content
                     lower == Copied(lo, old)
                     upper == Copied(hi, old)
                 IN InsertInto(SplitShards(k, d, lower, upper),
                               SplitFiles(k, d, lower, upper), k + 1, r)

-----------------------------------------------------------------------------
(* Threads *)

Reading == \E t \in Threads : call[t].op = "get"

\* The places of the rows of an id, as pairs of a shard's base and a slot
CopiesOf(r) ==
  UNION {{<<b, n>> : n \in {m \in DOMAIN files[b].index : files[b].index[m].id = r}} :
           b \in DOMAIN files}

\* table::get as far as shard::advance. db::assess wants the row, to insert it
\* if it is missing; a transmission wants the content.
Find(t, r, want) ==
  /\ call[t] = Idle
  /\ \E k \in DOMAIN shards :
       LET f == FileOf(files, shards[k].base) IN
       /\ Covers(k, Stamp[r])
       /\ shards' = [shards EXCEPT ![k] = Advanced(@, f)]
       /\ files' = IF shards[k].open THEN files ELSE WithFile(files, shards[k].base, f)
       /\ call' = [call EXCEPT ![t] =
                    [op |-> "get", want |-> want, row |-> r, shard |-> k]]
  /\ UNCHANGED <<damaged, erasures, restarts>>

\* There is no shard to look in: the row is missing.
FindNone(t, r) ==
  /\ call[t] = Idle
  /\ Before(Stamp[r])
  /\ call' = [call EXCEPT ![t] = [op |-> "insert", row |-> r]]
  /\ UNCHANGED <<shards, files, damaged, erasures, restarts>>

\* shard::get. Reading the content moves the file's position.
Get(t) ==
  /\ call[t].op = "get"
  /\ LET k == call[t].shard
         r == call[t].row
         found == {c \in shards[k].cache : Matches(shards[k], r, c)}
     IN
     /\ shards' = IF call[t].want = "content" /\ found # {}
                  THEN [shards EXCEPT ![k].cpos = (CHOOSE c \in found : TRUE).offset + 1]
                  ELSE shards
     /\ call' = [call EXCEPT ![t] = IF call[t].want = "row" /\ found = {}
                                   THEN [op |-> "insert", row |-> r] ELSE Idle]
  /\ UNCHANGED <<files, damaged, erasures, restarts>>

\* table::insert; the lock keeps it apart from those in get.
Insert(t) ==
  /\ call[t].op = "insert" /\ ~Reading
  /\ LET r == call[t].row IN
     InsertNewest(r) \/ InsertOldest(r) \/ InsertHere(r) \/ InsertSplit(r)
  /\ call' = [call EXCEPT ![t] = Idle]
  /\ UNCHANGED <<erasures, restarts>>

\* table::erase, of a row that is there. Its id is looked for in the index file,
\* and reading it leaves the handle behind that id, where the next row will go.
Erase(r) ==
  /\ erasures < MaxErasures
  /\ \E k \in DOMAIN shards :
       LET f == FileOf(files, shards[k].base)
           s == Advanced(shards[k], f)
       IN
       /\ Covers(k, Stamp[r])
       /\ \E c \in s.cache, n \in DOMAIN f.index :
            /\ Matches(s, r, c)
            /\ f.index[n].id = r /\ \A m \in 1 .. n - 1 : f.index[m].id # r
            /\ shards' = [shards EXCEPT ![k] =
                 [s EXCEPT !.cache = @ \ {c}, !.ipos = n - 1, !.inside = TRUE]]
            /\ files' = WithFile(files, s.base,
                          [f EXCEPT !.index[n] = [id |-> Erased, offset |-> 0]])
  /\ erasures' = erasures + 1
  /\ UNCHANGED <<call, damaged, restarts>>

\* table::optimize and table::prune close shards that have not been used for a
\* while, under the same shared lock that get and erase hold.
Close(k) ==
  /\ shards[k].open
  /\ shards' = [shards EXCEPT ![k] = Fresh(@.base)]
  /\ UNCHANGED <<files, call, damaged, erasures, restarts>>

Ascending(S) ==
  {q \in [1 .. Cardinality(S) -> S] :
     /\ Range(q) = S
     /\ \A m, n \in DOMAIN q : m < n => q[m] < q[n]}

\* The node stops, between any two steps, and table::reload lists the files.
Restart ==
  /\ restarts < MaxRestarts
  /\ \E q \in Ascending(DOMAIN files) : shards' = [n \in DOMAIN q |-> Fresh(q[n])]
  /\ call' = [t \in Threads |-> Idle]
  /\ restarts' = restarts + 1
  /\ UNCHANGED <<files, damaged, erasures>>

Init ==
  /\ shards = <<>>
  /\ files = [b \in {} |-> NoFile]
  /\ call = [t \in Threads |-> Idle]
  /\ damaged = FALSE
  /\ erasures = 0 /\ restarts = 0

\* A behaviour is followed until an insertion damages the index: the ids of torn
\* rows are not modelled. A row is looked up for insertion while the files hold fewer than MaxCopies of it.
Next ==
  /\ ~damaged
  /\ \/ \E t \in Threads, r \in Rows :
          /\ Cardinality(CopiesOf(r)) < MaxCopies
          /\ Find(t, r, "row") \/ FindNone(t, r)
     \/ \E t \in Threads, r \in Rows : Find(t, r, "content")
     \/ \E t \in Threads : Get(t) \/ Insert(t)
     \/ \E r \in Rows : Erase(r)
     \/ \E k \in DOMAIN shards : Close(k)
     \/ Restart

Spec == Init /\ [][Next]_vars

-----------------------------------------------------------------------------
(* Properties *)

Live(b) == {n \in DOMAIN files[b].index : files[b].index[n].id \in Rows}

\* A row is in no shard that ends, by the beginning of the next one, before the
\* row's timestamp: a search never has to look further down than it does. New
\* shards, splits, late rows and restarts may all break this.
NoRowAboveItsShard ==
  \A b \in DOMAIN files : \A n \in Live(b), k \in DOMAIN shards :
    shards[k].base > b => Stamp[files[b].index[n].id] < shards[k].base

\* While the index is undamaged, what an open shard has in memory, kept up to
\* date by insertions, erasures and splits, is what reopening it would load. The
\* first insertion through the handle an erasure has left breaks this: the new
\* row is in memory alone, and the row after the erased one is gone from the file.
CacheIsFile ==
  ~damaged => \A k \in DOMAIN shards :
    shards[k].open => shards[k].cache = Load(FileOf(files, shards[k].base).index)

\* The content of a row that is in a cache can be read: a read that fails would
\* close the shard under the feet of other readers.
ContentPresent ==
  \A k \in DOMAIN shards : \A c \in shards[k].cache :
    c.offset < Len(FileOf(files, shards[k].base).content)

StoredRows == UNION {{files[b].index[n].id : n \in Live(b)} : b \in DOMAIN files}

\* Up to the insertion that damages the index, all of it implements a set of
\* rows: only insert and erase change the set, by one row; splits, reopening and
\* restarts do not. The insertion that does the damage adds no row to the files.
Store == INSTANCE RowStore WITH rows <- StoredRows
ImplementsRowStore == Store!Init /\ [][~damaged' => Store!Next]_StoredRows
====

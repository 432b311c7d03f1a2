---------------------------- MODULE ShardsProofs ----------------------------
(***************************************************************************)
(* Proofs about Shards for any rows, timestamps, threads and settings: its   *)
(* types, the order of the shards, that no row is above its shard, and, as    *)
(* long as no two shards have one base, that what caches offer can be read    *)
(* and, until an insertion after an erasure damages an index, that caches are *)
(* what their files are and that the table implements RowStore.               *)
(***************************************************************************)
EXTENDS Shards, FiniteSetTheorems, TLAPS

-----------------------------------------------------------------------------
(* The inductive invariant, of shards ss and files ff: the code builds both   *)
(* in steps, so the lemmas speak of intermediate values too.                  *)

\* The last shard of its base. Two shards have one base after a split of shards
\* that begin a second apart, or when the newest shard is outgrown by a row as
\* old as its base; only the last of them is found again.
Leads(ss, k) == \A j \in DOMAIN ss : j > k => ss[k].base < ss[j].base

FileBelow(f, ts) ==
  \A n \in DOMAIN f.index : f.index[n].id \in Rows => Stamp[f.index[n].id] < ts

CacheBelow(s, ts) == \A c \in s.cache : Stamp[c.id] < ts

SoundFile(f) ==
  /\ f \in File
  /\ \A n \in DOMAIN f.index :
       f.index[n].id \in Rows => f.index[n].offset < Len(f.content)

\* The shard's positions are within its files, unless the one in the index is
\* within a row.
Within(s, f) ==
  /\ ~s.inside => s.ipos <= Len(f.index)
  /\ s.cpos <= Len(f.content)
  /\ \A c \in s.cache : c.offset < Len(f.content)

\* The cache misses no row of the file, but for rows older than the shard.
Covering(s, f) ==
  \A n \in DOMAIN f.index :
    f.index[n].id \in Rows =>
      \/ Stamp[f.index[n].id] < s.base
      \/ \E c \in s.cache : c.id = f.index[n].id /\ c.slot = n

Ordered(ss, ff) ==
  /\ ss \in Seq(Shard)
  /\ \A j, k \in DOMAIN ss : j < k => ss[j].base <= ss[k].base
  /\ DOMAIN ff \subseteq {ss[k].base : k \in DOMAIN ss}

FilesSound(ff) == \A b \in DOMAIN ff : SoundFile(ff[b])

FilesBelow(ss, ff) ==
  \A b \in DOMAIN ff, k \in DOMAIN ss : b < ss[k].base => FileBelow(ff[b], ss[k].base)

CachesFinite(ss) ==
  \A k \in DOMAIN ss : IsFiniteSet(ss[k].cache) /\ (~ss[k].open => ss[k].cache = {})

CachesWithin(ss, ff) ==
  \A k \in DOMAIN ss :
    Leads(ss, k) /\ ss[k].open =>
      ss[k].base \in DOMAIN ff /\ Within(ss[k], ff[ss[k].base])

CachesBelow(ss) ==
  \A j, k \in DOMAIN ss :
    Leads(ss, k) /\ ss[k].base < ss[j].base => CacheBelow(ss[k], ss[j].base)

\* What holds of the newest shard, so that a newer one can begin.
Newest(s, ff) ==
  /\ CacheBelow(s, s.base + ForwardGranularity)
  /\ s.base \in DOMAIN ff =>
       /\ FileBelow(ff[s.base], s.base + ForwardGranularity)
       /\ s.open => Covering(s, ff[s.base])

Sound(ss, ff) ==
  /\ Ordered(ss, ff)
  /\ FilesSound(ff)
  /\ FilesBelow(ss, ff)
  /\ CachesFinite(ss)
  /\ CachesWithin(ss, ff)
  /\ CachesBelow(ss)
  /\ ss # <<>> => Newest(ss[Len(ss)], ff)

\* The file of the newest shard exists: a restart keeps that shard the newest.
NewestHasFile(ss, ff) == ss # <<>> => ss[Len(ss)].base \in DOMAIN ff

Rest ==
  /\ call \in [Threads -> Calls]
  /\ damaged \in BOOLEAN
  /\ erasures \in Nat /\ restarts \in Nat

ShardsInv == Sound(shards, files) /\ NewestHasFile(shards, files) /\ Rest

-----------------------------------------------------------------------------
(* Files and what is loaded from them *)

\* Opening a sound file yields a sound shard of the same base.
LEMMA OpenedSound ==
  ASSUME NEW s \in Shard, NEW f, SoundFile(f)
  PROVE  LET o == Opened(s, f) IN
         /\ o \in Shard /\ o.base = s.base /\ o.open
         /\ o.ipos = Len(f.index) /\ o.cpos = Len(f.content)
         /\ IsFiniteSet(o.cache)
         /\ Within(o, f) /\ Covering(o, f)
         /\ \A ts : FileBelow(f, ts) => CacheBelow(o, ts)
<1> DEFINE D == {m \in DOMAIN f.index : f.index[m].id \in Rows}
           row(n) == [id |-> f.index[n].id, offset |-> f.index[n].offset, slot |-> n]
<1>1. f \in File /\ f.index \in Seq(Cell) /\ DOMAIN f.index = 1 .. Len(f.index)
      /\ Len(f.index) \in Nat /\ Len(f.content) \in Nat
  BY DEF SoundFile, File
<1>2. \A c : c \in Load(f.index) <=> \E n \in D : c = row(n)
  BY DEF Load
<1>3. \A n \in D : row(n) \in Entry
  <2> SUFFICES ASSUME NEW n \in D PROVE row(n) \in Entry
    OBVIOUS
  <2>1. f.index[n] \in Cell /\ n \in Nat /\ f.index[n].id \in Rows
    BY <1>1
  <2>2. f.index[n].id \in Rows /\ f.index[n].offset \in Nat
    BY <2>1 DEF Cell
  <2> QED BY <2>1, <2>2 DEF Entry
<1>4. Load(f.index) \subseteq Entry
  BY <1>2, <1>3
<1>5. IsFiniteSet(Load(f.index))
  <2>1. IsFiniteSet(DOMAIN f.index)
    <3> HIDE DEF D
    <3>1. 0 + 1 \in Int /\ Len(f.index) \in Int
      BY <1>1
    <3> QED BY <1>1, <3>1, FS_Interval
  <2>2. D \subseteq DOMAIN f.index
    OBVIOUS
  <2>3. IsFiniteSet(D)
    BY <2>1, <2>2, FS_Subset
  <2>4. [n \in D |-> row(n)] \in Surjection(D, Load(f.index))
    <3> HIDE DEF D, row
    <3> QED BY <1>2 DEF Surjection
  <2> QED BY <2>3, <2>4, FS_Surjection
<1>6. /\ Opened(s, f) \in Shard /\ Opened(s, f).base = s.base /\ Opened(s, f).open
      /\ Opened(s, f).ipos = Len(f.index) /\ Opened(s, f).cpos = Len(f.content)
      /\ Opened(s, f).cache = Load(f.index)
  BY <1>1, <1>4 DEF Shard, Opened
<1> HIDE DEF row
<1>7. \A n \in D : /\ row(n).id = f.index[n].id /\ row(n).slot = n
                   /\ row(n).offset = f.index[n].offset
  BY DEF row
<1>8. Within(Opened(s, f), f)
  BY <1>1, <1>2, <1>6, <1>7 DEF Within, SoundFile
<1>9. Covering(Opened(s, f), f)
  BY <1>2, <1>6, <1>7 DEF Covering
<1>10. \A ts : FileBelow(f, ts) => CacheBelow(Opened(s, f), ts)
  BY <1>2, <1>6, <1>7 DEF FileBelow, CacheBelow
<1> QED BY <1>5, <1>6, <1>8, <1>9, <1>10

LEMMA NoFileSound == SoundFile(NoFile) /\ \A ts : FileBelow(NoFile, ts)
  BY DEF SoundFile, FileBelow, NoFile, File

LEMMA FreshSound ==
  ASSUME NEW b \in Nat
  PROVE  /\ Fresh(b) \in Shard /\ Fresh(b).base = b /\ ~Fresh(b).open
         /\ Fresh(b).cache = {} /\ IsFiniteSet(Fresh(b).cache)
         /\ \A ts : CacheBelow(Fresh(b), ts)
  BY FS_EmptySet DEF Fresh, Shard, CacheBelow

-----------------------------------------------------------------------------
(* One shard and its file change *)

LEMMA LeadsUnique ==
  ASSUME NEW ss, NEW ff, Ordered(ss, ff), NEW j \in DOMAIN ss, NEW k \in DOMAIN ss,
         Leads(ss, j), Leads(ss, k), ss[j].base = ss[k].base
  PROVE  j = k
<1>1. ss \in Seq(Shard) /\ DOMAIN ss = 1 .. Len(ss) /\ Len(ss) \in Nat
  BY DEF Ordered
<1>2. ss[j].base \in Nat
  <2>1. ss[j] \in Shard
    BY <1>1
  <2> QED BY <2>1 DEF Shard
<1> QED BY <1>1, <1>2 DEF Leads

LEMMA LastLeads ==
  ASSUME NEW ss \in Seq(Shard), ss # <<>>
  PROVE  Len(ss) \in DOMAIN ss /\ Leads(ss, Len(ss))
  BY DEF Leads

\* Files gg are those of ff, but for the file of base b.
SameBut(b, ff, gg) ==
  /\ DOMAIN gg \subseteq DOMAIN ff \cup {b}
  /\ DOMAIN ff \ {b} \subseteq DOMAIN gg
  /\ \A x \in DOMAIN gg \ {b} : gg[x] = ff[x]

\* Shard k becomes s and its file changes or goes: what s and the file must
\* satisfy, and what the file must satisfy for other shards of the same base.
LEMMA Replace ==
  ASSUME NEW ss, NEW ff, Sound(ss, ff), NEW k \in DOMAIN ss, NEW gg,
         NEW s \in Shard, s.base = ss[k].base,
         SameBut(s.base, ff, gg),
         s.base \in DOMAIN gg =>
           /\ SoundFile(gg[s.base])
           /\ \A j \in DOMAIN ss : s.base < ss[j].base => FileBelow(gg[s.base], ss[j].base),
         IsFiniteSet(s.cache), ~s.open => s.cache = {},
         Leads(ss, k) /\ s.open => s.base \in DOMAIN gg /\ Within(s, gg[s.base]),
         Leads(ss, k) => \A j \in DOMAIN ss : s.base < ss[j].base => CacheBelow(s, ss[j].base),
         k = Len(ss) => Newest(s, gg),
         \A j \in DOMAIN ss : j # k /\ Leads(ss, j) /\ ss[j].base = s.base /\ ss[j].open =>
           s.base \in DOMAIN gg /\ Within(ss[j], gg[s.base]),
         k # Len(ss) /\ s.base = ss[Len(ss)].base => Newest(ss[Len(ss)], gg)
  PROVE  Sound([ss EXCEPT ![k] = s], gg)
<1> DEFINE tt == [ss EXCEPT ![k] = s]
<1>1. /\ ss \in Seq(Shard) /\ DOMAIN ss = 1 .. Len(ss) /\ Len(ss) \in Nat
      /\ tt \in Seq(Shard) /\ DOMAIN tt = DOMAIN ss /\ Len(tt) = Len(ss)
      /\ \A j \in DOMAIN ss : tt[j] = IF j = k THEN s ELSE ss[j]
  BY DEF Sound, Ordered
<1>2. \A j \in DOMAIN ss : tt[j].base = ss[j].base
  BY <1>1
<1>3. \A j \in DOMAIN ss : Leads(tt, j) <=> Leads(ss, j)
  BY <1>1, <1>2 DEF Leads
<1> HIDE DEF tt
<1>4. Ordered(tt, gg)
  <2>1. \A i, j \in DOMAIN tt : i < j => tt[i].base <= tt[j].base
    BY <1>1, <1>2 DEF Sound, Ordered
  <2>2. DOMAIN gg \subseteq {tt[j].base : j \in DOMAIN tt}
    BY <1>1, <1>2 DEF Sound, Ordered, SameBut
  <2> QED BY <1>1, <2>1, <2>2 DEF Ordered
<1>5. FilesSound(gg)
  BY DEF Sound, FilesSound, SameBut
<1>6. FilesBelow(tt, gg)
  <2> SUFFICES ASSUME NEW b \in DOMAIN gg, NEW j \in DOMAIN tt, b < tt[j].base
               PROVE  FileBelow(gg[b], tt[j].base)
    BY DEF FilesBelow
  <2>1. CASE b = s.base
    BY <1>1, <1>2, <2>1
  <2>2. CASE b # s.base
    <3>1. b \in DOMAIN ff /\ gg[b] = ff[b]
      BY <2>2 DEF SameBut
    <3> QED BY <1>1, <1>2, <3>1 DEF Sound, FilesBelow
  <2> QED BY <2>1, <2>2
<1>7. CachesFinite(tt)
  BY <1>1 DEF Sound, CachesFinite
<1>8. CachesWithin(tt, gg)
  <2> SUFFICES ASSUME NEW j \in DOMAIN tt, Leads(tt, j), tt[j].open
               PROVE  tt[j].base \in DOMAIN gg /\ Within(tt[j], gg[tt[j].base])
    BY DEF CachesWithin
  <2>0. Leads(ss, j) /\ j \in DOMAIN ss
    BY <1>1, <1>3
  <2>1. CASE j = k
    BY <1>1, <2>0, <2>1
  <2>2. CASE j # k /\ ss[j].base = s.base
    BY <1>1, <2>0, <2>2
  <2>3. CASE j # k /\ ss[j].base # s.base
    <3>1. ss[j].base \in DOMAIN ff /\ Within(ss[j], ff[ss[j].base])
      BY <1>1, <2>0, <2>3 DEF Sound, CachesWithin
    <3>2. ss[j].base \in DOMAIN gg /\ gg[ss[j].base] = ff[ss[j].base]
      BY <3>1, <2>3 DEF SameBut
    <3> QED BY <1>1, <2>0, <2>3, <3>1, <3>2
  <2> QED BY <2>1, <2>2, <2>3
<1>9. CachesBelow(tt)
  <2> SUFFICES ASSUME NEW i \in DOMAIN tt, NEW j \in DOMAIN tt,
                      Leads(tt, j), tt[j].base < tt[i].base
               PROVE  CacheBelow(tt[j], tt[i].base)
    BY DEF CachesBelow
  <2>0. Leads(ss, j) /\ j \in DOMAIN ss /\ i \in DOMAIN ss /\ ss[j].base < ss[i].base
    BY <1>1, <1>2, <1>3
  <2>1. CASE j = k
    BY <1>1, <1>2, <2>0, <2>1
  <2>2. CASE j # k
    BY <1>1, <1>2, <2>0, <2>2 DEF Sound, CachesBelow
  <2> QED BY <2>1, <2>2
<1>10. Newest(tt[Len(tt)], gg)
  <2>0. ss # <<>> /\ Len(ss) \in DOMAIN ss
    BY <1>1
  <2>1. CASE k = Len(ss)
    BY <1>1, <2>1
  <2>2. CASE k # Len(ss) /\ s.base = ss[Len(ss)].base
    BY <1>1, <2>0, <2>2
  <2>3. CASE k # Len(ss) /\ s.base # ss[Len(ss)].base
    <3>1. Newest(ss[Len(ss)], ff)
      BY <2>0 DEF Sound
    <3>2. ss[Len(ss)].base \in DOMAIN gg => 
            ss[Len(ss)].base \in DOMAIN ff /\ gg[ss[Len(ss)].base] = ff[ss[Len(ss)].base]
      BY <2>3 DEF SameBut
    <3>3. Newest(ss[Len(ss)], gg)
      BY <3>1, <3>2 DEF Newest
    <3> QED BY <1>1, <2>0, <2>3, <3>3
  <2> QED BY <2>1, <2>2, <2>3
<1> QED BY <1>4, <1>5, <1>6, <1>7, <1>8, <1>9, <1>10 DEF Sound, tt

\* A closed shard is opened, its file made if there is none.
LEMMA OpenSound ==
  ASSUME NEW ss, NEW ff, Sound(ss, ff), NEW k \in DOMAIN ss, ~ss[k].open
  PROVE  LET f == FileOf(ff, ss[k].base) IN
         Sound([ss EXCEPT ![k] = Opened(ss[k], f)], WithFile(ff, ss[k].base, f))
<1> DEFINE b == ss[k].base
           f == FileOf(ff, b)
           s == Opened(ss[k], f)
           gg == WithFile(ff, b, f)
<1>1. ss \in Seq(Shard) /\ ss[k] \in Shard /\ Len(ss) \in DOMAIN ss /\ ss # <<>>
  BY DEF Sound, Ordered
<1>2. SoundFile(f)
  BY NoFileSound DEF Sound, FilesSound, FileOf
<1>3. b \in DOMAIN ff => f = ff[b]
  BY DEF FileOf
<1>4. b \notin DOMAIN ff => f = NoFile
  BY DEF FileOf
<1>5. \A j \in DOMAIN ss : b < ss[j].base => FileBelow(f, ss[j].base)
  BY <1>3, <1>4, NoFileSound DEF Sound, FilesBelow
<1> HIDE DEF f
<1>6. /\ s \in Shard /\ s.base = b /\ s.open /\ IsFiniteSet(s.cache)
      /\ Within(s, f) /\ Covering(s, f)
      /\ \A ts : FileBelow(f, ts) => CacheBelow(s, ts)
  BY <1>1, <1>2, OpenedSound
<1>7. SameBut(b, ff, gg) /\ b \in DOMAIN gg /\ gg[b] = f
  <2> HIDE DEF b
  <2> QED BY DEF SameBut, WithFile
<1> HIDE DEF b, s, gg
<1>8. Newest(ss[Len(ss)], ff)
  BY <1>1 DEF Sound
<1>9. k = Len(ss) => Newest(s, gg)
  <2> SUFFICES ASSUME k = Len(ss) PROVE Newest(s, gg)
    OBVIOUS
  <2>1. FileBelow(f, b + ForwardGranularity)
    BY <1>3, <1>4, <1>8, NoFileSound DEF Newest, b
  <2> QED BY <1>6, <1>7, <2>1 DEF Newest
<1>10. b = ss[Len(ss)].base => Newest(ss[Len(ss)], gg)
  <2>1. CASE b \in DOMAIN ff
    BY <1>3, <1>7, <1>8, <2>1 DEF Newest
  <2>2. CASE b \notin DOMAIN ff
    <3>1. f = NoFile
      BY <1>4, <2>2
    <3>2. \A x : Covering(x, NoFile)
      BY DEF Covering, NoFile
    <3> QED BY <1>7, <1>8, <3>1, <3>2, NoFileSound DEF Newest
  <2> QED BY <2>1, <2>2
<1>11. \A j \in DOMAIN ss : Leads(ss, j) /\ ss[j].base = b /\ ss[j].open => Within(ss[j], f)
  BY <1>3 DEF Sound, CachesWithin
<1>12. Sound([ss EXCEPT ![k] = s], gg)
  BY <1>2, <1>5, <1>6, <1>7, <1>9, <1>10, <1>11, Replace DEF b
<1> QED BY <1>12 DEF b, s, gg, f

LEMMA WriteFacts ==
  ASSUME NEW T, NEW seq \in Seq(T), NEW p \in Nat, p <= Len(seq), NEW x \in T
  PROVE  LET w == Write(seq, p, x) IN
         /\ w \in Seq(T) /\ Len(w) >= Len(seq) /\ Len(w) > p
         /\ w[p + 1] = x
         /\ \A n \in DOMAIN w : n # p + 1 => n \in DOMAIN seq /\ w[n] = seq[n]
<1>1. CASE p < Len(seq)
  BY <1>1 DEF Write
<1>2. CASE p = Len(seq)
  <2>1. Write(seq, p, x) = Append(seq, x)
    BY <1>2 DEF Write
  <2> QED BY <1>2, <2>1
<1> QED BY <1>1, <1>2

\* A write from within a row leaves rows that were there, or a torn one.
LEMMA TornFacts ==
  ASSUME NEW index \in Seq(Cell), NEW s \in Shard, s.inside, NEW row
  PROVE  LET w == IndexWritten(s, index, row) IN
         /\ w \in Seq(Cell) /\ Len(w) = Len(index)
         /\ \A n \in DOMAIN w : w[n].id \in Rows => n \in DOMAIN index /\ w[n] = index[n]
<1> DEFINE cell(n) == IF n = s.ipos + 2 THEN [index[n] EXCEPT !.id = Torn] ELSE index[n]
           w == [n \in DOMAIN index |-> cell(n)]
<1>1. DOMAIN index = 1 .. Len(index) /\ Len(index) \in Nat
  OBVIOUS
<1>2. \A n \in DOMAIN index :
        /\ cell(n) \in Cell
        /\ cell(n).id \in Rows => cell(n) = index[n]
  <2> SUFFICES ASSUME NEW n \in DOMAIN index
               PROVE  cell(n) \in Cell /\ (cell(n).id \in Rows => cell(n) = index[n])
    OBVIOUS
  <2>1. index[n] \in Cell
    OBVIOUS
  <2>2. /\ [index[n] EXCEPT !.id = Torn] \in Cell
        /\ [index[n] EXCEPT !.id = Torn].id = Torn
    BY <2>1 DEF Cell
  <2> QED BY <2>1, <2>2, StampAssumption
<1> HIDE DEF cell
<1>3. w \in Seq(Cell) /\ Len(w) = Len(index)
  BY <1>1, <1>2
<1>4. DOMAIN w = DOMAIN index /\ \A n \in DOMAIN index : w[n] = cell(n)
  OBVIOUS
<1>5. IndexWritten(s, index, row) = w
  BY DEF IndexWritten, cell
<1> HIDE DEF w
<1> QED BY <1>2, <1>3, <1>4, <1>5

\* The part of shard::insert that writes: the entry of r is added.
Added(s, r) ==
  [s EXCEPT !.cache = @ \cup {[id |-> r, offset |-> s.cpos, slot |-> s.ipos + 1]},
            !.ipos = @ + 1, !.cpos = @ + 1]

Extended(f, s, r) ==
  [index   |-> IndexWritten(s, f.index, [id |-> r, offset |-> s.cpos]),
   content |-> Write(f.content, s.cpos, r)]

LEMMA AddedFacts ==
  ASSUME NEW s \in Shard, NEW f, SoundFile(f), Within(s, f), NEW r \in Rows,
         s.open, IsFiniteSet(s.cache)
  PROVE  LET a == Added(s, r)
             g == Extended(f, s, r) IN
         /\ a \in Shard /\ a.base = s.base /\ a.open /\ IsFiniteSet(a.cache)
         /\ SoundFile(g) /\ Within(a, g)
         /\ Covering(s, f) => Covering(a, g)
         /\ \A ts : FileBelow(f, ts) /\ Stamp[r] < ts => FileBelow(g, ts)
         /\ \A ts : CacheBelow(s, ts) /\ Stamp[r] < ts => CacheBelow(a, ts)
         /\ Len(g.index) >= Len(f.index) /\ Len(g.content) >= Len(f.content)
         /\ \A n \in DOMAIN g.index : g.index[n].id \in Rows =>
              \/ n \in DOMAIN f.index /\ g.index[n] = f.index[n]
              \/ g.index[n].id = r
<1> DEFINE a == Added(s, r)
           g == Extended(f, s, r)
           new == [id |-> r, offset |-> s.cpos, slot |-> s.ipos + 1]
           cell == [id |-> r, offset |-> s.cpos]
<1>1. /\ s.ipos \in Nat /\ s.cpos \in Nat /\ s.cache \subseteq Entry /\ s.inside \in BOOLEAN
      /\ f.index \in Seq(Cell) /\ f.content \in Seq(Rows)
      /\ ~s.inside => s.ipos <= Len(f.index)
      /\ s.cpos <= Len(f.content)
  BY DEF Shard, SoundFile, File, Within
<1>2. new \in Entry /\ cell \in Cell
  BY <1>1 DEF Entry, Cell
<1>3. new.id = r /\ new.offset = s.cpos /\ new.slot = s.ipos + 1 /\ cell.id = r /\ cell.offset = s.cpos
  OBVIOUS
<1>4. a \in Shard /\ a.base = s.base /\ a.open /\ a.cache = s.cache \cup {new}
      /\ a.ipos = s.ipos + 1 /\ a.cpos = s.cpos + 1 /\ a.inside = s.inside
  <2>1. a = [s EXCEPT !.cache = s.cache \cup {new}, !.ipos = s.ipos + 1, !.cpos = s.cpos + 1]
    BY DEF Added, Shard
  <2>2. s.cache \cup {new} \in SUBSET Entry /\ s.ipos + 1 \in Nat /\ s.cpos + 1 \in Nat
    BY <1>1, <1>2
  <2> HIDE DEF new, a
  <2> QED BY <2>1, <2>2 DEF Shard
<1> HIDE DEF new, a
<1>5. IsFiniteSet(a.cache)
  BY <1>4, FS_AddElement
<1>6. g.index = IndexWritten(s, f.index, cell) /\ g.content = Write(f.content, s.cpos, r)
  BY DEF Extended
<1>7. /\ g.index \in Seq(Cell) /\ Len(g.index) >= Len(f.index)
      /\ ~s.inside => Len(g.index) > s.ipos
      /\ \A n \in DOMAIN g.index : g.index[n].id \in Rows =>
           \/ n \in DOMAIN f.index /\ g.index[n] = f.index[n]
           \/ n = s.ipos + 1 /\ g.index[n] = cell
  <2> HIDE DEF cell, g
  <2>1. CASE ~s.inside /\ s.ipos < Len(f.index)
    <3>1. g.index = [f.index EXCEPT ![s.ipos + 1] = cell]
      BY <1>6, <2>1 DEF IndexWritten, Write
    <3> QED BY <1>1, <1>2, <2>1, <3>1
  <2>2. CASE ~s.inside /\ s.ipos = Len(f.index)
    <3>1. g.index = Append(f.index, cell)
      BY <1>6, <2>2 DEF IndexWritten, Write
    <3> QED BY <1>1, <1>2, <2>2, <3>1
  <2>3. CASE s.inside
    <3>1. /\ g.index \in Seq(Cell) /\ Len(g.index) = Len(f.index)
          /\ \A n \in DOMAIN g.index : g.index[n].id \in Rows =>
               n \in DOMAIN f.index /\ g.index[n] = f.index[n]
      BY <1>1, <1>6, <2>3, TornFacts
    <3> QED BY <1>1, <2>3, <3>1
  <2> QED BY <1>1, <2>1, <2>2, <2>3
<1>8. /\ g.content \in Seq(Rows) /\ Len(g.content) >= Len(f.content) /\ Len(g.content) > s.cpos
  <2> HIDE DEF cell, g
  <2> QED BY <1>1, <1>6, WriteFacts
<1>9. g \in File
  BY <1>7, <1>8 DEF Extended, File
<1> HIDE DEF g, cell
<1>10. SoundFile(g)
  <2> SUFFICES ASSUME NEW n \in DOMAIN g.index, g.index[n].id \in Rows
               PROVE  g.index[n].offset < Len(g.content)
    BY <1>9 DEF SoundFile
  <2>1. CASE g.index[n] = cell
    BY <1>1, <1>3, <1>8, <2>1
  <2>2. CASE n \in DOMAIN f.index /\ g.index[n] = f.index[n]
    <3>1. f.index[n].offset < Len(f.content) /\ f.index[n] \in Cell
      BY <1>1, <1>7, <2>2 DEF SoundFile
    <3>2. f.index[n].offset \in Nat
      BY <3>1 DEF Cell
    <3> QED BY <1>1, <1>7, <1>8, <2>2, <3>1, <3>2, SMTT(30)
  <2> QED BY <1>7, <2>1, <2>2
<1>11. Within(a, g)
  <2>1. \A c \in s.cache : c.offset \in Nat
    BY <1>1 DEF Entry
  <2> QED BY <1>1, <1>3, <1>4, <1>7, <1>8, <2>1, SMTT(30) DEF Within
<1>12. Covering(s, f) => Covering(a, g)
  BY <1>3, <1>4, <1>7 DEF Covering
<1>13. \A ts : FileBelow(f, ts) /\ Stamp[r] < ts => FileBelow(g, ts)
  BY <1>3, <1>7 DEF FileBelow
<1>14. \A ts : CacheBelow(s, ts) /\ Stamp[r] < ts => CacheBelow(a, ts)
  BY <1>3, <1>4 DEF CacheBelow
<1>15. \A n \in DOMAIN g.index : g.index[n].id \in Rows =>
         \/ n \in DOMAIN f.index /\ g.index[n] = f.index[n]
         \/ g.index[n].id = r
  BY <1>3, <1>7
<1> QED BY <1>4, <1>5, <1>7, <1>8, <1>10, <1>11, <1>12, <1>13, <1>14, <1>15 DEF a, g

LEMMA AddedSound ==
  ASSUME NEW ss, NEW ff, Sound(ss, ff), NEW k \in DOMAIN ss, ss[k].open,
         ss[k].base \in DOMAIN ff, Within(ss[k], ff[ss[k].base]),
         NEW r \in Rows,
         \A j \in DOMAIN ss : j > k => Stamp[r] < ss[j].base,
         k = Len(ss) => Stamp[r] < ss[k].base + ForwardGranularity
  PROVE  Sound([ss EXCEPT ![k] = Added(ss[k], r)],
               WithFile(ff, ss[k].base, Extended(ff[ss[k].base], ss[k], r)))
<1> DEFINE b == ss[k].base
           f == ff[b]
           g == Extended(f, ss[k], r)
           s == Added(ss[k], r)
           gg == WithFile(ff, b, g)
<1>1. /\ ss \in Seq(Shard) /\ ss[k] \in Shard /\ Len(ss) \in DOMAIN ss /\ ss # <<>>
      /\ DOMAIN ss = 1 .. Len(ss) /\ Len(ss) \in Nat
      /\ \A j \in DOMAIN ss : ss[j].base \in Nat
      /\ \A i, j \in DOMAIN ss : i < j => ss[i].base <= ss[j].base
  <2>1. ss \in Seq(Shard) /\ \A j \in DOMAIN ss : ss[j] \in Shard
    BY DEF Sound, Ordered
  <2>2. \A j \in DOMAIN ss : ss[j].base \in Nat
    BY <2>1 DEF Shard
  <2> QED BY <2>1, <2>2 DEF Sound, Ordered
<1>2. SoundFile(f) /\ IsFiniteSet(ss[k].cache)
  BY DEF Sound, FilesSound, CachesFinite
<1>3. /\ s \in Shard /\ s.base = b /\ s.open /\ IsFiniteSet(s.cache)
      /\ SoundFile(g) /\ Within(s, g)
      /\ Covering(ss[k], f) => Covering(s, g)
      /\ \A ts : FileBelow(f, ts) /\ Stamp[r] < ts => FileBelow(g, ts)
      /\ \A ts : CacheBelow(ss[k], ts) /\ Stamp[r] < ts => CacheBelow(s, ts)
      /\ Len(g.index) >= Len(f.index) /\ Len(g.content) >= Len(f.content)
      /\ \A n \in DOMAIN g.index : g.index[n].id \in Rows =>
           \/ n \in DOMAIN f.index /\ g.index[n] = f.index[n]
           \/ g.index[n].id = r
  <2> HIDE DEF f
  <2> QED BY <1>1, <1>2, AddedFacts DEF f
<1>4. SameBut(b, ff, gg) /\ b \in DOMAIN gg /\ gg[b] = g
  <2> HIDE DEF b, g
  <2> QED BY DEF SameBut, WithFile
<1>5. \A j \in DOMAIN ss : b < ss[j].base => j > k /\ Stamp[r] < ss[j].base
  BY <1>1
<1> HIDE DEF s, f, g, gg
<1>6. \A j \in DOMAIN ss : b < ss[j].base => FileBelow(g, ss[j].base)
  BY <1>3, <1>5 DEF Sound, FilesBelow, f
<1>7. Leads(ss, k) => \A j \in DOMAIN ss : b < ss[j].base => CacheBelow(s, ss[j].base)
  BY <1>3, <1>5 DEF Sound, CachesBelow
<1>8. Newest(ss[Len(ss)], ff)
  BY <1>1 DEF Sound
<1>9. k = Len(ss) => Newest(s, gg)
  BY <1>3, <1>4, <1>8 DEF Newest, f
<1>10. \A j \in DOMAIN ss : Leads(ss, j) /\ ss[j].base = b /\ ss[j].open => Within(ss[j], g)
  <2> SUFFICES ASSUME NEW j \in DOMAIN ss, Leads(ss, j), ss[j].base = b, ss[j].open
               PROVE  Within(ss[j], g)
    OBVIOUS
  <2>1. Within(ss[j], f)
    BY DEF Sound, CachesWithin, f
  <2>2. ss[j].ipos \in Nat /\ ss[j].cpos \in Nat /\ \A c \in ss[j].cache : c.offset \in Nat
    <3>1. ss[j] \in Shard
      BY <1>1
    <3> QED BY <3>1 DEF Shard, Entry
  <2>3. Len(f.index) \in Nat /\ Len(f.content) \in Nat /\ Len(g.index) \in Nat /\ Len(g.content) \in Nat
    <3>1. f.index \in Seq(Cell) /\ f.content \in Seq(Rows) /\ g.index \in Seq(Cell) /\ g.content \in Seq(Rows)
      BY <1>2, <1>3 DEF SoundFile, File
    <3> QED BY <3>1
  <2> QED BY <1>3, <2>1, <2>2, <2>3 DEF Within
<1>11. k # Len(ss) /\ b = ss[Len(ss)].base => Newest(ss[Len(ss)], gg)
  <2> SUFFICES ASSUME k # Len(ss), b = ss[Len(ss)].base PROVE Newest(ss[Len(ss)], gg)
    OBVIOUS
  <2>1. Stamp[r] < b /\ Stamp[r] \in Nat /\ b \in Nat
    BY <1>1, StampAssumption
  <2>2. FileBelow(g, b + ForwardGranularity)
    <3>1. Stamp[r] < b + ForwardGranularity
      BY <2>1, SizeAssumption
    <3> QED BY <1>3, <1>8, <3>1 DEF Newest, f
  <2>3. ss[Len(ss)].open => Covering(ss[Len(ss)], g)
    <3> SUFFICES ASSUME ss[Len(ss)].open, NEW n \in DOMAIN g.index,
                        g.index[n].id \in Rows,
                        ~(Stamp[g.index[n].id] < b)
                 PROVE  \E c \in ss[Len(ss)].cache : c.id = g.index[n].id /\ c.slot = n
      BY DEF Covering
    <3>1. n \in DOMAIN f.index /\ g.index[n] = f.index[n]
      BY <1>3, <2>1
    <3>2. Covering(ss[Len(ss)], f)
      BY <1>8 DEF Newest, f
    <3> QED BY <3>1, <3>2 DEF Covering
  <2> QED BY <1>4, <1>8, <2>2, <2>3 DEF Newest
<1> HIDE DEF b
<1>12. Sound([ss EXCEPT ![k] = s], gg)
  BY <1>3, <1>4, <1>6, <1>7, <1>9, <1>10, <1>11, Replace DEF b
<1> QED BY <1>12 DEF b, s, g, gg, f

-----------------------------------------------------------------------------
(* shard::insert *)

LEMMA InsertIntoSound ==
  ASSUME NEW ss, NEW ff, Sound(ss, ff), NEW k \in DOMAIN ss, NEW r \in Rows,
         Leads(ss, k) \/ ~ss[k].open,
         \A j \in DOMAIN ss : j > k => Stamp[r] < ss[j].base,
         k = Len(ss) => Stamp[r] < ss[k].base + ForwardGranularity,
         k = Len(ss) \/ NewestHasFile(ss, ff),
         damaged \in BOOLEAN, InsertInto(ss, ff, k, r)
  PROVE  Sound(shards, files)' /\ NewestHasFile(shards, files)' /\ damaged' \in BOOLEAN
<1> DEFINE b == ss[k].base
           f == FileOf(ff, b)
<1>1. /\ ss \in Seq(Shard) /\ ss[k] \in Shard /\ Len(ss) \in DOMAIN ss /\ ss # <<>>
      /\ DOMAIN ss = 1 .. Len(ss)
  BY DEF Sound, Ordered
<1>2. CASE \E c \in ss[k].cache : c.id = r
  <2>1. shards' = ss /\ files' = ff /\ damaged' = damaged
    BY <1>2 DEF InsertInto
  <2>2. ss[k].open /\ Leads(ss, k)
    BY <1>2 DEF Sound, CachesFinite
  <2>3. b \in DOMAIN ff
    BY <2>2 DEF Sound, CachesWithin
  <2> QED BY <2>1, <2>3 DEF NewestHasFile
<1>3. CASE ~ \E c \in ss[k].cache : c.id = r
  <2> DEFINE s == Advanced(ss[k], f)
             tt == [ss EXCEPT ![k] = s]
             gg == WithFile(ff, b, f)
             uu == [ss EXCEPT ![k] = Added(s, r)]
             hh == WithFile(ff, b, Extended(f, s, r))
  <2>1. s \in Shard /\ s.base = b /\ s.open /\ s.inside \in BOOLEAN
    <3>1. SoundFile(f)
      BY NoFileSound DEF Sound, FilesSound, FileOf
    <3>2. s \in Shard /\ s.base = b /\ s.open
      <4> HIDE DEF f
      <4> QED BY <1>1, <3>1, OpenedSound DEF Advanced
    <3> HIDE DEF s
    <3> QED BY <3>2 DEF Shard
  <2>3. shards' = uu /\ files' = hh /\ damaged' = s.inside
    <3>1. FileOf(ff, s.base) = f
      BY <2>1
    <3> QED BY <1>3, <2>1, <3>1 DEF InsertInto, Added, Extended
  <2>4. SoundFile(f)
    BY NoFileSound DEF Sound, FilesSound, FileOf
  <2>5. ASSUME ss[k].open PROVE Sound(uu, hh)
    <3>1. Leads(ss, k) /\ b \in DOMAIN ff /\ f = ff[b] /\ s = ss[k] /\ Within(ss[k], ff[b])
      BY <2>5 DEF Sound, CachesWithin, FileOf, Advanced
    <3>2. Sound([ss EXCEPT ![k] = Added(ss[k], r)], WithFile(ff, b, Extended(ff[b], ss[k], r)))
      BY <2>5, <3>1, AddedSound
    <3> HIDE DEF f, s
    <3> QED BY <3>1, <3>2
  <2>6. ASSUME ~ss[k].open PROVE Sound(uu, hh)
    <3>1. s = Opened(ss[k], f)
      BY <2>6 DEF Advanced
    <3>2. Sound(tt, gg)
      BY <2>6, <3>1, OpenSound
    <3>3. Within(s, f)
      <4> HIDE DEF f
      <4> QED BY <1>1, <2>4, <3>1, OpenedSound
    <3>4. gg[b] = f /\ b \in DOMAIN gg
      <4> HIDE DEF b, f
      <4> QED BY DEF WithFile
    <3> HIDE DEF f, s
    <3>5. /\ DOMAIN tt = DOMAIN ss /\ tt[k] = s /\ Len(tt) = Len(ss)
          /\ \A j \in DOMAIN ss : tt[j].base = ss[j].base
      BY <1>1, <2>1
    <3>6. uu = [tt EXCEPT ![k] = Added(s, r)]
      BY <1>1
    <3>7. hh = WithFile(gg, b, Extended(f, s, r))
      <4> HIDE DEF b
      <4> QED BY DEF WithFile
    <3> HIDE DEF tt, gg
    <3>8. Sound([tt EXCEPT ![k] = Added(tt[k], r)],
                WithFile(gg, tt[k].base, Extended(gg[tt[k].base], tt[k], r)))
      <4> HIDE DEF b
      <4>1. tt[k].open /\ tt[k].base \in DOMAIN gg /\ Within(tt[k], gg[tt[k].base])
        BY <2>1, <3>3, <3>4, <3>5
      <4>2. \A j \in DOMAIN tt : j > k => Stamp[r] < tt[j].base
        BY <3>5
      <4>3. k = Len(tt) => Stamp[r] < tt[k].base + ForwardGranularity
        BY <3>5
      <4>4. k \in DOMAIN tt
        BY <3>5
      <4> QED BY <3>2, <4>1, <4>2, <4>3, <4>4, AddedSound
    <3> QED BY <2>1, <3>4, <3>5, <3>6, <3>7, <3>8
  <2> HIDE DEF f, s
  <2>9. Sound(uu, hh)
    BY <2>5, <2>6
  <2>10. NewestHasFile(uu, hh)
    <3>1. DOMAIN hh = DOMAIN ff \cup {b} /\ Len(uu) = Len(ss)
      BY <1>1 DEF WithFile
    <3>2. \A j \in DOMAIN ss : uu[j].base = ss[j].base
      <4>1. Added(s, r).base = s.base
        BY <2>1 DEF Added, Shard
      <4> QED BY <1>1, <2>1, <4>1
    <3> QED BY <1>1, <3>1, <3>2 DEF NewestHasFile
  <2> QED BY <2>1, <2>3, <2>9, <2>10
<1> QED BY <1>2, <1>3

-----------------------------------------------------------------------------
(* A new shard *)

LEMMA InsertAtFacts ==
  ASSUME NEW seq \in Seq(Shard), NEW p \in 1 .. Len(seq) + 1, NEW x \in Shard
  PROVE  LET q == InsertAt(seq, p, x) IN
         /\ q \in Seq(Shard) /\ Len(q) = Len(seq) + 1 /\ DOMAIN q = 1 .. Len(seq) + 1
         /\ q[p] = x
         /\ \A i \in 1 .. p - 1 : q[i] = seq[i]
         /\ \A i \in p .. Len(seq) : q[i + 1] = seq[i]
<1> DEFINE u == SubSeq(seq, 1, p - 1)
           v == u \o <<x>>
           w == SubSeq(seq, p, Len(seq))
<1>1. u \in Seq(Shard) /\ Len(u) = p - 1 /\ \A i \in 1 .. p - 1 : u[i] = seq[i]
  OBVIOUS
<1>2. w \in Seq(Shard) /\ Len(w) = Len(seq) - p + 1 /\ \A i \in 1 .. Len(seq) - p + 1 : w[i] = seq[p + i - 1]
  OBVIOUS
<1> HIDE DEF u, w
<1>3. v \in Seq(Shard) /\ Len(v) = p /\ v[p] = x /\ \A i \in 1 .. p - 1 : v[i] = seq[i]
  BY <1>1, SMTT(30)
<1> HIDE DEF v
<1>4. InsertAt(seq, p, x) = v \o w
  BY DEF InsertAt, u, v, w
<1>5. v \o w \in Seq(Shard) /\ Len(v \o w) = Len(seq) + 1
  BY <1>2, <1>3
<1>6. \A i \in 1 .. p : (v \o w)[i] = v[i]
  BY <1>2, <1>3
<1>7. \A i \in p .. Len(seq) : (v \o w)[i + 1] = seq[i]
  <2> SUFFICES ASSUME NEW i \in p .. Len(seq) PROVE (v \o w)[i + 1] = seq[i]
    OBVIOUS
  <2>1. (v \o w)[i + 1] = w[i + 1 - p]
    BY <1>2, <1>3
  <2> QED BY <1>2, <2>1
<1> QED BY <1>3, <1>4, <1>5, <1>6, <1>7

\* A closed shard of base b is put at position p, in order, where no row of an
\* earlier shard is as new.
LEMMA AddFreshSound ==
  ASSUME NEW ss, NEW ff, Sound(ss, ff), NEW p \in 1 .. Len(ss) + 1, NEW b \in Nat,
         \A j \in DOMAIN ss : j < p => ss[j].base <= b,
         \A j \in DOMAIN ss : j >= p => b <= ss[j].base,
         \A x \in DOMAIN ff : x < b => FileBelow(ff[x], b),
         \A j \in DOMAIN ss : Leads(ss, j) /\ ss[j].base < b => CacheBelow(ss[j], b),
         p = Len(ss) + 1 /\ b \in DOMAIN ff => FileBelow(ff[b], b + ForwardGranularity)
  PROVE  Sound(InsertAt(ss, p, Fresh(b)), ff)
<1> DEFINE s == Fresh(b)
           tt == InsertAt(ss, p, s)
           old(i) == IF i < p THEN i ELSE i - 1
<1>1. s \in Shard /\ s.base = b /\ ~s.open /\ s.cache = {} /\ IsFiniteSet(s.cache)
      /\ \A ts : CacheBelow(s, ts)
  BY FreshSound
<1>2. /\ ss \in Seq(Shard) /\ Len(ss) \in Nat /\ DOMAIN ss = 1 .. Len(ss)
      /\ \A j \in DOMAIN ss : ss[j].base \in Nat
      /\ \A i, j \in DOMAIN ss : i < j => ss[i].base <= ss[j].base
  <2>1. ss \in Seq(Shard) /\ \A j \in DOMAIN ss : ss[j] \in Shard
    BY DEF Sound, Ordered
  <2>2. \A j \in DOMAIN ss : ss[j].base \in Nat
    BY <2>1 DEF Shard
  <2> QED BY <2>1, <2>2 DEF Sound, Ordered
<1> HIDE DEF s
<1>3. /\ tt \in Seq(Shard) /\ Len(tt) = Len(ss) + 1 /\ DOMAIN tt = 1 .. Len(ss) + 1
      /\ tt[p] = s
      /\ \A i \in 1 .. p - 1 : tt[i] = ss[i]
      /\ \A i \in p .. Len(ss) : tt[i + 1] = ss[i]
  <2>1. ss \in Seq(Shard) /\ s \in Shard
    BY <1>1, <1>2
  <2> QED BY <2>1, InsertAtFacts, ZenonT(60)
<1> HIDE DEF tt
<1>4. \A i \in DOMAIN tt : i # p => old(i) \in DOMAIN ss /\ tt[i] = ss[old(i)]
  <2> SUFFICES ASSUME NEW i \in DOMAIN tt, i # p
               PROVE  old(i) \in DOMAIN ss /\ tt[i] = ss[old(i)]
    OBVIOUS
  <2>1. CASE i < p
    BY <1>2, <1>3, <2>1
  <2>2. CASE i > p
    <3>1. i - 1 \in p .. Len(ss) /\ (i - 1) + 1 = i
      BY <1>2, <1>3, <2>2
    <3> QED BY <1>2, <1>3, <2>2, <3>1
  <2> QED BY <1>3, <2>1, <2>2
<1>5. \A i \in DOMAIN tt : i # p /\ Leads(tt, i) => Leads(ss, old(i))
  <2> SUFFICES ASSUME NEW i \in DOMAIN tt, i # p, Leads(tt, i), NEW j \in DOMAIN ss, j > old(i)
               PROVE  ss[old(i)].base < ss[j].base
    BY DEF Leads
  <2>1. CASE j < p
    <3>1. j \in DOMAIN tt /\ j > i /\ tt[j] = ss[j]
      BY <1>2, <1>3, <2>1
    <3> QED BY <1>4, <3>1 DEF Leads
  <2>2. CASE j >= p
    <3>1. j + 1 \in DOMAIN tt /\ j + 1 > i /\ tt[j + 1] = ss[j]
      BY <1>2, <1>3, <2>2
    <3> QED BY <1>4, <3>1 DEF Leads
  <2> QED BY <1>2, <2>1, <2>2
<1>6. Ordered(tt, ff)
  <2>1. ASSUME NEW i \in DOMAIN tt, NEW j \in DOMAIN tt, i < j
        PROVE  tt[i].base <= tt[j].base
    <3>1. CASE i = p
      BY <1>1, <1>2, <1>3, <1>4, <2>1, <3>1
    <3>2. CASE j = p
      BY <1>1, <1>2, <1>3, <1>4, <2>1, <3>2
    <3>3. CASE i # p /\ j # p
      <4>1. old(i) < old(j) /\ tt[i] = ss[old(i)] /\ tt[j] = ss[old(j)]
            /\ old(i) \in DOMAIN ss /\ old(j) \in DOMAIN ss
        BY <1>2, <1>3, <1>4, <2>1, <3>3
      <4> HIDE DEF old
      <4> QED BY <1>2, <4>1
    <3> QED BY <3>1, <3>2, <3>3
  <2>2. ASSUME NEW x \in DOMAIN ff
        PROVE  \E i \in DOMAIN tt : x = tt[i].base
    <3>1. PICK j \in DOMAIN ss : x = ss[j].base
      BY DEF Sound, Ordered
    <3>2. CASE j < p
      <4>1. j \in DOMAIN tt /\ tt[j] = ss[j]
        BY <1>2, <1>3, <3>2
      <4> QED BY <3>1, <4>1
    <3>3. CASE j >= p
      <4>1. j + 1 \in DOMAIN tt /\ tt[j + 1] = ss[j]
        BY <1>2, <1>3, <3>3
      <4> QED BY <3>1, <4>1
    <3> QED BY <1>2, <3>2, <3>3
  <2> QED BY <1>3, <2>1, <2>2 DEF Ordered
<1> HIDE DEF old
<1>7. FilesSound(ff)
  BY DEF Sound
<1>8. FilesBelow(tt, ff)
  <2> SUFFICES ASSUME NEW x \in DOMAIN ff, NEW i \in DOMAIN tt, x < tt[i].base
               PROVE  FileBelow(ff[x], tt[i].base)
    BY DEF FilesBelow
  <2>1. CASE i = p
    BY <1>1, <1>3, <2>1
  <2>2. CASE i # p
    BY <1>4, <2>2 DEF Sound, FilesBelow
  <2> QED BY <2>1, <2>2
<1>9. CachesFinite(tt)
  BY <1>1, <1>3, <1>4 DEF Sound, CachesFinite
<1>10. CachesWithin(tt, ff)
  BY <1>1, <1>3, <1>4, <1>5 DEF Sound, CachesWithin
<1>11. CachesBelow(tt)
  <2> SUFFICES ASSUME NEW i \in DOMAIN tt, NEW j \in DOMAIN tt,
                      Leads(tt, j), tt[j].base < tt[i].base
               PROVE  CacheBelow(tt[j], tt[i].base)
    BY DEF CachesBelow
  <2>1. CASE j = p
    BY <1>1, <1>3, <2>1
  <2>2. CASE j # p
    <3>1. old(j) \in DOMAIN ss /\ tt[j] = ss[old(j)] /\ Leads(ss, old(j))
      BY <1>4, <1>5, <2>2
    <3>2. CASE i = p
      BY <1>1, <1>3, <3>1, <3>2
    <3>3. CASE i # p
      BY <1>4, <3>1, <3>3 DEF Sound, CachesBelow
    <3> QED BY <3>2, <3>3
  <2> QED BY <2>1, <2>2
<1>12. Newest(tt[Len(tt)], ff)
  <2>1. CASE p = Len(ss) + 1
    BY <1>1, <1>3, <2>1 DEF Newest
  <2>2. CASE p # Len(ss) + 1
    <3>1. tt[Len(tt)] = ss[Len(ss)] /\ ss # <<>>
      BY <1>2, <1>3, <2>2
    <3> QED BY <3>1 DEF Sound
  <2> QED BY <2>1, <2>2
<1> QED BY <1>6, <1>7, <1>8, <1>9, <1>10, <1>11, <1>12 DEF Sound, tt, s

-----------------------------------------------------------------------------
(* A split *)

LEMMA CopiedSound ==
  ASSUME NEW rows, rows \subseteq Entry, IsFiniteSet(rows), NEW q \in InOrder(rows),
         NEW content \in Seq(Rows), \A c \in rows : c.offset < Len(content)
  PROVE  LET f == Copied(q, content) IN
         /\ SoundFile(f)
         /\ \A ts : (\A c \in rows : Stamp[c.id] < ts) => FileBelow(f, ts)
         /\ rows = {} => f.index = <<>>
<1> DEFINE f == Copied(q, content)
           N == Cardinality(rows)
<1>1. N \in Nat
  BY FS_CardinalityType
<1>2. q \in [1 .. N -> rows]
  BY DEF InOrder, SetToSeqs
<1> HIDE DEF N
<1>3. \A n \in 1 .. N :
        /\ q[n].id \in Rows /\ q[n].offset \in Nat
        /\ q[n].offset + 1 \in 1 .. Len(content) /\ n - 1 \in Nat
  <2> SUFFICES ASSUME NEW n \in 1 .. N
               PROVE  /\ q[n].id \in Rows /\ q[n].offset \in Nat
                      /\ q[n].offset + 1 \in 1 .. Len(content) /\ n - 1 \in Nat
    OBVIOUS
  <2>1. q[n] \in rows /\ q[n] \in Entry
    BY <1>2
  <2>2. q[n].id \in Rows /\ q[n].offset \in Nat
    BY <2>1 DEF Entry
  <2>3. q[n].offset < Len(content) /\ Len(content) \in Nat
    BY <2>1
  <2> QED BY <1>1, <2>2, <2>3
<1>4. DOMAIN q = 1 .. N
  BY <1>2
<1>5. /\ f.index = [n \in 1 .. N |-> [id |-> q[n].id, offset |-> n - 1]]
      /\ f.content = [n \in 1 .. N |-> content[q[n].offset + 1]]
      /\ f = [index |-> f.index, content |-> f.content]
  BY <1>4 DEF Copied
<1> HIDE DEF f
<1>6. f.index \in Seq(Cell) /\ Len(f.index) = N
  <2>1. \A n \in 1 .. N : [id |-> q[n].id, offset |-> n - 1] \in Cell
    BY <1>3 DEF Cell
  <2>2. f.index \in [1 .. N -> Cell]
    BY <1>5, <2>1
  <2> QED BY <1>1, <2>2
<1>7. f.content \in Seq(Rows) /\ Len(f.content) = N
  <2>1. f.content \in [1 .. N -> Rows]
    BY <1>3, <1>5
  <2> QED BY <1>1, <2>1
<1>8. \A n \in DOMAIN f.index : n \in 1 .. N /\ f.index[n].id = q[n].id /\ f.index[n].offset = n - 1
  BY <1>5
<1>9. SoundFile(f)
  <2>1. f \in File
    BY <1>5, <1>6, <1>7 DEF File
  <2> QED BY <1>1, <1>7, <1>8, <2>1 DEF SoundFile
<1>10. \A ts : (\A c \in rows : Stamp[c.id] < ts) => FileBelow(f, ts)
  BY <1>2, <1>8 DEF FileBelow
<1>11. rows = {} => f.index = <<>>
  <2> SUFFICES ASSUME rows = {} PROVE f.index = <<>>
    OBVIOUS
  <2>1. N = 0
    BY FS_EmptySet DEF N
  <2> QED BY <1>6, <2>1
<1> QED BY <1>9, <1>10, <1>11 DEF f

LEMMA MadeFacts ==
  ASSUME NEW b \in Nat, NEW f, SoundFile(f)
  PROVE  LET s == Made(b, f) IN
         /\ s \in Shard /\ s.base = b /\ IsFiniteSet(s.cache)
         /\ s.open <=> f.index # <<>>
         /\ ~s.open => s.cache = {} /\ s = Fresh(b)
         /\ s.open => Within(s, f) /\ Covering(s, f)
         /\ \A ts : FileBelow(f, ts) => CacheBelow(s, ts)
<1>1. CASE f.index = <<>>
  <2>1. Made(b, f) = Fresh(b)
    BY <1>1 DEF Made
  <2> QED BY <1>1, <2>1, FreshSound
<1>2. CASE f.index # <<>>
  <2>1. Made(b, f) = Opened(Fresh(b), f)
    BY <1>2 DEF Made
  <2> QED BY <1>2, <2>1, FreshSound, OpenedSound
<1> QED BY <1>1, <1>2

LEMMA CoversLeads ==
  ASSUME Sound(shards, files), NEW r \in Rows, NEW k, Covers(k, Stamp[r])
  PROVE  /\ k \in DOMAIN shards /\ Leads(shards, k)
         /\ \A j \in DOMAIN shards : j > k => Stamp[r] < shards[j].base
         /\ \A j \in DOMAIN shards : shards[j].base \in Nat
         /\ Stamp[r] \in Nat
<1>1. \A j \in DOMAIN shards : shards[j] \in Shard
  BY DEF Sound, Ordered
<1>2. \A j \in DOMAIN shards : shards[j].base \in Nat
  BY <1>1 DEF Shard
<1> QED BY <1>2, StampAssumption DEF Covers, Leads

\* The lower part takes the place of a shard and of its files.
LEMMA LowerSound ==
  ASSUME NEW ss, NEW ff, Sound(ss, ff), NEW k \in DOMAIN ss, Leads(ss, k),
         NEW f, SoundFile(f), NEW gg, SameBut(ss[k].base, ff, gg),
         ss[k].base \in DOMAIN gg <=> f.index # <<>>,
         ss[k].base \in DOMAIN gg => gg[ss[k].base] = f,
         \A ts : CacheBelow(ss[k], ts) => FileBelow(f, ts)
  PROVE  Sound([ss EXCEPT ![k] = Made(ss[k].base, f)], gg)
<1> DEFINE b == ss[k].base
           s == Made(b, f)
<1>1. ss[k] \in Shard /\ Len(ss) \in DOMAIN ss /\ ss # <<>>
  BY DEF Sound, Ordered
<1>2. b \in Nat
  BY <1>1 DEF Shard
<1> HIDE DEF b, s
<1>3. /\ s \in Shard /\ s.base = b /\ IsFiniteSet(s.cache)
      /\ s.open <=> f.index # <<>>
      /\ ~s.open => s.cache = {}
      /\ s.open => Within(s, f) /\ Covering(s, f)
      /\ \A ts : FileBelow(f, ts) => CacheBelow(s, ts)
  BY <1>2, MadeFacts DEF s
<1>4. \A j \in DOMAIN ss : b < ss[j].base => FileBelow(f, ss[j].base)
  BY DEF Sound, CachesBelow, b
<1>5. k = Len(ss) => Newest(s, gg)
  <2> SUFFICES ASSUME k = Len(ss) PROVE Newest(s, gg)
    OBVIOUS
  <2>1. FileBelow(f, b + ForwardGranularity)
    BY <1>1 DEF Sound, Newest, b
  <2> QED BY <1>3, <2>1 DEF Newest, b
<1>6. \A j \in DOMAIN ss : j # k /\ Leads(ss, j) => ss[j].base # b
  BY LeadsUnique DEF Sound, b
<1>7. k # Len(ss) => b # ss[Len(ss)].base
  <2>1. ss \in Seq(Shard)
    BY DEF Sound, Ordered
  <2> QED BY <1>1, <1>6, <2>1, LastLeads
<1>8. Sound([ss EXCEPT ![k] = s], gg)
  BY <1>3, <1>4, <1>5, <1>6, <1>7, Replace DEF b
<1> QED BY <1>8 DEF s, b

LEMMA DividerBounds ==
  ASSUME Sound(shards, files), NEW k \in DOMAIN shards, Leads(shards, k),
         Divider(k) \in Nat, shards[k].base < Divider(k)
  PROVE  \A j \in DOMAIN shards : j > k => Divider(k) <= shards[j].base
<1>1. /\ shards \in Seq(Shard) /\ DOMAIN shards = 1 .. Len(shards) /\ Len(shards) \in Nat
      /\ \A j \in DOMAIN shards : shards[j].base \in Nat
      /\ \A i, j \in DOMAIN shards : i < j => shards[i].base <= shards[j].base
  <2>1. shards \in Seq(Shard) /\ \A j \in DOMAIN shards : shards[j] \in Shard
    BY DEF Sound, Ordered
  <2>2. \A j \in DOMAIN shards : shards[j].base \in Nat
    BY <2>1 DEF Shard
  <2> QED BY <2>1, <2>2 DEF Sound, Ordered
<1> SUFFICES ASSUME NEW j \in DOMAIN shards, j > k PROVE Divider(k) <= shards[j].base
  OBVIOUS
<1>2. k # Len(shards) /\ k + 1 \in DOMAIN shards
  BY <1>1
<1>3. shards[k].base < shards[k + 1].base
  BY <1>1, <1>2 DEF Leads
<1> DEFINE m == shards[k + 1].base - shards[k].base - 1
<1>4. Divider(k) = shards[k].base + m \div 2 + 1
  BY <1>2 DEF Divider
<1>5. /\ shards[k].base \in Nat /\ shards[k + 1].base \in Nat /\ shards[j].base \in Nat
      /\ shards[k + 1].base <= shards[j].base
  <2>1. k \in Nat /\ j \in Nat /\ (k + 1 = j \/ k + 1 < j)
    BY <1>1
  <2> QED BY <1>1, <1>2, <2>1
<1>6. m \in Nat /\ m + 1 = shards[k + 1].base - shards[k].base
  BY <1>3, <1>5
<1> HIDE DEF m
<1>7. m \div 2 <= m /\ m \div 2 \in Nat
  BY <1>6
<1> QED BY <1>4, <1>5, <1>6, <1>7

LEMMA FileBelowMore ==
  ASSUME NEW f, SoundFile(f), NEW x \in Nat, NEW y \in Nat, x <= y, FileBelow(f, x)
  PROVE  FileBelow(f, y)
<1>1. f.index \in Seq(Cell)
  BY DEF SoundFile, File
<1> SUFFICES ASSUME NEW n \in DOMAIN f.index, f.index[n].id \in Rows
             PROVE  Stamp[f.index[n].id] < y
  BY DEF FileBelow
<1>2. f.index[n] \in Cell
  BY <1>1
<1>3. Stamp[f.index[n].id] \in Nat
  BY <1>2, StampAssumption DEF Cell
<1> QED BY <1>3 DEF FileBelow

LEMMA CacheBelowMore ==
  ASSUME NEW s \in Shard, NEW x \in Nat, NEW y \in Nat, x <= y, CacheBelow(s, x)
  PROVE  CacheBelow(s, y)
<1>1. \A c \in s.cache : c.id \in Rows
  BY DEF Shard, Entry
<1>2. \A c \in s.cache : Stamp[c.id] \in Nat
  BY <1>1, StampAssumption
<1> QED BY <1>2 DEF CacheBelow

LEMMA SplitSound ==
  ASSUME Sound(shards, files), NEW k \in DOMAIN shards, Leads(shards, k), Full(k),
         NEW d \in Nat, d = Divider(k), shards[k].base < d,
         NEW lo \in InOrder({c \in shards[k].cache : Stamp[c.id] < d}),
         NEW hi \in InOrder({c \in shards[k].cache : Stamp[c.id] >= d})
  PROVE  LET old   == files[shards[k].base].content
             lower == Copied(lo, old)
             upper == Copied(hi, old)
             tt    == SplitShards(k, d, lower, upper)
             gg    == SplitFiles(k, d, lower, upper)
         IN /\ Sound(tt, gg)
            /\ Len(tt) = Len(shards) + 1 /\ k + 1 \in DOMAIN tt
            /\ Leads(tt, k + 1) \/ ~tt[k + 1].open
            /\ tt[k + 1].base = d
            /\ \A i \in k + 1 .. Len(shards) : tt[i + 1] = shards[i]
            /\ k # Len(shards) /\ NewestHasFile(shards, files) => NewestHasFile(tt, gg)
<1> DEFINE b     == shards[k].base
           rest  == {c \in shards[k].cache : Stamp[c.id] < d}
           more  == {c \in shards[k].cache : Stamp[c.id] >= d}
           old   == files[b].content
           lower == Copied(lo, old)
           upper == Copied(hi, old)
           low   == Made(b, lower)
           up    == Made(d, upper)
           ss    == [shards EXCEPT ![k] = low]
           without == Restrict(files, DOMAIN files \ {b})
           ff    == IF lower.index = <<>> THEN without ELSE WithFile(without, b, lower)
           tt    == InsertAt(ss, k + 1, up)
           uu    == InsertAt(ss, k + 1, Fresh(d))
           gg    == IF upper.index = <<>> THEN ff ELSE WithFile(ff, d, upper)
<1>1. SplitShards(k, d, lower, upper) = tt /\ SplitFiles(k, d, lower, upper) = gg
  BY DEF SplitShards, SplitFiles
<1>2. /\ shards \in Seq(Shard) /\ DOMAIN shards = 1 .. Len(shards) /\ Len(shards) \in Nat
      /\ \A j \in DOMAIN shards : shards[j] \in Shard /\ shards[j].base \in Nat
      /\ \A i, j \in DOMAIN shards : i < j => shards[i].base <= shards[j].base
  <2>1. shards \in Seq(Shard) /\ \A j \in DOMAIN shards : shards[j] \in Shard
    BY DEF Sound, Ordered
  <2>2. \A j \in DOMAIN shards : shards[j].base \in Nat
    BY <2>1 DEF Shard
  <2> QED BY <2>1, <2>2 DEF Sound, Ordered
<1>3. shards[k].open /\ b \in DOMAIN files /\ Within(shards[k], files[b]) /\ SoundFile(files[b])
  <2>1. shards[k].cache # {}
    <3>1. Cardinality({}) = 0
      BY FS_EmptySet
    <3> QED BY <3>1, SizeAssumption, SMTT(30), ZenonT(60) DEF Full
  <2>2. shards[k].open
    BY <2>1 DEF Sound, CachesFinite
  <2> QED BY <2>2 DEF Sound, CachesWithin, FilesSound
<1>4. /\ old \in Seq(Rows) /\ shards[k].cache \subseteq Entry /\ IsFiniteSet(shards[k].cache)
      /\ \A c \in shards[k].cache : c.offset < Len(old)
  BY <1>2, <1>3 DEF Shard, SoundFile, File, Within, Sound, CachesFinite
<1>5. IsFiniteSet(rest) /\ IsFiniteSet(more)
  BY <1>4, FS_Subset
<1>6. \A c \in shards[k].cache : Stamp[c.id] \in Nat
  <2>1. \A c \in shards[k].cache : c.id \in Rows
    BY <1>4 DEF Entry
  <2> QED BY <2>1, StampAssumption
<1>7. \A j \in DOMAIN shards : j > k => d <= shards[j].base
  BY DividerBounds
<1>8. /\ SoundFile(lower)
      /\ \A ts : (\A c \in rest : Stamp[c.id] < ts) => FileBelow(lower, ts)
  <2>1. rest \subseteq Entry /\ \A c \in rest : c.offset < Len(old)
    BY <1>4
  <2> HIDE DEF rest, old
  <2> QED BY <1>4, <1>5, <2>1, CopiedSound DEF rest
<1>9. /\ SoundFile(upper)
      /\ \A ts : (\A c \in more : Stamp[c.id] < ts) => FileBelow(upper, ts)
      /\ more = {} => upper.index = <<>>
  <2>1. more \subseteq Entry /\ \A c \in more : c.offset < Len(old)
    BY <1>4
  <2> HIDE DEF more, old
  <2> QED BY <1>4, <1>5, <2>1, CopiedSound DEF more
<1> HIDE DEF old, lower, upper
<1>10. FileBelow(lower, d)
  BY <1>8
<1>11. \A ts : CacheBelow(shards[k], ts) => FileBelow(lower, ts) /\ FileBelow(upper, ts)
  BY <1>8, <1>9 DEF CacheBelow
<1>12. /\ SameBut(b, files, ff)
       /\ b \in DOMAIN ff <=> lower.index # <<>>
       /\ b \in DOMAIN ff => ff[b] = lower
  <2> HIDE DEF b
  <2> QED BY DEF SameBut, Restrict, WithFile
<1> HIDE DEF ff, without
<1>13. Sound(ss, ff)
  BY <1>8, <1>11, <1>12, LowerSound
<1>14. /\ low \in Shard /\ low.base = b
       /\ \A ts : FileBelow(lower, ts) => CacheBelow(low, ts)
  <2> HIDE DEF b, lower
  <2>1. b \in Nat
    BY <1>2 DEF b
  <2> QED BY <1>8, <2>1, MadeFacts
<1>15. /\ up \in Shard /\ up.base = d /\ IsFiniteSet(up.cache)
       /\ up.open <=> upper.index # <<>>
       /\ ~up.open => up.cache = {} /\ up = Fresh(d)
       /\ up.open => Within(up, upper) /\ Covering(up, upper)
       /\ \A ts : FileBelow(upper, ts) => CacheBelow(up, ts)
  BY <1>9, MadeFacts
<1> HIDE DEF low, up
<1>16. /\ ss \in Seq(Shard) /\ Len(ss) = Len(shards) /\ DOMAIN ss = DOMAIN shards
       /\ ss[k] = low /\ \A j \in DOMAIN shards : j # k => ss[j] = shards[j]
  BY <1>2, <1>14
<1>17. \A j \in DOMAIN shards : ss[j].base = shards[j].base
  BY <1>14, <1>16
<1> HIDE DEF ss
<1>18. k + 1 \in 1 .. Len(ss) + 1
  BY <1>2, <1>16
<1>19. Sound(uu, ff)
  <2>1. \A j \in DOMAIN ss : j < k + 1 => ss[j].base <= d
    <3> SUFFICES ASSUME NEW j \in DOMAIN ss, j < k + 1 PROVE ss[j].base <= d
      OBVIOUS
    <3>1. shards[j].base <= b
      BY <1>2, <1>16
    <3> QED BY <1>2, <1>16, <1>17, <3>1
  <2>2. \A j \in DOMAIN ss : j >= k + 1 => d <= ss[j].base
    BY <1>2, <1>7, <1>16, <1>17
  <2>3. ASSUME NEW x \in DOMAIN ff, x < d PROVE FileBelow(ff[x], d)
    <3>1. CASE x = b
      BY <1>10, <1>12, <3>1
    <3>2. CASE x # b
      <4>1. x \in DOMAIN files /\ ff[x] = files[x]
        BY <1>12, <3>2 DEF SameBut
      <4>2. PICK j \in DOMAIN shards : x = shards[j].base
        BY <4>1 DEF Sound, Ordered
      <4>3. x < b
        <5>1. j <= k
          BY <1>2, <1>7, <2>3, <4>2
        <5> QED BY <1>2, <3>2, <4>2, <5>1
      <4>4. FileBelow(files[x], b)
        BY <4>1, <4>3 DEF Sound, FilesBelow
      <4>5. SoundFile(files[x]) /\ b \in Nat /\ b <= d
        BY <1>2, <4>1 DEF Sound, FilesSound
      <4> HIDE DEF b
      <4> QED BY <4>1, <4>4, <4>5, FileBelowMore
    <3> QED BY <3>1, <3>2
  <2>4. ASSUME NEW j \in DOMAIN ss, Leads(ss, j), ss[j].base < d
        PROVE  CacheBelow(ss[j], d)
    <3>1. CASE j = k
      BY <1>10, <1>14, <1>16, <3>1
    <3>2. CASE j # k
      <4>1. j < k
        BY <1>2, <1>7, <1>16, <1>17, <2>4, <3>2
      <4>2. ss[j].base < ss[k].base /\ k \in DOMAIN ss
        BY <1>16, <2>4, <4>1 DEF Leads
      <4>3. CacheBelow(ss[j], b)
        BY <1>13, <1>17, <2>4, <4>2 DEF Sound, CachesBelow
      <4>4. ss[j] \in Shard
        BY <1>2, <1>16, <3>2
      <4> QED BY <1>2, <4>3, <4>4, CacheBelowMore
    <3> QED BY <3>1, <3>2
  <2>5. ~(k + 1 = Len(ss) + 1 /\ d \in DOMAIN ff)
    <3> SUFFICES ASSUME k = Len(shards), d \in DOMAIN ff PROVE FALSE
      BY <1>2, <1>16
    <3>1. d \in DOMAIN files
      BY <1>2, <1>12 DEF SameBut
    <3>2. PICK j \in DOMAIN shards : d = shards[j].base
      BY <3>1 DEF Sound, Ordered
    <3>3. j = k \/ shards[j].base <= shards[k].base
      BY <1>2
    <3> QED BY <1>2, <3>2, <3>3
  <2> QED BY <1>13, <1>18, <2>1, <2>2, <2>3, <2>4, <2>5, AddFreshSound
<1>20. /\ uu \in Seq(Shard) /\ Len(uu) = Len(ss) + 1 /\ DOMAIN uu = 1 .. Len(ss) + 1
       /\ uu[k + 1] = Fresh(d)
       /\ \A i \in 1 .. (k + 1) - 1 : uu[i] = ss[i]
       /\ \A i \in k + 1 .. Len(ss) : uu[i + 1] = ss[i]
  <2>1. Fresh(d) \in Shard
    BY FreshSound
  <2> QED BY <1>16, <1>18, <2>1, InsertAtFacts, ZenonT(60)
<1>21. /\ tt \in Seq(Shard) /\ Len(tt) = Len(ss) + 1 /\ DOMAIN tt = 1 .. Len(ss) + 1
       /\ tt[k + 1] = up
       /\ \A i \in 1 .. (k + 1) - 1 : tt[i] = ss[i]
       /\ \A i \in k + 1 .. Len(ss) : tt[i + 1] = ss[i]
  <2>1. ss \in Seq(Shard) /\ up \in Shard
    BY <1>15, <1>16
  <2> QED BY <1>18, <2>1, InsertAtFacts, ZenonT(60)
<1> HIDE DEF tt, uu
<1>22. /\ k + 1 \in DOMAIN uu /\ k + 1 \in DOMAIN tt /\ DOMAIN tt = DOMAIN uu
       /\ \A i \in DOMAIN uu : i > k + 1 =>
            i - 1 \in DOMAIN shards /\ i - 1 > k /\ uu[i] = shards[i - 1] /\ tt[i] = uu[i]
  <2>1. k + 1 \in 1 .. Len(ss) + 1
    BY <1>18
  <2>2. ASSUME NEW i \in DOMAIN uu, i > k + 1
        PROVE  i - 1 \in DOMAIN shards /\ i - 1 > k /\ uu[i] = shards[i - 1] /\ tt[i] = uu[i]
    <3>1. i - 1 \in k + 1 .. Len(ss) /\ (i - 1) + 1 = i
      BY <1>2, <1>16, <1>20, <2>2
    <3> QED BY <1>2, <1>16, <1>20, <1>21, <3>1
  <2> QED BY <1>20, <1>21, <2>1, <2>2
<1>23. upper.index # <<>> => \A j \in DOMAIN shards : j > k => d < shards[j].base
  <2> SUFFICES ASSUME upper.index # <<>>, NEW j \in DOMAIN shards, j > k
               PROVE  d < shards[j].base
    OBVIOUS
  <2>1. PICK c \in shards[k].cache : Stamp[c.id] >= d
    BY <1>9
  <2>2. Stamp[c.id] < shards[j].base
    BY DEF Leads, Sound, CachesBelow, CacheBelow
  <2> QED BY <1>2, <1>6, <2>1, <2>2
<1>24. upper.index # <<>> => Leads(uu, k + 1) /\ Leads(tt, k + 1)
  <2> SUFFICES ASSUME upper.index # <<>> PROVE Leads(uu, k + 1) /\ Leads(tt, k + 1)
    OBVIOUS
  <2>1. uu[k + 1].base = d
    BY <1>20, FreshSound
  <2> QED BY <1>15, <1>21, <1>22, <1>23, <2>1 DEF Leads
<1>25. Sound(tt, gg)
  <2>1. CASE upper.index = <<>>
    <3>1. tt = uu
      BY <1>15, <2>1 DEF tt, uu
    <3> QED BY <1>19, <2>1, <3>1
  <2>2. CASE upper.index # <<>>
    <3>1. tt = [uu EXCEPT ![k + 1] = up]
      <4> DEFINE vv == [uu EXCEPT ![k + 1] = up]
      <4>1. vv \in Seq(Shard) /\ Len(vv) = Len(uu) /\ DOMAIN vv = DOMAIN uu
        BY <1>15, <1>20, <1>22
      <4>2. \A i \in DOMAIN uu : vv[i] = IF i = k + 1 THEN up ELSE uu[i]
        BY <1>20
      <4> HIDE DEF vv
      <4>3. ASSUME NEW i \in DOMAIN uu PROVE tt[i] = vv[i]
        <5>1. CASE i = k + 1
          BY <1>21, <4>2, <5>1
        <5>2. CASE i < k + 1
          <6>1. i \in 1 .. (k + 1) - 1
            BY <1>2, <1>16, <1>20, <5>2
          <6> QED BY <1>20, <1>21, <4>2, <5>2, <6>1
        <5>3. CASE i > k + 1
          <6>1. i # k + 1
            BY <1>2, <1>20, <5>3
          <6> QED BY <1>22, <4>2, <5>3, <6>1
        <5> QED BY <1>2, <1>20, <5>1, <5>2, <5>3
      <4>4. tt = [i \in DOMAIN uu |-> tt[i]] /\ vv = [i \in DOMAIN uu |-> vv[i]]
        BY <1>20, <1>21, <4>1
      <4> QED BY <4>3, <4>4 DEF vv
    <3>2. uu[k + 1].base = d
      BY <1>20, FreshSound
    <3>3. SameBut(d, ff, gg) /\ d \in DOMAIN gg /\ gg[d] = upper
      BY <2>2 DEF SameBut, WithFile
    <3>4. up.open
      BY <1>15, <2>2
    <3>5. \A j \in DOMAIN uu : d < uu[j].base => FileBelow(upper, uu[j].base)
      <4> SUFFICES ASSUME NEW j \in DOMAIN uu, d < uu[j].base
                   PROVE  FileBelow(upper, uu[j].base)
        OBVIOUS
      <4>1. CASE j > k + 1
        <5>1. j - 1 \in DOMAIN shards /\ j - 1 > k /\ uu[j] = shards[j - 1]
          BY <1>22, <4>1
        <5>2. CacheBelow(shards[k], shards[j - 1].base)
          BY <5>1 DEF Leads, Sound, CachesBelow
        <5> QED BY <1>11, <5>1, <5>2
      <4>2. CASE j <= k + 1
        <5>1. uu[j].base <= uu[k + 1].base
          <6>1. j = k + 1 \/ j < k + 1
            BY <1>2, <1>20, <4>2
          <6> QED BY <1>19, <1>22, <3>2, <6>1 DEF Sound, Ordered
        <5>2. uu[j].base \in Nat
          <6>1. uu[j] \in Shard
            BY <1>20
          <6> QED BY <6>1 DEF Shard
        <5> QED BY <3>2, <5>1, <5>2
      <4> QED BY <1>2, <1>20, <4>1, <4>2
    <3>6. k + 1 = Len(uu) => Newest(up, gg)
      <4> SUFFICES ASSUME k + 1 = Len(uu) PROVE Newest(up, gg)
        OBVIOUS
      <4>1. k = Len(shards) /\ shards # <<>>
        BY <1>2, <1>16, <1>20
      <4>2. FileBelow(upper, b + ForwardGranularity)
        BY <1>11, <4>1 DEF Sound, Newest
      <4>3. b + ForwardGranularity <= d + ForwardGranularity /\ b + ForwardGranularity \in Nat
            /\ d + ForwardGranularity \in Nat
        BY <1>2, SizeAssumption
      <4>4. FileBelow(upper, d + ForwardGranularity)
        BY <1>9, <4>2, <4>3, FileBelowMore
      <4> QED BY <1>15, <3>3, <4>4 DEF Newest
    <3>7. \A j \in DOMAIN uu : j # k + 1 /\ Leads(uu, j) => uu[j].base # d
      BY <1>19, <1>22, <1>24, <2>2, <3>2, LeadsUnique DEF Sound
    <3>8. k + 1 # Len(uu) => d # uu[Len(uu)].base
      <4>1. uu # <<>>
        BY <1>20
      <4>2. Len(uu) \in DOMAIN uu /\ Leads(uu, Len(uu))
        BY <1>20, <4>1, LastLeads
      <4> QED BY <3>7, <4>2
    <3> HIDE DEF gg
    <3>9. Sound([uu EXCEPT ![k + 1] = up], gg)
      BY <1>9, <1>15, <1>19, <1>22, <3>2, <3>3, <3>4, <3>5, <3>6, <3>7, <3>8, Replace
    <3> QED BY <3>1, <3>9
  <2> QED BY <2>1, <2>2
<1>26. Leads(tt, k + 1) \/ ~tt[k + 1].open
  BY <1>15, <1>21, <1>24
<1>27. \A i \in k + 1 .. Len(shards) : tt[i + 1] = shards[i]
  <2> SUFFICES ASSUME NEW i \in k + 1 .. Len(shards) PROVE tt[i + 1] = shards[i]
    OBVIOUS
  <2>1. i \in DOMAIN shards /\ i # k
    BY <1>2
  <2> QED BY <1>16, <1>21, <2>1
<1>28. k # Len(shards) /\ NewestHasFile(shards, files) => NewestHasFile(tt, gg)
  <2> SUFFICES ASSUME k # Len(shards), NewestHasFile(shards, files)
               PROVE  tt[Len(tt)].base \in DOMAIN gg
    BY DEF NewestHasFile
  <2>1. Len(shards) \in k + 1 .. Len(shards) /\ Len(tt) = Len(shards) + 1 /\ shards # <<>>
    BY <1>2, <1>16, <1>21
  <2>2. tt[Len(tt)] = shards[Len(shards)]
    BY <1>27, <2>1
  <2>3. shards[Len(shards)].base \in DOMAIN files
    BY <2>1 DEF NewestHasFile
  <2>4. b # shards[Len(shards)].base
    BY <1>2, <2>1 DEF Leads
  <2>5. shards[Len(shards)].base \in DOMAIN ff
    BY <1>12, <2>3, <2>4 DEF SameBut
  <2> QED BY <2>2, <2>5 DEF WithFile
<1>29. Len(tt) = Len(shards) + 1 /\ tt[k + 1].base = d /\ k + 1 \in DOMAIN tt
  BY <1>15, <1>16, <1>21, <1>22
<1> HIDE DEF gg
<1>30. tt = SplitShards(k, d, lower, upper) /\ gg = SplitFiles(k, d, lower, upper)
  BY <1>1
<1> QED BY <1>25, <1>26, <1>27, <1>28, <1>29, <1>30 DEF lower, upper, old

-----------------------------------------------------------------------------
(* table::insert *)

LEMMA SequencesEqual ==
  ASSUME NEW p \in Seq(Shard), NEW q \in Seq(Shard), Len(p) = Len(q),
         \A i \in 1 .. Len(p) : p[i] = q[i]
  PROVE  p = q
  OBVIOUS

LEMMA AppendInserts ==
  ASSUME NEW ss \in Seq(Shard), NEW x \in Shard
  PROVE  Append(ss, x) = InsertAt(ss, Len(ss) + 1, x)
<1> DEFINE p == Append(ss, x)
           q == InsertAt(ss, Len(ss) + 1, x)
<1>1. Len(ss) \in Nat /\ Len(ss) + 1 \in 1 .. Len(ss) + 1
  OBVIOUS
<1>2. /\ q \in Seq(Shard) /\ Len(q) = Len(ss) + 1 /\ q[Len(ss) + 1] = x
      /\ \A i \in 1 .. (Len(ss) + 1) - 1 : q[i] = ss[i]
  BY <1>1, InsertAtFacts, ZenonT(60)
<1>3. p \in Seq(Shard) /\ Len(p) = Len(ss) + 1 /\ p[Len(ss) + 1] = x
      /\ \A i \in 1 .. Len(ss) : p[i] = ss[i]
  OBVIOUS
<1> HIDE DEF p, q
<1>4. \A i \in 1 .. Len(p) : p[i] = q[i]
  BY <1>1, <1>2, <1>3
<1>5. p = q
  BY <1>2, <1>3, <1>4, SequencesEqual
<1> QED BY <1>5 DEF p, q

LEMMA PrependInserts ==
  ASSUME NEW ss \in Seq(Shard), NEW x \in Shard
  PROVE  <<x>> \o ss = InsertAt(ss, 1, x)
<1> DEFINE p == <<x>> \o ss
           q == InsertAt(ss, 1, x)
<1>1. Len(ss) \in Nat /\ 1 \in 1 .. Len(ss) + 1
  OBVIOUS
<1>2. /\ q \in Seq(Shard) /\ Len(q) = Len(ss) + 1 /\ DOMAIN q = 1 .. Len(ss) + 1
      /\ q[1] = x
      /\ \A i \in 1 .. 1 - 1 : q[i] = ss[i]
      /\ \A i \in 1 .. Len(ss) : q[i + 1] = ss[i]
  BY <1>1, InsertAtFacts, ZenonT(30)
<1>3. p \in Seq(Shard) /\ Len(p) = Len(ss) + 1 /\ p[1] = x
      /\ \A i \in 1 .. Len(ss) : p[i + 1] = ss[i]
  OBVIOUS
<1> HIDE DEF p, q
<1>4. ASSUME NEW i \in 1 .. Len(p) PROVE p[i] = q[i]
  <2>1. CASE i = 1
    BY <1>2, <1>3, <2>1
  <2>2. CASE i # 1
    <3>1. i - 1 \in 1 .. Len(ss) /\ (i - 1) + 1 = i
      BY <1>1, <1>3, <2>2
    <3> QED BY <1>2, <1>3, <3>1
  <2> QED BY <2>1, <2>2
<1>5. p = q
  BY <1>2, <1>3, <1>4, SequencesEqual
<1> QED BY <1>5 DEF p, q

LEMMA ShardsFacts ==
  ASSUME Sound(shards, files)
  PROVE  /\ shards \in Seq(Shard) /\ DOMAIN shards = 1 .. Len(shards) /\ Len(shards) \in Nat
         /\ \A j \in DOMAIN shards : shards[j] \in Shard /\ shards[j].base \in Nat
         /\ \A i, j \in DOMAIN shards : i < j => shards[i].base <= shards[j].base
         /\ shards # <<>> => Len(shards) \in DOMAIN shards /\ Last(shards) = shards[Len(shards)]
<1>1. shards \in Seq(Shard) /\ \A j \in DOMAIN shards : shards[j] \in Shard
  BY DEF Sound, Ordered
<1>2. \A j \in DOMAIN shards : shards[j].base \in Nat
  BY <1>1 DEF Shard
<1> QED BY <1>1, <1>2 DEF Sound, Ordered, Last

\* What insertion must establish
Inserted ==
  Sound(shards, files)' /\ NewestHasFile(shards, files)' /\ damaged' \in BOOLEAN

LEMMA InsertNewestSound ==
  ASSUME Sound(shards, files), damaged \in BOOLEAN, NEW r \in Rows, InsertNewest(r)
  PROVE  Inserted
<1> DEFINE b == Stamp[r]
           x == Fresh(b)
           n == Len(shards)
           tt == Append(shards, x)
<1>1. /\ shards \in Seq(Shard) /\ DOMAIN shards = 1 .. n /\ n \in Nat
      /\ \A j \in DOMAIN shards : shards[j] \in Shard /\ shards[j].base \in Nat
      /\ \A i, j \in DOMAIN shards : i < j => shards[i].base <= shards[j].base
      /\ shards # <<>> => n \in DOMAIN shards /\ Last(shards) = shards[n]
  BY ShardsFacts
<1>2. b \in Nat /\ ForwardGranularity \in Nat \ {0}
  BY StampAssumption, SizeAssumption
<1>3. x \in Shard /\ x.base = b /\ ~x.open
  BY <1>2, FreshSound
<1> HIDE DEF x
<1>4. \A j \in DOMAIN shards : shards[j].base <= shards[n].base /\ shards[n].base <= b
  <2> SUFFICES ASSUME NEW j \in DOMAIN shards
               PROVE  shards[j].base <= shards[n].base /\ shards[n].base <= b
    OBVIOUS
  <2>1. shards # <<>> /\ n \in DOMAIN shards /\ (j = n \/ j < n)
    BY <1>1
  <2>2. shards[n].base <= b
    BY <1>1, <1>2, <2>1 DEF InsertNewest, PastForward, Outgrown
  <2> QED BY <1>1, <2>1, <2>2
<1>5. \A y \in DOMAIN files : y < b => FileBelow(files[y], b)
  <2> SUFFICES ASSUME NEW y \in DOMAIN files, y < b PROVE FileBelow(files[y], b)
    OBVIOUS
  <2>1. PICK j \in DOMAIN shards : y = shards[j].base
    BY DEF Sound, Ordered
  <2>2. n \in DOMAIN shards /\ shards # <<>> /\ SoundFile(files[y])
    BY <1>1, <2>1 DEF Sound, FilesSound
  <2>3. CASE y < shards[n].base
    <3>1. FileBelow(files[y], shards[n].base)
      BY <2>2, <2>3 DEF Sound, FilesBelow
    <3>2. shards[n].base \in Nat /\ shards[n].base <= b
      BY <1>1, <1>4, <2>2
    <3> HIDE DEF n, b
    <3> QED BY <1>2, <2>2, <3>1, <3>2, FileBelowMore
  <2>4. CASE y = shards[n].base
    <3>0. Newest(shards[n], files)
      BY <2>2 DEF Sound
    <3>1. CASE PastForward(b)
      <4>1. FileBelow(files[y], y + ForwardGranularity)
        BY <2>4, <3>0 DEF Newest
      <4>2. y + ForwardGranularity <= b /\ y + ForwardGranularity \in Nat
        BY <1>1, <1>2, <2>2, <2>4, <3>1 DEF PastForward
      <4> HIDE DEF b
      <4> QED BY <1>2, <2>2, <4>1, <4>2, FileBelowMore
    <3>2. CASE Outgrown(b)
      <4>1. shards[n].cache # {} /\ CacheBelow(shards[n], b)
        <5>1. Cardinality({}) = 0
          BY FS_EmptySet
        <5>2. /\ Cardinality(shards[n].cache) >= MinimumShardSize
              /\ \A c \in shards[n].cache : Stamp[c.id] < b
          BY <1>1, <2>2, <3>2 DEF Outgrown
        <5>3. shards[n].cache # {}
          <6> SUFFICES ASSUME shards[n].cache = {} PROVE FALSE
            OBVIOUS
          <6>1. 0 >= MinimumShardSize
            BY <5>1, <5>2
          <6> QED BY <6>1, SizeAssumption
        <5> QED BY <5>2, <5>3 DEF CacheBelow
      <4>2. Covering(shards[n], files[y])
        BY <2>2, <2>4, <3>0, <4>1 DEF Newest, Sound, CachesFinite
      <4> SUFFICES ASSUME NEW m \in DOMAIN files[y].index, files[y].index[m].id \in Rows
                   PROVE  Stamp[files[y].index[m].id] < b
        BY DEF FileBelow
      <4>3. CASE Stamp[files[y].index[m].id] < shards[n].base
        <5>1. files[y].index[m] \in Cell
          BY <2>2 DEF SoundFile, File
        <5>2. Stamp[files[y].index[m].id] \in Nat
          BY <5>1, StampAssumption DEF Cell
        <5> QED BY <1>2, <2>4, <4>3, <5>2, SMTT(30)
      <4>4. CASE \E c \in shards[n].cache : c.id = files[y].index[m].id
        BY <4>1, <4>4 DEF CacheBelow
      <4> QED BY <4>2, <4>3, <4>4 DEF Covering
    <3> QED BY <3>1, <3>2 DEF InsertNewest
  <2> QED BY <1>1, <1>4, <2>1, <2>2, <2>3, <2>4
<1>6. \A j \in DOMAIN shards : Leads(shards, j) /\ shards[j].base < b => CacheBelow(shards[j], b)
  <2> SUFFICES ASSUME NEW j \in DOMAIN shards, Leads(shards, j), shards[j].base < b
               PROVE  CacheBelow(shards[j], b)
    OBVIOUS
  <2>1. n \in DOMAIN shards /\ shards # <<>> /\ shards[n].base \in Nat /\ shards[n].base <= b
    BY <1>1, <1>4
  <2>2. CASE j # n
    <3>1. shards[j].base < shards[n].base
      BY <1>1, <2>1, <2>2 DEF Leads
    <3>2. CacheBelow(shards[j], shards[n].base)
      BY <2>1, <3>1 DEF Sound, CachesBelow
    <3> HIDE DEF n, b
    <3> QED BY <1>1, <1>2, <2>1, <3>2, CacheBelowMore
  <2>3. CASE j = n
    <3>1. CASE PastForward(b)
      <4>1. CacheBelow(shards[n], shards[n].base + ForwardGranularity)
        BY <2>1 DEF Sound, Newest
      <4>2. shards[n].base + ForwardGranularity <= b /\ shards[n].base + ForwardGranularity \in Nat
        BY <1>1, <1>2, <2>1, <3>1 DEF PastForward
      <4> HIDE DEF n, b
      <4> QED BY <1>1, <1>2, <2>1, <2>3, <4>1, <4>2, CacheBelowMore
    <3>2. CASE Outgrown(b)
      BY <1>1, <2>1, <2>3, <3>2 DEF Outgrown, CacheBelow
    <3> QED BY <3>1, <3>2 DEF InsertNewest
  <2> QED BY <2>2, <2>3
<1>7. b \in DOMAIN files => FileBelow(files[b], b + ForwardGranularity)
  <2> SUFFICES ASSUME b \in DOMAIN files PROVE FileBelow(files[b], b + ForwardGranularity)
    OBVIOUS
  <2>1. PICK j \in DOMAIN shards : b = shards[j].base
    BY DEF Sound, Ordered
  <2>2. shards[n].base = b /\ shards # <<>>
    BY <1>1, <1>2, <1>4, <2>1
  <2> QED BY <2>2 DEF Sound, Newest
<1>8. n + 1 \in 1 .. n + 1
  BY <1>1
<1>9. Sound(tt, files)
  <2>1. tt = InsertAt(shards, n + 1, Fresh(b))
    BY <1>1, <1>3, AppendInserts DEF x
  <2>2. \A j \in DOMAIN shards : j < n + 1 => shards[j].base <= b
    BY <1>1, <1>2, <1>4
  <2>3. \A j \in DOMAIN shards : j >= n + 1 => b <= shards[j].base
    BY <1>1
  <2> HIDE DEF b, n
  <2>4. Sound(InsertAt(shards, n + 1, Fresh(b)), files)
    BY <1>2, <1>5, <1>6, <1>7, <1>8, <2>2, <2>3, AddFreshSound DEF n
  <2> QED BY <2>1, <2>4
<1>10. /\ n + 1 \in DOMAIN tt /\ tt[n + 1] = x /\ Len(tt) = n + 1 /\ DOMAIN tt = 1 .. n + 1
  BY <1>1, <1>3
<1>11. InsertInto(tt, files, n + 1, r)
  BY DEF InsertNewest, x
<1> HIDE DEF tt, n
<1>12. Stamp[r] < tt[n + 1].base + ForwardGranularity
  BY <1>2, <1>3, <1>10
<1>13. \A j \in DOMAIN tt : ~(j > n + 1)
  BY <1>1, <1>10
<1> QED BY <1>3, <1>9, <1>10, <1>11, <1>12, <1>13, InsertIntoSound DEF Inserted

LEMMA InsertOldestSound ==
  ASSUME Sound(shards, files), NewestHasFile(shards, files), damaged \in BOOLEAN,
         NEW r \in Rows, InsertOldest(r)
  PROVE  Inserted
<1>1. /\ shards \in Seq(Shard) /\ DOMAIN shards = 1 .. Len(shards) /\ Len(shards) \in Nat
      /\ \A j \in DOMAIN shards : shards[j] \in Shard /\ shards[j].base \in Nat
      /\ \A i, j \in DOMAIN shards : i < j => shards[i].base <= shards[j].base
      /\ shards # <<>>
  BY ShardsFacts DEF InsertOldest
<1>2. 1 \in DOMAIN shards /\ Stamp[r] < shards[1].base
  BY <1>1 DEF InsertOldest
<1>3. PICK n \in 1 .. shards[1].base :
        LET b == shards[1].base - n * BacktrackGranularity IN
        /\ b <= Stamp[r] /\ Stamp[r] < b + BacktrackGranularity
        /\ InsertInto(<<Fresh(b)>> \o shards, files, 1, r)
  BY DEF InsertOldest
<1> DEFINE b == shards[1].base - n * BacktrackGranularity
           x == Fresh(b)
           tt == <<x>> \o shards
<1>4. b \in Nat /\ b < shards[1].base /\ Stamp[r] \in Nat
  <2> DEFINE g == n * BacktrackGranularity
  <2>1. n \in Nat /\ n >= 1 /\ BacktrackGranularity \in Nat /\ shards[1].base \in Nat
        /\ Stamp[r] \in Nat /\ Stamp[r] >= BacktrackGranularity
    BY <1>1, <1>2, SizeAssumption, StampAssumption
  <2>2. g \in Nat
    BY <2>1
  <2>3. Stamp[r] < shards[1].base - g + BacktrackGranularity
    BY <1>3
  <2>4. b = shards[1].base - g
    OBVIOUS
  <2> HIDE DEF g, b
  <2>5. b \in Nat
    BY <2>1, <2>2, <2>3, <2>4
  <2>6. b <= Stamp[r]
    BY <1>3 DEF b
  <2> QED BY <1>2, <2>1, <2>5, <2>6
<1> HIDE DEF b
<1>5. x \in Shard /\ x.base = b /\ ~x.open
  BY <1>4, FreshSound
<1> HIDE DEF x
<1>6. \A j \in DOMAIN shards : b < shards[j].base
  <2> SUFFICES ASSUME NEW j \in DOMAIN shards PROVE b < shards[j].base
    OBVIOUS
  <2>1. shards[1].base <= shards[j].base
    BY <1>1, <1>2
  <2> QED BY <1>1, <1>2, <1>4, <2>1
<1>7. Sound(tt, files)
  <2>1. tt = InsertAt(shards, 1, Fresh(b))
    BY <1>1, <1>5, PrependInserts DEF x
  <2>2. 1 \in 1 .. Len(shards) + 1 /\ 1 # Len(shards) + 1
    BY <1>1
  <2>3. \A j \in DOMAIN shards : ~(j < 1) /\ b <= shards[j].base
    BY <1>1, <1>4, <1>6
  <2>4. \A y \in DOMAIN files : ~(y < b)
    BY <1>1, <1>4, <1>6 DEF Sound, Ordered
  <2>5. \A j \in DOMAIN shards : ~(shards[j].base < b)
    BY <1>1, <1>4, <1>6
  <2>6. Sound(InsertAt(shards, 1, Fresh(b)), files)
    BY <1>4, <2>2, <2>3, <2>4, <2>5, AddFreshSound
  <2> QED BY <2>1, <2>6
<1>8. /\ tt \in Seq(Shard) /\ Len(tt) = Len(shards) + 1 /\ DOMAIN tt = 1 .. Len(shards) + 1
      /\ tt[1] = x /\ \A i \in 1 .. Len(shards) : tt[i + 1] = shards[i]
  BY <1>1, <1>5
<1>9. InsertInto(tt, files, 1, r)
  BY <1>3 DEF b, x
<1> HIDE DEF tt
<1>10. \A j \in DOMAIN tt : j > 1 => Stamp[r] < tt[j].base
  <2> SUFFICES ASSUME NEW j \in DOMAIN tt, j > 1 PROVE Stamp[r] < tt[j].base
    OBVIOUS
  <2>1. j - 1 \in DOMAIN shards /\ (j - 1) + 1 = j
    BY <1>1, <1>8
  <2>2. tt[j] = shards[j - 1]
    BY <1>1, <1>8, <2>1
  <2>3. shards[1].base <= shards[j - 1].base
    BY <1>1, <1>2, <2>1
  <2> QED BY <1>1, <1>2, <1>4, <2>1, <2>2, <2>3
<1>11. NewestHasFile(tt, files)
  <2>1. Len(shards) \in 1 .. Len(shards)
    BY <1>1
  <2> QED BY <1>1, <1>8, <2>1 DEF NewestHasFile
<1>12. 1 \in DOMAIN tt /\ 1 # Len(tt)
  BY <1>1, <1>8
<1> QED BY <1>5, <1>7, <1>8, <1>9, <1>10, <1>11, <1>12, InsertIntoSound DEF Inserted

LEMMA BelowForward ==
  ASSUME Sound(shards, files), NEW r \in Rows, shards # <<>>, ~PastForward(Stamp[r])
  PROVE  Stamp[r] < shards[Len(shards)].base + ForwardGranularity
<1>1. Last(shards) = shards[Len(shards)] /\ shards[Len(shards)].base \in Nat
  BY ShardsFacts
<1> QED BY <1>1, StampAssumption, SizeAssumption DEF PastForward

LEMMA InsertHereSound ==
  ASSUME Sound(shards, files), NewestHasFile(shards, files), damaged \in BOOLEAN,
         NEW r \in Rows, InsertHere(r)
  PROVE  Inserted
<1>1. PICK k \in DOMAIN shards : Covers(k, Stamp[r]) /\ InsertInto(shards, files, k, r)
  BY DEF InsertHere
<1>2. Leads(shards, k) /\ \A j \in DOMAIN shards : j > k => Stamp[r] < shards[j].base
  BY <1>1, CoversLeads
<1>3. k = Len(shards) => Stamp[r] < shards[k].base + ForwardGranularity
  BY ShardsFacts, BelowForward DEF InsertHere
<1> QED BY <1>1, <1>2, <1>3, InsertIntoSound DEF Inserted

LEMMA InsertSplitSound ==
  ASSUME Sound(shards, files), NewestHasFile(shards, files), damaged \in BOOLEAN,
         NEW r \in Rows, InsertSplit(r)
  PROVE  Inserted
<1>1. PICK k \in DOMAIN shards :
        /\ Covers(k, Stamp[r]) /\ Full(k)
        /\ \E d \in {Divider(k)} \cap Nat :
             /\ shards[k].base < d
             /\ \E lo \in InOrder({c \in shards[k].cache : Stamp[c.id] < d}),
                   hi \in InOrder({c \in shards[k].cache : Stamp[c.id] >= d}) :
                  LET old   == files[shards[k].base].content
                      lower == Copied(lo, old)
                      upper == Copied(hi, old)
                  IN InsertInto(SplitShards(k, d, lower, upper),
                                SplitFiles(k, d, lower, upper), k + 1, r)
  BY DEF InsertSplit
<1>2. PICK d \in {Divider(k)} \cap Nat :
             /\ shards[k].base < d
             /\ \E lo \in InOrder({c \in shards[k].cache : Stamp[c.id] < d}),
                   hi \in InOrder({c \in shards[k].cache : Stamp[c.id] >= d}) :
                  LET old   == files[shards[k].base].content
                      lower == Copied(lo, old)
                      upper == Copied(hi, old)
                  IN InsertInto(SplitShards(k, d, lower, upper),
                                SplitFiles(k, d, lower, upper), k + 1, r)
  BY <1>1
<1>3. PICK lo \in InOrder({c \in shards[k].cache : Stamp[c.id] < d}),
           hi \in InOrder({c \in shards[k].cache : Stamp[c.id] >= d}) :
        LET old   == files[shards[k].base].content
            lower == Copied(lo, old)
            upper == Copied(hi, old)
        IN InsertInto(SplitShards(k, d, lower, upper),
                      SplitFiles(k, d, lower, upper), k + 1, r)
  BY <1>2
<1> DEFINE old   == files[shards[k].base].content
           lower == Copied(lo, old)
           upper == Copied(hi, old)
           tt    == SplitShards(k, d, lower, upper)
           gg    == SplitFiles(k, d, lower, upper)
<1>4. /\ Leads(shards, k) /\ Stamp[r] \in Nat
      /\ \A j \in DOMAIN shards : j > k => Stamp[r] < shards[j].base
  BY <1>1, CoversLeads
<1>5. d \in Nat /\ d = Divider(k) /\ shards[k].base < d /\ Full(k)
  BY <1>1, <1>2
<1>6. /\ Sound(tt, gg)
      /\ Len(tt) = Len(shards) + 1 /\ k + 1 \in DOMAIN tt
      /\ Leads(tt, k + 1) \/ ~tt[k + 1].open
      /\ tt[k + 1].base = d
      /\ \A i \in k + 1 .. Len(shards) : tt[i + 1] = shards[i]
      /\ k # Len(shards) /\ NewestHasFile(shards, files) => NewestHasFile(tt, gg)
  BY <1>4, <1>5, SplitSound, ZenonT(60)
<1>7. InsertInto(tt, gg, k + 1, r)
  BY <1>3
<1> HIDE DEF tt, gg
<1>8. /\ DOMAIN shards = 1 .. Len(shards) /\ Len(shards) \in Nat
      /\ shards[k].base \in Nat /\ shards # <<>> /\ DOMAIN tt = 1 .. Len(tt)
  BY <1>6, ShardsFacts DEF Sound, Ordered
<1>9. \A j \in DOMAIN tt : j > k + 1 => Stamp[r] < tt[j].base
  <2> SUFFICES ASSUME NEW j \in DOMAIN tt, j > k + 1 PROVE Stamp[r] < tt[j].base
    OBVIOUS
  <2>1. j - 1 \in k + 1 .. Len(shards) /\ (j - 1) + 1 = j /\ j - 1 \in DOMAIN shards /\ j - 1 > k
    BY <1>6, <1>8
  <2>2. tt[j] = shards[j - 1]
    BY <1>6, <2>1
  <2> QED BY <1>4, <2>1, <2>2
<1>10. k + 1 = Len(tt) => Stamp[r] < tt[k + 1].base + ForwardGranularity
  <2> SUFFICES ASSUME k + 1 = Len(tt) PROVE Stamp[r] < d + ForwardGranularity
    BY <1>6
  <2>1. k = Len(shards)
    BY <1>6, <1>8
  <2>2. Stamp[r] < shards[k].base + ForwardGranularity
    BY <1>8, <2>1, BelowForward DEF InsertSplit
  <2> QED BY <1>4, <1>5, <1>8, <2>2, SizeAssumption
<1>11. k + 1 = Len(tt) \/ NewestHasFile(tt, gg)
  BY <1>6, <1>8
<1> QED BY <1>6, <1>7, <1>9, <1>10, <1>11, InsertIntoSound DEF Inserted

-----------------------------------------------------------------------------
(* The other operations *)

\* A shard that leads, open or opened, with its file
LEMMA AdvancedFacts ==
  ASSUME Sound(shards, files), NEW k \in DOMAIN shards, Leads(shards, k)
  PROVE  LET b == shards[k].base
             f == FileOf(files, b)
             s == Advanced(shards[k], f) IN
         /\ s \in Shard /\ s.base = b /\ s.open /\ IsFiniteSet(s.cache)
         /\ SoundFile(f) /\ Within(s, f)
         /\ shards[k].open => b \in DOMAIN files
         /\ b \in DOMAIN files => f = files[b]
         /\ \A j \in DOMAIN shards : b < shards[j].base =>
              FileBelow(f, shards[j].base) /\ CacheBelow(s, shards[j].base)
         /\ k = Len(shards) =>
              /\ FileBelow(f, b + ForwardGranularity) /\ CacheBelow(s, b + ForwardGranularity)
              /\ Covering(s, f)
<1> DEFINE b == shards[k].base
           f == FileOf(files, b)
           s == Advanced(shards[k], f)
<1>1. shards[k] \in Shard
  BY ShardsFacts
<1>2. b \in DOMAIN files => f = files[b]
  BY DEF FileOf
<1>3. b \notin DOMAIN files => f = NoFile
  BY DEF FileOf
<1>4. SoundFile(f)
  BY <1>2, <1>3, NoFileSound DEF Sound, FilesSound
<1>5. k = Len(shards) => Newest(shards[k], files)
  BY ShardsFacts DEF Sound
<1>6. \A j \in DOMAIN shards : b < shards[j].base => FileBelow(f, shards[j].base)
  BY <1>2, <1>3, NoFileSound DEF Sound, FilesBelow
<1>7. k = Len(shards) => FileBelow(f, b + ForwardGranularity)
  BY <1>2, <1>3, <1>5, NoFileSound DEF Newest
<1> HIDE DEF f
<1>8. ASSUME shards[k].open
      PROVE  /\ s \in Shard /\ s.base = b /\ s.open /\ IsFiniteSet(s.cache)
             /\ Within(s, f) /\ b \in DOMAIN files
             /\ \A j \in DOMAIN shards : b < shards[j].base => CacheBelow(s, shards[j].base)
             /\ k = Len(shards) => CacheBelow(s, b + ForwardGranularity) /\ Covering(s, f)
  <2>1. s = shards[k]
    BY <1>8 DEF Advanced
  <2>2. b \in DOMAIN files /\ Within(shards[k], files[b])
    BY <1>8 DEF Sound, CachesWithin
  <2>3. IsFiniteSet(shards[k].cache)
    BY DEF Sound, CachesFinite
  <2>4. \A j \in DOMAIN shards : b < shards[j].base => CacheBelow(shards[k], shards[j].base)
    BY DEF Sound, CachesBelow
  <2>5. k = Len(shards) => CacheBelow(shards[k], b + ForwardGranularity) /\ Covering(shards[k], f)
    BY <1>2, <1>5, <1>8, <2>2 DEF Newest
  <2> HIDE DEF s
  <2> QED BY <1>1, <1>2, <1>8, <2>1, <2>2, <2>3, <2>4, <2>5
<1>9. ASSUME ~shards[k].open
      PROVE  /\ s \in Shard /\ s.base = b /\ s.open /\ IsFiniteSet(s.cache)
             /\ Within(s, f)
             /\ \A j \in DOMAIN shards : b < shards[j].base => CacheBelow(s, shards[j].base)
             /\ k = Len(shards) => CacheBelow(s, b + ForwardGranularity) /\ Covering(s, f)
  <2>1. s = Opened(shards[k], f)
    BY <1>9 DEF Advanced
  <2>2. /\ s \in Shard /\ s.base = b /\ s.open /\ IsFiniteSet(s.cache)
        /\ Within(s, f) /\ Covering(s, f)
        /\ \A ts : FileBelow(f, ts) => CacheBelow(s, ts)
    BY <1>1, <1>4, <2>1, OpenedSound
  <2> HIDE DEF s, b
  <2> QED BY <1>6, <1>7, <2>2
<1> QED BY <1>2, <1>4, <1>6, <1>7, <1>8, <1>9 DEF f

\* A shard that leads becomes s and its file g.
LEMMA LeadReplace ==
  ASSUME Sound(shards, files), NEW k \in DOMAIN shards, Leads(shards, k),
         NEW gg, NEW s \in Shard, s.base = shards[k].base, s.open, IsFiniteSet(s.cache),
         SameBut(s.base, files, gg), s.base \in DOMAIN gg,
         SoundFile(gg[s.base]), Within(s, gg[s.base]),
         \A j \in DOMAIN shards : s.base < shards[j].base =>
           FileBelow(gg[s.base], shards[j].base) /\ CacheBelow(s, shards[j].base),
         k = Len(shards) => Newest(s, gg),
         NewestHasFile(shards, files)
  PROVE  /\ Sound([shards EXCEPT ![k] = s], gg)
         /\ NewestHasFile([shards EXCEPT ![k] = s], gg)
<1>1. \A j \in DOMAIN shards : j # k /\ Leads(shards, j) => shards[j].base # s.base
  BY LeadsUnique DEF Sound
<1>2. k # Len(shards) => s.base # shards[Len(shards)].base
  BY <1>1, ShardsFacts, LastLeads, SMTT(30)
<1>3. Sound([shards EXCEPT ![k] = s], gg)
  BY <1>1, <1>2, Replace
<1>4. NewestHasFile([shards EXCEPT ![k] = s], gg)
  <2>1. /\ shards # <<>> /\ Len(shards) \in DOMAIN shards
        /\ Len([shards EXCEPT ![k] = s]) = Len(shards)
        /\ [shards EXCEPT ![k] = s][Len(shards)].base = shards[Len(shards)].base
    BY ShardsFacts
  <2>2. shards[Len(shards)].base \in DOMAIN gg
    BY <1>2, <2>1 DEF NewestHasFile, SameBut
  <2> QED BY <2>1, <2>2 DEF NewestHasFile
<1> QED BY <1>3, <1>4

LEMMA FindSound ==
  ASSUME ShardsInv, NEW t \in Threads, NEW r \in Rows, NEW want \in {"row", "content"},
         Find(t, r, want)
  PROVE  ShardsInv'
<1> USE DEF ShardsInv, Rest
<1>1. PICK k \in DOMAIN shards :
       LET f == FileOf(files, shards[k].base) IN
       /\ Covers(k, Stamp[r])
       /\ shards' = [shards EXCEPT ![k] = Advanced(@, f)]
       /\ files' = IF shards[k].open THEN files ELSE WithFile(files, shards[k].base, f)
       /\ call' = [call EXCEPT ![t] =
                    [op |-> "get", want |-> want, row |-> r, shard |-> k]]
  BY DEF Find
<1> DEFINE b == shards[k].base
           f == FileOf(files, b)
           s == Advanced(shards[k], f)
<1>2. Leads(shards, k)
  BY <1>1, CoversLeads
<1>3. /\ s \in Shard /\ s.base = b /\ s.open /\ IsFiniteSet(s.cache)
      /\ SoundFile(f) /\ Within(s, f)
      /\ shards[k].open => b \in DOMAIN files
      /\ b \in DOMAIN files => f = files[b]
      /\ \A j \in DOMAIN shards : b < shards[j].base =>
           FileBelow(f, shards[j].base) /\ CacheBelow(s, shards[j].base)
      /\ k = Len(shards) =>
           /\ FileBelow(f, b + ForwardGranularity) /\ CacheBelow(s, b + ForwardGranularity)
           /\ Covering(s, f)
  BY <1>2, AdvancedFacts
<1>4. /\ shards' = [shards EXCEPT ![k] = s]
      /\ files' = IF shards[k].open THEN files ELSE WithFile(files, b, f)
  BY <1>1, ShardsFacts
<1> HIDE DEF s, f, b
<1>5. SameBut(b, files, files') /\ b \in DOMAIN files' /\ files'[b] = f
  BY <1>3, <1>4 DEF SameBut, WithFile
<1>6. k = Len(shards) => Newest(s, files')
  BY <1>3, <1>5 DEF Newest
<1>7. Sound([shards EXCEPT ![k] = s], files') /\ NewestHasFile([shards EXCEPT ![k] = s], files')
  BY <1>2, <1>3, <1>5, <1>6, LeadReplace DEF b
<1>8. k \in Nat
  BY ShardsFacts
<1>9. Rest'
  BY <1>1, <1>8 DEF Find, Calls
<1> QED BY <1>4, <1>7, <1>9

LEMMA GetSound ==
  ASSUME ShardsInv, NEW t \in Threads, Get(t)
  PROVE  ShardsInv'
<1> USE DEF ShardsInv, Rest
<1> DEFINE k == call[t].shard
           r == call[t].row
           found == {c \in shards[k].cache : Matches(shards[k], r, c)}
           c == CHOOSE x \in found : TRUE
<1>1. files' = files /\ damaged' = damaged /\ erasures' = erasures /\ restarts' = restarts
  BY DEF Get
<1>2. call[t] \in [op : {"get"}, want : {"row", "content"}, row : Rows, shard : Nat]
  BY DEF Get, Calls, Idle
<1>3. call' \in [Threads -> Calls]
  BY <1>2 DEF Get, Calls, Idle
<1>4. shards' = shards \/ (found # {} /\ shards' = [shards EXCEPT ![k].cpos = c.offset + 1])
  BY DEF Get
<1>5. CASE shards' = shards
  BY <1>1, <1>3, <1>5
<1>6. CASE found # {} /\ shards' = [shards EXCEPT ![k].cpos = c.offset + 1] /\ k \in DOMAIN shards
  <2> DEFINE s == [shards[k] EXCEPT !.cpos = c.offset + 1]
  <2>1. shards[k] \in Shard
    BY <1>6, ShardsFacts
  <2>2. c \in shards[k].cache
    BY <1>6
  <2> HIDE DEF c, k
  <2>3. c.offset \in Nat
    BY <2>1, <2>2 DEF Shard, Entry
  <2>4. /\ s \in Shard /\ s.base = shards[k].base /\ s.open = shards[k].open
        /\ s.cache = shards[k].cache /\ s.ipos = shards[k].ipos /\ s.cpos = c.offset + 1
        /\ s.inside = shards[k].inside
    BY <2>1, <2>3 DEF Shard
  <2>5. shards' = [shards EXCEPT ![k] = s]
    BY <1>6, ShardsFacts
  <2> HIDE DEF s
  <2>6. SameBut(s.base, files, files)
    BY DEF SameBut
  <2>7. s.base \in DOMAIN files =>
          /\ SoundFile(files[s.base])
          /\ \A j \in DOMAIN shards : s.base < shards[j].base => FileBelow(files[s.base], shards[j].base)
    BY DEF Sound, FilesSound, FilesBelow
  <2>8. IsFiniteSet(s.cache) /\ (~s.open => s.cache = {})
    BY <1>6, <2>4 DEF Sound, CachesFinite
  <2>9. Leads(shards, k) /\ s.open => s.base \in DOMAIN files /\ Within(s, files[s.base])
    <3> SUFFICES ASSUME Leads(shards, k), s.open
                 PROVE  s.base \in DOMAIN files /\ Within(s, files[s.base])
      OBVIOUS
    <3>1. s.base \in DOMAIN files /\ Within(shards[k], files[s.base])
      BY <1>6, <2>4 DEF Sound, CachesWithin
    <3>2. c.offset < Len(files[s.base].content)
      BY <2>2, <3>1 DEF Within
    <3>3. Len(files[s.base].content) \in Nat
      BY <2>7, <3>1 DEF SoundFile, File
    <3> QED BY <2>3, <2>4, <3>1, <3>2, <3>3 DEF Within
  <2>10. Leads(shards, k) => \A j \in DOMAIN shards : s.base < shards[j].base => CacheBelow(s, shards[j].base)
    BY <1>6, <2>4 DEF Sound, CachesBelow, CacheBelow
  <2>11. Newest(shards[Len(shards)], files)
    BY <1>6, ShardsFacts DEF Sound
  <2>12. k = Len(shards) => Newest(s, files)
    <3> SUFFICES ASSUME k = Len(shards) PROVE Newest(s, files)
      OBVIOUS
    <3>1. /\ CacheBelow(shards[k], s.base + ForwardGranularity)
          /\ s.base \in DOMAIN files =>
               /\ FileBelow(files[s.base], s.base + ForwardGranularity)
               /\ s.open => Covering(shards[k], files[s.base])
      BY <2>4, <2>11 DEF Newest
    <3>2. CacheBelow(s, s.base + ForwardGranularity)
      BY <2>4, <3>1 DEF CacheBelow
    <3>3. ASSUME Covering(shards[k], files[s.base]) PROVE Covering(s, files[s.base])
      BY <2>4, <3>3 DEF Covering
    <3> QED BY <3>1, <3>2, <3>3 DEF Newest
  <2>13. \A j \in DOMAIN shards : j # k /\ Leads(shards, j) /\ shards[j].base = s.base /\ shards[j].open =>
           s.base \in DOMAIN files /\ Within(shards[j], files[s.base])
    BY DEF Sound, CachesWithin
  <2>14. Sound([shards EXCEPT ![k] = s], files)
    BY <1>6, <2>4, <2>6, <2>7, <2>8, <2>9, <2>10, <2>11, <2>12, <2>13, Replace
  <2>15. NewestHasFile([shards EXCEPT ![k] = s], files)
    <3>1. Len([shards EXCEPT ![k] = s]) = Len(shards) /\ shards # <<>>
          /\ [shards EXCEPT ![k] = s][Len(shards)].base = shards[Len(shards)].base
      BY <1>6, <2>4, ShardsFacts
    <3> QED BY <3>1 DEF NewestHasFile
  <2> QED BY <1>1, <1>3, <2>5, <2>14, <2>15
<1>7. CASE shards' = [shards EXCEPT ![k].cpos = c.offset + 1] /\ k \notin DOMAIN shards
  <2>1. shards' = shards
    BY <1>7, ShardsFacts
  <2> QED BY <1>1, <1>3, <2>1
<1> QED BY <1>4, <1>5, <1>6, <1>7

LEMMA CloseSound ==
  ASSUME ShardsInv, NEW k \in DOMAIN shards, Close(k)
  PROVE  ShardsInv'
<1> USE DEF ShardsInv, Rest
<1> DEFINE s == Fresh(shards[k].base)
<1>1. /\ shards' = [shards EXCEPT ![k] = s]
      /\ UNCHANGED <<files, call, damaged, erasures, restarts>>
  BY ShardsFacts DEF Close
<1>2. /\ s \in Shard /\ s.base = shards[k].base /\ ~s.open /\ s.cache = {} /\ IsFiniteSet(s.cache)
      /\ \A ts : CacheBelow(s, ts)
  BY ShardsFacts, FreshSound
<1> HIDE DEF s
<1>3. SameBut(s.base, files, files)
  BY DEF SameBut
<1>4. s.base \in DOMAIN files =>
        /\ SoundFile(files[s.base])
        /\ \A j \in DOMAIN shards : s.base < shards[j].base => FileBelow(files[s.base], shards[j].base)
  BY DEF Sound, FilesSound, FilesBelow
<1>5. Newest(shards[Len(shards)], files)
  BY ShardsFacts DEF Sound
<1>6. k = Len(shards) => Newest(s, files)
  BY <1>2, <1>5 DEF Newest
<1>7. \A j \in DOMAIN shards : j # k /\ Leads(shards, j) /\ shards[j].base = s.base /\ shards[j].open =>
        s.base \in DOMAIN files /\ Within(shards[j], files[s.base])
  BY DEF Sound, CachesWithin
<1>8. Sound([shards EXCEPT ![k] = s], files)
  BY <1>2, <1>3, <1>4, <1>5, <1>6, <1>7, Replace
<1>9. NewestHasFile([shards EXCEPT ![k] = s], files)
  <2>1. Len([shards EXCEPT ![k] = s]) = Len(shards) /\ shards # <<>>
        /\ [shards EXCEPT ![k] = s][Len(shards)].base = shards[Len(shards)].base
    BY <1>2, ShardsFacts
  <2> QED BY <2>1 DEF NewestHasFile
<1> QED BY <1>1, <1>8, <1>9

LEMMA EraseSound ==
  ASSUME ShardsInv, NEW r \in Rows, Erase(r)
  PROVE  ShardsInv'
<1> USE DEF ShardsInv, Rest
<1>1. PICK k \in DOMAIN shards :
        LET f == FileOf(files, shards[k].base)
            s == Advanced(shards[k], f)
        IN
        /\ Covers(k, Stamp[r])
        /\ \E c \in s.cache, n \in DOMAIN f.index :
             /\ Matches(s, r, c)
             /\ f.index[n].id = r /\ \A m \in 1 .. n - 1 : f.index[m].id # r
             /\ shards' = [shards EXCEPT ![k] =
                  [s EXCEPT !.cache = @ \ {c}, !.ipos = n - 1, !.inside = TRUE]]
             /\ files' = WithFile(files, s.base,
                           [f EXCEPT !.index[n] = [id |-> Erased, offset |-> 0]])
  BY DEF Erase
<1> DEFINE b == shards[k].base
           f == FileOf(files, b)
           s == Advanced(shards[k], f)
<1>2. Leads(shards, k) /\ b <= Stamp[r] /\ Stamp[r] \in Nat /\ b \in Nat
  BY <1>1, CoversLeads DEF Covers
<1>3. /\ s \in Shard /\ s.base = b /\ s.open /\ IsFiniteSet(s.cache)
      /\ SoundFile(f) /\ Within(s, f)
      /\ \A j \in DOMAIN shards : b < shards[j].base =>
           FileBelow(f, shards[j].base) /\ CacheBelow(s, shards[j].base)
      /\ k = Len(shards) =>
           /\ FileBelow(f, b + ForwardGranularity) /\ CacheBelow(s, b + ForwardGranularity)
           /\ Covering(s, f)
  BY <1>2, AdvancedFacts
<1> HIDE DEF s, f, b
<1>4. PICK c \in s.cache, n \in DOMAIN f.index :
        /\ Matches(s, r, c)
        /\ f.index[n].id = r /\ \A m \in 1 .. n - 1 : f.index[m].id # r
        /\ shards' = [shards EXCEPT ![k] =
             [s EXCEPT !.cache = @ \ {c}, !.ipos = n - 1, !.inside = TRUE]]
        /\ files' = WithFile(files, b, [f EXCEPT !.index[n] = [id |-> Erased, offset |-> 0]])
  BY <1>1, <1>3 DEF s, f, b
<1>5. f.index[n].id = r /\ \A m \in 1 .. n - 1 : f.index[m].id # r
  BY <1>4
<1> DEFINE a == [s EXCEPT !.cache = @ \ {c}, !.ipos = n - 1, !.inside = TRUE]
           g == [f EXCEPT !.index[n] = [id |-> Erased, offset |-> 0]]
<1>6. /\ a \in Shard /\ a.base = b /\ a.open /\ a.cache = s.cache \ {c}
      /\ a.inside /\ a.cpos = s.cpos
  <2>1. s.cache \ {c} \in SUBSET Entry /\ n - 1 \in Nat
    <3>1. n \in Nat /\ n >= 1
      BY <1>3 DEF SoundFile, File
    <3> QED BY <1>3, <3>1 DEF Shard
  <2>2. a = [s EXCEPT !.cache = s.cache \ {c}, !.ipos = n - 1, !.inside = TRUE]
    BY <1>3 DEF Shard
  <2> HIDE DEF a
  <2> QED BY <1>3, <2>1, <2>2 DEF Shard
<1>7. f.index \in Seq(Cell) /\ f.content \in Seq(Rows) /\ f \in File
      /\ \A m \in DOMAIN f.index : f.index[m] \in Cell
  BY <1>3 DEF SoundFile, File
<1>8. /\ g.content = f.content /\ g.index \in Seq(Cell) /\ g \in File
      /\ DOMAIN g.index = DOMAIN f.index /\ Len(g.index) = Len(f.index)
      /\ g.index[n].id \notin Rows
      /\ \A m \in DOMAIN f.index : m # n => g.index[m] = f.index[m]
  <2>1. [id |-> Erased, offset |-> 0] \in Cell
    BY DEF Cell
  <2> DEFINE index == [f.index EXCEPT ![n] = [id |-> Erased, offset |-> 0]]
  <2>2. /\ index \in Seq(Cell) /\ DOMAIN index = DOMAIN f.index /\ Len(index) = Len(f.index)
        /\ index[n] = [id |-> Erased, offset |-> 0]
        /\ \A m \in DOMAIN f.index : m # n => index[m] = f.index[m]
    BY <1>7, <2>1
  <2>3. g = [f EXCEPT !.index = index]
    BY <1>7 DEF File
  <2> HIDE DEF g, index
  <2>4. g \in File /\ g.index = index /\ g.content = f.content
    BY <1>7, <2>2, <2>3 DEF File
  <2> QED BY <2>2, <2>4, StampAssumption
<1>9. shards' = [shards EXCEPT ![k] = a] /\ files' = WithFile(files, b, g)
  BY <1>4
<1> HIDE DEF a, g
<1>10. SoundFile(g)
  BY <1>3, <1>8 DEF SoundFile
<1>11. Within(a, g)
  BY <1>3, <1>6, <1>8 DEF Within
<1>12. \A ts : FileBelow(f, ts) => FileBelow(g, ts)
  BY <1>8 DEF FileBelow
<1>13. \A ts : CacheBelow(s, ts) => CacheBelow(a, ts)
  BY <1>6 DEF CacheBelow
<1>14. SameBut(b, files, files') /\ b \in DOMAIN files' /\ files'[b] = g
  BY <1>9 DEF SameBut, WithFile
<1>15. Covering(s, f) => Covering(a, g)
  <2> SUFFICES ASSUME Covering(s, f), NEW m \in DOMAIN g.index, g.index[m].id \in Rows,
                      ~(Stamp[g.index[m].id] < b)
               PROVE  \E d \in a.cache : d.id = g.index[m].id /\ d.slot = m
    BY <1>6 DEF Covering
  <2>1. m # n /\ m \in DOMAIN f.index /\ g.index[m] = f.index[m]
    BY <1>8
  <2>2. PICK d \in s.cache : d.id = f.index[m].id /\ d.slot = m
    BY <1>3, <2>1 DEF Covering
  <2>3. d # c
    <3> SUFFICES ASSUME d = c PROVE FALSE
      OBVIOUS
    <3>1. f.index[m].id = r
      BY <1>4, <2>2 DEF Matches
    <3>2. n < m
      <4>1. m \in Nat /\ n \in Nat /\ m >= 1
        BY <1>7, <2>1
      <4> QED BY <1>5, <2>1, <3>1, <4>1
    <3>3. PICK e \in s.cache : e.id = r /\ e.slot = n
      BY <1>2, <1>3, <1>5 DEF Covering
    <3>4. c.slot <= e.slot
      BY <1>4, <3>3 DEF Matches
    <3> QED BY <1>7, <2>1, <2>2, <3>2, <3>3, <3>4
  <2> QED BY <1>6, <2>1, <2>2, <2>3
<1>16. k = Len(shards) => Newest(a, files')
  BY <1>3, <1>6, <1>12, <1>13, <1>14, <1>15 DEF Newest
<1>17. IsFiniteSet(a.cache)
  BY <1>3, <1>6, FS_Subset
<1>18. Sound([shards EXCEPT ![k] = a], files') /\ NewestHasFile([shards EXCEPT ![k] = a], files')
  BY <1>2, <1>3, <1>6, <1>10, <1>11, <1>12, <1>13, <1>14, <1>16, <1>17, LeadReplace DEF b
<1>19. Rest'
  BY DEF Erase
<1> QED BY <1>9, <1>18, <1>19

\* A table as it is read when the node starts is sound, and ends with the same
\* shard.
LEMMA RestartSound ==
  ASSUME ShardsInv, Restart
  PROVE  ShardsInv'
<1> USE DEF ShardsInv, Rest
<1> DEFINE S == DOMAIN files
           N == Cardinality(S)
<1>1. PICK q \in Ascending(S) : shards' = [n \in DOMAIN q |-> Fresh(q[n])]
  BY DEF Restart
<1>2. S \subseteq {shards[k].base : k \in DOMAIN shards}
  BY DEF Sound, Ordered
<1>3. IsFiniteSet(S)
  <2> DEFINE B == {shards[k].base : k \in DOMAIN shards}
             f == [k \in DOMAIN shards |-> shards[k].base]
  <2>1. IsFiniteSet(DOMAIN shards)
    <3>1. DOMAIN shards = 1 .. Len(shards) /\ Len(shards) \in Int /\ 1 \in Int
      BY ShardsFacts
    <3> QED BY <3>1, FS_Interval
  <2>2. f \in Surjection(DOMAIN shards, B)
    BY DEF Surjection
  <2> HIDE DEF f, B
  <2>3. IsFiniteSet(B)
    BY <2>1, <2>2, FS_Surjection
  <2>4. S \subseteq B
    BY <1>2 DEF B
  <2> QED BY <2>3, <2>4, FS_Subset
<1>4. N \in Nat
  BY <1>3, FS_CardinalityType
<1>5. /\ q \in [1 .. N -> S] /\ DOMAIN q = 1 .. N
      /\ \A x \in S : \E n \in 1 .. N : q[n] = x
      /\ \A m, n \in 1 .. N : m < n => q[m] < q[n]
  BY DEF Ascending, Range
<1> HIDE DEF N
<1>6. \A x \in S : x \in Nat
  BY <1>2, ShardsFacts
<1> HIDE DEF S
<1>7. \A n \in 1 .. N : q[n] \in S /\ q[n] \in Nat
  BY <1>5, <1>6
<1>8. /\ DOMAIN shards' = 1 .. N
      /\ \A n \in 1 .. N :
           /\ shards'[n] \in Shard /\ shards'[n].base = q[n] /\ ~shards'[n].open
           /\ shards'[n].cache = {} /\ IsFiniteSet(shards'[n].cache)
           /\ \A ts : CacheBelow(shards'[n], ts)
  <2>1. DOMAIN shards' = 1 .. N /\ \A n \in 1 .. N : shards'[n] = Fresh(q[n])
    BY <1>1, <1>5
  <2> QED BY <1>7, <2>1, FreshSound
<1>9. shards' \in Seq(Shard) /\ Len(shards') = N
  <2>1. shards' \in [1 .. N -> Shard]
    BY <1>1, <1>5, <1>8
  <2> QED BY <1>4, <2>1
<1>10. files' = files /\ Rest'
  BY DEF Restart, Calls
<1>11. Ordered(shards', files)
  <2>1. \A j, n \in DOMAIN shards' : j < n => shards'[j].base <= shards'[n].base
    BY <1>5, <1>7, <1>8
  <2>2. DOMAIN files \subseteq {shards'[n].base : n \in DOMAIN shards'}
    BY <1>5, <1>8 DEF S
  <2> QED BY <1>9, <2>1, <2>2 DEF Ordered
<1>12. FilesBelow(shards', files)
  <2> SUFFICES ASSUME NEW x \in DOMAIN files, NEW n \in 1 .. N, x < q[n]
               PROVE  FileBelow(files[x], q[n])
    BY <1>8 DEF FilesBelow
  <2>1. PICK j \in DOMAIN shards : q[n] = shards[j].base
    BY <1>2, <1>7
  <2> QED BY <2>1 DEF Sound, FilesBelow
<1>13. CachesFinite(shards') /\ CachesWithin(shards', files) /\ CachesBelow(shards')
  BY <1>8 DEF CachesFinite, CachesWithin, CachesBelow
<1>14. ASSUME shards' # <<>>
       PROVE  Newest(shards'[Len(shards')], files) /\ shards'[Len(shards')].base \in DOMAIN files
  <2>1. N \in 1 .. N
    BY <1>4, <1>9, <1>14
  <2>2. PICK j \in DOMAIN shards : q[N] = shards[j].base
    BY <1>2, <1>7, <2>1
  <2> DEFINE last == shards[Len(shards)].base
  <2>3. /\ shards # <<>> /\ Len(shards) \in DOMAIN shards /\ last \in Nat
        /\ shards[j].base <= last
    <3>1. j = Len(shards) \/ j < Len(shards)
      BY ShardsFacts
    <3> QED BY <3>1, ShardsFacts
  <2>4. last \in S
    BY <2>3 DEF NewestHasFile, S
  <2>5. PICK m \in 1 .. N : q[m] = last
    BY <1>5, <2>4
  <2>6. q[m] <= q[N]
    <3>1. m = N \/ m < N
      BY <1>4
    <3> QED BY <1>5, <1>7, <2>1, <3>1
  <2>7. q[N] = last
    BY <1>7, <2>1, <2>2, <2>3, <2>5, <2>6
  <2>8. FileBelow(files[last], last + ForwardGranularity)
    BY <2>3, <2>4 DEF Sound, Newest, S
  <2> HIDE DEF last
  <2>9. Newest(shards'[N], files)
    BY <1>8, <2>1, <2>7, <2>8 DEF Newest
  <2> QED BY <1>7, <1>8, <1>9, <2>1, <2>9 DEF S
<1>15. FilesSound(files)
  BY DEF Sound
<1> QED BY <1>10, <1>11, <1>12, <1>13, <1>14, <1>15 DEF Sound, NewestHasFile

-----------------------------------------------------------------------------
(* The theorems *)

LEMMA ShardsInitial == Init => ShardsInv
<1> SUFFICES ASSUME Init PROVE ShardsInv
  OBVIOUS
<1>1. shards = <<>> /\ shards \in Seq(Shard) /\ DOMAIN shards = {} /\ DOMAIN files = {}
  BY DEF Init
<1>2. Sound(shards, files) /\ NewestHasFile(shards, files)
  BY <1>1 DEF Sound, Ordered, FilesSound, FilesBelow, CachesFinite, CachesWithin,
              CachesBelow, NewestHasFile
<1>3. Rest
  BY DEF Init, Rest, Calls
<1> QED BY <1>2, <1>3 DEF ShardsInv

LEMMA InsertSound ==
  ASSUME ShardsInv, NEW t \in Threads, Insert(t)
  PROVE  ShardsInv'
<1> DEFINE r == call[t].row
<1>1. r \in Rows
  BY DEF ShardsInv, Rest, Insert, Calls, Idle
<1>2. InsertNewest(r) \/ InsertOldest(r) \/ InsertHere(r) \/ InsertSplit(r)
  BY DEF Insert
<1> HIDE DEF r
<1>3. Inserted
  BY <1>1, <1>2, InsertNewestSound, InsertOldestSound, InsertHereSound, InsertSplitSound
     DEF ShardsInv, Rest
<1>4. call' \in [Threads -> Calls] /\ erasures' = erasures /\ restarts' = restarts
  BY DEF Insert, ShardsInv, Rest, Calls
<1> QED BY <1>3, <1>4 DEF Inserted, ShardsInv, Rest

LEMMA ShardsStep == ShardsInv /\ [Next]_vars => ShardsInv'
<1> SUFFICES ASSUME ShardsInv, [Next]_vars PROVE ShardsInv'
  OBVIOUS
<1>1. CASE UNCHANGED vars
  BY <1>1 DEF vars, ShardsInv, Rest
<1>2. ASSUME NEW t \in Threads, NEW r \in Rows, Find(t, r, "row")
      PROVE  ShardsInv'
  BY <1>2, FindSound
<1>3. ASSUME NEW t \in Threads, NEW r \in Rows, FindNone(t, r)
      PROVE  ShardsInv'
  BY <1>3 DEF FindNone, ShardsInv, Rest, Calls
<1>4. ASSUME NEW t \in Threads, NEW r \in Rows, Find(t, r, "content")
      PROVE  ShardsInv'
  BY <1>4, FindSound
<1>5. ASSUME NEW t \in Threads, Get(t)
      PROVE  ShardsInv'
  BY <1>5, GetSound
<1>6. ASSUME NEW t \in Threads, Insert(t)
      PROVE  ShardsInv'
  BY <1>6, InsertSound
<1>7. ASSUME NEW r \in Rows, Erase(r)
      PROVE  ShardsInv'
  BY <1>7, EraseSound
<1>8. ASSUME NEW k \in DOMAIN shards, Close(k)
      PROVE  ShardsInv'
  BY <1>8, CloseSound
<1>9. CASE Restart
  BY <1>9, RestartSound
<1> QED BY <1>1, <1>2, <1>3, <1>4, <1>5, <1>6, <1>7, <1>8, <1>9 DEF Next

\* The invariant holds of every reachable table.
THEOREM ShardsInvariance == Spec => []ShardsInv
  BY ShardsInitial, ShardsStep, PTL DEF Spec

\* Types, the order of the shards, and no file without its shard.
THEOREM ShardsTypes == Spec => []TypeOK
<1>1. ShardsInv => TypeOK
  BY DEF ShardsInv, Rest, Sound, Ordered, FilesSound, SoundFile, TypeOK
<1> QED BY <1>1, ShardsInvariance, PTL

\* No row is in a shard that ends before its timestamp, through any sequence of
\* new shards, splits, late rows, erasures and restarts.
THEOREM RowsAreFound == Spec => []NoRowAboveItsShard
<1>1. ShardsInv => NoRowAboveItsShard
  <2> SUFFICES ASSUME ShardsInv, NEW b \in DOMAIN files, NEW n \in Live(b),
                      NEW k \in DOMAIN shards, shards[k].base > b
               PROVE  Stamp[files[b].index[n].id] < shards[k].base
    BY DEF NoRowAboveItsShard
  <2>1. b < shards[k].base
    BY ShardsFacts DEF ShardsInv, Sound, Ordered
  <2>2. FileBelow(files[b], shards[k].base)
    BY <2>1 DEF ShardsInv, Sound, FilesBelow
  <2> QED BY <2>2 DEF FileBelow, Live
<1> QED BY <1>1, ShardsInvariance, PTL

-----------------------------------------------------------------------------
(* Caches and their files, and the rows of a table. Two shards of one base     *)
(* share a file, and the cache of one misses what is inserted through the     *)
(* other. That comes of a split of a full shard that begins one second before *)
(* the next one, whose divider is the next base, and of a row as old as the   *)
(* newest shard, when that shard is large and all its rows, left over from a  *)
(* split, are older than itself. The theorems say that nothing else makes a   *)
(* cache differ from its file, or a row come or go, until an insertion        *)
(* through the handle that an erasure has left is written across two rows.    *)

Apart(ss) == \A j, k \in DOMAIN ss : j < k => ss[j].base < ss[k].base

\* An open shard has its file in memory, and its handle stands at the end of the
\* file, or within a row.
Exact(s, ff) ==
  s.open => /\ s.base \in DOMAIN ff
            /\ s.cache = Load(ff[s.base].index)
            /\ s.inside \/ s.ipos = Len(ff[s.base].index)

Faithful(ss, ff) ==
  /\ Apart(ss)
  /\ \A k \in DOMAIN ss : Exact(ss[k], ff)

Ids(index) == {index[n].id : n \in {m \in DOMAIN index : index[m].id \in Rows}}

Stored(ff) == UNION {Ids(ff[b].index) : b \in DOMAIN ff}

\* The hypothesis of the theorems
BasesApart == Apart(shards)

ExactInv == ShardsInv /\ (damaged \/ Faithful(shards, files))

\* Shard k becomes s and its file changes or goes.
LEMMA ReplaceFaithful ==
  ASSUME NEW ss \in Seq(Shard), NEW ff, Faithful(ss, ff), NEW k \in DOMAIN ss, NEW gg,
         NEW s, s.base = ss[k].base, SameBut(s.base, ff, gg), Exact(s, gg)
  PROVE  Faithful([ss EXCEPT ![k] = s], gg)
<1> DEFINE tt == [ss EXCEPT ![k] = s]
<1>1. DOMAIN tt = DOMAIN ss /\ \A j \in DOMAIN ss : tt[j] = IF j = k THEN s ELSE ss[j]
  OBVIOUS
<1>2. DOMAIN ss = 1 .. Len(ss) /\ \A j \in DOMAIN ss : ss[j].base \in Nat
  <2>1. \A j \in DOMAIN ss : ss[j] \in Shard
    OBVIOUS
  <2> QED BY <2>1 DEF Shard
<1> HIDE DEF tt
<1>3. Apart(tt)
  BY <1>1 DEF Faithful, Apart
<1>4. ASSUME NEW j \in DOMAIN tt PROVE Exact(tt[j], gg)
  <2>1. CASE j = k
    BY <1>1, <2>1
  <2>2. CASE j # k
    <3>1. ss[j].base # s.base /\ tt[j] = ss[j] /\ j \in DOMAIN ss
      BY <1>1, <1>2, <2>2 DEF Faithful, Apart
    <3>2. Exact(ss[j], ff)
      BY <3>1 DEF Faithful
    <3> QED BY <3>1, <3>2 DEF Exact, SameBut
  <2> QED BY <2>1, <2>2
<1> QED BY <1>3, <1>4 DEF Faithful, tt

\* The rows of a table but for those of one file
Others(ff, b) == UNION {Ids(ff[x].index) : x \in DOMAIN ff \ {b}}

LEMMA StoredParts ==
  ASSUME NEW b, NEW ff
  PROVE  Stored(ff) = Others(ff, b) \cup Ids(FileOf(ff, b).index)
<1>1. CASE b \in DOMAIN ff
  <2>1. FileOf(ff, b) = ff[b]
    BY <1>1 DEF FileOf
  <2>2. DOMAIN ff = (DOMAIN ff \ {b}) \cup {b}
    BY <1>1
  <2> QED BY <2>1, <2>2 DEF Stored, Others
<1>2. CASE b \notin DOMAIN ff
  <2>1. Ids(FileOf(ff, b).index) = {}
    BY <1>2 DEF FileOf, NoFile, Ids
  <2>2. DOMAIN ff \ {b} = DOMAIN ff
    BY <1>2
  <2> QED BY <2>1, <2>2 DEF Stored, Others
<1> QED BY <1>1, <1>2

LEMMA OthersStay ==
  ASSUME NEW b, NEW ff, NEW gg, SameBut(b, ff, gg)
  PROVE  Others(gg, b) = Others(ff, b)
<1>1. DOMAIN gg \ {b} = DOMAIN ff \ {b}
  BY DEF SameBut
<1>2. \A x \in DOMAIN ff \ {b} : gg[x] = ff[x]
  BY <1>1 DEF SameBut
<1> QED BY <1>1, <1>2 DEF Others

\* How the rows of a table follow those of one file
LEMMA StoredFollows ==
  ASSUME NEW b, NEW ff, NEW gg, SameBut(b, ff, gg)
  PROVE  LET old == Ids(FileOf(ff, b).index)
             new == Ids(FileOf(gg, b).index) IN
         /\ new = old => Stored(gg) = Stored(ff)
         /\ \A r : new = old \cup {r} => Stored(gg) = Stored(ff) \cup {r}
         /\ \A r : new = old \ {r} => Stored(gg) \in {Stored(ff), Stored(ff) \ {r}}
<1> DEFINE old  == Ids(FileOf(ff, b).index)
           new  == Ids(FileOf(gg, b).index)
           rest == Others(ff, b)
<1>1. Stored(gg) = rest \cup new /\ Stored(ff) = rest \cup old
  BY StoredParts, OthersStay
<1> HIDE DEF rest, old, new
<1>2. new = old => Stored(gg) = Stored(ff)
  BY <1>1
<1>3. \A r : new = old \cup {r} => Stored(gg) = Stored(ff) \cup {r}
  BY <1>1
<1>4. ASSUME NEW r, new = old \ {r} PROVE Stored(gg) \in {Stored(ff), Stored(ff) \ {r}}
  <2>1. CASE r \in rest
    BY <1>1, <1>4, <2>1
  <2>2. CASE r \notin rest
    BY <1>1, <1>4, <2>2
  <2> QED BY <2>1, <2>2
<1> QED BY <1>2, <1>3, <1>4 DEF old, new

\* The entries of an index and its ids
LEMMA LoadIds ==
  ASSUME NEW index \in Seq(Cell)
  PROVE  /\ Ids(index) = {c.id : c \in Load(index)}
         /\ \A c : c \in Load(index) <=>
              \E n \in DOMAIN index :
                /\ index[n].id \in Rows
                /\ c = [id |-> index[n].id, offset |-> index[n].offset, slot |-> n]
<1> DEFINE D == {m \in DOMAIN index : index[m].id \in Rows}
           row(n) == [id |-> index[n].id, offset |-> index[n].offset, slot |-> n]
<1>1. Load(index) = {row(n) : n \in D}
  BY DEF Load
<1>2. \A n : row(n).id = index[n].id
  OBVIOUS
<1>3. \A c : c \in Load(index) <=> \E n \in D : c = row(n)
  BY <1>1
<1> HIDE DEF row
<1>4. Ids(index) = {c.id : c \in Load(index)}
  BY <1>1, <1>2 DEF Ids
<1>5. \A c : c \in Load(index) <=> \E n \in DOMAIN index : index[n].id \in Rows /\ c = row(n)
  BY <1>3
<1> QED BY <1>4, <1>5 DEF row

\* A shard that is opened, or is open, matches its file.
LEMMA AdvancedFaithful ==
  ASSUME NEW ss \in Seq(Shard), NEW ff, FilesSound(ff), Faithful(ss, ff), NEW k \in DOMAIN ss
  PROVE  LET b == ss[k].base
             f == FileOf(ff, b)
             s == Advanced(ss[k], f) IN
         /\ s \in Shard /\ s.base = b /\ s.open /\ b \in Nat
         /\ SoundFile(f)
         /\ s.cache = Load(f.index) /\ (s.inside \/ s.ipos = Len(f.index))
         /\ ss[k].open => b \in DOMAIN ff /\ f = ff[b]
<1> DEFINE b == ss[k].base
           f == FileOf(ff, b)
           s == Advanced(ss[k], f)
<1>1. ss[k] \in Shard
  OBVIOUS
<1>2. b \in Nat
  BY <1>1 DEF Shard
<1>3. SoundFile(f)
  BY NoFileSound DEF FilesSound, FileOf
<1>5. CASE ss[k].open
  <2>1. /\ b \in DOMAIN ff /\ ss[k].cache = Load(ff[b].index)
        /\ ss[k].inside \/ ss[k].ipos = Len(ff[b].index)
    BY <1>5 DEF Faithful, Exact
  <2>2. f = ff[b]
    BY <2>1 DEF FileOf
  <2>3. s = ss[k]
    BY <1>5 DEF Advanced
  <2> HIDE DEF b, f, s
  <2> QED BY <1>1, <1>2, <1>3, <1>5, <2>1, <2>2, <2>3 DEF b, f, s
<1>6. CASE ~ss[k].open
  <2>1. s = Opened(ss[k], f)
    BY <1>6 DEF Advanced
  <2> HIDE DEF b, f
  <2>2. Opened(ss[k], f) \in Shard /\ Opened(ss[k], f).base = b
        /\ Opened(ss[k], f).open /\ Opened(ss[k], f).ipos = Len(f.index)
    BY <1>1, <1>3, OpenedSound DEF b
  <2>3. Opened(ss[k], f).cache = Load(f.index)
    BY <1>1 DEF Opened, Shard
  <2> QED BY <1>2, <1>3, <1>6, <2>1, <2>2, <2>3 DEF b, f
<1> QED BY <1>5, <1>6

\* What a write at the end of an index adds
LEMMA ExtendedFacts ==
  ASSUME NEW s \in Shard, NEW f, SoundFile(f), ~s.inside, s.ipos = Len(f.index),
         s.cache = Load(f.index), NEW r \in Rows
  PROVE  LET g == Extended(f, s, r) IN
         /\ g.index \in Seq(Cell)
         /\ Added(s, r).cache = Load(g.index) /\ Added(s, r).ipos = Len(g.index)
         /\ Ids(g.index) = Ids(f.index) \cup {r}
<1> DEFINE g    == Extended(f, s, r)
           N    == Len(f.index)
           cell == [id |-> r, offset |-> s.cpos]
           new  == [id |-> r, offset |-> s.cpos, slot |-> N + 1]
<1>1. f.index \in Seq(Cell) /\ N \in Nat /\ s.cpos \in Nat /\ r # Erased
  BY StampAssumption DEF SoundFile, File, Shard
<1>2. cell \in Cell /\ cell.id = r /\ cell.offset = s.cpos
  BY <1>1 DEF Cell
<1>3. g.index = Append(f.index, cell)
  BY <1>1 DEF Extended, IndexWritten, Write
<1> HIDE DEF g, cell
<1>4. /\ g.index \in Seq(Cell) /\ DOMAIN g.index = 1 .. N + 1 /\ Len(g.index) = N + 1
      /\ DOMAIN f.index = 1 .. N
      /\ g.index[N + 1] = cell /\ \A n \in 1 .. N : g.index[n] = f.index[n]
  BY <1>1, <1>2, <1>3
<1>5. Added(s, r).cache = s.cache \cup {new} /\ Added(s, r).ipos = N + 1
  <2>1. Added(s, r) = [s EXCEPT !.cache = s.cache \cup {new}, !.ipos = N + 1, !.cpos = @ + 1]
    BY DEF Added, Shard
  <2> HIDE DEF new, N
  <2> QED BY <2>1 DEF Shard
<1>6. \A c : c \in Load(g.index) <=> c \in Load(f.index) \/ c = new
  <2> SUFFICES ASSUME NEW c PROVE c \in Load(g.index) <=> c \in Load(f.index) \/ c = new
    OBVIOUS
  <2>1. c \in Load(g.index) <=>
          \E n \in DOMAIN g.index :
            /\ g.index[n].id \in Rows
            /\ c = [id |-> g.index[n].id, offset |-> g.index[n].offset, slot |-> n]
    BY <1>4, LoadIds
  <2>2. c \in Load(f.index) <=>
          \E n \in DOMAIN f.index :
            /\ f.index[n].id \in Rows
            /\ c = [id |-> f.index[n].id, offset |-> f.index[n].offset, slot |-> n]
    BY <1>1, LoadIds
  <2>3. ASSUME c = new PROVE c \in Load(g.index)
    <3>1. N + 1 \in DOMAIN g.index
      BY <1>1, <1>4
    <3> QED BY <1>1, <1>2, <1>4, <2>1, <2>3, <3>1
  <2>4. ASSUME c \in Load(f.index) PROVE c \in Load(g.index)
    <3>1. PICK n \in DOMAIN f.index :
            /\ f.index[n].id \in Rows
            /\ c = [id |-> f.index[n].id, offset |-> f.index[n].offset, slot |-> n]
      BY <2>2, <2>4
    <3>2. n \in DOMAIN g.index /\ g.index[n] = f.index[n]
      BY <1>1, <1>4
    <3> QED BY <2>1, <3>1, <3>2
  <2>5. ASSUME c \in Load(g.index) PROVE c \in Load(f.index) \/ c = new
    <3>1. PICK n \in DOMAIN g.index :
            /\ g.index[n].id \in Rows
            /\ c = [id |-> g.index[n].id, offset |-> g.index[n].offset, slot |-> n]
      BY <2>1, <2>5
    <3>2. CASE n = N + 1
      BY <1>2, <1>4, <3>1, <3>2
    <3>3. CASE n # N + 1
      <4>1. n \in DOMAIN f.index /\ g.index[n] = f.index[n]
        BY <1>1, <1>4, <3>3
      <4> QED BY <2>2, <3>1, <4>1
    <3> QED BY <3>2, <3>3
  <2> QED BY <2>3, <2>4, <2>5
<1>7. Load(g.index) = Load(f.index) \cup {new}
  BY <1>6
<1>8. Ids(g.index) = Ids(f.index) \cup {r}
  <2>1. Ids(g.index) = {c.id : c \in Load(g.index)} /\ Ids(f.index) = {c.id : c \in Load(f.index)}
    BY <1>1, <1>4, LoadIds
  <2>2. new.id = r
    OBVIOUS
  <2> HIDE DEF new
  <2> QED BY <1>7, <2>1, <2>2
<1> QED BY <1>4, <1>5, <1>7, <1>8 DEF g

\* shard::insert keeps caches what their files are, unless it damages the index.
LEMMA InsertIntoFaithful ==
  ASSUME NEW ss \in Seq(Shard), NEW ff, FilesSound(ff), Faithful(ss, ff), NEW k \in DOMAIN ss,
         NEW r \in Rows, InsertInto(ss, ff, k, r), ~damaged'
  PROVE  /\ Faithful(shards, files)'
         /\ Stored(files)' \in {Stored(ff), Stored(ff) \cup {r}}
<1> DEFINE b  == ss[k].base
           f  == FileOf(ff, b)
           s  == Advanced(ss[k], f)
           g  == Extended(f, s, r)
           gg == WithFile(ff, b, g)
<1>1. CASE \E c \in ss[k].cache : c.id = r
  <2>1. shards' = ss /\ files' = ff
    BY <1>1 DEF InsertInto
  <2> QED BY <2>1
<1>2. CASE ~ \E c \in ss[k].cache : c.id = r
  <2>1. /\ s \in Shard /\ s.base = b /\ s.open /\ b \in Nat
        /\ SoundFile(f)
        /\ s.cache = Load(f.index) /\ (s.inside \/ s.ipos = Len(f.index))
    BY AdvancedFaithful
  <2>2. shards' = [ss EXCEPT ![k] = Added(s, r)] /\ files' = gg /\ ~s.inside
    <3>1. FileOf(ff, s.base) = f
      BY <2>1
    <3> QED BY <1>2, <2>1, <3>1 DEF InsertInto, Added, Extended
  <2> HIDE DEF f, s
  <2>3. /\ Added(s, r).cache = Load(g.index) /\ Added(s, r).ipos = Len(g.index)
        /\ Ids(g.index) = Ids(f.index) \cup {r}
    <3> HIDE DEF gg, b
    <3>1. s \in Shard /\ SoundFile(f) /\ ~s.inside /\ s.ipos = Len(f.index) /\ s.cache = Load(f.index)
      BY <2>1, <2>2
    <3> QED BY <3>1, ExtendedFacts, ZenonT(60)
  <2>4. Added(s, r).base = b
    BY <2>1 DEF Added, Shard
  <2> HIDE DEF g
  <2>5. SameBut(b, ff, gg) /\ b \in DOMAIN gg /\ gg[b] = g
    <3> HIDE DEF b
    <3> QED BY DEF SameBut, WithFile
  <2> HIDE DEF gg
  <2>6. Exact(Added(s, r), gg)
    BY <2>3, <2>4, <2>5 DEF Exact
  <2>7. Faithful([ss EXCEPT ![k] = Added(s, r)], gg)
    BY <2>3, <2>4, <2>5, <2>6, ReplaceFaithful
  <2>8. Stored(gg) = Stored(ff) \cup {r}
    <3>1. Ids(FileOf(gg, b).index) = Ids(FileOf(ff, b).index) \cup {r}
      BY <2>3, <2>5 DEF f, FileOf
    <3>2. /\ Stored(gg) = Others(gg, b) \cup Ids(FileOf(gg, b).index)
          /\ Stored(ff) = Others(ff, b) \cup Ids(FileOf(ff, b).index)
      BY StoredParts
    <3>3. Others(gg, b) = Others(ff, b)
      BY <2>5, OthersStay
    <3> QED BY <3>1, <3>2, <3>3
  <2> QED BY <2>2, <2>7, <2>8
<1> QED BY <1>1, <1>2

\* shard::insert moves no shard.
LEMMA InsertIntoBases ==
  ASSUME NEW ss \in Seq(Shard), NEW ff, FilesSound(ff), NEW k \in DOMAIN ss,
         NEW r \in Rows, InsertInto(ss, ff, k, r), Apart(shards)'
  PROVE  Apart(ss)
<1> DEFINE f == FileOf(ff, ss[k].base)
           s == Advanced(ss[k], f)
<1>1. CASE \E c \in ss[k].cache : c.id = r
  BY <1>1 DEF InsertInto
<1>2. CASE ~ \E c \in ss[k].cache : c.id = r
  <2>1. ss[k] \in Shard /\ SoundFile(f)
    BY NoFileSound DEF FilesSound, FileOf
  <2>2. s \in Shard /\ s.base = ss[k].base
    <3> HIDE DEF f
    <3> QED BY <2>1, OpenedSound DEF Advanced
  <2>3. shards' = [ss EXCEPT ![k] = Added(s, r)]
    <3>1. FileOf(ff, s.base) = f
      BY <2>2
    <3> QED BY <1>2, <3>1 DEF InsertInto, Added
  <2> HIDE DEF f, s
  <2>4. Added(s, r).base = ss[k].base
    BY <2>2 DEF Added, Shard
  <2>5. DOMAIN shards' = DOMAIN ss /\ \A j \in DOMAIN ss : shards'[j].base = ss[j].base
    BY <2>3, <2>4
  <2> QED BY <2>5 DEF Apart
<1> QED BY <1>1, <1>2

\* Shard x comes to position p, between shards of other bases.
LEMMA InsertShardFaithful ==
  ASSUME NEW ss \in Seq(Shard), NEW ff, Faithful(ss, ff), NEW p \in 1 .. Len(ss) + 1,
         NEW x \in Shard, NEW gg, SameBut(x.base, ff, gg), Exact(x, gg),
         Apart(InsertAt(ss, p, x))
  PROVE  Faithful(InsertAt(ss, p, x), gg)
<1> DEFINE tt == InsertAt(ss, p, x)
           old(i) == IF i < p THEN i ELSE i - 1
<1>1. /\ tt \in Seq(Shard) /\ Len(tt) = Len(ss) + 1 /\ DOMAIN tt = 1 .. Len(ss) + 1
      /\ tt[p] = x
      /\ \A i \in 1 .. p - 1 : tt[i] = ss[i]
      /\ \A i \in p .. Len(ss) : tt[i + 1] = ss[i]
  BY InsertAtFacts, ZenonT(60)
<1>2. /\ DOMAIN ss = 1 .. Len(ss) /\ Len(ss) \in Nat /\ p \in Nat
      /\ \A j \in DOMAIN ss : ss[j].base \in Nat
      /\ x.base \in Nat
  <2>1. \A j \in DOMAIN ss : ss[j] \in Shard
    OBVIOUS
  <2> QED BY <2>1 DEF Shard
<1> HIDE DEF tt
<1>3. ASSUME NEW i \in DOMAIN tt, i # p
      PROVE  \E j \in DOMAIN ss : tt[i] = ss[j]
  <2>1. CASE i < p
    BY <1>1, <1>2, <2>1
  <2>2. CASE i > p
    <3>1. i - 1 \in p .. Len(ss) /\ (i - 1) + 1 = i
      BY <1>1, <1>2, <2>2
    <3> QED BY <1>1, <1>2, <2>2, <3>1
  <2> QED BY <1>1, <1>2, <1>3, <2>1, <2>2
<1>4. \A i \in DOMAIN tt : i # p => tt[i].base # x.base
  <2> SUFFICES ASSUME NEW i \in DOMAIN tt, i # p PROVE tt[i].base # x.base
    OBVIOUS
  <2>1. p \in DOMAIN tt /\ (i < p \/ p < i)
    BY <1>1, <1>2
  <2>2. tt[i].base < x.base \/ x.base < tt[i].base
    BY <1>1, <2>1 DEF Apart, tt
  <2>3. tt[i].base \in Nat
    BY <1>2, <1>3
  <2> QED BY <1>2, <2>2, <2>3
<1>5. ASSUME NEW i \in DOMAIN tt PROVE Exact(tt[i], gg)
  <2>1. CASE i = p
    BY <1>1, <2>1
  <2>2. CASE i # p
    <3>1. PICK j \in DOMAIN ss : tt[i] = ss[j]
      BY <1>3, <2>2
    <3>2. ss[j].base # x.base
      BY <1>4, <2>2, <3>1
    <3>3. Exact(ss[j], ff)
      BY DEF Faithful
    <3> QED BY <3>1, <3>2, <3>3 DEF Exact, SameBut
  <2> QED BY <2>1, <2>2
<1> QED BY <1>5 DEF Faithful, tt

LEMMA FreshFaithful ==
  ASSUME NEW ss \in Seq(Shard), NEW ff, Faithful(ss, ff), NEW p \in 1 .. Len(ss) + 1,
         NEW b \in Nat, Apart(InsertAt(ss, p, Fresh(b)))
  PROVE  Faithful(InsertAt(ss, p, Fresh(b)), ff)
<1>1. Fresh(b) \in Shard /\ Fresh(b).base = b /\ ~Fresh(b).open
  BY FreshSound
<1>2. SameBut(b, ff, ff) /\ Exact(Fresh(b), ff)
  BY <1>1 DEF SameBut, Exact
<1> QED BY <1>1, <1>2, InsertShardFaithful

-----------------------------------------------------------------------------
(* A split keeps the rows. *)

\* Copying writes every row that was given to it, and no other.
LEMMA CopiedIds ==
  ASSUME NEW rows, rows \subseteq Entry, IsFiniteSet(rows), NEW q \in InOrder(rows),
         NEW content
  PROVE  Ids(Copied(q, content).index) = {c.id : c \in rows}
<1> DEFINE f == Copied(q, content)
           N == Cardinality(rows)
<1>1. N \in Nat
  BY FS_CardinalityType
<1>2. q \in [1 .. N -> rows] /\ \A i, j \in 1 .. N : i # j => q[i] # q[j]
  BY DEF InOrder, SetToSeqs
<1>3. \A c \in rows : \E n \in 1 .. N : q[n] = c
  <2>1. q \in Injection(1 .. N, rows)
    <3> HIDE DEF N
    <3>1. \A i, j \in 1 .. N : q[i] = q[j] => i = j
      BY <1>2
    <3> QED BY <1>2, <3>1 DEF Injection, IsInjective
  <2>2. Cardinality(1 .. N) = N
    <3> HIDE DEF N
    <3>1. 1 \in Int /\ N \in Int
      BY <1>1
    <3>2. Cardinality(1 .. N) = IF 1 > N THEN 0 ELSE N - 1 + 1
      BY <3>1, FS_Interval
    <3> QED BY <1>1, <3>2
  <2>3. q \in Surjection(1 .. N, rows)
    BY <2>1, <2>2, FS_Injection
  <2> HIDE DEF N
  <2> QED BY <2>3 DEF Surjection
<1> HIDE DEF N
<1>4. f.index = [n \in 1 .. N |-> [id |-> q[n].id, offset |-> n - 1]]
  BY <1>2 DEF Copied
<1> HIDE DEF f
<1>5. DOMAIN f.index = 1 .. N /\ \A n \in 1 .. N : f.index[n].id = q[n].id
  BY <1>4
<1>6. \A n \in 1 .. N : q[n] \in rows /\ q[n].id \in Rows
  BY <1>2, StampAssumption DEF Entry
<1>7. Ids(f.index) = {f.index[n].id : n \in 1 .. N}
  <2>1. {m \in DOMAIN f.index : f.index[m].id \in Rows} = 1 .. N
    BY <1>5, <1>6
  <2> QED BY <2>1 DEF Ids
<1>8. Ids(f.index) = {c.id : c \in rows}
  <2>1. ASSUME NEW n \in 1 .. N PROVE f.index[n].id \in {c.id : c \in rows}
    BY <1>5, <1>6
  <2>2. ASSUME NEW c \in rows PROVE c.id \in {f.index[n].id : n \in 1 .. N}
    <3>1. PICK n \in 1 .. N : q[n] = c
      BY <1>3
    <3> QED BY <1>5, <3>1
  <2> QED BY <1>7, <2>1, <2>2
<1> QED BY <1>8 DEF f

LEMMA MadeExact ==
  ASSUME NEW b \in Nat, NEW f, SoundFile(f), NEW gg,
         b \in DOMAIN gg <=> f.index # <<>>, b \in DOMAIN gg => gg[b] = f
  PROVE  Exact(Made(b, f), gg)
<1>1. CASE f.index = <<>>
  <2>1. Made(b, f) = Fresh(b) /\ ~Fresh(b).open
    BY <1>1, FreshSound DEF Made
  <2> QED BY <2>1 DEF Exact
<1>2. CASE f.index # <<>>
  <2>1. Made(b, f) = Opened(Fresh(b), f) /\ Fresh(b) \in Shard /\ Fresh(b).base = b
    BY <1>2, FreshSound DEF Made
  <2>2. Opened(Fresh(b), f).base = b /\ Opened(Fresh(b), f).ipos = Len(f.index)
    BY <2>1, OpenedSound
  <2>3. Opened(Fresh(b), f).cache = Load(f.index)
    BY <2>1 DEF Opened, Shard
  <2> QED BY <1>2, <2>1, <2>2, <2>3 DEF Exact
<1> QED BY <1>1, <1>2

LEMMA SplitFaithful ==
  ASSUME Sound(shards, files), Faithful(shards, files),
         NEW k \in DOMAIN shards, Full(k),
         NEW d \in Nat, d = Divider(k), shards[k].base < d,
         NEW lo \in InOrder({c \in shards[k].cache : Stamp[c.id] < d}),
         NEW hi \in InOrder({c \in shards[k].cache : Stamp[c.id] >= d}),
         NEW old, old = files[shards[k].base].content,
         Apart(SplitShards(k, d, Copied(lo, old), Copied(hi, old)))
  PROVE  LET lower == Copied(lo, old)
             upper == Copied(hi, old)
         IN /\ Faithful(SplitShards(k, d, lower, upper), SplitFiles(k, d, lower, upper))
            /\ Stored(SplitFiles(k, d, lower, upper)) = Stored(files)
<1> DEFINE b     == shards[k].base
           rows  == shards[k].cache
           rest  == {c \in rows : Stamp[c.id] < d}
           more  == {c \in rows : Stamp[c.id] >= d}
           lower == Copied(lo, old)
           upper == Copied(hi, old)
           low   == Made(b, lower)
           up    == Made(d, upper)
           ss    == [shards EXCEPT ![k] = low]
           without == Restrict(files, DOMAIN files \ {b})
           ff    == IF lower.index = <<>> THEN without ELSE WithFile(without, b, lower)
           tt    == InsertAt(ss, k + 1, up)
           gg    == IF upper.index = <<>> THEN ff ELSE WithFile(ff, d, upper)
<1>1. /\ SplitShards(k, d, lower, upper) = tt /\ SplitFiles(k, d, lower, upper) = gg
      /\ Apart(tt)
  BY DEF SplitShards, SplitFiles
<1>2. /\ shards \in Seq(Shard) /\ DOMAIN shards = 1 .. Len(shards) /\ Len(shards) \in Nat
      /\ \A j \in DOMAIN shards : shards[j] \in Shard /\ shards[j].base \in Nat
  BY ShardsFacts
<1>3. shards[k].open
  <2>1. rows # {}
    <3> SUFFICES ASSUME rows = {} PROVE FALSE
      OBVIOUS
    <3>1. Cardinality({}) = 0
      BY FS_EmptySet
    <3>2. 0 >= MaximumShardSize
      BY <3>1 DEF Full
    <3> QED BY <3>2, SizeAssumption
  <2> QED BY <2>1 DEF Sound, CachesFinite
<1>4. b \in DOMAIN files /\ rows = Load(files[b].index)
  BY <1>3 DEF Faithful, Exact
<1>5. /\ old \in Seq(Rows) /\ files[b].index \in Seq(Cell)
      /\ rows \subseteq Entry /\ IsFiniteSet(rows)
      /\ \A c \in rows : c.offset < Len(old)
  <2>1. SoundFile(files[b])
    BY <1>4 DEF Sound, FilesSound
  <2>2. Leads(shards, k)
    BY DEF Faithful, Apart, Leads
  <2>3. Within(shards[k], files[b])
    BY <1>3, <2>2 DEF Sound, CachesWithin
  <2> QED BY <1>2, <2>1, <2>3 DEF Shard, SoundFile, File, Within, Sound, CachesFinite
<1>6. \A c \in rows : Stamp[c.id] \in Nat
  <2>1. \A c \in rows : c.id \in Rows
    BY <1>5 DEF Entry
  <2> QED BY <2>1, StampAssumption
<1>7. rest \subseteq Entry /\ more \subseteq Entry /\ IsFiniteSet(rest) /\ IsFiniteSet(more)
      /\ (\A c \in rest : c.offset < Len(old)) /\ (\A c \in more : c.offset < Len(old))
  BY <1>5, FS_Subset
<1>8. rest \cup more = rows
  BY <1>6
<1> HIDE DEF rows
<1>9. SoundFile(lower) /\ Ids(lower.index) = {c.id : c \in rest}
  <2>1. lo \in InOrder(rest)
    BY DEF rows
  <2> HIDE DEF rest
  <2>2. SoundFile(lower)
    BY <1>5, <1>7, <2>1, CopiedSound
  <2>3. Ids(lower.index) = {c.id : c \in rest}
    BY <1>5, <1>7, <2>1, CopiedIds
  <2> QED BY <2>2, <2>3
<1>10. SoundFile(upper) /\ Ids(upper.index) = {c.id : c \in more}
  <2>1. hi \in InOrder(more)
    BY DEF rows
  <2> HIDE DEF more
  <2>2. SoundFile(upper)
    BY <1>5, <1>7, <2>1, CopiedSound
  <2>3. Ids(upper.index) = {c.id : c \in more}
    BY <1>5, <1>7, <2>1, CopiedIds
  <2> QED BY <2>2, <2>3
<1>11. Ids(files[b].index) = Ids(lower.index) \cup Ids(upper.index)
  <2>1. Ids(files[b].index) = {c.id : c \in rows}
    BY <1>4, <1>5, LoadIds
  <2> HIDE DEF rest, more
  <2> QED BY <1>8, <1>9, <1>10, <2>1
<1> HIDE DEF rest, more, lower, upper
<1>12. /\ SameBut(b, files, ff)
       /\ b \in DOMAIN ff <=> lower.index # <<>>
       /\ b \in DOMAIN ff => ff[b] = lower
  <2> HIDE DEF b
  <2> QED BY DEF SameBut, Restrict, WithFile
<1> HIDE DEF ff, without
<1>13. low \in Shard /\ low.base = b /\ up \in Shard /\ up.base = d
  BY <1>2, <1>9, <1>10, MadeFacts
<1>14. Exact(low, ff)
  BY <1>2, <1>9, <1>12, MadeExact
<1> HIDE DEF low
<1>15. Faithful(ss, ff)
  BY <1>2, <1>9, <1>12, <1>13, <1>14, ReplaceFaithful
<1>16. \A j \in DOMAIN shards : shards[j].base # d
  <2> SUFFICES ASSUME NEW j \in DOMAIN shards PROVE shards[j].base # d
    OBVIOUS
  <2>1. CASE j > k
    <3>1. /\ tt[k + 1] = up /\ DOMAIN tt = 1 .. Len(shards) + 1
          /\ tt[j + 1] = ss[j]
      <4>1. ss \in Seq(Shard) /\ Len(ss) = Len(shards) /\ k + 1 \in 1 .. Len(ss) + 1
            /\ j \in k + 1 .. Len(ss)
        BY <1>2, <1>13, <2>1
      <4> HIDE DEF ss, up
      <4>2. /\ Len(tt) = Len(ss) + 1 /\ DOMAIN tt = 1 .. Len(ss) + 1 /\ tt[k + 1] = up
            /\ \A i \in k + 1 .. Len(ss) : tt[i + 1] = ss[i]
        BY <1>13, <4>1, InsertAtFacts, ZenonT(60)
      <4> HIDE DEF tt
      <4> QED BY <4>1, <4>2
    <3>2. ss[j] = shards[j]
      BY <1>2, <2>1
    <3>3. k + 1 \in DOMAIN tt /\ j + 1 \in DOMAIN tt /\ k + 1 < j + 1
      BY <1>2, <2>1, <3>1
    <3> HIDE DEF tt, ss, up
    <3>5. d < shards[j].base
      BY <1>13, <3>1, <3>2, <3>3, <1>1 DEF Apart
    <3> QED BY <1>2, <3>5
  <2>2. CASE ~(j > k)
    <3>1. j = k \/ j < k
      BY <1>2, <2>2
    <3>2. shards[j].base <= b
      BY <1>2, <3>1 DEF Faithful, Apart
    <3> QED BY <1>2, <3>2
  <2> QED BY <2>1, <2>2
<1>17. d \notin DOMAIN ff
  <2>1. d \notin DOMAIN files
    BY <1>16 DEF Sound, Ordered
  <2> QED BY <1>12, <1>16, <2>1 DEF SameBut
<1>18. /\ SameBut(d, ff, gg)
       /\ d \in DOMAIN gg <=> upper.index # <<>>
       /\ d \in DOMAIN gg => gg[d] = upper
  BY <1>17 DEF SameBut, WithFile
<1> HIDE DEF gg
<1>19. Exact(up, gg)
  BY <1>10, <1>18, MadeExact
<1> HIDE DEF up
<1>20. /\ ss \in Seq(Shard) /\ Len(ss) = Len(shards) /\ DOMAIN ss = DOMAIN shards
       /\ \A j \in DOMAIN shards : ss[j].base = shards[j].base
  BY <1>2, <1>13
<1> HIDE DEF ss
<1>21. Faithful(tt, gg)
  <2>1. k + 1 \in 1 .. Len(ss) + 1
    BY <1>2, <1>20
  <2> QED BY <1>1, <1>13, <1>15, <1>18, <1>19, <1>20, <2>1, InsertShardFaithful
<1>22. Stored(gg) = Stored(files)
  <2>1. Ids(FileOf(ff, b).index) = Ids(lower.index)
    <3>1. lower.index = <<>> => Ids(lower.index) = {}
      BY DEF Ids
    <3>2. Ids(NoFile.index) = {}
      BY DEF Ids, NoFile
    <3> QED BY <1>12, <3>1, <3>2 DEF FileOf
  <2>2. Ids(FileOf(gg, d).index) = Ids(upper.index)
    <3>1. upper.index = <<>> => Ids(upper.index) = {}
      BY DEF Ids
    <3>2. Ids(NoFile.index) = {}
      BY DEF Ids, NoFile
    <3> QED BY <1>18, <3>1, <3>2 DEF FileOf
  <2>3. Ids(FileOf(ff, d).index) = {}
    BY <1>17 DEF FileOf, NoFile, Ids
  <2>4. Ids(FileOf(files, b).index) = Ids(files[b].index)
    BY <1>4 DEF FileOf
  <2>5. Stored(files) = Others(files, b) \cup Ids(files[b].index)
    BY <2>4, StoredParts
  <2>6. Stored(ff) = Others(files, b) \cup Ids(lower.index)
    BY <1>12, <2>1, StoredParts, OthersStay
  <2>7. Stored(ff) = Others(ff, d)
    BY <2>3, StoredParts
  <2>8. Stored(gg) = Others(ff, d) \cup Ids(upper.index)
    BY <1>18, <2>2, StoredParts, OthersStay
  <2> QED BY <1>11, <2>5, <2>6, <2>7, <2>8
<1> HIDE DEF tt
<1>23. tt = SplitShards(k, d, lower, upper) /\ gg = SplitFiles(k, d, lower, upper)
  BY <1>1 DEF tt, ss, low, up, gg, ff, without
<1> QED BY <1>21, <1>22, <1>23 DEF lower, upper

-----------------------------------------------------------------------------
(* The operations keep caches, and change the rows by one at most. *)

RowAdded(r)   == StoredRows' \in {StoredRows, StoredRows \cup {r}}
RowRemoved(r) == StoredRows' \in {StoredRows, StoredRows \ {r}}

LEMMA StoredIsRows == StoredRows = Stored(files) /\ StoredRows' = Stored(files)'
  BY DEF StoredRows, Stored, Ids, Live

LEMMA InsertNewestFaithful ==
  ASSUME Sound(shards, files), Faithful(shards, files), Apart(shards)', ~damaged',
         NEW r \in Rows, InsertNewest(r)
  PROVE  Faithful(shards, files)' /\ RowAdded(r)
<1> DEFINE b == Stamp[r]
           n == Len(shards)
           tt == Append(shards, Fresh(b))
<1>1. shards \in Seq(Shard) /\ n \in Nat /\ FilesSound(files) /\ b \in Nat
  BY ShardsFacts, StampAssumption DEF Sound
<1>2. Fresh(b) \in Shard
  BY <1>1, FreshSound
<1>3. tt \in Seq(Shard) /\ n + 1 \in DOMAIN tt /\ n + 1 \in 1 .. n + 1
  BY <1>1, <1>2
<1>4. tt = InsertAt(shards, n + 1, Fresh(b))
  BY <1>1, <1>2, AppendInserts
<1>5. InsertInto(tt, files, n + 1, r)
  BY DEF InsertNewest
<1> HIDE DEF tt, n
<1>6. Apart(tt)
  BY <1>1, <1>3, <1>5, InsertIntoBases
<1>7. Faithful(tt, files)
  BY <1>1, <1>3, <1>4, <1>6, FreshFaithful DEF n
<1>8. /\ Faithful(shards, files)'
      /\ Stored(files)' \in {Stored(files), Stored(files) \cup {r}}
  BY <1>1, <1>3, <1>5, <1>7, InsertIntoFaithful
<1> QED BY <1>8, StoredIsRows DEF RowAdded

LEMMA InsertOldestFaithful ==
  ASSUME Sound(shards, files), Faithful(shards, files), Apart(shards)', ~damaged',
         NEW r \in Rows, InsertOldest(r)
  PROVE  Faithful(shards, files)' /\ RowAdded(r)
<1>1. /\ shards \in Seq(Shard) /\ Len(shards) \in Nat /\ FilesSound(files)
      /\ shards # <<>> /\ shards[1].base \in Nat
  BY ShardsFacts DEF Sound, InsertOldest
<1>2. PICK n \in 1 .. shards[1].base :
        LET b == shards[1].base - n * BacktrackGranularity IN
        /\ b <= Stamp[r] /\ Stamp[r] < b + BacktrackGranularity
        /\ InsertInto(<<Fresh(b)>> \o shards, files, 1, r)
  BY DEF InsertOldest
<1> DEFINE g == n * BacktrackGranularity
           b == shards[1].base - g
           tt == <<Fresh(b)>> \o shards
<1>3. b \in Nat
  <2>1. /\ n \in Nat /\ BacktrackGranularity \in Nat
        /\ Stamp[r] \in Nat /\ Stamp[r] >= BacktrackGranularity
    BY <1>1, SizeAssumption, StampAssumption
  <2>2. g \in Nat
    BY <2>1
  <2>3. Stamp[r] < b + BacktrackGranularity
    BY <1>2
  <2> HIDE DEF g
  <2> QED BY <1>1, <2>1, <2>2, <2>3
<1>4. InsertInto(tt, files, 1, r)
  BY <1>2
<1> HIDE DEF b, g
<1>5. Fresh(b) \in Shard
  BY <1>3, FreshSound
<1>6. tt \in Seq(Shard) /\ 1 \in DOMAIN tt /\ 1 \in 1 .. Len(shards) + 1
  BY <1>1, <1>5
<1>7. tt = InsertAt(shards, 1, Fresh(b))
  BY <1>1, <1>5, PrependInserts
<1> HIDE DEF tt
<1>8. Apart(tt)
  BY <1>1, <1>4, <1>6, InsertIntoBases
<1>9. Faithful(tt, files)
  BY <1>1, <1>3, <1>6, <1>7, <1>8, FreshFaithful
<1>10. /\ Faithful(shards, files)'
       /\ Stored(files)' \in {Stored(files), Stored(files) \cup {r}}
  BY <1>1, <1>4, <1>6, <1>9, InsertIntoFaithful
<1> QED BY <1>10, StoredIsRows DEF RowAdded

LEMMA InsertHereFaithful ==
  ASSUME Sound(shards, files), Faithful(shards, files), ~damaged',
         NEW r \in Rows, InsertHere(r)
  PROVE  Faithful(shards, files)' /\ RowAdded(r)
<1>1. PICK k \in DOMAIN shards : InsertInto(shards, files, k, r)
  BY DEF InsertHere
<1>2. shards \in Seq(Shard) /\ FilesSound(files)
  BY DEF Sound, Ordered
<1>3. /\ Faithful(shards, files)'
      /\ Stored(files)' \in {Stored(files), Stored(files) \cup {r}}
  BY <1>1, <1>2, InsertIntoFaithful
<1> QED BY <1>3, StoredIsRows DEF RowAdded

LEMMA InsertSplitFaithful ==
  ASSUME Sound(shards, files), Faithful(shards, files), Apart(shards)', ~damaged',
         NEW r \in Rows, InsertSplit(r)
  PROVE  Faithful(shards, files)' /\ RowAdded(r)
<1>1. PICK k \in DOMAIN shards :
        /\ Covers(k, Stamp[r]) /\ Full(k)
        /\ \E d \in {Divider(k)} \cap Nat :
             /\ shards[k].base < d
             /\ \E lo \in InOrder({c \in shards[k].cache : Stamp[c.id] < d}),
                   hi \in InOrder({c \in shards[k].cache : Stamp[c.id] >= d}) :
                  LET old   == files[shards[k].base].content
                      lower == Copied(lo, old)
                      upper == Copied(hi, old)
                  IN InsertInto(SplitShards(k, d, lower, upper),
                                SplitFiles(k, d, lower, upper), k + 1, r)
  BY DEF InsertSplit
<1>2. PICK d \in {Divider(k)} \cap Nat :
             /\ shards[k].base < d
             /\ \E lo \in InOrder({c \in shards[k].cache : Stamp[c.id] < d}),
                   hi \in InOrder({c \in shards[k].cache : Stamp[c.id] >= d}) :
                  LET old   == files[shards[k].base].content
                      lower == Copied(lo, old)
                      upper == Copied(hi, old)
                  IN InsertInto(SplitShards(k, d, lower, upper),
                                SplitFiles(k, d, lower, upper), k + 1, r)
  BY <1>1
<1>3. PICK lo \in InOrder({c \in shards[k].cache : Stamp[c.id] < d}),
           hi \in InOrder({c \in shards[k].cache : Stamp[c.id] >= d}) :
        LET old   == files[shards[k].base].content
            lower == Copied(lo, old)
            upper == Copied(hi, old)
        IN InsertInto(SplitShards(k, d, lower, upper),
                      SplitFiles(k, d, lower, upper), k + 1, r)
  BY <1>2
<1> DEFINE old   == files[shards[k].base].content
           lower == Copied(lo, old)
           upper == Copied(hi, old)
           tt    == SplitShards(k, d, lower, upper)
           gg    == SplitFiles(k, d, lower, upper)
<1>4. Leads(shards, k)
  BY <1>1, CoversLeads
<1>5. d \in Nat /\ d = Divider(k) /\ shards[k].base < d /\ Full(k)
  BY <1>1, <1>2
<1>6. Sound(tt, gg) /\ k + 1 \in DOMAIN tt
  BY <1>4, <1>5, SplitSound, ZenonT(60)
<1>7. InsertInto(tt, gg, k + 1, r)
  BY <1>3
<1>8. tt \in Seq(Shard) /\ FilesSound(gg)
  BY <1>6 DEF Sound, Ordered
<1>9. Apart(tt)
  <2> HIDE DEF tt, gg
  <2> QED BY <1>6, <1>7, <1>8, InsertIntoBases
<1>10. Faithful(tt, gg) /\ Stored(gg) = Stored(files)
  <2> HIDE DEF old
  <2> QED BY <1>1, <1>5, <1>9, SplitFaithful DEF old
<1> HIDE DEF tt, gg
<1>11. /\ Faithful(shards, files)'
       /\ Stored(files)' \in {Stored(gg), Stored(gg) \cup {r}}
  BY <1>6, <1>7, <1>8, <1>10, InsertIntoFaithful
<1> QED BY <1>10, <1>11, StoredIsRows DEF RowAdded

LEMMA FindFaithful ==
  ASSUME ExactInv, ~damaged, NEW t \in Threads, NEW r \in Rows, NEW want, Find(t, r, want)
  PROVE  Faithful(shards, files)' /\ StoredRows' = StoredRows
<1>1. PICK k \in DOMAIN shards :
       LET f == FileOf(files, shards[k].base) IN
       /\ shards' = [shards EXCEPT ![k] = Advanced(@, f)]
       /\ files' = IF shards[k].open THEN files ELSE WithFile(files, shards[k].base, f)
  BY DEF Find
<1> DEFINE b == shards[k].base
           f == FileOf(files, b)
           s == Advanced(shards[k], f)
<1>2. shards \in Seq(Shard) /\ FilesSound(files) /\ Faithful(shards, files)
  BY DEF ExactInv, ShardsInv, Sound, Ordered
<1>3. /\ s \in Shard /\ s.base = b /\ s.open /\ b \in Nat
      /\ s.cache = Load(f.index) /\ (s.inside \/ s.ipos = Len(f.index))
      /\ shards[k].open => b \in DOMAIN files /\ f = files[b]
  BY <1>2, AdvancedFaithful
<1>4. /\ shards' = [shards EXCEPT ![k] = s]
      /\ files' = IF shards[k].open THEN files ELSE WithFile(files, b, f)
  BY <1>1, <1>2
<1> HIDE DEF s, f
<1>5. SameBut(b, files, files') /\ b \in DOMAIN files' /\ files'[b] = f
  <2> HIDE DEF b
  <2> QED BY <1>3, <1>4 DEF SameBut, WithFile
<1>6. Faithful([shards EXCEPT ![k] = s], files')
  BY <1>2, <1>3, <1>5, ReplaceFaithful DEF Exact
<1>7. Stored(files') = Stored(files)
  <2>1. FileOf(files', b) = f /\ FileOf(files, b) = f
    BY <1>5 DEF FileOf, f
  <2> QED BY <1>5, <2>1, StoredFollows
<1> QED BY <1>4, <1>6, <1>7, StoredIsRows

LEMMA GetFaithful ==
  ASSUME ExactInv, ~damaged, NEW t \in Threads, Get(t)
  PROVE  Faithful(shards, files)' /\ StoredRows' = StoredRows
<1>1. PICK k, v : files' = files /\ (shards' = shards \/ shards' = [shards EXCEPT ![k].cpos = v])
  BY DEF Get
<1>2. shards \in Seq(Shard) /\ Faithful(shards, files)
  BY DEF ExactInv, ShardsInv, Sound, Ordered
<1>3. /\ DOMAIN shards' = DOMAIN shards
      /\ \A j \in DOMAIN shards :
           /\ shards'[j].base = shards[j].base /\ shards'[j].open = shards[j].open
           /\ shards'[j].cache = shards[j].cache /\ shards'[j].ipos = shards[j].ipos
           /\ shards'[j].inside = shards[j].inside
  <2>1. \A j \in DOMAIN shards : shards[j] \in Shard
    BY <1>2
  <2> QED BY <1>1, <2>1 DEF Shard
<1>4. Faithful(shards', files)
  BY <1>2, <1>3 DEF Faithful, Apart, Exact
<1> QED BY <1>1, <1>4, StoredIsRows

LEMMA CloseFaithful ==
  ASSUME ExactInv, ~damaged, NEW k \in DOMAIN shards, Close(k)
  PROVE  Faithful(shards, files)' /\ StoredRows' = StoredRows
<1> DEFINE s == Fresh(shards[k].base)
<1>1. shards \in Seq(Shard) /\ Faithful(shards, files) /\ shards[k].base \in Nat
  BY ShardsFacts DEF ExactInv, ShardsInv, Sound, Ordered
<1>2. shards' = [shards EXCEPT ![k] = s] /\ files' = files
  BY <1>1 DEF Close
<1>3. s.base = shards[k].base /\ ~s.open
  BY <1>1, FreshSound
<1> HIDE DEF s
<1>4. SameBut(s.base, files, files) /\ Exact(s, files)
  BY <1>3 DEF SameBut, Exact
<1>5. Faithful([shards EXCEPT ![k] = s], files)
  BY <1>1, <1>3, <1>4, ReplaceFaithful
<1> QED BY <1>2, <1>5, StoredIsRows

LEMMA RestartFaithful ==
  ASSUME ExactInv, ~damaged, Restart
  PROVE  Faithful(shards, files)' /\ StoredRows' = StoredRows
<1>1. PICK q \in Ascending(DOMAIN files) :
        shards' = [n \in DOMAIN q |-> Fresh(q[n])] /\ files' = files
  BY DEF Restart
<1>2. \A b : Fresh(b).base = b /\ ~Fresh(b).open
  BY DEF Fresh
<1>3. /\ DOMAIN shards' = DOMAIN q
      /\ \A n \in DOMAIN q : shards'[n].base = q[n] /\ ~shards'[n].open
  BY <1>1, <1>2
<1>4. \A m, n \in DOMAIN q : m < n => q[m] < q[n]
  BY DEF Ascending
<1>5. Faithful(shards', files)
  BY <1>3, <1>4 DEF Faithful, Apart, Exact
<1> QED BY <1>1, <1>5, StoredIsRows

LEMMA EraseFaithful ==
  ASSUME ExactInv, ~damaged, NEW r \in Rows, Erase(r)
  PROVE  Faithful(shards, files)' /\ RowRemoved(r)
<1>1. PICK k \in DOMAIN shards :
        LET f == FileOf(files, shards[k].base)
            s == Advanced(shards[k], f)
        IN
        /\ \E c \in s.cache, n \in DOMAIN f.index :
             /\ Matches(s, r, c)
             /\ f.index[n].id = r /\ \A m \in 1 .. n - 1 : f.index[m].id # r
             /\ shards' = [shards EXCEPT ![k] =
                  [s EXCEPT !.cache = @ \ {c}, !.ipos = n - 1, !.inside = TRUE]]
             /\ files' = WithFile(files, s.base,
                           [f EXCEPT !.index[n] = [id |-> Erased, offset |-> 0]])
  BY DEF Erase
<1> DEFINE b == shards[k].base
           f == FileOf(files, b)
           s == Advanced(shards[k], f)
           row(m) == [id |-> f.index[m].id, offset |-> f.index[m].offset, slot |-> m]
<1>2. shards \in Seq(Shard) /\ FilesSound(files) /\ Faithful(shards, files)
  BY DEF ExactInv, ShardsInv, Sound, Ordered
<1>3. /\ s \in Shard /\ s.base = b /\ s.open /\ SoundFile(f)
      /\ s.cache = Load(f.index)
  BY <1>2, AdvancedFaithful
<1> HIDE DEF s, f, b
<1>4. PICK c \in s.cache, n \in DOMAIN f.index :
        /\ Matches(s, r, c)
        /\ f.index[n].id = r /\ \A m \in 1 .. n - 1 : f.index[m].id # r
        /\ shards' = [shards EXCEPT ![k] =
             [s EXCEPT !.cache = @ \ {c}, !.ipos = n - 1, !.inside = TRUE]]
        /\ files' = WithFile(files, b, [f EXCEPT !.index[n] = [id |-> Erased, offset |-> 0]])
  BY <1>1, <1>3 DEF s, f, b
<1>5. f.index[n].id = r /\ \A m \in 1 .. n - 1 : f.index[m].id # r
  BY <1>4
<1> DEFINE a == [s EXCEPT !.cache = @ \ {c}, !.ipos = n - 1, !.inside = TRUE]
           g == [f EXCEPT !.index[n] = [id |-> Erased, offset |-> 0]]
<1>6. a.base = b /\ a.open /\ a.cache = s.cache \ {c} /\ a.inside
  BY <1>3 DEF Shard
<1>7. /\ f.index \in Seq(Cell) /\ DOMAIN f.index = 1 .. Len(f.index) /\ f \in File
      /\ Len(f.index) \in Nat
  BY <1>3 DEF SoundFile, File
<1>8. /\ g.index \in Seq(Cell) /\ DOMAIN g.index = DOMAIN f.index
      /\ Len(g.index) = Len(f.index)
      /\ g.index[n].id \notin Rows
      /\ \A m \in DOMAIN f.index : m # n => g.index[m] = f.index[m]
  <2> DEFINE index == [f.index EXCEPT ![n] = [id |-> Erased, offset |-> 0]]
  <2>1. [id |-> Erased, offset |-> 0] \in Cell
    BY DEF Cell
  <2>2. /\ index \in Seq(Cell) /\ DOMAIN index = DOMAIN f.index /\ Len(index) = Len(f.index)
        /\ index[n] = [id |-> Erased, offset |-> 0]
        /\ \A m \in DOMAIN f.index : m # n => index[m] = f.index[m]
    BY <1>7, <2>1
  <2>3. g.index = index
    BY <1>7 DEF File
  <2> HIDE DEF g, index
  <2> QED BY <2>2, <2>3, StampAssumption
<1>9. shards' = [shards EXCEPT ![k] = a] /\ files' = WithFile(files, b, g)
  BY <1>4
<1> HIDE DEF a, g
<1>10. \A x : x \in Load(f.index) <=> \E m \in DOMAIN f.index : f.index[m].id \in Rows /\ x = row(m)
  BY <1>7, LoadIds
<1>11. \A m : row(m).id = f.index[m].id /\ row(m).slot = m
  OBVIOUS
<1>12. \A x : x \in Load(g.index) <=>
         \E m \in DOMAIN f.index : m # n /\ f.index[m].id \in Rows /\ x = row(m)
  <2> SUFFICES ASSUME NEW x
               PROVE  x \in Load(g.index) <=>
                        \E m \in DOMAIN f.index : m # n /\ f.index[m].id \in Rows /\ x = row(m)
    OBVIOUS
  <2>1. x \in Load(g.index) <=>
          \E m \in DOMAIN g.index :
            /\ g.index[m].id \in Rows
            /\ x = [id |-> g.index[m].id, offset |-> g.index[m].offset, slot |-> m]
    BY <1>8, LoadIds
  <2> QED BY <1>8, <2>1
<1> HIDE DEF row
<1>13. c = row(n) /\ row(n).id = r
  <2>1. PICK m \in DOMAIN f.index : f.index[m].id \in Rows /\ c = row(m)
    BY <1>3, <1>4, <1>10
  <2>2. f.index[m].id = r /\ c.slot = m
    BY <1>4, <1>11, <2>1 DEF Matches
  <2>3. row(n) \in s.cache /\ row(n).id = r /\ row(n).slot = n
    BY <1>2, <1>3, <1>5, <1>10, <1>11
  <2>4. m <= n
    BY <1>4, <2>2, <2>3 DEF Matches
  <2>5. ~(m < n)
    <3>1. m \in 1 .. Len(f.index) /\ n \in 1 .. Len(f.index)
      BY <1>7
    <3>2. m < n => m \in 1 .. n - 1
      BY <1>7, <3>1
    <3> QED BY <1>5, <2>2, <3>2
  <2>6. m = n
    BY <1>7, <2>4, <2>5
  <2> QED BY <2>1, <2>3, <2>6
<1>14. \A m \in DOMAIN f.index : row(m) = c <=> m = n
  BY <1>11, <1>13
<1>15. Load(g.index) = Load(f.index) \ {c}
  <2>1. \A x : x \in Load(g.index) <=> x \in Load(f.index) /\ x # c
    BY <1>10, <1>12, <1>14
  <2> QED BY <2>1
<1>16. SameBut(b, files, files') /\ b \in DOMAIN files' /\ files'[b] = g
  BY <1>9 DEF SameBut, WithFile
<1>17. Faithful([shards EXCEPT ![k] = a], files')
  <2>1. Exact(a, files')
    BY <1>3, <1>6, <1>8, <1>15, <1>16 DEF Exact
  <2>2. a.base = shards[k].base
    BY <1>6 DEF b
  <2> QED BY <1>2, <1>6, <1>16, <2>1, <2>2, ReplaceFaithful
<1>18. Stored(files') \in {Stored(files), Stored(files) \ {r}}
  <2>1. Ids(f.index) = {x.id : x \in Load(f.index)} /\ Ids(g.index) = {x.id : x \in Load(f.index) \ {c}}
    BY <1>7, <1>8, <1>15, LoadIds
  <2>2. c \in Load(f.index) /\ c.id = r
    BY <1>3, <1>13
  <2>3. CASE \E x \in Load(f.index) \ {c} : x.id = r
    <3>1. Ids(g.index) = Ids(f.index)
      BY <2>1, <2>2, <2>3
    <3>2. FileOf(files', b).index = g.index /\ FileOf(files, b).index = f.index
      BY <1>16 DEF FileOf, f
    <3> QED BY <1>16, <3>1, <3>2, StoredFollows
  <2>4. CASE ~ \E x \in Load(f.index) \ {c} : x.id = r
    <3>1. Ids(g.index) = Ids(f.index) \ {r}
      BY <2>1, <2>2, <2>4
    <3>2. FileOf(files', b).index = g.index /\ FileOf(files, b).index = f.index
      BY <1>16 DEF FileOf, f
    <3> QED BY <1>16, <3>1, <3>2, StoredFollows
  <2> QED BY <2>3, <2>4
<1> QED BY <1>9, <1>17, <1>18, StoredIsRows DEF RowRemoved

LEMMA InsertFaithful ==
  ASSUME ExactInv, ~damaged, NEW t \in Threads, Insert(t), Apart(shards)', ~damaged'
  PROVE  Faithful(shards, files)' /\ \E r \in Rows : RowAdded(r)
<1> DEFINE r == call[t].row
<1>1. r \in Rows
  BY DEF ExactInv, ShardsInv, Rest, Insert, Calls, Idle
<1>2. InsertNewest(r) \/ InsertOldest(r) \/ InsertHere(r) \/ InsertSplit(r)
  BY DEF Insert
<1> HIDE DEF r
<1>3. Faithful(shards, files)' /\ RowAdded(r)
  BY <1>1, <1>2, InsertNewestFaithful, InsertOldestFaithful, InsertHereFaithful,
     InsertSplitFaithful DEF ExactInv, ShardsInv
<1> QED BY <1>1, <1>3

-----------------------------------------------------------------------------
(* The theorems on caches and rows *)

LEMMA ExactStep ==
  ExactInv /\ ~damaged' /\ BasesApart' /\ [Next]_vars =>
    /\ Faithful(shards, files)'
    /\ \/ StoredRows' = StoredRows
       \/ \E r \in Rows : RowAdded(r) \/ RowRemoved(r)
<1> DEFINE Kept == /\ Faithful(shards, files)'
                   /\ \/ StoredRows' = StoredRows
                      \/ \E r \in Rows : RowAdded(r) \/ RowRemoved(r)
<1> SUFFICES ASSUME ExactInv, Apart(shards)', ~damaged', [Next]_vars PROVE Kept
  BY DEF BasesApart
<1>1. ~damaged
  BY DEF Next, vars
<1>2. CASE UNCHANGED <<shards, files>>
  BY <1>1, <1>2, StoredIsRows DEF ExactInv
<1>3. ASSUME NEW t \in Threads, NEW r \in Rows, NEW want, Find(t, r, want) PROVE Kept
  BY <1>1, <1>3, FindFaithful
<1>4. ASSUME NEW t \in Threads, Get(t) PROVE Kept
  BY <1>1, <1>4, GetFaithful
<1>5. ASSUME NEW t \in Threads, Insert(t) PROVE Kept
  BY <1>1, <1>5, InsertFaithful
<1>6. ASSUME NEW r \in Rows, Erase(r) PROVE Kept
  BY <1>1, <1>6, EraseFaithful
<1>7. ASSUME NEW k \in DOMAIN shards, Close(k) PROVE Kept
  BY <1>1, <1>7, CloseFaithful
<1>8. CASE Restart
  BY <1>1, <1>8, RestartFaithful
<1>9. ASSUME NEW t \in Threads, NEW r \in Rows, FindNone(t, r) PROVE Kept
  BY <1>2, <1>9 DEF FindNone
<1>10. CASE UNCHANGED vars
  BY <1>2, <1>10 DEF vars
<1> HIDE DEF Kept
<1> QED BY <1>3, <1>4, <1>5, <1>6, <1>7, <1>8, <1>9, <1>10 DEF Next

LEMMA ExactInvariant == Spec /\ []BasesApart => []ExactInv
<1>1. Init => Faithful(shards, files)
  BY DEF Init, Faithful, Apart
<1>2. ExactInv /\ BasesApart' /\ [Next]_vars => damaged' \/ Faithful(shards, files)'
  BY ExactStep
<1>3. ExactInv <=> ShardsInv /\ (damaged \/ Faithful(shards, files))
  BY DEF ExactInv
<1> HIDE DEF ExactInv, BasesApart
<1> QED BY <1>1, <1>2, <1>3, ShardsInvariance, PTL DEF Spec

\* As long as no two shards have one base, and until an insertion that follows
\* an erasure damages the index, what an open shard has in memory is what its
\* index file would load, whatever inserts, splits, erasures, closings and
\* restarts did to it.
THEOREM CachesExact == Spec /\ []BasesApart => []CacheIsFile
<1>1. ExactInv => CacheIsFile
  BY DEF ExactInv, Faithful, Exact, CacheIsFile, FileOf
<1> QED BY <1>1, ExactInvariant, PTL

\* As long as no two shards have one base, the content of whatever a cache
\* offers to readers is in the file, be the index damaged or not.
THEOREM ContentReadable == Spec /\ []BasesApart => []ContentPresent
<1>1. ShardsInv /\ BasesApart => ContentPresent
  <2> SUFFICES ASSUME ShardsInv, BasesApart,
                      NEW k \in DOMAIN shards, NEW c \in shards[k].cache
               PROVE  c.offset < Len(FileOf(files, shards[k].base).content)
    BY DEF ContentPresent
  <2>1. shards[k].open
    BY DEF ShardsInv, Sound, CachesFinite
  <2>2. Leads(shards, k)
    BY DEF BasesApart, Apart, Leads
  <2>3. shards[k].base \in DOMAIN files /\ Within(shards[k], files[shards[k].base])
    BY <2>1, <2>2 DEF ShardsInv, Sound, CachesWithin
  <2> QED BY <2>3 DEF Within, FileOf
<1> HIDE DEF BasesApart
<1> QED BY <1>1, ShardsInvariance, PTL

\* As long as no two shards have one base, and until an insertion that follows
\* an erasure damages the index, the files hold a set of rows to which only
\* insert and erase add or remove one: splits, copies, reopening and restarts
\* neither lose nor make a row.
THEOREM RowsKept == Spec /\ []BasesApart => ImplementsRowStore
<1>1. Init => Store!Init
  BY DEF Init, Store!Init, StoredRows
<1>2. ExactInv /\ BasesApart' /\ [Next]_vars => [~damaged' => Store!Next]_StoredRows
  <2> SUFFICES ASSUME ExactInv, BasesApart', [Next]_vars, ~damaged'
               PROVE  StoredRows' = StoredRows \/ Store!Next
    OBVIOUS
  <2>1. StoredRows' = StoredRows \/ \E r \in Rows : RowAdded(r) \/ RowRemoved(r)
    BY ExactStep
  <2> QED BY <2>1 DEF RowAdded, RowRemoved, Store!Next, Store!Add, Store!Remove
<1> HIDE DEF ExactInv, BasesApart
<1> QED BY <1>1, <1>2, ExactInvariant, PTL DEF Spec, ImplementsRowStore

=============================================================================

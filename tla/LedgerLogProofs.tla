--------------------------- MODULE LedgerLogProofs ---------------------------
(***************************************************************************)
(* Safety of LedgerLog, and its refinement of DurableLog, for any number   *)
(* of records, generations, crashes and failing I/O calls, on a disk that  *)
(* SafeDisk describes.                                                     *)
(*                                                                         *)
(* Every directory a crash may leave is sound: it opens to a log that      *)
(* begins the current one and holds all that anybody relies on.  A roll, a *)
(* compaction and a repair only move to another directory with the same    *)
(* log; a write makes all the logs longer; a crash picks one of them.      *)
(***************************************************************************)
EXTENDS LedgerLog, WellFoundedInduction, SequenceTheorems, TLAPS

-----------------------------------------------------------------------------
(* What a directory holds                                                  *)

\* A sealed generation as the manifest describes it.
Seg == [recs : Seq(Record), compressed : BOOLEAN]

\* A file of the ledger.
File == [recs : Seq(Record), synced : Nat, torn : BOOLEAN]

\* No I/O call of a roll fails past its rename.
RollsFinish == Faults \cap {"renamed", "created", "committed"} = {}

\* The disk the theorems are about.  A file's sync makes its name durable, no
\* kill leaves behind what only the page cache has, and the save of a switched
\* manifest does not fail after its rename.  A compaction finds no roll half
\* done when it switches the manifest: it looks at the status, which the code
\* does not, or no roll fails past its rename.
SafeDisk ==
    /\ NamesSynced
    /\ ~DirtyKills
    /\ "switched" \notin Faults
    /\ CompactsWhen \subseteq {"healthy"} \/ RollsFinish

\* Files of which no more is durable than there is.
GoodFiles(fs) ==
    /\ fs \in Seq(File)
    /\ \A i \in 1..Len(fs) : fs[i].synced <= Len(fs[i].recs)

\* Nothing of file i can be lost.
Still(fs, i) == fs[i].synced = Len(fs[i].recs) /\ ~fs[i].torn

\* What a replay of directory d visits when the files are fs.
Logged(fs, d) ==
    Concat(resolveSegments(d)) \o (IF d.active = 0 THEN <<>> ELSE fs[d.active].recs)

\* How many records of d no crash takes away.
Firm(fs, d) ==
    Len(Concat(resolveSegments(d))) + (IF d.active = 0 THEN 0 ELSE fs[d.active].synced)

\* Directory d names files of fs, the active one under one name.
Formed(fs, d) ==
    /\ d = [active |-> d.active, wal |-> d.wal, gz |-> d.gz, manifest |-> d.manifest]
    /\ d.manifest \in [segs : Seq(Seg), pending : Seq(Record)]
    /\ d.active \in 0..Len(fs)
    /\ \A g \in DOMAIN d.wal : d.wal[g] \in 1..Len(fs) /\ d.wal[g] # d.active

\* Directory d holds the sealed generations segs, each whole and durable.
Sealed(fs, d, segs) ==
    \A g \in 1..Len(segs) :
        IF segs[g].compressed
        THEN g \in DOMAIN d.gz /\ d.gz[g] = segs[g].recs
        ELSE /\ g \in DOMAIN d.wal
             /\ fs[d.wal[g]].recs = segs[g].recs
             /\ Still(fs, d.wal[g])

\* What the checkpoint and the callers rely on lasts.
Relied(fs, cp, ak, wr, d) ==
    /\ cp.gen <= Len(resolveSegments(d)) + 1
    /\ cp.count <= Firm(fs, d)
    /\ cp.count > 0 => cp.id = Logged(fs, d)[cp.count].id
    /\ ak <= Firm(fs, d)
    /\ Len(Logged(fs, d)) <= wr

\* Opening d finds every generation whole, the chain unbroken, and all that
\* anybody relies on.
Sound(fs, cp, ak, wr, d) ==
    /\ Formed(fs, d)
    /\ Sealed(fs, d, resolveSegments(d))
    /\ Linked(Logged(fs, d))
    /\ Relied(fs, cp, ak, wr, d)

\* t begins with s.
Begins(s, t) == Len(s) <= Len(t) /\ \A i \in 1..Len(s) : t[i] = s[i]

\* Every directory a crash may leave is sound, and none is ahead of the last.
AllSound(ds, fs, cp, ak, wr) ==
    \A d \in Range(ds) :
        Sound(fs, cp, ak, wr, d) /\ Begins(Logged(fs, d), Logged(fs, Last(ds)))

\* The history in memory.
History(fs, i, segs, n) == Concat(segs) \o SubSeq(fs[i].recs, 1, n)

\* What the memory of a running log has of d.
Known(fs, i, segs, n, d) ==
    /\ Sealed(fs, d, segs)
    /\ Len(segs) <= Len(resolveSegments(d))
    /\ \A g \in 1..Len(segs) : resolveSegments(d)[g].recs = segs[g].recs
    /\ Begins(History(fs, i, segs, n), Logged(fs, d))
    /\ Len(History(fs, i, segs, n)) <= Firm(fs, d)

\* The open file may be written to.
Writable(i, segs, n, d) ==
    /\ Len(d.manifest.segs) = Len(segs)
    /\ ~Rolled(d)
    /\ d.active = i \/ (d.active = 0 /\ n = 0)
    /\ \A g \in DOMAIN d.wal : d.wal[g] # i

\* A file that has a name in one directory has it in the later ones.
Ordered(s) == \A k \in 1..Len(s) : s[k].active = 0 => \A m \in 1..k : s[m].active = 0

\* Induction, over a set in place of a formula.
LEMMA Ind ==
    ASSUME NEW S, 0 \in S, \A n \in Nat : n \in S => n + 1 \in S
    PROVE  Nat \subseteq S
<1> DEFINE T == Nat \ S
           R == {ss \in Nat \X Nat : ss[1] < ss[2]}
<1>1. SUFFICES ASSUME T # {} PROVE FALSE
  OBVIOUS
<1>0. IsWellFoundedOn(R, Nat)
  BY NatLessThanWellFounded DEF OpToRel
<1>2. PICK x \in T : \A y \in T : ~(<<y,x>> \in R)
  <2> HIDE DEF R
  <2>1. T \subseteq Nat
    OBVIOUS
  <2> HIDE DEF T
  <2> QED BY <1>0, <1>1, <2>1, WFMin
<1>3. x \in Nat /\ x # 0 /\ x-1 \in Nat /\ x - 1 < x /\ (x-1)+1 = x
  OBVIOUS
<1>4. x-1 \in T
  BY <1>3
<1>5. <<x-1,x>> \in R
  BY <1>3
<1> QED BY <1>2, <1>4, <1>5

\* h[i] is the concatenation of the first i members of s.
Partial(s, h, n) ==
    \A i \in 1..n : h[i] = IF i = 1 THEN s[i] ELSE h[i - 1] \o s[i]

\* The partial concatenations of a sequence of sequences exist.
LEMMA PartialExists ==
    ASSUME NEW s \in Seq(Seq(Record))
    PROVE  \E h \in [1..Len(s) -> Seq(Record)] : Partial(s, h, Len(s))
<1> DEFINE P(n) == n <= Len(s) => \E h \in [1..n -> Seq(Record)] : Partial(s, h, n)
           S == {n \in Nat : P(n)}
<1>1. 0 \in S
  <2>1. [i \in 1..0 |-> <<>>] \in [1..0 -> Seq(Record)] /\ 1..0 = {}
    OBVIOUS
  <2> QED BY <2>1 DEF Partial
<1>2. ASSUME NEW n \in Nat, n \in S PROVE n + 1 \in S
  <2>1. SUFFICES ASSUME n + 1 <= Len(s) PROVE \E h \in [1..(n+1) -> Seq(Record)] : Partial(s, h, n + 1)
    OBVIOUS
  <2>2. Len(s) \in Nat /\ n <= Len(s) /\ n + 1 \in 1..Len(s)
    BY <2>1
  <2>3. PICK h \in [1..n -> Seq(Record)] : Partial(s, h, n)
    BY <1>2, <2>2
  <2>4. s[n + 1] \in Seq(Record)
    BY <2>2
  <2> DEFINE v == IF n = 0 THEN s[n + 1] ELSE h[n] \o s[n + 1]
             f == [i \in 1..(n+1) |-> IF i = n + 1 THEN v ELSE h[i]]
  <2>5. v \in Seq(Record)
    <3>1. CASE n = 0
      BY <3>1, <2>4
    <3>2. CASE n # 0
      <4>1. h[n] \in Seq(Record)
        BY <3>2
      <4> QED BY <3>2, <4>1, <2>4
    <3> QED BY <3>1, <3>2
  <2> HIDE DEF v
  <2>6. f \in [1..(n+1) -> Seq(Record)]
    BY <2>5
  <2>7. ASSUME NEW i \in 1..(n+1) PROVE f[i] = IF i = 1 THEN s[i] ELSE f[i - 1] \o s[i]
    <3>1. CASE i = n + 1
      <4>1. f[i] = v
        BY <3>1
      <4>2. CASE n = 0
        BY <4>1, <4>2, <3>1 DEF v
      <4>3. CASE n # 0
        <5>1. f[i - 1] = h[n] /\ i # 1
          BY <4>3, <3>1
        <5> QED BY <5>1, <4>1, <4>3, <3>1 DEF v
      <4> QED BY <4>2, <4>3
    <3>2. CASE i # n + 1
      <4>1. i \in 1..n /\ f[i] = h[i]
        BY <3>2
      <4>2. i # 1 => f[i - 1] = h[i - 1]
        BY <4>1
      <4> QED BY <4>1, <4>2, <2>3 DEF Partial
    <3> QED BY <3>1, <3>2
  <2> HIDE DEF f
  <2> QED BY <2>6, <2>7 DEF Partial
<1> HIDE DEF P
<1>3. Nat \subseteq S
  <2> HIDE DEF S
  <2> QED BY <1>1, <1>2, Ind
<1>4. Len(s) \in S
  BY <1>3
<1>5. P(Len(s))
  BY <1>4
<1> QED BY <1>5 DEF P

\* Two of them agree where the sequences do.
LEMMA PartialAgrees ==
    ASSUME NEW n \in Nat, NEW s, NEW t, NEW h, NEW f,
           Partial(s, h, n), Partial(t, f, n),
           \A i \in 1..n : s[i] = t[i]
    PROVE  \A i \in 1..n : h[i] = f[i]
<1> DEFINE S == {i \in Nat : i \in 1..n => h[i] = f[i]}
<1>1. 0 \in S
  OBVIOUS
<1>2. ASSUME NEW i \in Nat, i \in S PROVE i + 1 \in S
  <2>1. SUFFICES ASSUME i + 1 \in 1..n PROVE h[i + 1] = f[i + 1]
    OBVIOUS
  <2>0. s[i + 1] = t[i + 1]
    BY <2>1
  <2>2. h[i + 1] = IF i + 1 = 1 THEN s[i + 1] ELSE h[i] \o s[i + 1]
    <3>1. (i + 1) - 1 = i
      OBVIOUS
    <3> QED BY <2>1, <3>1 DEF Partial
  <2>3. f[i + 1] = IF i + 1 = 1 THEN t[i + 1] ELSE f[i] \o t[i + 1]
    <3>1. (i + 1) - 1 = i
      OBVIOUS
    <3> QED BY <2>1, <3>1 DEF Partial
  <2>4. CASE i = 0
    BY <2>4, <2>2, <2>3, <2>0
  <2>5. CASE i # 0
    <3>1. i \in 1..n
      BY <2>5, <2>1
    <3>2. h[i] = f[i]
      BY <3>1, <1>2
    <3> QED BY <3>2, <2>2, <2>3, <2>0
  <2> QED BY <2>4, <2>5
<1>3. Nat \subseteq S
  <2> HIDE DEF S
  <2> QED BY <1>1, <1>2, Ind
<1> QED BY <1>3

\* The records of the segments.
RecsOf(segs) == [g \in DOMAIN segs |-> segs[g].recs]

\* RecsOf is a sequence of sequences of records.
LEMMA RecsOfSeq ==
    ASSUME NEW segs \in Seq(Seg)
    PROVE  /\ RecsOf(segs) \in Seq(Seq(Record))
           /\ Len(RecsOf(segs)) = Len(segs)
           /\ \A g \in 1..Len(segs) : RecsOf(segs)[g] = segs[g].recs
<1>1. DOMAIN segs = 1..Len(segs) /\ Len(segs) \in Nat
  OBVIOUS
<1>2. ASSUME NEW g \in 1..Len(segs) PROVE segs[g].recs \in Seq(Record)
  <2>1. segs[g] \in Seg
    BY <1>1, ElementOfSeq
  <2> QED BY <2>1 DEF Seg
<1> QED BY <1>1, <1>2 DEF RecsOf

\* Concat, which FlattenSeq defines by a recursive function, is the last of the
\* partial concatenations.
LEMMA ConcatIs ==
    ASSUME NEW segs \in Seq(Seg), segs # <<>>
    PROVE  \E h \in [1..Len(segs) -> Seq(Record)] :
              Partial(RecsOf(segs), h, Len(segs)) /\ Concat(segs) = h[Len(segs)]
<1> DEFINE s == RecsOf(segs)
<1>1. s \in Seq(Seq(Record)) /\ Len(s) = Len(segs) /\ Len(s) \in Nat \ {0}
  <2>1. Len(segs) \in Nat \ {0}
    BY EmptySeq
  <2> QED BY RecsOfSeq, <2>1
<1> HIDE DEF s
<1>2. PICK h \in [1..Len(s) -> Seq(Record)] : Partial(s, h, Len(s))
  BY <1>1, PartialExists
<1>3. h = [i \in 1..Len(s) |-> IF i = 1 THEN s[i] ELSE h[i-1] \o s[i]]
  BY <1>2 DEF Partial
<1> DEFINE f == CHOOSE f : f = [i \in 1..Len(s) |-> IF i = 1 THEN s[i] ELSE f[i-1] \o s[i]]
<1>4. f = [i \in 1..Len(s) |-> IF i = 1 THEN s[i] ELSE f[i-1] \o s[i]]
  BY <1>3
<1>5. FlattenSeq(s) = f[Len(s)]
  BY <1>1 DEF FlattenSeq
<1> HIDE DEF f
<1>6. Partial(s, f, Len(s))
  BY <1>4 DEF Partial
<1>7. f[Len(s)] = h[Len(s)]
  <2>1. \A i \in 1..Len(s) : f[i] = h[i]
    BY <1>1, <1>2, <1>6, PartialAgrees
  <2> QED BY <2>1, <1>1
<1>8. Concat(segs) = FlattenSeq(s)
  BY DEF Concat, s, RecsOf
<1> QED BY <1>1, <1>2, <1>5, <1>7, <1>8 DEF s

\* No generation, no record.
LEMMA ConcatEmpty == Concat(<<>>) = <<>>
<1>1. RecsOf(<<>>) = <<>>
  BY DEF RecsOf
<1>2. FlattenSeq(<<>>) = <<>>
  BY DEF FlattenSeq
<1> QED BY <1>1, <1>2 DEF Concat, RecsOf

\* Concat is a sequence of records.
LEMMA ConcatType ==
    ASSUME NEW segs \in Seq(Seg)
    PROVE  Concat(segs) \in Seq(Record)
<1>1. CASE segs = <<>>
  <2>1. <<>> \in Seq(Record)
    BY EmptySeq
  <2> QED BY <1>1, <2>1, ConcatEmpty
<1>2. CASE segs # <<>>
  <2>1. Len(segs) \in 1..Len(segs)
    <3>1. Len(segs) \in Nat \ {0}
      BY <1>2, EmptySeq
    <3> QED BY <3>1
  <2> QED BY <1>2, <2>1, ConcatIs
<1> QED BY <1>1, <1>2

\* Concat looks at the records of the generations, not at how they are stored.
LEMMA ConcatSame ==
    ASSUME NEW s \in Seq(Seg), NEW t \in Seq(Seg), Len(s) = Len(t),
           \A g \in 1..Len(s) : s[g].recs = t[g].recs
    PROVE  Concat(s) = Concat(t)
<1>1. CASE s = <<>>
  <2>1. t = <<>>
    BY <1>1, EmptySeq
  <2> QED BY <1>1, <2>1
<1>2. CASE s # <<>>
  <2>1. Len(s) \in Nat \ {0} /\ t # <<>>
    BY <1>2, EmptySeq
  <2>2. PICK h : Partial(RecsOf(s), h, Len(s)) /\ Concat(s) = h[Len(s)]
    BY <1>2, ConcatIs
  <2>3. PICK f : Partial(RecsOf(t), f, Len(t)) /\ Concat(t) = f[Len(t)]
    BY <2>1, ConcatIs
  <2>4. \A g \in 1..Len(s) : RecsOf(s)[g] = RecsOf(t)[g]
    BY RecsOfSeq
  <2>5. \A g \in 1..Len(s) : h[g] = f[g]
    BY <2>1, <2>2, <2>3, <2>4, PartialAgrees
  <2> QED BY <2>1, <2>2, <2>3, <2>5
<1> QED BY <1>1, <1>2

\* Sealing one more generation adds its records.
LEMMA ConcatAppend ==
    ASSUME NEW s \in Seq(Seg), NEW x \in Seg
    PROVE  Concat(Append(s, x)) = Concat(s) \o x.recs
<1> DEFINE t == Append(s, x)
           n == Len(s)
<1>1. /\ t \in Seq(Seg) /\ t # <<>> /\ n \in Nat /\ Len(t) = n + 1
      /\ \A g \in 1..n : t[g] = s[g]
      /\ t[n + 1] = x
      /\ x.recs \in Seq(Record)
  <2>1. x.recs \in Seq(Record)
    BY DEF Seg
  <2> QED BY <2>1, AppendProperties
<1> HIDE DEF t
<1>2. PICK f : Partial(RecsOf(t), f, n + 1) /\ Concat(t) = f[n + 1]
  BY <1>1, ConcatIs
<1>3. RecsOf(t)[n + 1] = x.recs
  <2>1. \A g \in 1..(n + 1) : RecsOf(t)[g] = t[g].recs
    BY RecsOfSeq, <1>1
  <2> QED BY <1>1, <2>1
<1>4. CASE s = <<>>
  <2>1. n = 0 /\ Concat(s) = <<>>
    BY <1>4, ConcatEmpty
  <2>2. f[1] = x.recs
    BY <1>2, <1>3, <2>1 DEF Partial
  <2>3. <<>> \o x.recs = x.recs
    BY <1>1
  <2> QED BY <1>2, <2>1, <2>2, <2>3 DEF t
<1>5. CASE s # <<>>
  <2>1. n \in Nat \ {0}
    BY <1>5, EmptySeq
  <2>2. PICK h : Partial(RecsOf(s), h, n) /\ Concat(s) = h[n]
    BY <1>5, ConcatIs
  <2>3. \A g \in 1..n : RecsOf(s)[g] = RecsOf(t)[g]
    <3>1. \A g \in 1..n : RecsOf(s)[g] = s[g].recs
      BY RecsOfSeq
    <3>2. \A g \in 1..n + 1 : RecsOf(t)[g] = t[g].recs
      BY RecsOfSeq, <1>1
    <3> QED BY <3>1, <3>2, <1>1
  <2>4. Partial(RecsOf(t), f, n)
    BY <1>2, <1>1 DEF Partial
  <2>5. \A g \in 1..n : h[g] = f[g]
    BY <1>1, <2>2, <2>4, <2>3, PartialAgrees
  <2>6. f[n + 1] = f[n] \o x.recs
    <3>1. (n + 1) - 1 = n /\ n + 1 # 1 /\ n + 1 \in 1..(n + 1)
      BY <2>1
    <3> QED BY <1>2, <1>3, <3>1 DEF Partial
  <2>7. f[n] = h[n]
    BY <2>5, <2>1
  <2> QED BY <1>2, <2>2, <2>6, <2>7 DEF t
<1> QED BY <1>4, <1>5

\* What resolveSegments returns are generations.
LEMMA ResolveType ==
    ASSUME NEW d, d.manifest \in [segs : Seq(Seg), pending : Seq(Record)]
    PROVE  /\ resolveSegments(d) \in Seq(Seg)
           /\ d.manifest.segs \in Seq(Seg)
           /\ d.manifest.pending \in Seq(Record)
<1>1. d.manifest.segs \in Seq(Seg) /\ d.manifest.pending \in Seq(Record)
  OBVIOUS
<1>2. Segment(d.manifest.pending, FALSE) \in Seg
  BY <1>1 DEF Segment, Seg
<1>3. Append(d.manifest.segs, Segment(d.manifest.pending, FALSE)) \in Seq(Seg)
  BY <1>1, <1>2, AppendProperties
<1> QED BY <1>1, <1>3 DEF resolveSegments

\* What is known of each file.
LEMMA FileType ==
    ASSUME NEW fs, GoodFiles(fs), NEW i \in 1..Len(fs)
    PROVE  /\ fs[i] \in File
           /\ fs[i].recs \in Seq(Record)
           /\ Len(fs[i].recs) \in Nat
           /\ fs[i].synced \in Nat
           /\ fs[i].synced <= Len(fs[i].recs)
           /\ fs[i].torn \in BOOLEAN
<1>1. fs[i] \in File
  BY ElementOfSeq DEF GoodFiles
<1>2. fs[i].recs \in Seq(Record) /\ fs[i].synced \in Nat /\ fs[i].torn \in BOOLEAN
  BY <1>1 DEF File
<1> QED BY <1>1, <1>2 DEF GoodFiles

\* The log of a well-formed directory, and how much of it is durable.
LEMMA LoggedType ==
    ASSUME NEW fs, GoodFiles(fs), NEW d, Formed(fs, d)
    PROVE  /\ resolveSegments(d) \in Seq(Seg)
           /\ Concat(resolveSegments(d)) \in Seq(Record)
           /\ Len(Concat(resolveSegments(d))) \in Nat
           /\ Logged(fs, d) \in Seq(Record)
           /\ Len(Logged(fs, d)) \in Nat
           /\ Firm(fs, d) \in Nat
           /\ Firm(fs, d) <= Len(Logged(fs, d))
           /\ Len(Concat(resolveSegments(d))) <= Firm(fs, d)
           /\ \A n \in 1..Len(Logged(fs, d)) : Logged(fs, d)[n] \in Record
<1>1. resolveSegments(d) \in Seq(Seg)
  BY ResolveType DEF Formed
<1>2. Concat(resolveSegments(d)) \in Seq(Record)
  BY <1>1, ConcatType
<1> DEFINE c == Concat(resolveSegments(d))
           a == IF d.active = 0 THEN <<>> ELSE fs[d.active].recs
           y == IF d.active = 0 THEN 0 ELSE fs[d.active].synced
<1>3. a \in Seq(Record) /\ y \in Nat /\ y <= Len(a) /\ Len(a) \in Nat
  <2>1. CASE d.active = 0
    BY <2>1
  <2>2. CASE d.active # 0
    <3>1. d.active \in 1..Len(fs)
      BY <2>2 DEF Formed, GoodFiles
    <3> QED BY <2>2, <3>1, FileType
  <2> QED BY <2>1, <2>2
<1>4. Logged(fs, d) = c \o a /\ Firm(fs, d) = Len(c) + y
  BY DEF Logged, Firm
<1> HIDE DEF c, a, y
<1>5. c \in Seq(Record) /\ Len(c) \in Nat
  BY <1>2 DEF c
<1>6. c \o a \in Seq(Record) /\ Len(c \o a) = Len(c) + Len(a)
  BY <1>3, <1>5, ConcatProperties
<1>7. \A n \in 1..Len(c \o a) : (c \o a)[n] \in Record
  BY <1>6, ElementOfSeq
<1> QED BY <1>1, <1>3, <1>4, <1>5, <1>6, <1>7 DEF c

\* A sequence begins with itself.
LEMMA BeginsItself ==
    ASSUME NEW s \in Seq(Record)
    PROVE  Begins(s, s)
BY DEF Begins

\* A directory with the log of a sound one, and no less of it durable or sealed,
\* is sound.
LEMMA SoundMoves ==
    ASSUME NEW fs, NEW cp \in [gen : Nat, count : Nat, id : Nat], NEW ak \in Nat, NEW wr \in Nat,
           GoodFiles(fs), NEW d, Sound(fs, cp, ak, wr, d),
           NEW e, Formed(fs, e), Sealed(fs, e, resolveSegments(e)),
           Logged(fs, e) = Logged(fs, d),
           Firm(fs, e) >= Firm(fs, d),
           Len(resolveSegments(e)) >= Len(resolveSegments(d))
    PROVE  Sound(fs, cp, ak, wr, e)
<1>1. /\ Firm(fs, d) \in Nat /\ Firm(fs, e) \in Nat
      /\ Len(resolveSegments(d)) \in Nat /\ Len(resolveSegments(e)) \in Nat
  BY LoggedType DEF Sound
<1>2. cp.gen \in Nat /\ cp.count \in Nat
  OBVIOUS
<1> QED BY <1>1, <1>2 DEF Sound, Relied

\* And the memory has of it what it had of the other.
LEMMA KnownMoves ==
    ASSUME NEW fs, GoodFiles(fs), NEW i, NEW segs \in Seq(Seg), NEW n,
           Len(History(fs, i, segs, n)) \in Nat,
           NEW d, Formed(fs, d), Known(fs, i, segs, n, d),
           NEW e, Formed(fs, e), Sealed(fs, e, segs),
           Len(segs) <= Len(resolveSegments(e)),
           \A g \in 1..Len(segs) : resolveSegments(e)[g].recs = segs[g].recs,
           Logged(fs, e) = Logged(fs, d),
           Firm(fs, e) >= Firm(fs, d)
    PROVE  Known(fs, i, segs, n, e)
<1>1. Firm(fs, d) \in Nat /\ Firm(fs, e) \in Nat
  BY LoggedType
<1> QED BY <1>1 DEF Known

\* A new last directory with the log of the one before keeps all sound.
LEMMA AllSoundMoves ==
    ASSUME NEW fs, NEW cp, NEW ak, NEW wr, GoodFiles(fs),
           NEW ds, NEW es, NEW e, AllSound(ds, fs, cp, ak, wr),
           Last(ds) \in Range(ds),
           Range(es) \subseteq Range(ds) \cup {e}, Last(es) = e,
           Sound(fs, cp, ak, wr, e), Logged(fs, e) = Logged(fs, Last(ds))
    PROVE  AllSound(es, fs, cp, ak, wr)
<1>1. SUFFICES ASSUME NEW d \in Range(es)
               PROVE  Sound(fs, cp, ak, wr, d) /\ Begins(Logged(fs, d), Logged(fs, e))
  BY DEF AllSound
<1>2. CASE d = e
  <2>1. Logged(fs, e) \in Seq(Record)
    BY LoggedType DEF Sound
  <2> QED BY <1>2, <2>1, BeginsItself
<1>3. CASE d \in Range(ds)
  BY <1>3 DEF AllSound
<1> QED BY <1>2, <1>3

\* A directory whose files did not change holds what it held.
LEMMA SameFiles ==
    ASSUME NEW fs, NEW gs, GoodFiles(fs), Len(gs) \in Nat, Len(fs) <= Len(gs),
           NEW d, Formed(fs, d),
           \A g \in DOMAIN d.wal : gs[d.wal[g]] = fs[d.wal[g]],
           d.active # 0 => gs[d.active] = fs[d.active]
    PROVE  /\ Formed(gs, d)
           /\ Logged(gs, d) = Logged(fs, d)
           /\ Firm(gs, d) = Firm(fs, d)
           /\ \A segs : Sealed(fs, d, segs) => Sealed(gs, d, segs)
<1>1. Formed(gs, d)
  <2>1. Len(fs) \in Nat
    BY DEF GoodFiles
  <2> QED BY <2>1 DEF Formed
<1>2. Logged(gs, d) = Logged(fs, d)
  BY DEF Logged
<1>3. Firm(gs, d) = Firm(fs, d)
  BY DEF Firm
<1>4. ASSUME NEW segs, Sealed(fs, d, segs) PROVE Sealed(gs, d, segs)
  BY <1>4 DEF Sealed, Still
<1> QED BY <1>1, <1>2, <1>3, <1>4

\* So it stays sound.
LEMMA SameSound ==
    ASSUME NEW fs, NEW gs, NEW cp, NEW ak, NEW wr, NEW d,
           Sound(fs, cp, ak, wr, d), Formed(gs, d),
           Logged(gs, d) = Logged(fs, d), Firm(gs, d) = Firm(fs, d),
           \A segs : Sealed(fs, d, segs) => Sealed(gs, d, segs)
    PROVE  Sound(gs, cp, ak, wr, d)
BY DEF Sound, Relied

\* A name changes: the directories so far and the new one.
LEMMA LastAppend ==
    ASSUME NEW s, s \in Seq(Range(s)), NEW e
    PROVE  /\ Append(s, e) \in Seq(Range(Append(s, e)))
           /\ Append(s, e) # <<>>
           /\ Range(Append(s, e)) = Range(s) \cup {e}
           /\ Last(Append(s, e)) = e
           /\ Len(Append(s, e)) = Len(s) + 1
           /\ \A k \in 1..Len(s) : Append(s, e)[k] = s[k]
<1> DEFINE T == Range(s) \cup {e}
           t == Append(s, e)
<1>1. s \in Seq(T) /\ e \in T
  BY SeqMonotonic
<1> HIDE DEF T
<1>2. /\ t \in Seq(T) /\ t # <<>> /\ Len(s) \in Nat /\ Len(t) = Len(s) + 1
      /\ \A k \in 1..Len(s) : t[k] = s[k]
      /\ t[Len(s) + 1] = e
  BY <1>1, AppendProperties
<1> HIDE DEF t
<1>3. Range(t) = {t[k] : k \in 1..Len(t)} /\ t \in Seq(Range(t))
  BY <1>2, RangeEquality, SeqOfRange
<1>4. Range(s) = {s[k] : k \in 1..Len(s)}
  BY RangeEquality
<1>5. Range(t) \subseteq Range(s) \cup {e}
  <2>1. SUFFICES ASSUME NEW k \in 1..(Len(s) + 1) PROVE t[k] \in Range(s) \cup {e}
    BY <1>2, <1>3
  <2>2. CASE k \in 1..Len(s)
    BY <2>2, <1>2, <1>4
  <2>3. CASE k = Len(s) + 1
    BY <2>3, <1>2
  <2> QED BY <1>2, <2>2, <2>3
<1>6. Range(s) \cup {e} \subseteq Range(t)
  <2>1. \A k \in 1..Len(s) : s[k] \in Range(t)
    BY <1>2, <1>3
  <2>2. e \in Range(t)
    BY <1>2, <1>3
  <2> QED BY <2>1, <2>2, <1>4
<1> QED BY <1>2, <1>3, <1>5, <1>6 DEF t, Last

\* A directory sync: one directory is left.
LEMMA LastOne ==
    ASSUME NEW e
    PROVE  /\ <<e>> \in Seq(Range(<<e>>))
           /\ <<e>> # <<>>
           /\ Range(<<e>>) = {e}
           /\ Last(<<e>>) = e
           /\ Len(<<e>>) = 1 /\ <<e>>[1] = e
<1>1. <<e>> \in Seq({e}) /\ Len(<<e>>) = 1 /\ <<e>>[1] = e
  OBVIOUS
<1>2. Range(<<e>>) = {<<e>>[k] : k \in 1..Len(<<e>>)} /\ <<e>> \in Seq(Range(<<e>>))
  BY <1>1, RangeEquality, SeqOfRange
<1> QED BY <1>1, <1>2 DEF Last

\* There is a current directory, one of the possible ones.
LEMMA LastIn ==
    ASSUME NEW s, s \in Seq(Range(s)), s # <<>>
    PROVE  /\ Len(s) \in Nat \ {0} /\ Len(s) \in 1..Len(s)
           /\ Last(s) \in Range(s)
           /\ Range(s) = {s[k] : k \in 1..Len(s)}
<1>1. Len(s) \in Nat \ {0}
  BY EmptySeq
<1>2. Range(s) = {s[k] : k \in 1..Len(s)}
  BY RangeEquality
<1> QED BY <1>1, <1>2 DEF Last

\* A directory with an active file may follow any.
LEMMA OrderedAppend ==
    ASSUME NEW s, s \in Seq(Range(s)), Ordered(s), NEW e, e.active # 0
    PROVE  Ordered(Append(s, e))
<1> DEFINE t == Append(s, e)
<1>1. /\ Len(t) = Len(s) + 1 /\ Len(s) \in Nat
      /\ \A k \in 1..Len(s) : t[k] = s[k]
      /\ t[Len(s) + 1] = e
  BY LastAppend DEF Last
<1> HIDE DEF t
<1>2. SUFFICES ASSUME NEW k \in 1..Len(t), t[k].active = 0, NEW m \in 1..k PROVE t[m].active = 0
  BY DEF Ordered, t
<1>3. k \in 1..Len(s) /\ m \in 1..Len(s)
  BY <1>1, <1>2
<1> QED BY <1>1, <1>2, <1>3 DEF Ordered

\* One directory is in order.
LEMMA OrderedOne ==
    ASSUME NEW e
    PROVE  Ordered(<<e>>)
<1>1. \A k \in 1..1 : \A m \in 1..k : m = 1 /\ k = 1
  OBVIOUS
<1> QED BY <1>1, LastOne DEF Ordered

\* A set of numbers has a least one.
LEMMA Least ==
    ASSUME NEW S \in SUBSET Nat, S # {}
    PROVE  \E k \in S : \A m \in S : k <= m
<1> DEFINE R == {ss \in Nat \X Nat : ss[1] < ss[2]}
<1>1. IsWellFoundedOn(R, Nat)
  BY NatLessThanWellFounded DEF OpToRel
<1>2. PICK k \in S : \A m \in S : ~(<<m, k>> \in R)
  <2> HIDE DEF R
  <2> QED BY <1>1, WFMin
<1>3. ASSUME NEW m \in S PROVE k <= m
  <2>1. m \in Nat /\ k \in Nat
    OBVIOUS
  <2>2. m < k => <<m, k>> \in R
    BY <2>1
  <2> QED BY <1>2, <2>1, <2>2
<1> QED BY <1>3

\* Syncing the active file leaves the directories that have its name.
LEMMA NameDurableIs ==
    ASSUME NamesSynced, dirs \in Seq(Range(dirs)), dirs # <<>>, Ordered(dirs),
           NEW i, i # 0, dir.active = i
    PROVE  /\ NameDurable(i) \in Seq(Range(NameDurable(i)))
           /\ NameDurable(i) # <<>>
           /\ Range(NameDurable(i)) \subseteq Range(dirs)
           /\ Last(NameDurable(i)) = dir
           /\ Ordered(NameDurable(i))
           /\ \A d \in Range(NameDurable(i)) : d.active # 0
<1> DEFINE n == Len(dirs)
           has == {k \in 1..n : dirs[k].active = i}
           k0 == CHOOSE k \in has : \A m \in has : k <= m
           t == SubSeq(dirs, k0, n)
<1>1. n \in Nat \ {0} /\ n \in has /\ dir = dirs[n] /\ Range(dirs) = {dirs[k] : k \in 1..n}
  BY LastIn DEF dir, Last
<1>2. \E k \in has : \A m \in has : k <= m
  <2>1. has \subseteq Nat /\ has # {}
    BY <1>1
  <2> HIDE DEF has
  <2> QED BY <2>1, Least
<1>3. k0 \in has
  BY <1>2
<1>4. NameDurable(i) = t
  BY <1>1 DEF NameDurable
<1> HIDE DEF k0
<1>5. k0 \in 1..n /\ dirs[k0].active = i
  BY <1>3
<1> DEFINE len == n - k0 + 1
<1>6a. len \in Nat \ {0}
  BY <1>1, <1>5
<1>6. /\ t \in Seq(Range(dirs))
      /\ Len(t) = len
      /\ \A m \in 1..(n - k0 + 1) : t[m] = dirs[k0 + m - 1]
  BY <1>1, <1>5, SubSeqProperties, SMTT(30)
<1>7. Len(t) \in Nat \ {0} /\ t # <<>>
  BY <1>6, <1>6a
<1> HIDE DEF t, has
<1>8. t \in Seq(Range(t)) /\ Range(t) = {t[m] : m \in 1..Len(t)}
  BY <1>6, SeqOfRange, RangeEquality
<1>9. ASSUME NEW m \in 1..Len(t)
      PROVE  t[m] \in Range(dirs) /\ t[m].active # 0
  <2>1. k0 + m - 1 \in 1..n /\ k0 \in 1..(k0 + m - 1) /\ t[m] = dirs[k0 + m - 1]
    <3>1. m \in 1..(n - k0 + 1)
      BY <1>6
    <3>2. k0 + m - 1 \in 1..n /\ k0 \in 1..(k0 + m - 1)
      BY <3>1, <1>1, <1>5
    <3> QED BY <3>1, <3>2, <1>6
  <2> QED BY <2>1, <1>1, <1>5 DEF Ordered
<1>10. Last(t) = dir
  <2>1. t[Len(t)] = dirs[n]
    <3>1. k0 + (n - k0 + 1) - 1 = n /\ n - k0 + 1 \in 1..(n - k0 + 1)
      BY <1>1, <1>5
    <3> QED BY <3>1, <1>6
  <2> QED BY <2>1, <1>1 DEF Last
<1>11. Ordered(t)
  BY <1>9 DEF Ordered
<1> QED BY <1>4, <1>7, <1>8, <1>9, <1>10, <1>11

\* What t begins with, t and more begins with.
LEMMA BeginsLonger ==
    ASSUME NEW s \in Seq(Record), NEW t \in Seq(Record), NEW u \in Seq(Record), Begins(s, t)
    PROVE  Begins(s, t \o u)
<1>1. /\ Len(t \o u) = Len(t) + Len(u) /\ Len(s) \in Nat /\ Len(t) \in Nat /\ Len(u) \in Nat
      /\ \A i \in 1..Len(t) : (t \o u)[i] = t[i]
  BY ConcatProperties
<1> QED BY <1>1 DEF Begins

\* A chain cut short is a chain.
LEMMA LinkedPrefix ==
    ASSUME NEW s \in Seq(Record), Linked(s), NEW n \in 0..Len(s)
    PROVE  Linked(SubSeq(s, 1, n))
<1> DEFINE t == SubSeq(s, 1, n)
<1>1. /\ t \in Seq(Record) /\ Len(t) = n /\ DOMAIN t = 1..n /\ DOMAIN s = 1..Len(s) /\ Len(s) \in Nat
      /\ \A k \in 1..n : t[k] = s[k]
  OBVIOUS
<1> HIDE DEF t
<1>2. SUFFICES ASSUME NEW k \in 1..n PROVE t[k].prev = IF k = 1 THEN 0 ELSE t[k - 1].id
  BY <1>1 DEF Linked, t
<1>3. k \in 1..Len(s) /\ t[k] = s[k] /\ (k # 1 => k - 1 \in 1..n /\ t[k - 1] = s[k - 1])
  BY <1>1
<1> QED BY <1>1, <1>3 DEF Linked

\* A chain that frames continue is a chain.
LEMMA LinkedLonger ==
    ASSUME NEW s \in Seq(Record), Linked(s), NEW u \in Seq(Record),
           u # <<>> => u[1].prev = IF s = <<>> THEN 0 ELSE Last(s).id,
           \A k \in 2..Len(u) : u[k].prev = u[k - 1].id
    PROVE  Linked(s \o u)
<1> DEFINE t == s \o u
<1>1. /\ t \in Seq(Record) /\ Len(s) \in Nat /\ Len(u) \in Nat
      /\ Len(t) = Len(s) + Len(u) /\ DOMAIN t = 1..Len(t) /\ DOMAIN s = 1..Len(s)
      /\ \A k \in 1..(Len(s) + Len(u)) : t[k] = IF k <= Len(s) THEN s[k] ELSE u[k - Len(s)]
  BY ConcatProperties
<1> HIDE DEF t
<1>2. SUFFICES ASSUME NEW k \in 1..Len(t) PROVE t[k].prev = IF k = 1 THEN 0 ELSE t[k - 1].id
  BY <1>1 DEF Linked, t
<1>3. CASE k <= Len(s)
  <2>1. t[k] = s[k] /\ k \in 1..Len(s) /\ (k # 1 => t[k - 1] = s[k - 1])
    BY <1>1, <1>3
  <2> QED BY <1>1, <2>1 DEF Linked
<1>4. CASE k = Len(s) + 1
  <2>1. t[k] = u[1] /\ u # <<>>
    <3>1. t[k] = u[k - Len(s)] /\ Len(u) # 0
      BY <1>1, <1>4
    <3>2. k - Len(s) = 1
      BY <1>1, <1>4
    <3> QED BY <3>1, <3>2
  <2>2. CASE s = <<>>
    <3>1. k = 1
      BY <2>2, <1>4
    <3> QED BY <3>1, <2>1, <2>2
  <2>3. CASE s # <<>>
    <3>1. Len(s) # 0
      BY <2>3, EmptySeq
    <3>2. k # 1 /\ t[k - 1] = s[Len(s)]
      BY <3>1, <1>1, <1>4
    <3> QED BY <3>2, <2>1, <2>3 DEF Last
  <2> QED BY <2>2, <2>3
<1>5. CASE k > Len(s) + 1
  <2>1. t[k] = u[k - Len(s)] /\ t[k - 1] = u[(k - 1) - Len(s)] /\ k # 1
    <3>1. k - 1 \in 1..(Len(s) + Len(u)) /\ ~(k - 1 <= Len(s)) /\ ~(k <= Len(s)) /\ k # 1
      BY <1>1, <1>5
    <3> QED BY <1>1, <3>1
  <2>2. k - Len(s) \in 2..Len(u) /\ (k - Len(s)) - 1 = (k - 1) - Len(s)
    BY <1>1, <1>5
  <2>3. u[k - Len(s)].prev = u[(k - Len(s)) - 1].id
    BY <2>2
  <2> QED BY <2>1, <2>2, <2>3
<1> QED BY <1>1, <1>3, <1>4, <1>5

\* Concatenation is associative.
LEMMA Assoc ==
    ASSUME NEW s \in Seq(Record), NEW t \in Seq(Record), NEW u \in Seq(Record)
    PROVE  (s \o t) \o u = s \o (t \o u)
BY ConcatAssociative

\* The history in memory is a sequence of records, and its length.
LEMMA HistoryType ==
    ASSUME NEW fs, GoodFiles(fs), NEW i \in 1..Len(fs), NEW segs \in Seq(Seg),
           NEW n \in Nat, n <= Len(fs[i].recs)
    PROVE  /\ Concat(segs) \in Seq(Record)
           /\ Len(Concat(segs)) \in Nat
           /\ SubSeq(fs[i].recs, 1, n) \in Seq(Record)
           /\ Len(SubSeq(fs[i].recs, 1, n)) = n
           /\ History(fs, i, segs, n) \in Seq(Record)
           /\ Len(History(fs, i, segs, n)) = Len(Concat(segs)) + n
           /\ Len(History(fs, i, segs, n)) \in Nat
           /\ n = Len(fs[i].recs) => SubSeq(fs[i].recs, 1, n) = fs[i].recs
<1>1. fs[i].recs \in Seq(Record) /\ Len(fs[i].recs) \in Nat
  BY FileType
<1> DEFINE r == fs[i].recs
           c == Concat(segs)
<1>2. c \in Seq(Record) /\ Len(c) \in Nat
  BY ConcatType
<1>3. r \in Seq(Record) /\ n <= Len(r) /\ Len(r) \in Nat
  BY <1>1
<1>4. History(fs, i, segs, n) = c \o SubSeq(r, 1, n)
  BY DEF History
<1> HIDE DEF r, c
<1>5. SubSeq(r, 1, n) \in Seq(Record) /\ Len(SubSeq(r, 1, n)) = n
  BY <1>3
<1>6. c \o SubSeq(r, 1, n) \in Seq(Record) /\ Len(c \o SubSeq(r, 1, n)) = Len(c) + n
  BY <1>2, <1>5, ConcatProperties
<1>7. n = Len(r) => SubSeq(r, 1, n) = r
  BY <1>3, SubSeqFull
<1>8. Len(c) + n \in Nat
  BY <1>2
<1> QED BY <1>2, <1>4, <1>5, <1>6, <1>7, <1>8 DEF r, c

\* While the log may be written to, every directory has the generations that
\* the memory has.
LEMMA WritableResolves ==
    ASSUME NEW fs, GoodFiles(fs), NEW i, NEW segs \in Seq(Seg), NEW n,
           NEW d, Formed(fs, d), Known(fs, i, segs, n, d), Writable(i, segs, n, d)
    PROVE  /\ resolveSegments(d) = d.manifest.segs
           /\ Len(resolveSegments(d)) = Len(segs)
           /\ Concat(resolveSegments(d)) = Concat(segs)
<1>1. resolveSegments(d) = d.manifest.segs /\ Len(resolveSegments(d)) = Len(segs)
  BY DEF Writable, resolveSegments
<1>2. resolveSegments(d) \in Seq(Seg)
  BY LoggedType
<1>3. \A g \in 1..Len(segs) : resolveSegments(d)[g].recs = segs[g].recs
  BY DEF Known
<1> QED BY <1>1, <1>2, <1>3, ConcatSame

\* File i becomes v.
Changed(fs, i, v) == [fs EXCEPT ![i] = v]

\* The files after one of them changed.
LEMMA ChangedFiles ==
    ASSUME NEW fs, GoodFiles(fs), NEW i \in 1..Len(fs),
           NEW v \in File, v.synced <= Len(v.recs)
    PROVE  /\ GoodFiles(Changed(fs, i, v))
           /\ Len(Changed(fs, i, v)) = Len(fs)
           /\ Len(fs) \in Nat
           /\ Changed(fs, i, v)[i] = v
           /\ \A j \in 1..Len(fs) : j # i => Changed(fs, i, v)[j] = fs[j]
<1> DEFINE gs == Changed(fs, i, v)
<1>1. fs \in Seq(File)
  BY DEF GoodFiles
<1>4. gs = [fs EXCEPT ![i] = v]
  BY DEF Changed
<1> HIDE DEF gs
<1>5. /\ gs \in Seq(File) /\ Len(gs) = Len(fs)
      /\ \A j \in 1..Len(fs) : gs[j] = IF j = i THEN v ELSE fs[j]
  BY <1>1, <1>4, ExceptSeq
<1>6. GoodFiles(gs)
  BY <1>5 DEF GoodFiles
<1>7. gs[i] = v
  BY <1>5
<1>8. Len(fs) \in Nat
  BY <1>1
<1> QED BY <1>5, <1>6, <1>7, <1>8 DEF gs

\* Records were added to file i: what directory d, which does not have i among
\* its sealed generations, holds then.
LEMMA ExtendedDir ==
    ASSUME NEW fs, GoodFiles(fs), NEW i \in 1..Len(fs), NEW u \in Seq(Record),
           NEW v \in File, v.synced <= Len(v.recs), v.recs = fs[i].recs \o u,
           NEW d, Formed(fs, d), \A g \in DOMAIN d.wal : d.wal[g] # i
    PROVE  /\ Formed(Changed(fs, i, v), d)
           /\ d.active = i => Logged(Changed(fs, i, v), d) = Logged(fs, d) \o u
           /\ d.active = i =>
                Firm(Changed(fs, i, v), d) = Len(Concat(resolveSegments(d))) + v.synced
           /\ d.active # i => Logged(Changed(fs, i, v), d) = Logged(fs, d)
           /\ d.active # i => Firm(Changed(fs, i, v), d) = Firm(fs, d)
           /\ \A segs : Sealed(fs, d, segs) => Sealed(Changed(fs, i, v), d, segs)
<1> DEFINE gs == Changed(fs, i, v)
           c == Concat(resolveSegments(d))
           r == fs[i].recs
<1>1. /\ Len(gs) = Len(fs) /\ gs[i].recs = r \o u /\ gs[i].synced = v.synced
      /\ \A j \in 1..Len(fs) : j # i => gs[j] = fs[j]
  <2>1. Len(gs) = Len(fs)
    BY ChangedFiles
  <2>2. gs[i] = v
    BY ChangedFiles
  <2>3. \A j \in 1..Len(fs) : j # i => gs[j] = fs[j]
    BY ChangedFiles
  <2> HIDE DEF gs
  <2> QED BY <2>1, <2>2, <2>3
<1>1a. i # 0 /\ Len(fs) \in Nat
  BY DEF GoodFiles
<1> HIDE DEF gs
<1>2. Formed(gs, d)
  BY <1>1 DEF Formed
<1>3. c \in Seq(Record) /\ r \in Seq(Record)
  BY LoggedType, FileType
<1>4. ASSUME d.active = i PROVE Logged(gs, d) = Logged(fs, d) \o u /\ Firm(gs, d) = Len(c) + v.synced
  <2>1. Logged(fs, d) = c \o r
    BY <1>1a, <1>4 DEF Logged
  <2>2. gs[i].recs = r \o u /\ gs[i].synced = v.synced
    BY <1>1
  <2>3. Firm(gs, d) = Len(c) + v.synced
    BY <1>1a, <1>4, <2>2 DEF Firm
  <2> HIDE DEF r
  <2>4. Logged(gs, d) = c \o (r \o u)
    BY <1>1a, <1>4, <2>2 DEF Logged
  <2> HIDE DEF c
  <2>5. c \o (r \o u) = (c \o r) \o u
    BY <1>3, Assoc
  <2> QED BY <2>1, <2>3, <2>4, <2>5
<1>5. ASSUME d.active # i PROVE Logged(gs, d) = Logged(fs, d) /\ Firm(gs, d) = Firm(fs, d)
  <2>1. d.active # 0 => gs[d.active] = fs[d.active]
    BY <1>1, <1>1a, <1>5 DEF Formed
  <2> QED BY <2>1 DEF Logged, Firm
<1>8. \A g \in DOMAIN d.wal : gs[d.wal[g]] = fs[d.wal[g]]
  BY <1>1 DEF Formed
<1>9. ASSUME NEW segs, Sealed(fs, d, segs) PROVE Sealed(gs, d, segs)
  BY <1>8, <1>9 DEF Sealed, Still
<1> QED BY <1>2, <1>4, <1>5, <1>9 DEF gs, c

\* A directory whose log grew along the chain is sound.
LEMMA ExtendedSound ==
    ASSUME NEW fs, GoodFiles(fs), NEW gs, GoodFiles(gs), NEW u \in Seq(Record), NEW d,
           NEW cp \in [gen : Nat, count : Nat, id : Nat],
           NEW ak \in Nat, NEW wr \in Nat, NEW al \in Nat, NEW wt \in Nat,
           Sound(fs, cp, ak, wr, d),
           Formed(gs, d), Logged(gs, d) = Logged(fs, d) \o u,
           \A segs : Sealed(fs, d, segs) => Sealed(gs, d, segs),
           Firm(fs, d) <= Firm(gs, d), al <= Firm(gs, d),
           Len(Logged(gs, d)) <= wt, Linked(Logged(gs, d))
    PROVE  Sound(gs, cp, al, wt, d)
<1>1. /\ Firm(fs, d) \in Nat /\ Firm(gs, d) \in Nat
      /\ Logged(fs, d) \in Seq(Record) /\ Firm(fs, d) <= Len(Logged(fs, d))
      /\ Len(Logged(fs, d)) \in Nat
  BY LoggedType DEF Sound
<1>2. cp.count \in Nat /\ cp.count <= Firm(fs, d)
  BY DEF Sound, Relied
<1>3. cp.count > 0 => Logged(gs, d)[cp.count] = Logged(fs, d)[cp.count]
  <2>1. \A k \in 1..Len(Logged(fs, d)) : (Logged(fs, d) \o u)[k] = Logged(fs, d)[k]
    BY <1>1, ConcatProperties
  <2> QED BY <1>1, <1>2, <2>1
<1>4. Relied(gs, cp, al, wt, d)
  BY <1>1, <1>2, <1>3 DEF Sound, Relied
<1> QED BY <1>4 DEF Sound

\* What was added counts as history once the offset moves over it.
LEMMA ExtendedHistory ==
    ASSUME NEW fs, GoodFiles(fs), NEW i \in 1..Len(fs), NEW u \in Seq(Record),
           NEW v \in File, v.synced <= Len(v.recs), v.recs = fs[i].recs \o u,
           NEW segs \in Seq(Seg), NEW n \in Nat, n <= Len(fs[i].recs)
    PROVE  /\ History(Changed(fs, i, v), i, segs, n) = History(fs, i, segs, n)
           /\ n = Len(fs[i].recs) =>
                History(Changed(fs, i, v), i, segs, n + Len(u)) = History(fs, i, segs, n) \o u
<1> DEFINE gs == Changed(fs, i, v)
           r == fs[i].recs
           c == Concat(segs)
<1>1. gs[i].recs = r \o u
  <2>0. i \in DOMAIN fs
    <3>1. fs \in Seq(File)
      BY DEF GoodFiles
    <3> QED BY <3>1
  <2>1. gs[i] = v
    BY <2>0 DEF Changed
  <2> QED BY <2>1
<1>2. r \in Seq(Record) /\ Len(r) \in Nat /\ c \in Seq(Record) /\ Len(u) \in Nat
  BY FileType, ConcatType
<1>3. /\ History(gs, i, segs, n) = c \o SubSeq(r \o u, 1, n)
      /\ History(fs, i, segs, n) = c \o SubSeq(r, 1, n)
      /\ History(gs, i, segs, n + Len(u)) = c \o SubSeq(r \o u, 1, n + Len(u))
  BY <1>1 DEF History
<1> HIDE DEF gs, r, c
<1>4. SubSeq(r \o u, 1, n) = SubSeq(r, 1, n)
  <2>1. n <= Len(r)
    BY DEF r
  <2>2. CASE n = 0
    BY <2>2, SubSeqEmpty
  <2>3. CASE n # 0
    <3>1. n \in 1..Len(r) /\ 1 \in 1..Len(r)
      BY <2>1, <2>3, <1>2
    <3> QED BY <3>1, <1>2, SubSeqOfConcat1
  <2> QED BY <2>2, <2>3
<1>5. ASSUME n = Len(r) PROVE c \o SubSeq(r \o u, 1, n + Len(u)) = (c \o SubSeq(r, 1, n)) \o u
  <2>1. r \o u \in Seq(Record) /\ Len(r \o u) = n + Len(u)
    BY <1>2, <1>5, ConcatProperties
  <2>2. SubSeq(r \o u, 1, n + Len(u)) = r \o u /\ SubSeq(r, 1, n) = r
    BY <2>1, <1>2, <1>5, SubSeqFull
  <2>3. c \o (r \o u) = (c \o r) \o u
    BY <1>2, Assoc
  <2> QED BY <2>2, <2>3
<1> QED BY <1>3, <1>4, <1>5 DEF gs, r

\* What a crash makes of the files: of each, what is durable and perhaps more.
Crashed(fs, gs) ==
    /\ GoodFiles(gs)
    /\ Len(gs) = Len(fs)
    /\ \A i \in 1..Len(fs) :
        /\ gs[i].synced \in fs[i].synced..Len(fs[i].recs)
        /\ gs[i].recs = SubSeq(fs[i].recs, 1, gs[i].synced)
        /\ ~fs[i].torn /\ fs[i].synced = Len(fs[i].recs) => ~gs[i].torn

\* A crash leaves d a prefix of its log, with all that was durable.
LEMMA CrashedDir ==
    ASSUME NEW fs, NEW gs, GoodFiles(fs), Crashed(fs, gs), NEW d, Formed(fs, d)
    PROVE  /\ Formed(gs, d)
           /\ Firm(gs, d) \in Firm(fs, d)..Len(Logged(fs, d))
           /\ Logged(gs, d) = SubSeq(Logged(fs, d), 1, Firm(gs, d))
           /\ \A segs : Sealed(fs, d, segs) => Sealed(gs, d, segs)
<1>1. Formed(gs, d)
  BY DEF Formed, Crashed
<1>2. /\ resolveSegments(d) \in Seq(Seg)
      /\ Concat(resolveSegments(d)) \in Seq(Record)
      /\ Len(Concat(resolveSegments(d))) \in Nat
      /\ Logged(fs, d) \in Seq(Record)
      /\ Firm(fs, d) \in Nat
  BY LoggedType
<1> DEFINE c == Concat(resolveSegments(d))
<1>3. /\ Firm(gs, d) \in Firm(fs, d)..Len(Logged(fs, d))
      /\ Logged(gs, d) = SubSeq(Logged(fs, d), 1, Firm(gs, d))
  <2>3. CASE d.active = 0
    <3>1. Logged(gs, d) = c \o <<>> /\ Logged(fs, d) = c \o <<>> /\ Firm(gs, d) = Len(c) + 0 /\ Firm(fs, d) = Len(c) + 0
      BY <2>3 DEF Logged, Firm
    <3> HIDE DEF c
    <3>2. c \in Seq(Record) /\ Len(c) \in Nat
      BY <1>2 DEF c
    <3>3. c \o <<>> = c /\ Len(c) + 0 = Len(c) /\ SubSeq(c, 1, Len(c)) = c
      BY <3>2, ConcatEmptySeq, SubSeqFull
    <3>4. Len(c) \in Len(c)..Len(c)
      BY <3>2
    <3> QED BY <3>1, <3>3, <3>4
  <2>4. CASE d.active # 0
    <3> DEFINE i == d.active
               r == fs[i].recs
               k == gs[i].synced
               y == fs[i].synced
    <3>1. i \in 1..Len(fs)
      BY <2>4 DEF Formed, GoodFiles
    <3>2. r \in Seq(Record) /\ Len(r) \in Nat /\ y \in Nat /\ y <= Len(r)
      BY <3>1, FileType
    <3>3. k \in y..Len(r) /\ gs[i].recs = SubSeq(r, 1, k)
      BY <3>1 DEF Crashed
    <3>4. /\ Logged(fs, d) = c \o r /\ Logged(gs, d) = c \o SubSeq(r, 1, k)
          /\ Firm(fs, d) = Len(c) + y /\ Firm(gs, d) = Len(c) + k
      BY <2>4, <3>3 DEF Logged, Firm
    <3>5. c \in Seq(Record) /\ Len(c) \in Nat
      BY <1>2
    <3> HIDE DEF c, r, k, y, i
    <3>6. /\ Len(c \o r) = Len(c) + Len(r) /\ c \o r \in Seq(Record)
          /\ k \in Nat /\ k <= Len(r)
          /\ Len(c) + k \in (Len(c) + y)..(Len(c) + Len(r))
      BY <3>2, <3>3, <3>5, ConcatProperties
    <3>7. c \o SubSeq(r, 1, k) = SubSeq(c \o r, 1, Len(c) + k)
      <4> DEFINE a == c \o SubSeq(r, 1, k)
                 b == SubSeq(c \o r, 1, Len(c) + k)
      <4>1. /\ SubSeq(r, 1, k) \in Seq(Record) /\ Len(SubSeq(r, 1, k)) = k
            /\ \A m \in 1..k : SubSeq(r, 1, k)[m] = r[m]
        BY <3>2, <3>6
      <4>2. /\ a \in Seq(Record) /\ Len(a) = Len(c) + k
            /\ \A m \in 1..(Len(c) + k) : a[m] = IF m <= Len(c) THEN c[m] ELSE SubSeq(r, 1, k)[m - Len(c)]
        BY <4>1, <3>5, ConcatProperties
      <4>3. /\ b \in Seq(Record) /\ Len(b) = Len(c) + k
            /\ \A m \in 1..(Len(c) + k) : b[m] = (c \o r)[m]
        BY <3>5, <3>6, <3>2
      <4>4. \A m \in 1..(Len(c) + Len(r)) : (c \o r)[m] = IF m <= Len(c) THEN c[m] ELSE r[m - Len(c)]
        BY <3>2, <3>5, ConcatProperties
      <4> HIDE DEF a, b
      <4>5. ASSUME NEW m \in 1..(Len(c) + k) PROVE a[m] = b[m]
        <5>1. m \in 1..(Len(c) + Len(r)) /\ (~(m <= Len(c)) => m - Len(c) \in 1..k)
          BY <3>2, <3>5, <3>6
        <5> QED BY <5>1, <4>1, <4>2, <4>3, <4>4
      <4>6. a = b
        BY <4>2, <4>3, <4>5, SeqEqual
      <4> QED BY <4>6 DEF a, b
    <3>8. Len(Logged(fs, d)) = Len(c) + Len(r)
      BY <3>4, <3>6
    <3>9. Firm(gs, d) \in Firm(fs, d)..Len(Logged(fs, d))
      BY <3>4, <3>6, <3>8
    <3> QED BY <3>4, <3>7, <3>9
  <2> QED BY <2>3, <2>4
<1>5. ASSUME NEW segs, Sealed(fs, d, segs) PROVE Sealed(gs, d, segs)
  <2>1. SUFFICES ASSUME NEW g \in 1..Len(segs), ~segs[g].compressed
                 PROVE  gs[d.wal[g]].recs = segs[g].recs /\ Still(gs, d.wal[g])
    BY <1>5 DEF Sealed
  <2> DEFINE j == d.wal[g]
  <2>2. g \in DOMAIN d.wal /\ fs[j].recs = segs[g].recs /\ Still(fs, j)
    BY <1>5, <2>1 DEF Sealed
  <2>3. j \in 1..Len(fs)
    BY <2>2 DEF Formed
  <2>4. fs[j].recs \in Seq(Record) /\ Len(fs[j].recs) \in Nat
    BY <2>3, FileType
  <2>5. gs[j].synced = Len(fs[j].recs) /\ gs[j].recs = SubSeq(fs[j].recs, 1, gs[j].synced) /\ ~gs[j].torn
    <3>1. /\ gs[j].synced \in fs[j].synced..Len(fs[j].recs)
          /\ gs[j].recs = SubSeq(fs[j].recs, 1, gs[j].synced)
          /\ ~fs[j].torn /\ fs[j].synced = Len(fs[j].recs) => ~gs[j].torn
      BY <2>3 DEF Crashed
    <3>2. ~fs[j].torn /\ fs[j].synced = Len(fs[j].recs)
      BY <2>2 DEF Still
    <3> HIDE DEF j
    <3> QED BY <3>1, <3>2, <2>4
  <2>6. gs[j].recs = fs[j].recs
    BY <2>4, <2>5, SubSeqFull
  <2> QED BY <2>2, <2>5, <2>6 DEF Still
<1> QED BY <1>1, <1>3, <1>5

\* So a crash leaves a sound directory sound.
LEMMA CrashedSound ==
    ASSUME NEW fs, NEW gs, GoodFiles(fs), Crashed(fs, gs), NEW d,
           NEW cp \in [gen : Nat, count : Nat, id : Nat], NEW ak \in Nat, NEW wr \in Nat,
           Sound(fs, cp, ak, wr, d)
    PROVE  Sound(gs, cp, ak, wr, d)
<1> DEFINE l == Logged(fs, d)
           k == Firm(gs, d)
           y == Firm(fs, d)
<1>1. /\ Formed(gs, d) /\ k \in y..Len(l) /\ Logged(gs, d) = SubSeq(l, 1, k)
      /\ Sealed(gs, d, resolveSegments(d))
  BY CrashedDir DEF Sound
<1>2. l \in Seq(Record) /\ Len(l) \in Nat /\ y \in Nat /\ Linked(l)
  BY LoggedType DEF Sound
<1>3. /\ cp.gen <= Len(resolveSegments(d)) + 1 /\ cp.count <= y
      /\ cp.count > 0 => cp.id = l[cp.count].id
      /\ ak <= y /\ Len(l) <= wr
      /\ cp.count \in Nat
  BY DEF Sound, Relied
<1> HIDE DEF l, k, y
<1>4. /\ k \in 0..Len(l) /\ k \in Nat /\ Len(SubSeq(l, 1, k)) = k
      /\ \A m \in 1..k : SubSeq(l, 1, k)[m] = l[m]
  BY <1>1, <1>2
<1>5. Linked(SubSeq(l, 1, k))
  BY <1>2, <1>4, LinkedPrefix
<1>6. cp.count > 0 => cp.id = SubSeq(l, 1, k)[cp.count].id
  BY <1>1, <1>2, <1>3, <1>4
<1>7. cp.count <= k /\ ak <= k /\ k <= wr
  BY <1>1, <1>2, <1>3, <1>4
<1>8. Relied(gs, cp, ak, wr, d)
  BY <1>1, <1>3, <1>4, <1>6, <1>7 DEF Relied, k
<1> QED BY <1>1, <1>5, <1>8 DEF Sound, k

-----------------------------------------------------------------------------
(* The invariant                                                           *)

\* Types, and an offset within what is durable of the open file.
Typed ==
    /\ dirs \in Seq(Range(dirs)) /\ dirs # <<>>
    /\ GoodFiles(files)
    /\ phase \in {"down", "repairing", "open", "closed"}
    /\ status \in Statuses
    /\ file \in 0..Len(files)
    /\ segments \in Seq(Seg)
    /\ offset \in Nat
    /\ file # 0 => offset <= files[file].synced
    /\ roll \in {"idle", "intent", "renamed", "created", "committed"}
    /\ compact \in [at : {"idle", "copied", "switched", "removed"}, gen : Nat]
    /\ checkpoint \in [gen : Nat, count : Nat, id : Nat]
    /\ written \in Nat
    /\ acked \in Nat

\* Whatever directory a crash leaves can be opened with nothing lost that
\* anybody relies on.
DiskSound == AllSound(dirs, files, checkpoint, acked, written)

\* Nothing is under way before the log is open, and whatever a crash left of
\* the files is durable.
Stopped ==
    phase \in {"down", "repairing"} =>
        /\ roll = "idle" /\ compact = Idle
        /\ \A i \in 1..Len(files) : files[i].synced = Len(files[i].recs)
        /\ phase = "down" => dirs = <<dir>>
        /\ phase = "repairing" => dir.manifest.pending = <<>>

\* A running log has a file open, and what it believes sealed and durable is so
\* in every directory a crash may leave.
Running ==
    /\ phase = "open" <=> file # 0
    /\ phase = "open" => \A d \in Range(dirs) : Known(files, file, segments, offset, d)

\* The log takes appends.
Healthy == phase = "open" /\ status = "healthy"

\* A writable log has nothing in its file beyond its offset, and all of its
\* history was acknowledged.
Clean ==
    Healthy =>
        /\ Len(files[file].recs) = offset /\ ~files[file].torn
        /\ acked = Len(History(files, file, segments, offset))
        /\ Logged(files, dir) = History(files, file, segments, offset)

\* No roll was left half done: the log is writable, or no roll can be.
Settled == phase = "open" /\ (status = "healthy" \/ RollsFinish)

\* Then the open file is the directory's active one, and no directory a crash
\* may leave has it among its sealed generations.
Writing ==
    Settled /\ roll \in {"idle", "intent"} =>
        /\ dir.active = file
        /\ Ordered(dirs)
        /\ \A d \in Range(dirs) : Writable(file, segments, offset, d)

\* How far a roll is, and what the directory has of it.
Rolling ==
    roll # "idle" =>
        /\ Healthy /\ offset > 0 /\ compact.at \in {"idle", "copied"}
        /\ roll = "intent" => Generation \notin DOMAIN dir.wal
        /\ roll \in {"renamed", "created", "committed"} =>
             Generation \in DOMAIN dir.wal /\ dir.wal[Generation] = file
        /\ roll \in {"intent", "renamed", "created"} =>
             dir.manifest = Manifest(segments, files[file].recs)
        /\ roll = "renamed" => dir.active = 0
        /\ roll \in {"created", "committed"} =>
             /\ dir.active # 0
             /\ files[dir.active].recs = <<>> /\ files[dir.active].synced = 0
             /\ ~files[dir.active].torn
        /\ roll = "committed" =>
             dir.manifest = Manifest(Append(segments, Segment(files[file].recs, FALSE)), <<>>)

\* Disk and memory agree on which generations are compressed, but for the
\* moment of the switch.
Flags ==
    phase = "open" /\ compact.at # "switched" =>
        \A d \in Range(dirs) : \A g \in 1..Len(segments) :
            resolveSegments(d)[g].compressed = segments[g].compressed

\* How far a compaction is: the generation it copied is a plain one still, in
\* memory and in every directory, until the manifest is switched.
Compacting ==
    /\ compact.at = "copied" =>
         /\ phase \in {"open", "closed"}
         /\ compact.gen \in 1..Len(segments) /\ ~segments[compact.gen].compressed
         /\ \A d \in Range(dirs) :
                /\ compact.gen \in 1..Len(resolveSegments(d))
                /\ ~resolveSegments(d)[compact.gen].compressed
         /\ compact.gen \in DOMAIN dir.gz /\ dir.gz[compact.gen] = segments[compact.gen].recs
    /\ compact.at \in {"switched", "removed"} => phase = "open" /\ roll = "idle"
    /\ compact.at = "switched" =>
         /\ compact.gen \in 1..Len(segments) /\ ~segments[compact.gen].compressed
         /\ dir.manifest = Manifest(Compressed(compact.gen), <<>>)

\* The inductive invariant.
Inv ==
    /\ Typed /\ DiskSound /\ Stopped /\ Running /\ Clean
    /\ Writing /\ Rolling /\ Flags /\ Compacting

\* A step of the abstract log, or none.
Refines == Abstract!Next \/ (Replayed(dir)' = Replayed(dir) /\ acked' = acked)

\* What a replay visits, before and after a step.
LEMMA ReplayedIs ==
    /\ Replayed(dir) = Logged(files, Last(dirs))
    /\ Replayed(dir)' = Logged(files', Last(dirs'))
BY DEF Replayed, Logged, ActiveRecs, dir

\* The state of an open log.
LEMMA OpenFacts ==
    ASSUME Typed, Running, Clean, phase = "open"
    PROVE  /\ file \in 1..Len(files) /\ file # 0
           /\ files[file].recs \in Seq(Record) /\ Len(files[file].recs) \in Nat
           /\ files[file].synced \in Nat /\ offset \in Nat
           /\ offset <= files[file].synced /\ files[file].synced <= Len(files[file].recs)
           /\ offset <= Len(files[file].recs)
           /\ Concat(segments) \in Seq(Record) /\ Len(Concat(segments)) \in Nat
           /\ Committed = SubSeq(files[file].recs, 1, offset)
           /\ Committed \in Seq(Record) /\ Len(Committed) = offset
           /\ ChainHead = History(files, file, segments, offset)
           /\ History(files, file, segments, offset) \in Seq(Record)
           /\ Len(History(files, file, segments, offset)) = Len(Concat(segments)) + offset
           /\ Len(History(files, file, segments, offset)) \in Nat
           /\ status = "healthy" =>
                /\ Committed = files[file].recs
                /\ files[file].synced = offset /\ Len(files[file].recs) = offset
                /\ ~files[file].torn
                /\ History(files, file, segments, offset) = Concat(segments) \o files[file].recs
<1>1. file \in 1..Len(files) /\ file # 0 /\ offset \in Nat /\ GoodFiles(files)
      /\ segments \in Seq(Seg) /\ offset <= files[file].synced
  BY DEF Typed, Running, GoodFiles
<1>2. /\ files[file].recs \in Seq(Record) /\ Len(files[file].recs) \in Nat
      /\ files[file].synced \in Nat /\ files[file].synced <= Len(files[file].recs)
  BY <1>1, FileType
<1>3. offset <= Len(files[file].recs)
  BY <1>1, <1>2
<1>4. Committed = SubSeq(files[file].recs, 1, offset)
  BY <1>1 DEF Committed
<1>5. ChainHead = History(files, file, segments, offset)
  BY <1>4 DEF ChainHead, History
<1>6. /\ Concat(segments) \in Seq(Record) /\ Len(Concat(segments)) \in Nat
      /\ SubSeq(files[file].recs, 1, offset) \in Seq(Record)
      /\ Len(SubSeq(files[file].recs, 1, offset)) = offset
      /\ History(files, file, segments, offset) \in Seq(Record)
      /\ Len(History(files, file, segments, offset)) = Len(Concat(segments)) + offset
      /\ Len(History(files, file, segments, offset)) \in Nat
      /\ offset = Len(files[file].recs) => SubSeq(files[file].recs, 1, offset) = files[file].recs
  BY <1>1, <1>3, HistoryType
<1>7. ASSUME status = "healthy"
      PROVE  /\ Committed = files[file].recs
             /\ files[file].synced = offset /\ Len(files[file].recs) = offset
             /\ ~files[file].torn
             /\ History(files, file, segments, offset) = Concat(segments) \o files[file].recs
  <2>1. Len(files[file].recs) = offset /\ ~files[file].torn
    BY <1>7 DEF Clean, Healthy
  <2>2. SubSeq(files[file].recs, 1, offset) = files[file].recs
    BY <2>1, <1>6
  <2>3. files[file].synced = offset
    BY <2>1, <1>1, <1>2
  <2> QED BY <2>1, <2>2, <2>3, <1>4 DEF History
<1> QED BY <1>1, <1>2, <1>3, <1>4, <1>5, <1>6, <1>7

\* The current directory.
LEMMA DirFacts ==
    ASSUME Typed, DiskSound, Running
    PROVE  /\ dir \in Range(dirs)
           /\ Sound(files, checkpoint, acked, written, dir)
           /\ Formed(files, dir)
           /\ Sealed(files, dir, resolveSegments(dir))
           /\ resolveSegments(dir) \in Seq(Seg)
           /\ Len(resolveSegments(dir)) \in Nat
           /\ Concat(resolveSegments(dir)) \in Seq(Record)
           /\ Logged(files, dir) \in Seq(Record)
           /\ Firm(files, dir) \in Nat
           /\ dir.active \in 0..Len(files) /\ Len(files) \in Nat
           /\ dir.manifest.segs \in Seq(Seg)
           /\ dir.manifest.pending \in Seq(Record)
           /\ phase = "open" => Known(files, file, segments, offset, dir)
<1>1. dir \in Range(dirs)
  BY LastIn DEF Typed, dir
<1>2. Sound(files, checkpoint, acked, written, dir)
  BY <1>1 DEF DiskSound, AllSound
<1>3. Formed(files, dir) /\ Sealed(files, dir, resolveSegments(dir))
  BY <1>2 DEF Sound
<1>4. GoodFiles(files) /\ Len(files) \in Nat
  BY DEF Typed, GoodFiles
<1>5. /\ resolveSegments(dir) \in Seq(Seg)
      /\ Concat(resolveSegments(dir)) \in Seq(Record)
      /\ Logged(files, dir) \in Seq(Record)
      /\ Firm(files, dir) \in Nat
  BY <1>3, <1>4, LoggedType
<1>6. dir.manifest.segs \in Seq(Seg) /\ dir.manifest.pending \in Seq(Record)
  BY <1>3, ResolveType DEF Formed
<1>7. dir.active \in 0..Len(files)
  BY <1>3 DEF Formed
<1>8. Len(resolveSegments(dir)) \in Nat
  BY <1>5
<1>9. phase = "open" => Known(files, file, segments, offset, dir)
  BY <1>1 DEF Running
<1> QED BY <1>1, <1>2, <1>3, <1>4, <1>5, <1>6, <1>7, <1>8, <1>9

\* The directories after a name changed, with or without a sync before it, or
\* after a sync alone.
LEMMA NewDirs ==
    ASSUME Typed, NEW e,
           \/ dirs' = Append(dirs, e)
           \/ dirs' = Append(Synced, e)
           \/ e = dir /\ dirs' = dirs
           \/ e = dir /\ dirs' = Synced
    PROVE  /\ dirs' \in Seq(Range(dirs')) /\ dirs' # <<>>
           /\ Range(dirs') \subseteq Range(dirs) \cup {e}
           /\ Last(dirs') = e
           /\ dir' = e
           /\ Ordered(dirs) /\ e.active # 0 => Ordered(dirs')
<1>1. dirs \in Seq(Range(dirs)) /\ dirs # <<>> /\ dir \in Range(dirs) /\ dir = Last(dirs)
  BY LastIn DEF Typed, dir
<1>2. CASE dirs' = Append(dirs, e)
  BY <1>1, <1>2, LastAppend, OrderedAppend DEF dir
<1>3. CASE dirs' = Append(Synced, e)
  <2>1. Synced \in Seq(Range(Synced)) /\ Range(Synced) = {dir} /\ Ordered(Synced)
    BY LastOne, OrderedOne DEF Synced
  <2>2. /\ dirs' \in Seq(Range(dirs')) /\ dirs' # <<>>
        /\ Range(dirs') = {dir} \cup {e} /\ Last(dirs') = e
    BY <1>3, <2>1, LastAppend
  <2>3. e.active # 0 => Ordered(dirs')
    BY <1>3, <2>1, OrderedAppend
  <2> QED BY <1>1, <2>2, <2>3 DEF dir
<1>4. CASE e = dir /\ dirs' = dirs
  BY <1>1, <1>4 DEF dir
<1>5. CASE e = dir /\ dirs' = Synced
  BY <1>1, <1>5, LastOne, OrderedOne DEF Synced, dir
<1> QED BY <1>2, <1>3, <1>4, <1>5

\* A step that only rearranges names is invisible to the callers.
LEMMA DiskMoves ==
    ASSUME Typed, DiskSound, Running, NEW e,
           files' = files, checkpoint' = checkpoint, acked' = acked, written' = written,
           Range(dirs') \subseteq Range(dirs) \cup {e}, Last(dirs') = e,
           Formed(files, e), Sealed(files, e, resolveSegments(e)),
           Logged(files, e) = Logged(files, dir),
           Firm(files, e) >= Firm(files, dir),
           Len(resolveSegments(e)) >= Len(resolveSegments(dir))
    PROVE  DiskSound' /\ Refines
<1>1. Sound(files, checkpoint, acked, written, dir) /\ dir \in Range(dirs) /\ GoodFiles(files)
  BY DirFacts DEF Typed
<1>2. /\ checkpoint \in [gen : Nat, count : Nat, id : Nat] /\ acked \in Nat /\ written \in Nat
  BY DEF Typed
<1>3. Sound(files, checkpoint, acked, written, e)
  BY <1>1, <1>2, SoundMoves
<1>4. AllSound(dirs', files, checkpoint, acked, written)
  BY <1>1, <1>3, AllSoundMoves DEF DiskSound, dir
<1>5. DiskSound'
  BY <1>4 DEF DiskSound
<1>6. Refines
  BY ReplayedIs DEF Refines, dir
<1> QED BY <1>5, <1>6

\* The memory is still right about every directory when it is about the new one.
LEMMA KnownKept ==
    ASSUME Running, phase = "open",
           files' = files, file' = file, segments' = segments, offset' = offset, phase' = phase,
           NEW e, Range(dirs') \subseteq Range(dirs) \cup {e},
           Known(files, file, segments, offset, e)
    PROVE  Running'
BY DEF Running

\* Directory d with another manifest.
Managed(d, s, p) == [d EXCEPT !.manifest = Manifest(s, p)]

\* Directory d with its active file under the name of generation g.
Renamed(d, g) == [d EXCEPT !.wal = With(@, g, d.active), !.active = 0]

\* Directory d with file i active.
Started(d, i) == [d EXCEPT !.active = i]

\* Directory d with a compressed copy r of generation g.
Copied(d, g, r) == [d EXCEPT !.gz = With(@, g, r)]

\* Directory d without the compressed copy of generation g.
Uncopied(d, g) == [d EXCEPT !.gz = Without(@, g)]

\* Directory d without the plain file of generation g.
Removed(d, g) == [d EXCEPT !.wal = Without(@, g)]

\* Another manifest in place.
LEMMA ManagedDir ==
    ASSUME NEW fs, NEW d, Formed(fs, d), NEW s \in Seq(Seg), NEW p \in Seq(Record)
    PROVE  /\ Formed(fs, Managed(d, s, p))
           /\ Managed(d, s, p).active = d.active
           /\ Managed(d, s, p).wal = d.wal
           /\ Managed(d, s, p).gz = d.gz
           /\ Managed(d, s, p).manifest = Manifest(s, p)
           /\ Managed(d, s, p).manifest.segs = s
           /\ Managed(d, s, p).manifest.pending = p
           /\ \A segs : Sealed(fs, d, segs) => Sealed(fs, Managed(d, s, p), segs)
<1> DEFINE e == Managed(d, s, p)
<1>1. e = [active |-> d.active, wal |-> d.wal, gz |-> d.gz, manifest |-> Manifest(s, p)]
  BY DEF Formed, Managed
<1>2. /\ Manifest(s, p) \in [segs : Seq(Seg), pending : Seq(Record)]
      /\ Manifest(s, p).segs = s /\ Manifest(s, p).pending = p
  BY DEF Manifest
<1> HIDE DEF e
<1>3. e.active = d.active /\ e.wal = d.wal /\ e.gz = d.gz /\ e.manifest = Manifest(s, p)
  BY <1>1
<1>4. Formed(fs, e)
  BY <1>1, <1>2, <1>3 DEF Formed
<1>5. ASSUME NEW segs, Sealed(fs, d, segs) PROVE Sealed(fs, e, segs)
  BY <1>3, <1>5 DEF Sealed
<1> QED BY <1>2, <1>3, <1>4, <1>5 DEF e

\* The active file moved aside.
LEMMA RenamedDir ==
    ASSUME NEW fs, GoodFiles(fs), NEW d, Formed(fs, d), d.active # 0, NEW g
    PROVE  /\ Formed(fs, Renamed(d, g))
           /\ Renamed(d, g).active = 0
           /\ Renamed(d, g).gz = d.gz
           /\ Renamed(d, g).manifest = d.manifest
           /\ DOMAIN Renamed(d, g).wal = DOMAIN d.wal \cup {g}
           /\ Renamed(d, g).wal[g] = d.active
           /\ \A h \in DOMAIN d.wal : h # g => Renamed(d, g).wal[h] = d.wal[h]
<1> DEFINE e == Renamed(d, g)
           w == With(d.wal, g, d.active)
<1>1. e = [active |-> 0, wal |-> w, gz |-> d.gz, manifest |-> d.manifest]
  <2>1. d = [active |-> d.active, wal |-> d.wal, gz |-> d.gz, manifest |-> d.manifest]
    BY DEF Formed
  <2>2. e = [[d EXCEPT !.wal = w] EXCEPT !.active = 0]
    BY <2>1 DEF Renamed
  <2> HIDE DEF e, w
  <2> QED BY <2>1, <2>2
<1>2. /\ DOMAIN w = DOMAIN d.wal \cup {g} /\ w[g] = d.active
      /\ \A h \in DOMAIN d.wal : h # g => w[h] = d.wal[h]
  BY DEF With
<1> HIDE DEF e, w
<1>3. e.active = 0 /\ e.wal = w /\ e.gz = d.gz /\ e.manifest = d.manifest
  BY <1>1
<1>4. d.active \in 1..Len(fs) /\ Len(fs) \in Nat
  BY DEF Formed, GoodFiles
<1>5. \A h \in DOMAIN w : w[h] \in 1..Len(fs) /\ w[h] # 0
  BY <1>2, <1>4 DEF Formed
<1>6. Formed(fs, e)
  BY <1>1, <1>3, <1>4, <1>5 DEF Formed
<1> QED BY <1>2, <1>3, <1>6 DEF e

\* An active file created.
LEMMA StartedDir ==
    ASSUME NEW fs, NEW gs, NEW d, Formed(fs, d), NEW i,
           Len(fs) \in Nat, i = Len(fs) + 1, Len(gs) = i
    PROVE  /\ Formed(gs, Started(d, i))
           /\ Started(d, i).active = i
           /\ Started(d, i).wal = d.wal
           /\ Started(d, i).gz = d.gz
           /\ Started(d, i).manifest = d.manifest
<1> DEFINE e == Started(d, i)
<1>1. e = [active |-> i, wal |-> d.wal, gz |-> d.gz, manifest |-> d.manifest]
  BY DEF Formed, Started
<1> HIDE DEF e
<1>2. e.active = i /\ e.wal = d.wal /\ e.gz = d.gz /\ e.manifest = d.manifest
  BY <1>1
<1>3. i \in 0..i /\ \A h \in DOMAIN d.wal : d.wal[h] \in 1..i /\ d.wal[h] # i
  BY DEF Formed
<1>4. Formed(gs, e)
  BY <1>1, <1>2, <1>3 DEF Formed
<1> QED BY <1>2, <1>4 DEF e

\* A compressed copy added.
LEMMA CopiedDir ==
    ASSUME NEW fs, NEW d, Formed(fs, d), NEW g, NEW r
    PROVE  /\ Formed(fs, Copied(d, g, r))
           /\ Copied(d, g, r).active = d.active
           /\ Copied(d, g, r).wal = d.wal
           /\ Copied(d, g, r).manifest = d.manifest
           /\ DOMAIN Copied(d, g, r).gz = DOMAIN d.gz \cup {g}
           /\ Copied(d, g, r).gz[g] = r
           /\ \A h \in DOMAIN d.gz : h # g => Copied(d, g, r).gz[h] = d.gz[h]
<1> DEFINE e == Copied(d, g, r)
           w == With(d.gz, g, r)
<1>1. e = [active |-> d.active, wal |-> d.wal, gz |-> w, manifest |-> d.manifest]
  BY DEF Formed, Copied
<1>2. /\ DOMAIN w = DOMAIN d.gz \cup {g} /\ w[g] = r
      /\ \A h \in DOMAIN d.gz : h # g => w[h] = d.gz[h]
  BY DEF With
<1> HIDE DEF e, w
<1>3. e.active = d.active /\ e.wal = d.wal /\ e.gz = w /\ e.manifest = d.manifest
  BY <1>1
<1>4. Formed(fs, e)
  BY <1>1, <1>3 DEF Formed
<1> QED BY <1>2, <1>3, <1>4 DEF e

\* The compressed copy removed.
LEMMA UncopiedDir ==
    ASSUME NEW fs, NEW d, Formed(fs, d), NEW g
    PROVE  /\ Formed(fs, Uncopied(d, g))
           /\ Uncopied(d, g).active = d.active
           /\ Uncopied(d, g).wal = d.wal
           /\ Uncopied(d, g).manifest = d.manifest
           /\ \A h \in DOMAIN d.gz : h # g =>
                h \in DOMAIN Uncopied(d, g).gz /\ Uncopied(d, g).gz[h] = d.gz[h]
<1> DEFINE e == Uncopied(d, g)
           w == Without(d.gz, g)
<1>1. e = [active |-> d.active, wal |-> d.wal, gz |-> w, manifest |-> d.manifest]
  BY DEF Formed, Uncopied
<1>2. \A h \in DOMAIN d.gz : h # g => h \in DOMAIN w /\ w[h] = d.gz[h]
  BY DEF Without, Restrict
<1> HIDE DEF e, w
<1>3. e.active = d.active /\ e.wal = d.wal /\ e.gz = w /\ e.manifest = d.manifest
  BY <1>1
<1>4. Formed(fs, e)
  BY <1>1, <1>3 DEF Formed
<1> QED BY <1>2, <1>3, <1>4 DEF e

\* The plain file removed.
LEMMA RemovedDir ==
    ASSUME NEW fs, NEW d, Formed(fs, d), NEW g
    PROVE  /\ Formed(fs, Removed(d, g))
           /\ Removed(d, g).active = d.active
           /\ Removed(d, g).gz = d.gz
           /\ Removed(d, g).manifest = d.manifest
           /\ DOMAIN Removed(d, g).wal = DOMAIN d.wal \ {g}
           /\ \A h \in DOMAIN d.wal : h # g => Removed(d, g).wal[h] = d.wal[h]
<1> DEFINE e == Removed(d, g)
           w == Without(d.wal, g)
<1>1. e = [active |-> d.active, wal |-> w, gz |-> d.gz, manifest |-> d.manifest]
  BY DEF Formed, Removed
<1>2. DOMAIN w = DOMAIN d.wal \ {g} /\ \A h \in DOMAIN d.wal : h # g => w[h] = d.wal[h]
  BY DEF Without, Restrict
<1> HIDE DEF e, w
<1>3. e.active = d.active /\ e.wal = w /\ e.gz = d.gz /\ e.manifest = d.manifest
  BY <1>1
<1>4. Formed(fs, e)
  BY <1>1, <1>2, <1>3 DEF Formed
<1> QED BY <1>2, <1>3, <1>4 DEF e

-----------------------------------------------------------------------------
(* Rolling                                                                 *)

\* Without a roll half done the manifest is what it says.
LEMMA ResolvesPlain ==
    ASSUME NEW e, ~Rolled(e)
    PROVE  resolveSegments(e) = e.manifest.segs
BY DEF resolveSegments

\* RollIntent: the intent does not count until its file is there.
LEMMA RollIntentStep ==
    ASSUME SafeDisk, Inv, RollIntent
    PROVE  Inv' /\ Refines
<1> DEFINE e == Managed(dir, segments, Committed)
           nd == NameDurable(file)
<1>0. /\ Typed /\ DiskSound /\ Stopped /\ Running /\ Clean
      /\ Writing /\ Rolling /\ Flags /\ Compacting
  BY DEF Inv
<1>1. /\ phase = "open" /\ status = "healthy" /\ roll = "idle" /\ compact.at \in {"idle", "copied"}
      /\ offset > 0 /\ Generation \notin DOMAIN dir.wal
      /\ dirs' = Append(nd, e) /\ roll' = "intent"
      /\ files' = files /\ phase' = phase /\ status' = status /\ file' = file
      /\ segments' = segments /\ offset' = offset /\ compact' = compact
      /\ checkpoint' = checkpoint /\ acked' = acked /\ written' = written
  BY DEF Managed, RollIntent, CanRoll, Sealable, Unlocked, mem, counters
<1>2. /\ file \in 1..Len(files) /\ file # 0 /\ Committed = files[file].recs
      /\ files[file].recs \in Seq(Record)
      /\ Len(History(files, file, segments, offset)) \in Nat
  BY <1>0, <1>1, OpenFacts
<1>3. /\ dir \in Range(dirs) /\ Formed(files, dir) /\ Firm(files, dir) \in Nat
      /\ Known(files, file, segments, offset, dir)
  BY <1>0, <1>1, DirFacts
<1>4. /\ dir.active = file /\ Ordered(dirs)
      /\ \A d \in Range(dirs) : Writable(file, segments, offset, d)
  BY <1>0, <1>1 DEF Writing, Settled
<1>5. segments \in Seq(Seg) /\ Committed \in Seq(Record) /\ GoodFiles(files)
  BY <1>0, <1>2 DEF Typed
<1>6. /\ Formed(files, e)
      /\ e.active = dir.active /\ e.wal = dir.wal /\ e.gz = dir.gz
      /\ e.manifest = Manifest(segments, Committed)
      /\ e.manifest.segs = segments
      /\ \A segs : Sealed(files, dir, segs) => Sealed(files, e, segs)
  BY <1>3, <1>5, ManagedDir
<1>7. /\ nd \in Seq(Range(nd)) /\ nd # <<>> /\ Range(nd) \subseteq Range(dirs) /\ Ordered(nd)
  <2>1. NamesSynced
    BY DEF SafeDisk
  <2>2. dirs \in Seq(Range(dirs)) /\ dirs # <<>>
    BY <1>0 DEF Typed
  <2> QED BY <1>2, <1>4, <2>1, <2>2, NameDurableIs
<1> HIDE DEF e, nd
<1>8. /\ dirs' \in Seq(Range(dirs')) /\ dirs' # <<>> /\ Range(dirs') \subseteq Range(dirs) \cup {e}
      /\ Last(dirs') = e /\ dir' = e /\ Ordered(dirs')
  <2>1. /\ dirs' \in Seq(Range(dirs')) /\ dirs' # <<>> /\ Range(dirs') = Range(nd) \cup {e} /\ Last(dirs') = e
    BY <1>1, <1>7, LastAppend
  <2>2. Ordered(dirs')
    BY <1>1, <1>2, <1>4, <1>6, <1>7, OrderedAppend
  <2> QED BY <2>1, <2>2, <1>7 DEF dir
<1>9. ~Rolled(e) /\ resolveSegments(e) = segments
  <2>1. ~Rolled(e)
    BY <1>1, <1>6 DEF Rolled, Generation
  <2> QED BY <2>1, <1>6, ResolvesPlain
<1>10. /\ Len(resolveSegments(dir)) = Len(segments)
       /\ Concat(resolveSegments(dir)) = Concat(segments)
  BY <1>3, <1>4, <1>5, WritableResolves
<1>11. Logged(files, e) = Logged(files, dir) /\ Firm(files, e) = Firm(files, dir)
  BY <1>6, <1>9, <1>10 DEF Logged, Firm
<1>12. Sealed(files, e, segments)
  BY <1>3, <1>6 DEF Known
<1>13. DiskSound' /\ Refines
  <2>1. Len(segments) \in Nat /\ Len(segments) >= Len(segments) /\ Firm(files, dir) >= Firm(files, dir)
    BY <1>3, <1>5
  <2> QED BY <1>0, <1>1, <1>6, <1>8, <1>9, <1>10, <1>11, <1>12, <2>1, DiskMoves
<1>14. Typed'
  BY <1>0, <1>1, <1>8 DEF Typed
<1>15. Stopped'
  BY <1>1 DEF Stopped
<1>16. Running'
  <2>1. Known(files, file, segments, offset, e)
    <3>1. Len(segments) <= Len(segments) /\ Firm(files, dir) >= Firm(files, dir)
      BY <1>3, <1>5
    <3> QED BY <1>2, <1>3, <1>5, <1>6, <1>9, <1>11, <1>12, <3>1, KnownMoves
  <2> QED BY <1>0, <1>1, <1>8, <2>1, KnownKept
<1>17. Clean'
  BY <1>0, <1>1, <1>8, <1>11 DEF Clean, Healthy
<1>18. Writing'
  <2>1. Writable(file, segments, offset, e)
    BY <1>3, <1>4, <1>6, <1>9 DEF Writable
  <2> QED BY <1>1, <1>4, <1>6, <1>8, <2>1 DEF Writing
<1>19. Rolling'
  BY <1>1, <1>2, <1>6, <1>8 DEF Rolling, Healthy, Generation
<1>20. Flags'
  BY <1>0, <1>1, <1>8, <1>9 DEF Flags
<1>21. Compacting'
  <2>1. compact.at = "copied" => /\ compact.gen \in DOMAIN e.gz /\ e.gz[compact.gen] = segments[compact.gen].recs
    BY <1>0, <1>6 DEF Compacting
  <2> QED BY <1>0, <1>1, <1>8, <1>9, <2>1 DEF Compacting
<1> QED BY <1>13, <1>14, <1>15, <1>16, <1>17, <1>18, <1>19, <1>20, <1>21 DEF Inv

\* The generations once the active one is sealed.
Full == Append(segments, Segment(files[file].recs, FALSE))

\* A log that rolls is healthy, and its sealed records are its whole history.
LEMMA RollFacts ==
    ASSUME Inv, roll # "idle"
    PROVE  /\ phase = "open" /\ status = "healthy" /\ offset > 0
           /\ compact.at \in {"idle", "copied"}
           /\ file \in 1..Len(files) /\ file # 0 /\ GoodFiles(files)
           /\ files[file].recs \in Seq(Record) /\ files[file].recs # <<>>
           /\ Committed = files[file].recs /\ Len(files[file].recs) = offset
           /\ Still(files, file) /\ offset \in Nat
           /\ segments \in Seq(Seg) /\ Len(segments) \in Nat /\ Generation = Len(segments) + 1
           /\ Full \in Seq(Seg) /\ Len(Full) = Len(segments) + 1
           /\ \A g \in 1..Len(segments) : Full[g] = segments[g]
           /\ Full[Generation].recs = files[file].recs /\ ~Full[Generation].compressed
           /\ Concat(Full) = History(files, file, segments, offset)
           /\ Concat(Full) = Concat(segments) \o files[file].recs
           /\ Concat(Full) \in Seq(Record)
           /\ Len(History(files, file, segments, offset)) \in Nat
           /\ Len(Concat(Full)) = Len(Concat(segments)) + offset
           /\ Len(Concat(Full)) \in Nat
           /\ Logged(files, dir) = Concat(Full)
<1>0. Typed /\ DiskSound /\ Running /\ Clean /\ Rolling
  BY DEF Inv
<1>1. phase = "open" /\ status = "healthy" /\ offset > 0 /\ compact.at \in {"idle", "copied"}
  BY <1>0 DEF Rolling, Healthy
<1> DEFINE r == files[file].recs
           x == Segment(r, FALSE)
           h == History(files, file, segments, offset)
<1>2. /\ file \in 1..Len(files) /\ file # 0 /\ r \in Seq(Record) /\ offset \in Nat
      /\ Committed = r /\ Len(r) = offset /\ files[file].synced = offset /\ ~files[file].torn
      /\ h = Concat(segments) \o r /\ h \in Seq(Record)
      /\ Len(h) = Len(Concat(segments)) + offset /\ Len(h) \in Nat
  BY <1>0, <1>1, OpenFacts
<1>3. segments \in Seq(Seg) /\ GoodFiles(files) /\ Len(segments) \in Nat
  BY <1>0 DEF Typed
<1>4. r # <<>>
  BY <1>1, <1>2
<1>5. Still(files, file)
  BY <1>2 DEF Still
<1>6. Logged(files, dir) = h
  BY <1>0, <1>1 DEF Clean, Healthy
<1>7. x \in Seg /\ x.recs = r /\ ~x.compressed
  BY <1>2 DEF Segment, Seg
<1>8. Full = Append(segments, x)
  BY DEF Full
<1> HIDE DEF x, r, h
<1>9. /\ Full \in Seq(Seg) /\ Len(Full) = Len(segments) + 1
      /\ \A g \in 1..Len(segments) : Full[g] = segments[g]
      /\ Full[Len(segments) + 1] = x
  BY <1>3, <1>7, <1>8, AppendProperties
<1>10. Concat(Full) = Concat(segments) \o r
  BY <1>3, <1>7, <1>8, ConcatAppend
<1>11. Generation = Len(segments) + 1
  BY DEF Generation
<1>12. Full[Generation].recs = r /\ ~Full[Generation].compressed
  BY <1>7, <1>9, <1>11
<1>13. Concat(Full) = h /\ Concat(Full) \in Seq(Record) /\ Len(Concat(Full)) = Len(Concat(segments)) + offset /\ Len(Concat(Full)) \in Nat
  BY <1>2, <1>10
<1> QED BY <1>1, <1>2, <1>3, <1>4, <1>5, <1>6, <1>9, <1>10, <1>11, <1>12, <1>13 DEF r, h

\* From the rename on the directory has one generation more.
LEMMA RolledDir ==
    ASSUME Inv, roll \in {"renamed", "created", "committed"}
    PROVE  resolveSegments(dir) = Full
<1>0. Rolling /\ roll # "idle"
  BY DEF Inv
<1>1. files[file].recs # <<>> /\ Generation = Len(segments) + 1
  BY <1>0, RollFacts
<1>2. CASE roll \in {"renamed", "created"}
  <2>1. dir.manifest = Manifest(segments, files[file].recs) /\ Generation \in DOMAIN dir.wal
    BY <1>0, <1>2 DEF Rolling
  <2>2. dir.manifest.segs = segments /\ dir.manifest.pending = files[file].recs
    BY <2>1 DEF Manifest
  <2>3. Rolled(dir)
    BY <1>1, <2>1, <2>2 DEF Rolled
  <2> QED BY <2>2, <2>3 DEF resolveSegments, Full
<1>3. CASE roll = "committed"
  <2>1. dir.manifest = Manifest(Full, <<>>)
    BY <1>0, <1>3 DEF Rolling, Full
  <2>2. dir.manifest.segs = Full /\ dir.manifest.pending = <<>>
    BY <2>1 DEF Manifest
  <2> QED BY <2>2 DEF resolveSegments, Rolled
<1> QED BY <1>2, <1>3

\* RollRename: the same records, under the sealed name.
LEMMA RollRenameStep ==
    ASSUME SafeDisk, Inv, RollRename
    PROVE  Inv' /\ Refines
<1> DEFINE e == Renamed(dir, Generation)
           r == files[file].recs
<1>0. /\ Typed /\ DiskSound /\ Stopped /\ Running /\ Clean
      /\ Writing /\ Rolling /\ Flags /\ Compacting
  BY DEF Inv
<1>1. /\ roll = "intent"
      /\ dirs' = Append(Synced, e) /\ roll' = "renamed"
      /\ files' = files /\ phase' = phase /\ status' = status /\ file' = file
      /\ segments' = segments /\ offset' = offset /\ compact' = compact
      /\ checkpoint' = checkpoint /\ acked' = acked /\ written' = written
  BY DEF Renamed, RollRename, mem, counters
<1>2. /\ phase = "open" /\ status = "healthy" /\ offset > 0
      /\ compact.at \in {"idle", "copied"}
      /\ file \in 1..Len(files) /\ file # 0 /\ GoodFiles(files)
      /\ r \in Seq(Record) /\ r # <<>> /\ Len(r) = offset /\ Still(files, file)
      /\ segments \in Seq(Seg) /\ Len(segments) \in Nat /\ Generation = Len(segments) + 1
      /\ Len(History(files, file, segments, offset)) \in Nat
  BY <1>1, RollFacts
<1>2a. /\ Full \in Seq(Seg) /\ Len(Full) = Len(segments) + 1
      /\ \A g \in 1..Len(segments) : Full[g] = segments[g]
  BY <1>1, RollFacts
<1>2b. Full[Generation].recs = r /\ ~Full[Generation].compressed
  BY <1>1, RollFacts
<1>2c. /\ Concat(Full) \in Seq(Record)
       /\ Len(Concat(Full)) = Len(Concat(segments)) + offset
       /\ Len(Concat(Full)) \in Nat
       /\ Logged(files, dir) = Concat(Full)
  BY <1>1, RollFacts
<1>3. /\ dir \in Range(dirs) /\ Formed(files, dir) /\ Firm(files, dir) \in Nat
      /\ Known(files, file, segments, offset, dir)
  BY <1>0, <1>2, DirFacts
<1>4. dir.active = file /\ Writable(file, segments, offset, dir)
  BY <1>0, <1>1, <1>2, <1>3 DEF Writing, Settled
<1>4a. dir.manifest = Manifest(segments, r) /\ Generation \notin DOMAIN dir.wal
  BY <1>0, <1>1 DEF Rolling
<1>5. dir.manifest.segs = segments /\ dir.manifest.pending = r
  BY <1>4a DEF Manifest
<1>6. /\ Formed(files, e)
      /\ e.active = 0 /\ e.gz = dir.gz /\ e.manifest = dir.manifest
      /\ DOMAIN e.wal = DOMAIN dir.wal \cup {Generation}
      /\ e.wal[Generation] = file
      /\ \A g \in DOMAIN dir.wal : g # Generation => e.wal[g] = dir.wal[g]
  BY <1>2, <1>3, <1>4, RenamedDir
<1> HIDE DEF e
<1>8. /\ dirs' \in Seq(Range(dirs')) /\ dirs' # <<>> /\ Range(dirs') \subseteq Range(dirs) \cup {e}
      /\ Last(dirs') = e /\ dir' = e
  BY <1>0, <1>1, NewDirs
<1>9. resolveSegments(e) = Full
  BY <1>2, <1>5, <1>6 DEF Rolled, resolveSegments, Full
<1>10. /\ Len(resolveSegments(dir)) = Len(segments)
       /\ Concat(resolveSegments(dir)) = Concat(segments)
  BY <1>2, <1>3, <1>4, WritableResolves
<1>11. Logged(files, e) = Logged(files, dir) /\ Firm(files, e) = Firm(files, dir)
  <2>1. Logged(files, e) = Concat(Full) \o <<>> /\ Firm(files, e) = Len(Concat(Full)) + 0
    BY <1>6, <1>9 DEF Logged, Firm
  <2>2. Concat(Full) \o <<>> = Concat(Full)
    BY <1>2c, ConcatEmptySeq
  <2>3. Firm(files, dir) = Len(Concat(segments)) + files[file].synced
    BY <1>2, <1>4, <1>10 DEF Firm
  <2>4. files[file].synced = offset
    BY <1>2 DEF Still
  <2>5. Firm(files, e) = Firm(files, dir)
    BY <2>1, <2>3, <2>4, <1>2c
  <2> QED BY <2>1, <2>2, <2>5, <1>2c
<1>12. Sealed(files, e, segments)
  <2>1. Sealed(files, dir, segments)
    BY <1>3 DEF Known
  <2>2. \A g \in 1..Len(segments) : g # Generation
    BY <1>2
  <2> QED BY <1>6, <2>1, <2>2 DEF Sealed
<1>12a. Sealed(files, e, Full)
  <2>1. SUFFICES ASSUME NEW g \in 1..(Len(segments) + 1)
                 PROVE  IF Full[g].compressed
                        THEN g \in DOMAIN e.gz /\ e.gz[g] = Full[g].recs
                        ELSE /\ g \in DOMAIN e.wal
                             /\ files[e.wal[g]].recs = Full[g].recs
                             /\ Still(files, e.wal[g])
    BY <1>2a DEF Sealed
  <2>2. CASE g = Generation
    <3>1. g \in DOMAIN e.wal /\ e.wal[g] = file
      BY <2>2, <1>6
    <3>2. Full[g].recs = files[file].recs /\ ~Full[g].compressed
      BY <2>2, <1>2b
    <3> QED BY <1>2, <3>1, <3>2
  <2>3. CASE g \in 1..Len(segments)
    <3>1. Full[g] = segments[g]
      BY <2>3, <1>2a
    <3>2. IF segments[g].compressed
          THEN g \in DOMAIN e.gz /\ e.gz[g] = segments[g].recs
          ELSE /\ g \in DOMAIN e.wal
               /\ files[e.wal[g]].recs = segments[g].recs
               /\ Still(files, e.wal[g])
      BY <2>3, <1>12 DEF Sealed
    <3> QED BY <3>1, <3>2
  <2> QED BY <1>2, <2>2, <2>3
<1>13. DiskSound' /\ Refines
  <2>1. Len(Full) >= Len(segments) /\ Firm(files, dir) >= Firm(files, dir)
    BY <1>2, <1>2a, <1>3
  <2> QED BY <1>0, <1>1, <1>6, <1>8, <1>9, <1>10, <1>11, <1>12a, <2>1, DiskMoves
<1>14. Typed'
  BY <1>0, <1>1, <1>8 DEF Typed
<1>15. Stopped'
  BY <1>1, <1>2 DEF Stopped
<1>16. Running'
  <2>1. Known(files, file, segments, offset, e)
    <3>1. Len(segments) <= Len(Full) /\ Firm(files, dir) >= Firm(files, dir)
      BY <1>2, <1>2a, <1>3
    <3>2. \A g \in 1..Len(segments) : Full[g].recs = segments[g].recs
      BY <1>2a
    <3> QED BY <1>2, <1>3, <1>6, <1>9, <1>11, <1>12, <3>1, <3>2, KnownMoves
  <2> QED BY <1>0, <1>1, <1>2, <1>8, <2>1, KnownKept
<1>17. Clean'
  BY <1>0, <1>1, <1>8, <1>11 DEF Clean, Healthy
<1>18. Writing'
  BY <1>1 DEF Writing
<1>19. Rolling'
  <2>1. Generation' = Generation
    BY <1>1 DEF Generation
  <2> QED BY <1>1, <1>2, <1>4a, <1>6, <1>8, <2>1 DEF Rolling, Healthy
<1>20. Flags'
  <2>1. \A g \in 1..Len(segments) : Full[g].compressed = segments[g].compressed
    BY <1>2a
  <2> QED BY <1>0, <1>1, <1>8, <1>9, <2>1 DEF Flags
<1>21. Compacting'
  <2>1. compact.at = "copied" => /\ compact.gen \in DOMAIN e.gz /\ e.gz[compact.gen] = segments[compact.gen].recs
    BY <1>0, <1>6 DEF Compacting
  <2>2. compact.at = "copied" => compact.gen \in 1..Len(Full) /\ ~Full[compact.gen].compressed
    BY <1>0, <1>2, <1>2a DEF Compacting
  <2> QED BY <1>0, <1>1, <1>2, <1>8, <1>9, <2>1, <2>2 DEF Compacting
<1> QED BY <1>13, <1>14, <1>15, <1>16, <1>17, <1>18, <1>19, <1>20, <1>21 DEF Inv

\* A file just created.
NoRecs == [recs |-> <<>>, synced |-> 0, torn |-> FALSE]

\* A file is created.
LEMMA FilesGrow ==
    ASSUME NEW fs, GoodFiles(fs)
    PROVE  /\ GoodFiles(Append(fs, NoRecs))
           /\ Len(Append(fs, NoRecs)) = Len(fs) + 1 /\ Len(fs) \in Nat
           /\ \A i \in 1..Len(fs) : Append(fs, NoRecs)[i] = fs[i]
           /\ Append(fs, NoRecs)[Len(fs) + 1] = NoRecs
<1>1. NoRecs \in File /\ NoRecs.synced = 0 /\ NoRecs.recs = <<>>
  BY EmptySeq DEF NoRecs, File
<1>2. fs \in Seq(File)
  BY DEF GoodFiles
<1> DEFINE gs == Append(fs, NoRecs)
<1>3. /\ gs \in Seq(File) /\ Len(gs) = Len(fs) + 1 /\ Len(fs) \in Nat
      /\ \A i \in 1..Len(fs) : gs[i] = fs[i]
      /\ gs[Len(fs) + 1] = NoRecs
  BY <1>1, <1>2, AppendProperties
<1> HIDE DEF gs
<1>4. ASSUME NEW i \in 1..Len(gs) PROVE gs[i].synced <= Len(gs[i].recs)
  <2>1. CASE i \in 1..Len(fs)
    BY <2>1, <1>3 DEF GoodFiles
  <2>2. CASE i = Len(fs) + 1
    <3>1. Len(<<>>) = 0
      OBVIOUS
    <3> QED BY <2>2, <3>1, <1>1, <1>3
  <2> QED BY <1>3, <2>1, <2>2
<1>5. GoodFiles(gs)
  BY <1>3, <1>4 DEF GoodFiles
<1> QED BY <1>3, <1>5 DEF gs

\* Other files do not matter to what the memory has.
LEMMA KnownSame ==
    ASSUME NEW fs, NEW gs, NEW i, NEW segs, NEW n, NEW d,
           Known(fs, i, segs, n, d), gs[i] = fs[i],
           Logged(gs, d) = Logged(fs, d), Firm(gs, d) = Firm(fs, d),
           \A s : Sealed(fs, d, s) => Sealed(gs, d, s)
    PROVE  Known(gs, i, segs, n, d)
<1>1. History(gs, i, segs, n) = History(fs, i, segs, n)
  BY DEF History
<1> QED BY <1>1 DEF Known

\* RollCreate: an empty successor adds nothing.
LEMMA RollCreateStep ==
    ASSUME SafeDisk, Inv, RollCreate
    PROVE  Inv' /\ Refines
<1> DEFINE gs == Append(files, NoRecs)
           i == Len(files) + 1
           e == Started(dir, i)
<1>0. /\ Typed /\ DiskSound /\ Stopped /\ Running /\ Clean
      /\ Writing /\ Rolling /\ Flags /\ Compacting
  BY DEF Inv
<1>1. /\ roll = "renamed" /\ dir.active = 0
      /\ dirs' = Append(Synced, e) /\ roll' = "created"
      /\ files' = gs /\ phase' = phase /\ status' = status /\ file' = file
      /\ segments' = segments /\ offset' = offset /\ compact' = compact
      /\ checkpoint' = checkpoint /\ acked' = acked /\ written' = written
  BY DEF Started, NoRecs, RollCreate, mem, counters
<1>2. /\ phase = "open" /\ status = "healthy" /\ offset > 0
      /\ compact.at \in {"idle", "copied"}
      /\ file \in 1..Len(files) /\ file # 0 /\ GoodFiles(files)
      /\ segments \in Seq(Seg) /\ Len(segments) \in Nat
      /\ Len(History(files, file, segments, offset)) \in Nat
  BY <1>1, RollFacts
<1>2a. /\ Full \in Seq(Seg) /\ Len(Full) = Len(segments) + 1
       /\ \A g \in 1..Len(segments) : Full[g] = segments[g]
  BY <1>1, RollFacts
<1>2b. /\ Concat(Full) \in Seq(Record) /\ Len(Concat(Full)) \in Nat
  BY <1>1, RollFacts
<1>3. /\ dir \in Range(dirs) /\ Formed(files, dir) /\ Firm(files, dir) \in Nat
      /\ Known(files, file, segments, offset, dir)
      /\ Sound(files, checkpoint, acked, written, dir)
  BY <1>0, <1>2, DirFacts
<1>4. resolveSegments(dir) = Full
  BY <1>1, RolledDir
<1>5. /\ GoodFiles(gs) /\ Len(gs) = i /\ Len(files) \in Nat
      /\ \A j \in 1..Len(files) : gs[j] = files[j]
      /\ gs[i] = NoRecs
  BY <1>2, FilesGrow
<1>6. /\ Formed(gs, e) /\ e.active = i /\ e.wal = dir.wal /\ e.gz = dir.gz
      /\ e.manifest = dir.manifest
  <2>1. i = Len(files) + 1
    OBVIOUS
  <2> HIDE DEF i, gs
  <2> QED BY <1>3, <1>5, <2>1, StartedDir
<1> HIDE DEF e, gs
<1>7. /\ Formed(gs, dir)
      /\ Logged(gs, dir) = Logged(files, dir)
      /\ Firm(gs, dir) = Firm(files, dir)
      /\ \A segs : Sealed(files, dir, segs) => Sealed(gs, dir, segs)
  <2>1. \A g \in DOMAIN dir.wal : gs[dir.wal[g]] = files[dir.wal[g]]
    BY <1>3, <1>5 DEF Formed
  <2>2. Len(gs) \in Nat /\ Len(files) <= Len(gs)
    BY <1>5
  <2> QED BY <1>1, <1>2, <1>3, <2>1, <2>2, SameFiles
<1>8. /\ dirs' \in Seq(Range(dirs')) /\ dirs' # <<>>
      /\ Range(dirs') = {dir, e} /\ Last(dirs') = e /\ dir' = e
  <2>1. Synced \in Seq(Range(Synced)) /\ Range(Synced) = {dir}
    BY LastOne DEF Synced
  <2> QED BY <1>1, <2>1, LastAppend DEF dir
<1>9. resolveSegments(e) = Full
  BY <1>4, <1>6 DEF Rolled, resolveSegments
<1>10. /\ gs[i].recs = <<>> /\ gs[i].synced = 0 /\ ~gs[i].torn /\ i # 0
  BY <1>5 DEF NoRecs
<1>11. Logged(gs, e) = Logged(gs, dir) /\ Firm(gs, e) = Firm(gs, dir) /\ Firm(gs, dir) \in Nat
  <2>1. Logged(gs, e) = Concat(Full) \o <<>> /\ Firm(gs, e) = Len(Concat(Full)) + 0
    BY <1>6, <1>9, <1>10 DEF Logged, Firm
  <2>2. Logged(gs, dir) = Concat(Full) \o <<>> /\ Firm(gs, dir) = Len(Concat(Full)) + 0
    BY <1>1, <1>4 DEF Logged, Firm
  <2> QED BY <2>1, <2>2, <1>2b
<1>12. \A segs : Sealed(gs, dir, segs) => Sealed(gs, e, segs)
  BY <1>6 DEF Sealed
<1>13. Sound(gs, checkpoint, acked, written, dir)
  BY <1>3, <1>7, SameSound
<1>14. Sound(gs, checkpoint, acked, written, e)
  <2>1. Sealed(gs, e, resolveSegments(e))
    BY <1>4, <1>9, <1>12, <1>13 DEF Sound
  <2>2. Firm(gs, e) >= Firm(gs, dir) /\ Len(resolveSegments(e)) >= Len(resolveSegments(dir))
    BY <1>2, <1>2a, <1>4, <1>9, <1>11
  <2>3. checkpoint \in [gen : Nat, count : Nat, id : Nat] /\ acked \in Nat /\ written \in Nat
    BY <1>0 DEF Typed
  <2> QED BY <1>5, <1>6, <1>11, <1>13, <2>1, <2>2, <2>3, SoundMoves
<1>15. Known(gs, file, segments, offset, dir)
  BY <1>2, <1>3, <1>5, <1>7, KnownSame
<1>16. Known(gs, file, segments, offset, e)
  BY <1>4, <1>9, <1>11, <1>12, <1>15 DEF Known
<1>17. DiskSound'
  <2>1. Logged(gs, e) \in Seq(Record)
    BY <1>5, <1>6, LoggedType
  <2>2. Begins(Logged(gs, e), Logged(gs, e)) /\ Begins(Logged(gs, dir), Logged(gs, e))
    BY <1>11, <2>1, BeginsItself
  <2> QED BY <1>1, <1>8, <1>13, <1>14, <2>2 DEF DiskSound, AllSound
<1>18. Refines
  BY <1>1, <1>7, <1>8, <1>11, ReplayedIs DEF Refines, dir
<1>19. Typed'
  <2>1. file \in 0..Len(gs) /\ gs[file] = files[file]
    BY <1>2, <1>5
  <2> QED BY <1>0, <1>1, <1>5, <1>8, <2>1 DEF Typed
<1>20. Stopped'
  BY <1>1, <1>2 DEF Stopped
<1>21. Running'
  BY <1>0, <1>1, <1>8, <1>15, <1>16 DEF Running
<1>22. Clean'
  <2>1. gs[file] = files[file] /\ History(gs, file, segments, offset) = History(files, file, segments, offset)
    BY <1>2, <1>5 DEF History
  <2> QED BY <1>0, <1>1, <1>7, <1>8, <1>11, <2>1 DEF Clean, Healthy
<1>23. Writing'
  BY <1>1 DEF Writing
<1>24. Rolling'
  <2>1. Generation' = Generation /\ gs[file] = files[file]
    BY <1>1, <1>2, <1>5 DEF Generation
  <2> QED BY <1>0, <1>1, <1>2, <1>6, <1>8, <1>10, <2>1 DEF Rolling, Healthy
<1>25. Flags'
  <2>1. \A g \in 1..Len(segments) : Full[g].compressed = segments[g].compressed
    BY <1>2a
  <2> QED BY <1>1, <1>4, <1>8, <1>9, <2>1 DEF Flags
<1>26. Compacting'
  <2>1. compact.at = "copied" => /\ compact.gen \in DOMAIN e.gz /\ e.gz[compact.gen] = segments[compact.gen].recs
    BY <1>0, <1>6 DEF Compacting
  <2>2. compact.at = "copied" => compact.gen \in 1..Len(Full) /\ ~Full[compact.gen].compressed
    BY <1>0, <1>2, <1>2a DEF Compacting
  <2> QED BY <1>0, <1>1, <1>2, <1>4, <1>8, <1>9, <2>1, <2>2 DEF Compacting
<1> QED BY <1>17, <1>18, <1>19, <1>20, <1>21, <1>22, <1>23, <1>24, <1>25, <1>26 DEF Inv

\* RollCommit: the manifest says what the intent and its file said.
LEMMA RollCommitStep ==
    ASSUME SafeDisk, Inv, RollCommit
    PROVE  Inv' /\ Refines
<1> DEFINE e == Managed(dir, Full, <<>>)
<1>0. /\ Typed /\ DiskSound /\ Stopped /\ Running /\ Clean
      /\ Writing /\ Rolling /\ Flags /\ Compacting
  BY DEF Inv
<1>1a. roll = "created"
  BY DEF RollCommit
<1>2. /\ phase = "open" /\ status = "healthy" /\ offset > 0
      /\ compact.at \in {"idle", "copied"}
      /\ file \in 1..Len(files) /\ file # 0 /\ GoodFiles(files)
      /\ Committed = files[file].recs
      /\ segments \in Seq(Seg) /\ Len(segments) \in Nat
      /\ Len(History(files, file, segments, offset)) \in Nat
  BY <1>1a, RollFacts
<1>1. /\ dirs' = Append(Synced, e) /\ roll' = "committed"
      /\ files' = files /\ phase' = phase /\ status' = status /\ file' = file
      /\ segments' = segments /\ offset' = offset /\ compact' = compact
      /\ checkpoint' = checkpoint /\ acked' = acked /\ written' = written
  BY <1>2 DEF Managed, Full, RollCommit, mem, counters
<1>2a. /\ Full \in Seq(Seg) /\ Len(Full) = Len(segments) + 1
       /\ \A g \in 1..Len(segments) : Full[g] = segments[g]
  BY <1>1a, RollFacts
<1>3. /\ dir \in Range(dirs) /\ Formed(files, dir) /\ Firm(files, dir) \in Nat
      /\ Known(files, file, segments, offset, dir)
      /\ Sealed(files, dir, resolveSegments(dir))
  BY <1>0, <1>2, DirFacts
<1>4. resolveSegments(dir) = Full
  BY <1>1a, RolledDir
<1>6. /\ Formed(files, e)
      /\ e.active = dir.active /\ e.wal = dir.wal /\ e.gz = dir.gz
      /\ e.manifest = Manifest(Full, <<>>)
      /\ e.manifest.segs = Full
      /\ e.manifest.pending = <<>>
      /\ \A segs : Sealed(files, dir, segs) => Sealed(files, e, segs)
  <2>1. PICK p \in Seq(Record) : p = <<>>
    BY EmptySeq
  <2>2. e = Managed(dir, Full, p)
    BY <2>1
  <2> HIDE DEF e
  <2>3. /\ Formed(files, e)
        /\ e.active = dir.active /\ e.wal = dir.wal /\ e.gz = dir.gz
        /\ e.manifest = Manifest(Full, p) /\ e.manifest.segs = Full /\ e.manifest.pending = p
        /\ \A segs : Sealed(files, dir, segs) => Sealed(files, e, segs)
    BY <1>2a, <1>3, <2>2, ManagedDir
  <2> QED BY <2>1, <2>3
<1> HIDE DEF e
<1>8. /\ dirs' \in Seq(Range(dirs')) /\ dirs' # <<>> /\ Range(dirs') \subseteq Range(dirs) \cup {e}
      /\ Last(dirs') = e /\ dir' = e
  BY <1>0, <1>1, NewDirs
<1>9. resolveSegments(e) = Full
  BY <1>6 DEF Rolled, resolveSegments
<1>11. Logged(files, e) = Logged(files, dir) /\ Firm(files, e) = Firm(files, dir)
  BY <1>4, <1>6, <1>9 DEF Logged, Firm
<1>13. DiskSound' /\ Refines
  <2>1. Len(Full) >= Len(Full) /\ Firm(files, dir) >= Firm(files, dir)
    BY <1>2, <1>2a, <1>3
  <2>2. Sealed(files, e, Full)
    BY <1>3, <1>4, <1>6
  <2> QED BY <1>0, <1>1, <1>4, <1>6, <1>8, <1>9, <1>11, <2>1, <2>2, DiskMoves
<1>14. Typed'
  BY <1>0, <1>1, <1>8 DEF Typed
<1>15. Stopped'
  BY <1>1, <1>2 DEF Stopped
<1>16. Running'
  <2>1. Known(files, file, segments, offset, e)
    BY <1>3, <1>4, <1>6, <1>9, <1>11 DEF Known
  <2> QED BY <1>0, <1>1, <1>2, <1>8, <2>1, KnownKept
<1>17. Clean'
  BY <1>0, <1>1, <1>8, <1>11 DEF Clean, Healthy
<1>18. Writing'
  BY <1>1 DEF Writing
<1>19. Rolling'
  <2>1. Generation' = Generation
    BY <1>1 DEF Generation
  <2> QED BY <1>0, <1>1, <1>1a, <1>2, <1>6, <1>8, <2>1 DEF Rolling, Healthy, Full
<1>20. Flags'
  BY <1>0, <1>1, <1>3, <1>4, <1>8, <1>9 DEF Flags
<1>21. Compacting'
  <2>1. compact.at = "copied" => /\ compact.gen \in DOMAIN e.gz /\ e.gz[compact.gen] = segments[compact.gen].recs
    BY <1>0, <1>6 DEF Compacting
  <2>2. compact.at = "copied" => compact.gen \in 1..Len(Full) /\ ~Full[compact.gen].compressed
    BY <1>0, <1>3, <1>4 DEF Compacting
  <2> QED BY <1>0, <1>1, <1>2, <1>8, <1>9, <2>1, <2>2 DEF Compacting
<1> QED BY <1>13, <1>14, <1>15, <1>16, <1>17, <1>18, <1>19, <1>20, <1>21 DEF Inv

\* RollDone: the memory follows.
LEMMA RollDoneStep ==
    ASSUME SafeDisk, Inv, RollDone
    PROVE  Inv' /\ Refines
<1> DEFINE a == dir.active
           h == History(files, file, segments, offset)
<1>0. /\ Typed /\ DiskSound /\ Stopped /\ Running /\ Clean
      /\ Writing /\ Rolling /\ Flags /\ Compacting
  BY DEF Inv
<1>1a. roll = "committed"
  BY DEF RollDone
<1>2. /\ phase = "open" /\ status = "healthy" /\ offset > 0
      /\ compact.at \in {"idle", "copied"}
      /\ file \in 1..Len(files) /\ file # 0 /\ GoodFiles(files)
      /\ Committed = files[file].recs
      /\ segments \in Seq(Seg) /\ Len(segments) \in Nat
      /\ Len(h) \in Nat
  BY <1>1a, RollFacts
<1>1. /\ dirs' = Synced /\ roll' = "idle" /\ segments' = Full /\ file' = a /\ offset' = 0
      /\ files' = files /\ phase' = phase /\ status' = status /\ compact' = compact
      /\ checkpoint' = checkpoint /\ acked' = acked /\ written' = written
  BY <1>2 DEF Full, RollDone, counters
<1>2a. /\ Full \in Seq(Seg) /\ Len(Full) = Len(segments) + 1
       /\ \A g \in 1..Len(segments) : Full[g] = segments[g]
  BY <1>1a, RollFacts
<1>2b. /\ Concat(Full) \in Seq(Record) /\ Len(Concat(Full)) \in Nat
       /\ Concat(Full) = h /\ Logged(files, dir) = Concat(Full)
  BY <1>1a, RollFacts
<1>3. /\ dir \in Range(dirs) /\ Formed(files, dir) /\ Firm(files, dir) \in Nat
      /\ Known(files, file, segments, offset, dir)
      /\ Sealed(files, dir, resolveSegments(dir)) /\ a \in 0..Len(files)
  BY <1>0, <1>2, DirFacts
<1>4. resolveSegments(dir) = Full
  BY <1>1a, RolledDir
<1>5. /\ a # 0 /\ files[a].recs = <<>> /\ files[a].synced = 0 /\ ~files[a].torn
      /\ dir.manifest = Manifest(Full, <<>>)
  BY <1>0, <1>1a DEF Rolling, Full
<1>6. dir.manifest.segs = Full /\ dir.manifest.pending = <<>>
  BY <1>5 DEF Manifest
<1>8. /\ dirs' \in Seq(Range(dirs')) /\ dirs' # <<>> /\ Range(dirs') \subseteq Range(dirs) \cup {dir}
      /\ Last(dirs') = dir /\ dir' = dir
  BY <1>0, <1>1, NewDirs
<1>8a. Range(dirs') = {dir} /\ Ordered(dirs')
  BY <1>1, LastOne, OrderedOne DEF Synced
<1>9. /\ History(files, a, Full, 0) = Concat(Full)
      /\ Firm(files, dir) = Len(Concat(Full))
  <2>1. SubSeq(<<>>, 1, 0) = <<>>
    BY SubSeqEmpty
  <2>2. History(files, a, Full, 0) = Concat(Full) \o <<>>
    BY <1>5, <2>1 DEF History
  <2>3. Concat(Full) \o <<>> = Concat(Full)
    BY <1>2b, ConcatEmptySeq
  <2>4. Firm(files, dir) = Len(Concat(Full)) + 0
    BY <1>4, <1>5 DEF Firm
  <2> QED BY <2>2, <2>3, <2>4, <1>2b
<1>13. DiskSound' /\ Refines
  <2>1. Len(Full) >= Len(Full) /\ Firm(files, dir) >= Firm(files, dir)
    BY <1>2, <1>2a, <1>3
  <2> QED BY <1>0, <1>1, <1>3, <1>4, <1>8, <2>1, DiskMoves
<1>14. Typed'
  <2>1. 0 <= files[a].synced
    BY <1>5
  <2> QED BY <1>0, <1>1, <1>2a, <1>3, <1>5, <1>8, <2>1 DEF Typed
<1>15. Stopped'
  BY <1>1, <1>2 DEF Stopped
<1>16. Running'
  <2>1. Known(files, a, Full, 0, dir)
    <3>1. Begins(Concat(Full), Concat(Full))
      BY <1>2b, BeginsItself
    <3>2. Len(Full) <= Len(Full) /\ Len(Concat(Full)) <= Len(Concat(Full))
      BY <1>2, <1>2a, <1>2b
    <3> QED BY <1>2b, <1>3, <1>4, <1>9, <3>1, <3>2 DEF Known
  <2> QED BY <1>1, <1>2, <1>5, <1>8a, <2>1 DEF Running
<1>17. Clean'
  <2>1. Len(files[a].recs) = 0
    BY <1>5
  <2>2. acked = Len(h)
    BY <1>0, <1>2 DEF Clean, Healthy
  <2> QED BY <1>1, <1>2b, <1>5, <1>8, <1>9, <2>1, <2>2 DEF Clean
<1>18. Writing'
  <2>1. Writable(a, Full, 0, dir)
    BY <1>3, <1>6 DEF Writable, Rolled, Formed
  <2> QED BY <1>1, <1>8, <1>8a, <2>1 DEF Writing
<1>19. Rolling'
  BY <1>1 DEF Rolling
<1>20. Flags'
  BY <1>1, <1>4, <1>8a DEF Flags
<1>21. Compacting'
  <2>1. compact.at = "copied" =>
          /\ compact.gen \in 1..Len(Full) /\ ~Full[compact.gen].compressed
          /\ compact.gen \in DOMAIN dir.gz /\ dir.gz[compact.gen] = Full[compact.gen].recs
    BY <1>0, <1>2, <1>2a DEF Compacting
  <2> QED BY <1>1, <1>2, <1>4, <1>8, <1>8a, <2>1 DEF Compacting
<1> QED BY <1>13, <1>14, <1>15, <1>16, <1>17, <1>18, <1>19, <1>20, <1>21 DEF Inv

\* RollFails: past the rename the log is not writable any more.
LEMMA RollFailsStep ==
    ASSUME SafeDisk, Inv, NEW synced \in BOOLEAN, RollFails(synced)
    PROVE  Inv' /\ Refines
<1>0. /\ Typed /\ DiskSound /\ Stopped /\ Running /\ Clean
      /\ Writing /\ Rolling /\ Flags /\ Compacting
  BY DEF Inv
<1>1. /\ roll # "idle" /\ roll \in Faults
      /\ dirs' = Synced \/ dirs' = dirs
      /\ roll' = "idle"
      /\ files' = files /\ phase' = phase /\ file' = file
      /\ segments' = segments /\ offset' = offset /\ compact' = compact
      /\ checkpoint' = checkpoint /\ acked' = acked /\ written' = written
      /\ roll = "intent" => status' = status
      /\ roll # "intent" => status' = IF status = "recovery" THEN status ELSE "unavailable"
  BY DEF RollFails, Fails, MarkUnavailable
<1>2. /\ phase = "open" /\ status = "healthy"
      /\ compact.at \in {"idle", "copied"} /\ file # 0
  BY <1>1, RollFacts
<1>3. /\ dir \in Range(dirs) /\ Formed(files, dir) /\ Firm(files, dir) \in Nat
      /\ Known(files, file, segments, offset, dir)
      /\ Sealed(files, dir, resolveSegments(dir))
      /\ Len(resolveSegments(dir)) \in Nat
  BY <1>0, <1>2, DirFacts
<1>8. /\ dirs' \in Seq(Range(dirs')) /\ dirs' # <<>> /\ Range(dirs') \subseteq Range(dirs)
      /\ Last(dirs') = dir /\ dir' = dir
      /\ Ordered(dirs) /\ dir.active # 0 => Ordered(dirs')
  BY <1>0, <1>1, <1>3, NewDirs
<1>13. DiskSound' /\ Refines
  <2>1. Len(resolveSegments(dir)) >= Len(resolveSegments(dir)) /\ Firm(files, dir) >= Firm(files, dir)
    BY <1>3
  <2> QED BY <1>0, <1>1, <1>3, <1>8, <2>1, DiskMoves
<1>14. Typed'
  <2>1. status' \in Statuses
    BY <1>1, <1>2 DEF Statuses
  <2> QED BY <1>0, <1>1, <1>8, <2>1 DEF Typed
<1>15. Stopped'
  BY <1>1, <1>2 DEF Stopped
<1>16. Running'
  BY <1>0, <1>1, <1>2, <1>3, <1>8, KnownKept
<1>17. Clean'
  BY <1>0, <1>1, <1>2, <1>8 DEF Clean, Healthy
<1>18. Writing'
  <2>1. CASE roll = "intent"
    <3>1. /\ dir.active = file /\ Ordered(dirs)
          /\ \A d \in Range(dirs) : Writable(file, segments, offset, d)
      BY <1>0, <1>2, <2>1 DEF Writing, Settled
    <3> QED BY <1>1, <1>2, <1>8, <3>1 DEF Writing
  <2>2. CASE roll # "intent"
    <3>1. roll \in {"renamed", "created", "committed"}
      BY <1>0, <1>1, <2>2 DEF Typed
    <3>2. ~RollsFinish
      BY <1>1, <3>1 DEF RollsFinish
    <3>3. ~Settled'
      BY <1>1, <1>2, <2>2, <3>2 DEF Settled, RollsFinish
    <3> QED BY <3>3 DEF Writing
  <2> QED BY <2>1, <2>2
<1>19. Rolling'
  BY <1>1 DEF Rolling
<1>20. Flags'
  BY <1>0, <1>1, <1>8 DEF Flags
<1>21. Compacting'
  BY <1>0, <1>1, <1>2, <1>8 DEF Compacting
<1> QED BY <1>13, <1>14, <1>15, <1>16, <1>17, <1>18, <1>19, <1>20, <1>21 DEF Inv

\* RollSyncFails: nothing changed but the status.
LEMMA RollSyncFailsStep ==
    ASSUME SafeDisk, Inv, RollSyncFails
    PROVE  Inv' /\ Refines
<1>0. /\ Typed /\ DiskSound /\ Stopped /\ Running /\ Clean
      /\ Writing /\ Rolling /\ Flags /\ Compacting
  BY DEF Inv
<1>1. /\ phase = "open" /\ status = "healthy" /\ roll = "idle"
      /\ dirs' = dirs /\ roll' = roll
      /\ files' = files /\ phase' = phase /\ file' = file
      /\ segments' = segments /\ offset' = offset /\ compact' = compact
      /\ checkpoint' = checkpoint /\ acked' = acked /\ written' = written
      /\ status' = "unavailable"
  BY DEF RollSyncFails, Fails, MarkUnavailable, CanRoll, Unlocked, disk
<1>2. dir' = dir
  BY <1>1 DEF dir
<1>13. DiskSound' /\ Refines
  BY <1>0, <1>1, <1>2, ReplayedIs DEF DiskSound, Refines
<1>14. Typed'
  BY <1>0, <1>1 DEF Typed, Statuses
<1>15. Stopped'
  BY <1>1 DEF Stopped
<1>16. Running'
  BY <1>0, <1>1 DEF Running
<1>17. Clean'
  BY <1>1 DEF Clean, Healthy
<1>18. Writing'
  <2>1. /\ dir.active = file /\ Ordered(dirs)
        /\ \A d \in Range(dirs) : Writable(file, segments, offset, d)
    BY <1>0, <1>1 DEF Writing, Settled
  <2> QED BY <1>1, <1>2, <2>1 DEF Writing
<1>19. Rolling'
  BY <1>1 DEF Rolling
<1>20. Flags'
  BY <1>0, <1>1 DEF Flags
<1>21. Compacting'
  <2>1. Compressed(compact.gen)' = Compressed(compact.gen)
    BY <1>1 DEF Compressed
  <2> QED BY <1>0, <1>1, <1>2, <2>1 DEF Compacting
<1> QED BY <1>13, <1>14, <1>15, <1>16, <1>17, <1>18, <1>19, <1>20, <1>21 DEF Inv

\* Close: the disk stays as it is.
LEMMA CloseStep ==
    ASSUME SafeDisk, Inv, Close
    PROVE  Inv' /\ Refines
<1>0. /\ Typed /\ DiskSound /\ Stopped /\ Running /\ Clean
      /\ Writing /\ Rolling /\ Flags /\ Compacting
  BY DEF Inv
<1>1. /\ phase = "open" /\ roll = "idle" /\ compact.at \in {"idle", "copied"}
      /\ dirs' = dirs /\ roll' = roll /\ status' = status
      /\ files' = files /\ phase' = "closed" /\ file' = 0
      /\ segments' = segments /\ offset' = offset /\ compact' = compact
      /\ checkpoint' = checkpoint /\ acked' = acked /\ written' = written
  BY DEF Close, Unlocked, disk, counters
<1>2. dir' = dir
  BY <1>1 DEF dir
<1>13. DiskSound' /\ Refines
  BY <1>0, <1>1, <1>2, ReplayedIs DEF DiskSound, Refines
<1>14. Typed'
  <2>1. 0 \in 0..Len(files)
    BY <1>0 DEF Typed, GoodFiles
  <2> QED BY <1>0, <1>1, <2>1 DEF Typed
<1>15. Stopped'
  BY <1>1 DEF Stopped
<1>16. Running'
  BY <1>1 DEF Running
<1>17. Clean'
  BY <1>1 DEF Clean, Healthy
<1>18. Writing'
  BY <1>1 DEF Writing, Settled
<1>19. Rolling'
  BY <1>1 DEF Rolling
<1>20. Flags'
  BY <1>1 DEF Flags
<1>21. Compacting'
  BY <1>0, <1>1, <1>2 DEF Compacting
<1> QED BY <1>13, <1>14, <1>15, <1>16, <1>17, <1>18, <1>19, <1>20, <1>21 DEF Inv

\* AdvanceCheckpoint: the head it records is durable in every directory.
LEMMA AdvanceCheckpointStep ==
    ASSUME SafeDisk, Inv, AdvanceCheckpoint
    PROVE  Inv' /\ Refines
<1> DEFINE h == History(files, file, segments, offset)
           cp == [gen |-> Generation, count |-> Len(h), id |-> Last(h).id]
<1>0. /\ Typed /\ DiskSound /\ Stopped /\ Running /\ Clean
      /\ Writing /\ Rolling /\ Flags /\ Compacting
  BY DEF Inv
<1>1a. phase = "open"
  BY DEF AdvanceCheckpoint
<1>1b. h \in Seq(Record) /\ Len(h) \in Nat /\ ChainHead = h
  BY <1>0, <1>1a, OpenFacts
<1>1. /\ dirs' = dirs /\ roll' = roll /\ status' = status
      /\ files' = files /\ phase' = phase /\ file' = file
      /\ segments' = segments /\ offset' = offset /\ compact' = compact
      /\ checkpoint' = cp /\ acked' = acked /\ written' = written
      /\ h # <<>>
  BY <1>1b DEF AdvanceCheckpoint, disk, mem, counters
<1>2. dir' = dir /\ Generation = Len(segments) + 1 /\ Len(segments) \in Nat
  BY <1>0, <1>1 DEF dir, Generation, Typed
<1>3. Len(h) \in Nat \ {0} /\ Last(h) \in Record
  <2>1. Len(h) # 0
    BY <1>1, <1>1b, EmptySeq
  <2> QED BY <1>1b, <2>1 DEF Last
<1>4. cp \in [gen : Nat, count : Nat, id : Nat]
  <2>1. Last(h).id \in Nat
    BY <1>3 DEF Record
  <2> QED BY <1>2, <1>3, <2>1
<1> HIDE DEF h
<1>5. cp.gen = Generation /\ cp.count = Len(h) /\ cp.id = Last(h).id
  OBVIOUS
<1> HIDE DEF cp
<1>6. ASSUME NEW d \in Range(dirs) PROVE Sound(files, cp, acked, written, d)
  <2>1. Sound(files, checkpoint, acked, written, d)
    BY <1>0 DEF DiskSound, AllSound
  <2>2. Known(files, file, segments, offset, d)
    BY <1>0, <1>1a DEF Running
  <2>3. resolveSegments(d) \in Seq(Seg) /\ Len(resolveSegments(d)) \in Nat
    BY <1>0, <2>1, LoggedType DEF Sound, Typed
  <2>4. Generation <= Len(resolveSegments(d)) + 1
    BY <1>2, <2>2, <2>3 DEF Known
  <2>5. Begins(h, Logged(files, d)) /\ Len(h) <= Firm(files, d)
    BY <2>2 DEF Known, h
  <2>6. Last(h) = Logged(files, d)[Len(h)]
    BY <1>3, <2>5 DEF Last, Begins
  <2>7. Relied(files, cp, acked, written, d)
    BY <1>5, <2>1, <2>4, <2>5, <2>6 DEF Relied, Sound
  <2> QED BY <2>1, <2>7 DEF Sound
<1>13. DiskSound' /\ Refines
  <2>1. DiskSound'
    BY <1>0, <1>1, <1>6 DEF DiskSound, AllSound
  <2>2. Refines
    BY <1>1, <1>2, ReplayedIs DEF Refines
  <2> QED BY <2>1, <2>2
<1>14. Typed'
  BY <1>0, <1>1, <1>4 DEF Typed
<1>15. Stopped'
  BY <1>1, <1>1a DEF Stopped
<1>16. Running'
  BY <1>0, <1>1 DEF Running
<1>17. Clean'
  BY <1>0, <1>1, <1>2 DEF Clean, Healthy
<1>18. Writing'
  BY <1>0, <1>1, <1>2 DEF Writing, Settled
<1>19. Rolling'
  <2>1. Generation' = Generation
    BY <1>1 DEF Generation
  <2> QED BY <1>0, <1>1, <1>2, <2>1 DEF Rolling, Healthy
<1>20. Flags'
  BY <1>0, <1>1 DEF Flags
<1>21. Compacting'
  <2>1. Compressed(compact.gen)' = Compressed(compact.gen)
    BY <1>1 DEF Compressed
  <2> QED BY <1>0, <1>1, <1>2, <2>1 DEF Compacting
<1> QED BY <1>13, <1>14, <1>15, <1>16, <1>17, <1>18, <1>19, <1>20, <1>21 DEF Inv

\* A stuttering step.
LEMMA StutterStep ==
    ASSUME Inv, UNCHANGED vars
    PROVE  Inv' /\ Refines
<1>1. /\ dirs' = dirs /\ roll' = roll /\ status' = status
      /\ files' = files /\ phase' = phase /\ file' = file
      /\ segments' = segments /\ offset' = offset /\ compact' = compact
      /\ checkpoint' = checkpoint /\ acked' = acked /\ written' = written
  BY DEF vars, disk, mem, counters
<1>2. dir' = dir /\ Generation' = Generation /\ Compressed(compact.gen)' = Compressed(compact.gen)
  BY <1>1 DEF dir, Generation, Compressed
<1>3. Refines
  BY <1>1, <1>2, ReplayedIs DEF Refines
<1>4. Typed' /\ DiskSound' /\ Stopped' /\ Running'
  BY <1>1, <1>2 DEF Inv, Typed, DiskSound, Stopped, Running
<1>5. Clean' /\ Writing'
  BY <1>1, <1>2 DEF Inv, Clean, Healthy, Writing, Settled
<1>6. Rolling' /\ Flags' /\ Compacting'
  BY <1>1, <1>2 DEF Inv, Rolling, Healthy, Flags, Compacting
<1> QED BY <1>3, <1>4, <1>5, <1>6 DEF Inv

-----------------------------------------------------------------------------
(* Compacting                                                              *)

\* The log of a directory is its manifest and its active file, where no intent
\* makes its plain files matter.
LEMMA SameManifest ==
    ASSUME NEW fs, NEW d, NEW e, e.active = d.active, e.manifest = d.manifest,
           \/ DOMAIN e.wal = DOMAIN d.wal
           \/ d.manifest.pending = <<>>
    PROVE  /\ Rolled(e) = Rolled(d)
           /\ resolveSegments(e) = resolveSegments(d)
           /\ Logged(fs, e) = Logged(fs, d)
           /\ Firm(fs, e) = Firm(fs, d)
<1>1. Rolled(e) = Rolled(d)
  BY DEF Rolled
<1>2. resolveSegments(e) = resolveSegments(d)
  BY <1>1 DEF resolveSegments
<1> QED BY <1>1, <1>2 DEF Logged, Firm

\* Marking a generation compressed leaves its records.
LEMMA CompressedFacts ==
    ASSUME segments \in Seq(Seg), NEW g \in 1..Len(segments)
    PROVE  /\ Compressed(g) \in Seq(Seg)
           /\ Len(Compressed(g)) = Len(segments)
           /\ Len(segments) \in Nat
           /\ \A j \in 1..Len(segments) : Compressed(g)[j].recs = segments[j].recs
           /\ \A j \in 1..Len(segments) : j # g => Compressed(g)[j].compressed = segments[j].compressed
           /\ Compressed(g)[g].compressed
           /\ Concat(Compressed(g)) = Concat(segments)
<1> DEFINE v == [segments[g] EXCEPT !.compressed = TRUE]
<1>1. segments[g] \in Seg
  BY ElementOfSeq
<1>2. v \in Seg /\ v.recs = segments[g].recs /\ v.compressed = TRUE
  BY <1>1 DEF Seg
<1>3. Compressed(g) = [segments EXCEPT ![g] = v]
  BY DEF Compressed
<1> HIDE DEF v
<1>4. /\ Compressed(g) \in Seq(Seg) /\ Len(Compressed(g)) = Len(segments)
      /\ \A j \in 1..Len(segments) : Compressed(g)[j] = IF j = g THEN v ELSE segments[j]
  BY <1>2, <1>3, ExceptSeq
<1>5. \A j \in 1..Len(segments) : Compressed(g)[j].recs = segments[j].recs
  BY <1>2, <1>4
<1>6. \A j \in 1..Len(segments) : j # g => Compressed(g)[j].compressed = segments[j].compressed
  BY <1>4
<1>7. Compressed(g)[g].compressed
  BY <1>2, <1>4
<1>8. Concat(Compressed(g)) = Concat(segments)
  BY <1>4, <1>5, ConcatSame
<1> QED BY <1>4, <1>5, <1>6, <1>7, <1>8

\* CompactCopy: the copy is of a generation that is still read from its plain
\* file.
LEMMA CompactCopyStep ==
    ASSUME SafeDisk, Inv, NEW g \in DOMAIN segments, CompactCopy(g)
    PROVE  Inv' /\ Refines
<1> DEFINE r == files[dir.wal[g]].recs
           e == Copied(dir, g, r)
<1>0. /\ Typed /\ DiskSound /\ Stopped /\ Running /\ Clean
      /\ Writing /\ Rolling /\ Flags /\ Compacting
  BY DEF Inv
<1>1. /\ phase = "open" /\ roll = "idle" /\ compact.at = "idle"
      /\ ~segments[g].compressed /\ g \in DOMAIN dir.wal
      /\ dirs' = Append(dirs, e) /\ roll' = roll /\ status' = status
      /\ files' = files /\ phase' = phase /\ file' = file
      /\ segments' = segments /\ offset' = offset
      /\ compact' = [at |-> "copied", gen |-> g]
      /\ checkpoint' = checkpoint /\ acked' = acked /\ written' = written
  BY DEF CompactCopy, Copied, Named, Unlocked, Idle, mem, counters
<1>2. /\ g \in 1..Len(segments) /\ Len(segments) \in Nat /\ g \in Nat
  BY <1>0 DEF Typed
<1>3. /\ dir \in Range(dirs) /\ Formed(files, dir) /\ Firm(files, dir) \in Nat
      /\ Known(files, file, segments, offset, dir)
      /\ Sealed(files, dir, resolveSegments(dir))
      /\ Len(resolveSegments(dir)) \in Nat
  BY <1>0, <1>1, DirFacts
<1>4. r = segments[g].recs
  BY <1>1, <1>2, <1>3 DEF Known, Sealed
<1>5. resolveSegments(dir)[g].recs = r
  BY <1>2, <1>3, <1>4 DEF Known
<1> HIDE DEF r
<1>6. /\ Formed(files, e)
      /\ e.active = dir.active /\ e.wal = dir.wal /\ e.manifest = dir.manifest
      /\ DOMAIN e.gz = DOMAIN dir.gz \cup {g}
      /\ e.gz[g] = r
      /\ \A h \in DOMAIN dir.gz : h # g => e.gz[h] = dir.gz[h]
  BY <1>3, CopiedDir
<1> HIDE DEF e
<1>7. /\ Rolled(e) = Rolled(dir) /\ resolveSegments(e) = resolveSegments(dir)
      /\ Logged(files, e) = Logged(files, dir) /\ Firm(files, e) = Firm(files, dir)
  BY <1>6, SameManifest
<1>8. /\ dirs' \in Seq(Range(dirs')) /\ dirs' # <<>> /\ Range(dirs') \subseteq Range(dirs) \cup {e}
      /\ Last(dirs') = e /\ dir' = e
      /\ Ordered(dirs) /\ e.active # 0 => Ordered(dirs')
  BY <1>0, <1>1, NewDirs
<1>9. Sealed(files, e, resolveSegments(dir))
  BY <1>3, <1>5, <1>6 DEF Sealed
<1>10. Sealed(files, e, segments)
  <2>1. Sealed(files, dir, segments)
    BY <1>3 DEF Known
  <2> QED BY <2>1, <1>4, <1>6 DEF Sealed
<1>11. Known(files, file, segments, offset, e)
  BY <1>3, <1>7, <1>10 DEF Known
<1>13. DiskSound' /\ Refines
  <2>1. Len(resolveSegments(dir)) >= Len(resolveSegments(dir)) /\ Firm(files, dir) >= Firm(files, dir)
    BY <1>3
  <2> QED BY <1>0, <1>1, <1>6, <1>7, <1>8, <1>9, <2>1, DiskMoves
<1>14. Typed'
  BY <1>0, <1>1, <1>2, <1>8 DEF Typed
<1>15. Stopped'
  BY <1>1 DEF Stopped
<1>16. Running'
  BY <1>0, <1>1, <1>8, <1>11, KnownKept
<1>17. Clean'
  BY <1>0, <1>1, <1>7, <1>8 DEF Clean, Healthy
<1>18. Writing'
  <2>1. ASSUME Settled
        PROVE  /\ dir.active = file /\ Ordered(dirs)
               /\ \A d \in Range(dirs) : Writable(file, segments, offset, d)
    BY <1>0, <1>1, <2>1 DEF Writing
  <2>2. Settled => Writable(file, segments, offset, e)
    BY <1>3, <1>6, <1>7, <2>1 DEF Writable
  <2>3. Settled' = Settled /\ file # 0
    BY <1>0, <1>1 DEF Settled, Running, RollsFinish
  <2> QED BY <1>1, <1>6, <1>8, <2>1, <2>2, <2>3 DEF Writing
<1>19. Rolling'
  BY <1>1 DEF Rolling
<1>20. Flags'
  BY <1>0, <1>1, <1>3, <1>7, <1>8 DEF Flags
<1>21. Compacting'
  <2>1. ASSUME NEW d \in Range(dirs)
        PROVE  g \in 1..Len(resolveSegments(d)) /\ ~resolveSegments(d)[g].compressed
    <3>1. Known(files, file, segments, offset, d) /\ Sound(files, checkpoint, acked, written, d)
      BY <1>0, <1>1 DEF Running, DiskSound, AllSound
    <3>2. Len(resolveSegments(d)) \in Nat
      BY <1>0, <3>1, LoggedType DEF Sound, Typed
    <3>3. Len(segments) <= Len(resolveSegments(d))
      BY <3>1 DEF Known
    <3>4. ~resolveSegments(d)[g].compressed
      BY <1>0, <1>1, <1>2 DEF Flags
    <3> QED BY <1>2, <3>2, <3>3, <3>4
  <2>2. \A d \in Range(dirs') : g \in 1..Len(resolveSegments(d)) /\ ~resolveSegments(d)[g].compressed
    BY <1>3, <1>7, <1>8, <2>1
  <2>3. compact'.at = "copied" /\ compact'.gen = g
    BY <1>1
  <2>4. g \in DOMAIN e.gz /\ e.gz[g] = segments[g].recs
    BY <1>4, <1>6
  <2> QED BY <1>1, <1>2, <1>8, <2>2, <2>3, <2>4 DEF Compacting
<1> QED BY <1>13, <1>14, <1>15, <1>16, <1>17, <1>18, <1>19, <1>20, <1>21 DEF Inv

\* CompactSwitch: with no roll half done the manifest without an intent has the
\* same records, and the copy is there.
LEMMA CompactSwitchStep ==
    ASSUME SafeDisk, Inv, CompactSwitch
    PROVE  Inv' /\ Refines
<1> DEFINE g == compact.gen
           s == Compressed(g)
           e == Managed(dir, s, <<>>)
<1>0. /\ Typed /\ DiskSound /\ Stopped /\ Running /\ Clean
      /\ Writing /\ Rolling /\ Flags /\ Compacting
  BY DEF Inv
<1>1. /\ phase = "open" /\ roll = "idle" /\ compact.at = "copied" /\ status \in CompactsWhen
      /\ dirs' = Append(Synced, e) /\ roll' = roll /\ status' = status
      /\ files' = files /\ phase' = phase /\ file' = file
      /\ segments' = segments /\ offset' = offset
      /\ compact' = [compact EXCEPT !.at = "switched"]
      /\ checkpoint' = checkpoint /\ acked' = acked /\ written' = written
  BY DEF CompactSwitch, Managed, mem, counters
<1>2. /\ g \in 1..Len(segments) /\ ~segments[g].compressed
      /\ g \in DOMAIN dir.gz /\ dir.gz[g] = segments[g].recs
  BY <1>0, <1>1 DEF Compacting
<1>2a. /\ segments \in Seq(Seg) /\ GoodFiles(files) /\ compact'.at = "switched" /\ compact'.gen = g
       /\ compact' \in [at : {"idle", "copied", "switched", "removed"}, gen : Nat]
  BY <1>0, <1>1 DEF Typed
<1>2b. /\ s \in Seq(Seg) /\ Len(s) = Len(segments) /\ Len(segments) \in Nat
       /\ Concat(s) = Concat(segments)
  BY <1>2, <1>2a, CompressedFacts
<1>2c. /\ \A j \in 1..Len(segments) : s[j].recs = segments[j].recs
       /\ \A j \in 1..Len(segments) : j # g => s[j].compressed = segments[j].compressed
       /\ s[g].compressed
  BY <1>2, <1>2a, CompressedFacts
<1>3. /\ dir \in Range(dirs) /\ Formed(files, dir) /\ Firm(files, dir) \in Nat
      /\ Known(files, file, segments, offset, dir)
  BY <1>0, <1>1, DirFacts
<1>4. Settled
  BY <1>1 DEF Settled, SafeDisk
<1>5. /\ dir.active = file /\ Ordered(dirs) /\ file # 0
      /\ \A d \in Range(dirs) : Writable(file, segments, offset, d)
  BY <1>0, <1>1, <1>4 DEF Writing, Running
<1> HIDE DEF s
<1>6. /\ Formed(files, e)
      /\ e.active = dir.active /\ e.wal = dir.wal /\ e.gz = dir.gz
      /\ e.manifest = Manifest(s, <<>>) /\ e.manifest.segs = s /\ e.manifest.pending = <<>>
      /\ \A segs : Sealed(files, dir, segs) => Sealed(files, e, segs)
  <2>1. PICK p \in Seq(Record) : p = <<>>
    BY EmptySeq
  <2>2. e = Managed(dir, s, p)
    BY <2>1
  <2> HIDE DEF e
  <2>3. /\ Formed(files, e)
        /\ e.active = dir.active /\ e.wal = dir.wal /\ e.gz = dir.gz
        /\ e.manifest = Manifest(s, p) /\ e.manifest.segs = s /\ e.manifest.pending = p
        /\ \A segs : Sealed(files, dir, segs) => Sealed(files, e, segs)
    BY <1>2b, <1>3, <2>2, ManagedDir
  <2> QED BY <2>1, <2>3
<1> HIDE DEF e
<1>7. ~Rolled(e) /\ resolveSegments(e) = s
  BY <1>6 DEF Rolled, resolveSegments
<1>8. /\ dirs' \in Seq(Range(dirs')) /\ dirs' # <<>> /\ Range(dirs') \subseteq Range(dirs) \cup {e}
      /\ Last(dirs') = e /\ dir' = e
      /\ Ordered(dirs) /\ e.active # 0 => Ordered(dirs')
  BY <1>0, <1>1, NewDirs
<1>9. /\ Len(resolveSegments(dir)) = Len(segments)
      /\ Concat(resolveSegments(dir)) = Concat(segments)
  BY <1>2a, <1>3, <1>5, WritableResolves
<1>10. Logged(files, e) = Logged(files, dir) /\ Firm(files, e) = Firm(files, dir)
  BY <1>2b, <1>6, <1>7, <1>9 DEF Logged, Firm
<1>11. Sealed(files, e, segments)
  BY <1>3, <1>6 DEF Known
<1>12. Sealed(files, e, s)
  <2>1. SUFFICES ASSUME NEW j \in 1..Len(segments)
                 PROVE  IF s[j].compressed
                        THEN j \in DOMAIN e.gz /\ e.gz[j] = s[j].recs
                        ELSE /\ j \in DOMAIN e.wal
                             /\ files[e.wal[j]].recs = s[j].recs
                             /\ Still(files, e.wal[j])
    BY <1>2b DEF Sealed
  <2>2. CASE j = g
    BY <2>2, <1>2, <1>2c, <1>6
  <2>3. CASE j # g
    <3>1. s[j].recs = segments[j].recs /\ s[j].compressed = segments[j].compressed
      BY <2>3, <1>2c
    <3> QED BY <3>1, <1>11 DEF Sealed
  <2> QED BY <2>2, <2>3
<1>13. DiskSound' /\ Refines
  <2>1. Len(s) >= Len(segments) /\ Firm(files, dir) >= Firm(files, dir)
    BY <1>2b, <1>3
  <2> QED BY <1>0, <1>1, <1>6, <1>7, <1>8, <1>9, <1>10, <1>12, <2>1, DiskMoves
<1>14. Typed'
  BY <1>0, <1>1, <1>2a, <1>8 DEF Typed
<1>15. Stopped'
  BY <1>1 DEF Stopped
<1>16. Running'
  <2>1. Known(files, file, segments, offset, e)
    <3>1. Len(segments) <= Len(s)
      BY <1>2b
    <3> QED BY <1>2c, <1>3, <1>7, <1>10, <1>11, <3>1 DEF Known
  <2> QED BY <1>0, <1>1, <1>8, <2>1, KnownKept
<1>17. Clean'
  BY <1>0, <1>1, <1>8, <1>10 DEF Clean, Healthy
<1>18. Writing'
  <2>1. Writable(file, segments, offset, e)
    BY <1>2b, <1>3, <1>5, <1>6, <1>7 DEF Writable
  <2> QED BY <1>1, <1>5, <1>6, <1>8, <2>1 DEF Writing
<1>19. Rolling'
  BY <1>1 DEF Rolling
<1>20. Flags'
  BY <1>2a DEF Flags
<1>21. Compacting'
  <2>1. Compressed(compact.gen)' = s
    BY <1>1, <1>2a DEF Compressed, s
  <2> QED BY <1>1, <1>2, <1>2a, <1>6, <1>8, <2>1 DEF Compacting
<1> QED BY <1>13, <1>14, <1>15, <1>16, <1>17, <1>18, <1>19, <1>20, <1>21 DEF Inv

\* The memory takes over a switched manifest, and the plain file goes or stays.
LEMMA SwitchTakes ==
    ASSUME SafeDisk, Inv, compact.at = "switched",
           NEW e,
           \/ e = Removed(dir, compact.gen) /\ dirs' = Append(Synced, e)
           \/ e = dir /\ dirs' = Synced,
           compact' \in [at : {"removed", "idle"}, gen : Nat],
           segments' = Compressed(compact.gen),
           roll' = roll, status' = status, files' = files, phase' = phase, file' = file,
           offset' = offset, checkpoint' = checkpoint, acked' = acked, written' = written
    PROVE  Inv' /\ Refines
<1> DEFINE g == compact.gen
           s == Compressed(g)
<1>0. /\ Typed /\ DiskSound /\ Stopped /\ Running /\ Clean
      /\ Writing /\ Rolling /\ Flags /\ Compacting
  BY DEF Inv
<1>1. /\ phase = "open" /\ roll = "idle"
      /\ g \in 1..Len(segments) /\ ~segments[g].compressed
      /\ dir.manifest = Manifest(s, <<>>)
  BY <1>0 DEF Compacting
<1>2a. segments \in Seq(Seg) /\ GoodFiles(files)
  BY <1>0 DEF Typed
<1>2b. /\ s \in Seq(Seg) /\ Len(s) = Len(segments) /\ Len(segments) \in Nat
       /\ Concat(s) = Concat(segments)
  BY <1>1, <1>2a, CompressedFacts
<1>2c. s[g].compressed
  BY <1>1, <1>2a, CompressedFacts
<1> HIDE DEF s
<1>3. /\ dir \in Range(dirs) /\ Formed(files, dir) /\ Firm(files, dir) \in Nat
      /\ Known(files, file, segments, offset, dir)
      /\ Sealed(files, dir, resolveSegments(dir))
  BY <1>0, <1>1, DirFacts
<1>4. dir.manifest.segs = s /\ dir.manifest.pending = <<>>
  BY <1>1 DEF Manifest
<1>5. ~Rolled(dir) /\ resolveSegments(dir) = s
  BY <1>4 DEF Rolled, resolveSegments
<1>6. /\ Formed(files, e)
      /\ e.active = dir.active /\ e.gz = dir.gz /\ e.manifest = dir.manifest
      /\ \A h \in DOMAIN e.wal : h \in DOMAIN dir.wal /\ e.wal[h] = dir.wal[h]
      /\ \A h \in DOMAIN dir.wal : h # g => h \in DOMAIN e.wal
  <2>1. CASE e = dir
    BY <1>3, <2>1
  <2>2. CASE e = Removed(dir, g)
    <3>1. /\ Formed(files, Removed(dir, g))
          /\ Removed(dir, g).active = dir.active
          /\ Removed(dir, g).gz = dir.gz
          /\ Removed(dir, g).manifest = dir.manifest
          /\ DOMAIN Removed(dir, g).wal = DOMAIN dir.wal \ {g}
          /\ \A h \in DOMAIN dir.wal : h # g => Removed(dir, g).wal[h] = dir.wal[h]
      BY <1>3, RemovedDir
    <3> QED BY <2>2, <3>1
  <2> QED BY <2>1, <2>2
<1>7. /\ ~Rolled(e) /\ resolveSegments(e) = s
      /\ Logged(files, e) = Logged(files, dir) /\ Firm(files, e) = Firm(files, dir)
  <2>1. /\ Rolled(e) = Rolled(dir) /\ resolveSegments(e) = resolveSegments(dir)
        /\ Logged(files, e) = Logged(files, dir) /\ Firm(files, e) = Firm(files, dir)
    BY <1>4, <1>6, SameManifest
  <2> QED BY <1>5, <2>1
<1>8. /\ dirs' \in Seq(Range(dirs')) /\ dirs' # <<>> /\ Range(dirs') \subseteq Range(dirs) \cup {e}
      /\ Last(dirs') = e /\ dir' = e
      /\ Ordered(dirs) /\ e.active # 0 => Ordered(dirs')
  BY <1>0, NewDirs
<1>8a. Range(dirs') \subseteq {dir, e}
  <2>1. Synced \in Seq(Range(Synced)) /\ Range(Synced) = {dir}
    BY LastOne DEF Synced
  <2>2. CASE e = dir /\ dirs' = Synced
    BY <2>1, <2>2
  <2>3. CASE dirs' = Append(Synced, e)
    <3>1. Synced \in Seq({dir, e}) /\ e \in {dir, e}
      BY <2>1
    <3>2. Append(Synced, e) \in Seq({dir, e})
      BY <3>1
    <3> HIDE DEF Synced
    <3>3. \A k \in 1..Len(dirs') : dirs'[k] \in {dir, e}
      BY <3>2, <2>3
    <3> QED BY <3>3, <3>2, <2>3 DEF Range
  <2> QED BY <2>2, <2>3
<1>9. Sealed(files, dir, s)
  BY <1>3, <1>5
<1>10. Sealed(files, e, s)
  <2>1. SUFFICES ASSUME NEW j \in 1..Len(s)
                 PROVE  IF s[j].compressed
                        THEN j \in DOMAIN e.gz /\ e.gz[j] = s[j].recs
                        ELSE /\ j \in DOMAIN e.wal
                             /\ files[e.wal[j]].recs = s[j].recs
                             /\ Still(files, e.wal[j])
    BY DEF Sealed
  <2>2. IF s[j].compressed
        THEN j \in DOMAIN dir.gz /\ dir.gz[j] = s[j].recs
        ELSE /\ j \in DOMAIN dir.wal
             /\ files[dir.wal[j]].recs = s[j].recs
             /\ Still(files, dir.wal[j])
    BY <1>9 DEF Sealed
  <2> QED BY <2>2, <1>2c, <1>6
<1>11. History(files, file, s, offset) = History(files, file, segments, offset)
  BY <1>2b DEF History
<1>12. Known(files, file, s, offset, dir) /\ Known(files, file, s, offset, e)
  <2>1. Len(s) <= Len(s)
    BY <1>2b
  <2> QED BY <1>3, <1>5, <1>7, <1>9, <1>10, <1>11, <2>1 DEF Known
<1>13. DiskSound' /\ Refines
  <2>1. Len(s) >= Len(s) /\ Firm(files, dir) >= Firm(files, dir)
    BY <1>2b, <1>3
  <2> QED BY <1>0, <1>5, <1>6, <1>7, <1>8, <1>10, <2>1, DiskMoves
<1>14. Typed'
  <2>1. segments' \in Seq(Seg)
    BY <1>2b DEF s
  <2>2. compact' \in [at : {"idle", "copied", "switched", "removed"}, gen : Nat]
    OBVIOUS
  <2> QED BY <1>0, <1>8, <2>1, <2>2 DEF Typed
<1>15. Stopped'
  BY <1>1 DEF Stopped
<1>16. Running'
  <2>1. segments' = s
    BY DEF s
  <2> QED BY <1>0, <1>8a, <1>12, <2>1 DEF Running
<1>17. Clean'
  <2>1. segments' = s
    BY DEF s
  <2> QED BY <1>0, <1>7, <1>8, <1>11, <2>1 DEF Clean, Healthy
<1>18. Writing'
  <2>1. ASSUME Settled
        PROVE  /\ dir.active = file /\ Ordered(dirs)
               /\ Writable(file, segments, offset, dir)
    BY <1>0, <1>1, <1>3, <2>1 DEF Writing
  <2>2. Settled => Writable(file, s, offset, dir)
    BY <1>2b, <2>1 DEF Writable
  <2>3. Settled => Writable(file, s, offset, e)
    BY <1>6, <1>7, <2>2 DEF Writable
  <2>4. Settled' = Settled /\ file # 0
    BY <1>0, <1>1 DEF Settled, Running, RollsFinish
  <2>5. segments' = s
    BY DEF s
  <2> QED BY <1>6, <1>8, <1>8a, <2>1, <2>2, <2>3, <2>4, <2>5 DEF Writing
<1>19. Rolling'
  BY <1>1 DEF Rolling
<1>20. Flags'
  <2>1. segments' = s
    BY DEF s
  <2> QED BY <1>5, <1>7, <1>8a, <2>1 DEF Flags
<1>21. Compacting'
  BY <1>1 DEF Compacting
<1> QED BY <1>13, <1>14, <1>15, <1>16, <1>17, <1>18, <1>19, <1>20, <1>21 DEF Inv

\* A compaction ends, and its copy goes or stays.
LEMMA CompactEnds ==
    ASSUME SafeDisk, Inv, compact.at \in {"copied", "removed"}, roll = "idle",
           NEW e,
           \/ /\ e = Uncopied(dir, compact.gen) /\ compact.at = "copied"
              /\ dirs' = Append(dirs, e) \/ dirs' = Append(Synced, e)
           \/ /\ e = dir
              /\ dirs' = dirs \/ dirs' = Synced,
           phase \in {"open", "closed"},
           compact' = Idle, segments' = segments,
           roll' = roll, status' = status, files' = files, phase' = phase, file' = file,
           offset' = offset, checkpoint' = checkpoint, acked' = acked, written' = written
    PROVE  Inv' /\ Refines
<1> DEFINE g == compact.gen
<1>0. /\ Typed /\ DiskSound /\ Stopped /\ Running /\ Clean
      /\ Writing /\ Rolling /\ Flags /\ Compacting
  BY DEF Inv
<1>3. /\ dir \in Range(dirs) /\ Formed(files, dir) /\ Firm(files, dir) \in Nat
      /\ phase = "open" => Known(files, file, segments, offset, dir)
      /\ Sealed(files, dir, resolveSegments(dir))
      /\ Len(resolveSegments(dir)) \in Nat
  BY <1>0, DirFacts
<1>4. e = dir \/ (~segments[g].compressed /\ ~resolveSegments(dir)[g].compressed)
  BY <1>0, <1>3 DEF Compacting
<1>6. /\ Formed(files, e)
      /\ e.active = dir.active /\ e.wal = dir.wal /\ e.manifest = dir.manifest
      /\ \A h \in DOMAIN dir.gz : e = dir \/ h # g => h \in DOMAIN e.gz /\ e.gz[h] = dir.gz[h]
  <2>1. CASE e = dir
    BY <1>3, <2>1
  <2>2. CASE e = Uncopied(dir, g)
    <3>1. /\ Formed(files, Uncopied(dir, g))
          /\ Uncopied(dir, g).active = dir.active
          /\ Uncopied(dir, g).wal = dir.wal
          /\ Uncopied(dir, g).manifest = dir.manifest
          /\ \A h \in DOMAIN dir.gz : h # g =>
                h \in DOMAIN Uncopied(dir, g).gz /\ Uncopied(dir, g).gz[h] = dir.gz[h]
      BY <1>3, UncopiedDir
    <3>2. \A h \in DOMAIN dir.gz : e = dir => h \in DOMAIN e.gz /\ e.gz[h] = dir.gz[h]
      OBVIOUS
    <3> QED BY <2>2, <3>1, <3>2
  <2> QED BY <2>1, <2>2
<1>7. /\ Rolled(e) = Rolled(dir) /\ resolveSegments(e) = resolveSegments(dir)
      /\ Logged(files, e) = Logged(files, dir) /\ Firm(files, e) = Firm(files, dir)
  BY <1>6, SameManifest
<1>8. /\ dirs' \in Seq(Range(dirs')) /\ dirs' # <<>> /\ Range(dirs') \subseteq Range(dirs) \cup {e}
      /\ Last(dirs') = e /\ dir' = e
      /\ Ordered(dirs) /\ e.active # 0 => Ordered(dirs')
  BY <1>0, NewDirs
<1>9. \A segs : Sealed(files, dir, segs) /\ (e = dir \/ ~segs[g].compressed) => Sealed(files, e, segs)
  BY <1>6 DEF Sealed
<1>10. Sealed(files, e, resolveSegments(e))
  BY <1>3, <1>4, <1>7, <1>9
<1>13. DiskSound' /\ Refines
  <2>1. Len(resolveSegments(dir)) >= Len(resolveSegments(dir)) /\ Firm(files, dir) >= Firm(files, dir)
    BY <1>3
  <2> QED BY <1>0, <1>6, <1>7, <1>8, <1>10, <2>1, DiskMoves
<1>14. Typed'
  BY <1>0, <1>8 DEF Typed, Idle
<1>15. Stopped'
  BY DEF Stopped
<1>16. Running'
  <2>1. CASE phase = "open"
    <3>1. Sealed(files, e, segments)
      BY <1>3, <1>4, <1>9, <2>1 DEF Known
    <3>2. Known(files, file, segments, offset, e)
      BY <1>3, <1>7, <2>1, <3>1 DEF Known
    <3> QED BY <1>0, <1>8, <2>1, <3>2, KnownKept
  <2>2. CASE phase # "open"
    BY <1>0, <2>2 DEF Running
  <2> QED BY <2>1, <2>2
<1>17. Clean'
  BY <1>0, <1>7, <1>8 DEF Clean, Healthy
<1>18. Writing'
  <2>1. ASSUME Settled
        PROVE  /\ dir.active = file /\ Ordered(dirs)
               /\ \A d \in Range(dirs) : Writable(file, segments, offset, d)
    BY <1>0, <2>1 DEF Writing
  <2>2. Settled => Writable(file, segments, offset, e)
    BY <1>3, <1>6, <1>7, <2>1 DEF Writable
  <2>3. Settled' = Settled /\ (Settled => file # 0)
    BY <1>0 DEF Settled, Running, RollsFinish
  <2> QED BY <1>6, <1>8, <2>1, <2>2, <2>3 DEF Writing
<1>19. Rolling'
  BY DEF Rolling
<1>20. Flags'
  BY <1>0, <1>3, <1>7, <1>8 DEF Flags
<1>21. Compacting'
  BY DEF Compacting, Idle
<1> QED BY <1>13, <1>14, <1>15, <1>16, <1>17, <1>18, <1>19, <1>20, <1>21 DEF Inv

\* The other steps of a compaction.
LEMMA CompactSteps ==
    ASSUME SafeDisk, Inv,
           CompactRemove \/ CompactDone \/ CompactClosed \/ CompactFails \/ CompactRemoveFails
    PROVE  Inv' /\ Refines
<1>0. Typed /\ Rolling /\ Compacting
  BY DEF Inv
<1>1. CASE CompactRemove
  <2>1. /\ compact.at = "switched" /\ dirs' = Append(Synced, Removed(dir, compact.gen))
        /\ segments' = Compressed(compact.gen)
        /\ compact' = [compact EXCEPT !.at = "removed"]
        /\ roll' = roll /\ status' = status /\ files' = files /\ phase' = phase /\ file' = file
        /\ offset' = offset /\ checkpoint' = checkpoint /\ acked' = acked /\ written' = written
    BY <1>1 DEF CompactRemove, Removed, counters
  <2>2. compact'.at = "removed" /\ compact' \in [at : {"removed", "idle"}, gen : Nat]
    BY <1>0, <2>1 DEF Typed
  <2> QED BY <2>1, <2>2, SwitchTakes
<1>2. CASE CompactDone
  <2>1. /\ compact.at = "removed" /\ dirs' = Synced
        /\ segments' = segments /\ compact' = Idle
        /\ roll' = roll /\ status' = status /\ files' = files /\ phase' = phase /\ file' = file
        /\ offset' = offset /\ checkpoint' = checkpoint /\ acked' = acked /\ written' = written
    BY <1>2 DEF CompactDone, mem, counters
  <2>2. phase = "open" /\ roll = "idle"
    BY <1>0, <2>1 DEF Compacting
  <2> QED BY <2>1, <2>2, CompactEnds
<1>3. CASE CompactClosed
  <2>1. /\ phase = "closed" /\ compact.at = "copied" /\ dirs' = Append(dirs, Uncopied(dir, compact.gen))
        /\ segments' = segments /\ compact' = Idle
        /\ roll' = roll /\ status' = status /\ files' = files /\ phase' = phase /\ file' = file
        /\ offset' = offset /\ checkpoint' = checkpoint /\ acked' = acked /\ written' = written
    BY <1>3 DEF CompactClosed, Named, WithoutCopy, Uncopied, mem, counters
  <2>2. roll = "idle"
    BY <1>0, <2>1 DEF Rolling, Healthy
  <2> QED BY <2>1, <2>2, CompactEnds
<1>4. CASE CompactFails
  <2>1. /\ phase = "open" /\ roll = "idle" /\ compact.at = "copied"
        /\ dirs' = dirs \/ dirs' = Append(Synced, Uncopied(dir, compact.gen))
        /\ segments' = segments /\ compact' = Idle
        /\ roll' = roll /\ status' = status /\ files' = files /\ phase' = phase /\ file' = file
        /\ offset' = offset /\ checkpoint' = checkpoint /\ acked' = acked /\ written' = written
    BY <1>4 DEF CompactFails, Fails, WithoutCopy, Uncopied, mem, SafeDisk
  <2> QED BY <2>1, CompactEnds
<1>5. CASE CompactRemoveFails
  <2>1. /\ compact' = Idle
        /\ roll' = roll /\ status' = status /\ files' = files /\ phase' = phase /\ file' = file
        /\ offset' = offset /\ checkpoint' = checkpoint /\ acked' = acked /\ written' = written
    BY <1>5 DEF CompactRemoveFails, Fails
  <2>2. CASE compact.at = "switched" /\ dirs' = Synced /\ segments' = Compressed(compact.gen)
    <3>1. compact'.at = "idle" /\ compact' \in [at : {"removed", "idle"}, gen : Nat]
      BY <2>1 DEF Idle
    <3> QED BY <2>1, <2>2, <3>1, SwitchTakes
  <2>3. CASE compact.at = "removed" /\ dirs' = dirs /\ segments' = segments
    <3>1. phase = "open" /\ roll = "idle"
      BY <1>0, <2>3 DEF Compacting
    <3> QED BY <2>1, <2>3, <3>1, CompactEnds
  <2> QED BY <1>5, <2>2, <2>3 DEF CompactRemoveFails
<1> QED BY <1>1, <1>2, <1>3, <1>4, <1>5

-----------------------------------------------------------------------------
(* Writing                                                                 *)

\* u continues the chain that ends with s.
Follows(s, u) ==
    /\ u # <<>> => u[1].prev = IF s = <<>> THEN 0 ELSE Last(s).id
    /\ \A k \in 2..Len(u) : u[k].prev = u[k - 1].id

\* Frames continues the chain.
LEMMA FramesFollow ==
    ASSUME Typed, ChainHead \in Seq(Record), NEW n \in Nat
    PROVE  /\ Frames(n) \in Seq(Record) /\ Len(Frames(n)) = n
           /\ Follows(ChainHead, Frames(n))
<1> DEFINE h == ChainHead
           p == IF h = <<>> THEN 0 ELSE Last(h).id
           f == Frames(n)
<1>0. written \in Nat
  BY DEF Typed
<1>1. p \in Nat
  <2>1. CASE h = <<>>
    BY <2>1
  <2>2. CASE h # <<>>
    <3>1. Len(h) \in 1..Len(h)
      BY <2>2, EmptySeq
    <3>2. Last(h) \in Record
      BY <3>1, ElementOfSeq DEF Last
    <3> QED BY <2>2, <3>2 DEF Record
  <2> QED BY <2>1, <2>2
<1>2. f = [k \in 1..n |-> [id |-> written + k, prev |-> IF k > 1 THEN written + k - 1 ELSE p]]
  BY DEF Frames
<1> HIDE DEF p, f
<1>3. ASSUME NEW k \in 1..n
      PROVE  /\ f[k] \in Record /\ f[k].id = written + k
             /\ f[k].prev = IF k > 1 THEN written + k - 1 ELSE p
  <2>1. f[k] = [id |-> written + k, prev |-> IF k > 1 THEN written + k - 1 ELSE p]
    BY <1>2
  <2>2. written + k \in Nat /\ (k > 1 => written + k - 1 \in Nat)
    BY <1>0
  <2> QED BY <2>1, <2>2, <1>1 DEF Record
<1>4. f \in Seq(Record) /\ Len(f) = n
  BY <1>2, <1>3
<1>5. f # <<>> => f[1].prev = p
  <2>1. f # <<>> => 1 \in 1..n
    BY <1>4, EmptySeq
  <2> QED BY <2>1, <1>3
<1>6. ASSUME NEW k \in 2..Len(f) PROVE f[k].prev = f[k - 1].id
  <2>1. k \in 1..n /\ k - 1 \in 1..n /\ k > 1
    BY <1>4, <1>6
  <2> QED BY <2>1, <1>3, <1>0
<1> QED BY <1>4, <1>5, <1>6 DEF Follows, p, f

\* So does the part of it that a failed write leaves.
LEMMA FollowsPart ==
    ASSUME NEW s, NEW u \in Seq(Record), Follows(s, u), NEW k \in 0..Len(u)
    PROVE  /\ SubSeq(u, 1, k) \in Seq(Record) /\ Len(SubSeq(u, 1, k)) = k
           /\ Follows(s, SubSeq(u, 1, k))
<1> DEFINE t == SubSeq(u, 1, k)
<1>1. /\ t \in Seq(Record) /\ Len(t) = k
      /\ \A m \in 1..k : t[m] = u[m]
  OBVIOUS
<1> HIDE DEF t
<1>2. ASSUME t # <<>> PROVE t[1].prev = IF s = <<>> THEN 0 ELSE Last(s).id
  <2>1. 1 \in 1..k /\ u # <<>>
    BY <1>1, <1>2, EmptySeq
  <2> QED BY <2>1, <1>1 DEF Follows
<1>3. ASSUME NEW m \in 2..Len(t) PROVE t[m].prev = t[m - 1].id
  <2>1. m \in 1..k /\ m - 1 \in 1..k /\ m \in 2..Len(u)
    BY <1>1, <1>3
  <2> QED BY <2>1, <1>1 DEF Follows
<1> QED BY <1>1, <1>2, <1>3 DEF Follows, t

\* Directory d after u was added to the open file, which is now v.
LEMMA WrittenDir ==
    ASSUME SafeDisk, Inv, Healthy, roll = "idle",
           NEW u \in Seq(Record), NEW v \in File, v.synced <= Len(v.recs),
           v.recs = files[file].recs \o u, v.synced >= offset,
           Follows(ChainHead, u), NEW d \in Range(dirs)
    PROVE  /\ Formed(Changed(files, file, v), d)
           /\ d.active = file \/ (d.active = 0 /\ offset = 0)
           /\ \A segs : Sealed(files, d, segs) => Sealed(Changed(files, file, v), d, segs)
           /\ Len(resolveSegments(d)) = Len(segments)
           /\ Begins(Logged(files, d), Logged(files, dir) \o u)
           /\ Firm(files, d) = Len(Concat(segments)) + offset
           /\ d.active # file =>
                /\ Logged(Changed(files, file, v), d) = Logged(files, d)
                /\ Firm(Changed(files, file, v), d) = Firm(files, d)
           /\ d.active = file =>
                /\ Logged(files, d) = ChainHead
                /\ Logged(Changed(files, file, v), d) = ChainHead \o u
                /\ Linked(ChainHead \o u)
                /\ Firm(Changed(files, file, v), d) = Len(Concat(segments)) + v.synced
<1> DEFINE gs == Changed(files, file, v)
<1>0. /\ Typed /\ DiskSound /\ Running /\ Clean /\ Writing
  BY DEF Inv
<1>1. phase = "open" /\ status = "healthy" /\ Settled /\ GoodFiles(files) /\ segments \in Seq(Seg)
  BY <1>0 DEF Healthy, Settled, Typed
<1>2. /\ file \in 1..Len(files) /\ file # 0 /\ files[file].synced = offset /\ offset \in Nat
      /\ Concat(segments) \in Seq(Record) /\ Len(Concat(segments)) \in Nat
      /\ ChainHead = History(files, file, segments, offset)
      /\ ChainHead \in Seq(Record)
      /\ ChainHead = Concat(segments) \o files[file].recs
  BY <1>0, <1>1, OpenFacts
<1>3. /\ Sound(files, checkpoint, acked, written, d)
      /\ Begins(Logged(files, d), Logged(files, dir))
  BY <1>0 DEF DiskSound, AllSound, dir
<1>4. /\ Formed(files, d) /\ Linked(Logged(files, d))
  BY <1>3 DEF Sound
<1>5. Known(files, file, segments, offset, d) /\ Writable(file, segments, offset, d)
  BY <1>0, <1>1 DEF Running, Writing
<1>6. /\ Len(resolveSegments(d)) = Len(segments)
      /\ Concat(resolveSegments(d)) = Concat(segments)
  BY <1>1, <1>4, <1>5, WritableResolves
<1>7. \A g \in DOMAIN d.wal : d.wal[g] # file
  BY <1>5 DEF Writable
<1>8. d.active = file \/ (d.active = 0 /\ offset = 0)
  BY <1>5 DEF Writable
<1>9. Logged(files, d) \in Seq(Record) /\ Logged(files, dir) = ChainHead
  BY <1>0, <1>1, <1>2, <1>4, LoggedType DEF Clean, Healthy
<1>10. Begins(Logged(files, d), ChainHead \o u)
  BY <1>2, <1>3, <1>9, BeginsLonger
<1>11. Firm(files, d) = Len(Concat(segments)) + offset
  <2>1. CASE d.active = file
    BY <1>2, <1>6, <2>1 DEF Firm
  <2>2. CASE d.active = 0 /\ offset = 0
    BY <1>2, <1>6, <2>2 DEF Firm
  <2> QED BY <1>8, <2>1, <2>2
<1>12. /\ Formed(gs, d)
       /\ d.active = file => Logged(gs, d) = Logged(files, d) \o u
       /\ d.active = file => Firm(gs, d) = Len(Concat(resolveSegments(d))) + v.synced
       /\ d.active # file => Logged(gs, d) = Logged(files, d)
       /\ d.active # file => Firm(gs, d) = Firm(files, d)
       /\ \A segs : Sealed(files, d, segs) => Sealed(gs, d, segs)
  BY <1>1, <1>2, <1>4, <1>7, ExtendedDir
<1>13. d.active = file => Logged(files, d) = ChainHead
  BY <1>2, <1>6 DEF Logged
<1>14. d.active = file => Linked(ChainHead \o u)
  <2>1. d.active = file => Linked(ChainHead)
    BY <1>4, <1>13
  <2> QED BY <1>2, <2>1, LinkedLonger DEF Follows
<1> HIDE DEF gs
<1>15. d.active = file => Logged(gs, d) = ChainHead \o u
  BY <1>12, <1>13
<1>16. d.active = file => Firm(gs, d) = Len(Concat(segments)) + v.synced
  BY <1>12, <1>6
<1> QED BY <1>6, <1>8, <1>9, <1>10, <1>11, <1>12, <1>13, <1>14, <1>15, <1>16 DEF gs

\* A sequence and what is added to it.
LEMMA Joined ==
    ASSUME NEW s \in Seq(Record), NEW u \in Seq(Record)
    PROVE  /\ s \o u \in Seq(Record) /\ Len(s \o u) = Len(s) + Len(u)
           /\ Len(s) \in Nat /\ Len(u) \in Nat
           /\ Begins(s, s) /\ Begins(s, s \o u) /\ Begins(s \o u, s \o u)
           /\ SubSeq(s \o u, 1, Len(s)) = s
<1> DEFINE t == s \o u
<1>1. /\ t \in Seq(Record) /\ Len(t) = Len(s) + Len(u)
      /\ \A k \in 1..Len(s) : t[k] = s[k]
  BY ConcatProperties
<1>2. Len(s) \in Nat /\ Len(u) \in Nat
  OBVIOUS
<1> HIDE DEF t
<1>3. Begins(s, s) /\ Begins(t, t) /\ Begins(s, t)
  BY <1>1, <1>2 DEF Begins
<1>4. /\ SubSeq(t, 1, Len(s)) \in Seq(Record) /\ Len(SubSeq(t, 1, Len(s))) = Len(s)
      /\ \A k \in 1..Len(s) : SubSeq(t, 1, Len(s))[k] = t[k]
  BY <1>1, <1>2
<1>5. SubSeq(t, 1, Len(s)) = s
  BY <1>1, <1>4, SeqEqual
<1> QED BY <1>1, <1>2, <1>3, <1>5 DEF t

\* u was added to the open file, which is now v.
Grown(u, v) ==
    /\ v.synced <= Len(v.recs)
    /\ v.recs = files[file].recs \o u
    /\ v.synced >= offset
    /\ Follows(ChainHead, u)

\* All of it is durable, or the log is not writable any more.
Extension(u, v, n) ==
    /\ files' = Changed(files, file, v)
    /\ Len(u) <= n /\ written' = written + n
    /\ \/ /\ dirs' = NameDurable(file) /\ offset' = offset + Len(u)
          /\ v.synced = offset + Len(u) /\ ~v.torn
          /\ \/ status' = status /\ acked' = Len(ChainHead) + Len(u)
             \/ status' = "unavailable" /\ acked' = acked
       \/ /\ dirs' = dirs /\ offset' = offset /\ status' = "unavailable"
          /\ acked' = acked
    /\ phase' = phase /\ file' = file /\ segments' = segments /\ roll' = roll
    /\ compact' = compact /\ checkpoint' = checkpoint

\* A step that adds records keeps the invariant: it commits or strands them.
LEMMA ExtendStep ==
    ASSUME SafeDisk, Inv, Healthy, Unlocked,
           NEW u \in Seq(Record), NEW v \in File, Grown(u, v),
           NEW n \in Nat, Extension(u, v, n)
    PROVE  Inv' /\ Refines
<1> DEFINE gs == Changed(files, file, v)
           durable == /\ dirs' = NameDurable(file) /\ offset' = offset + Len(u)
                      /\ v.synced = offset + Len(u) /\ ~v.torn
           H == ChainHead
           c == Len(Concat(segments))
<1>0. /\ Typed /\ DiskSound /\ Stopped /\ Running /\ Clean
      /\ Writing /\ Rolling /\ Flags /\ Compacting
  BY DEF Inv
<1>a. /\ files' = gs /\ Len(u) <= n /\ written' = written + n
      /\ phase' = phase /\ file' = file /\ segments' = segments /\ roll' = roll
      /\ compact' = compact /\ checkpoint' = checkpoint
  BY DEF Extension
<1>b. \/ durable /\ status' = status /\ acked' = Len(H) + Len(u)
      \/ durable /\ status' = "unavailable" /\ acked' = acked
      \/ /\ dirs' = dirs /\ offset' = offset /\ status' = "unavailable"
         /\ acked' = acked
  BY DEF Extension
<1>c. /\ v.synced <= Len(v.recs) /\ v.recs = files[file].recs \o u
      /\ v.synced >= offset /\ Follows(H, u)
  BY DEF Grown
<1> HIDE DEF durable
<1>d. durable => /\ dirs' = NameDurable(file) /\ offset' = offset + Len(u)
                 /\ v.synced = offset + Len(u) /\ ~v.torn
  BY DEF durable
<1>1. /\ phase = "open" /\ status = "healthy" /\ roll = "idle" /\ compact.at \in {"idle", "copied"}
      /\ Settled /\ GoodFiles(files) /\ segments \in Seq(Seg)
  BY <1>0 DEF Healthy, Settled, Typed, Unlocked
<1>2. /\ file \in 1..Len(files) /\ file # 0 /\ offset \in Nat /\ c \in Nat
      /\ files[file].recs \in Seq(Record) /\ Len(files[file].recs) = offset
      /\ ~files[file].torn
      /\ H = History(files, file, segments, offset) /\ H \in Seq(Record) /\ Len(H) = c + offset
  BY <1>0, <1>1, OpenFacts
<1>3. /\ v.synced \in Nat /\ Len(v.recs) = offset + Len(u) /\ Len(u) \in Nat /\ v.recs \in Seq(Record)
      /\ v.torn \in BOOLEAN
  <2>1. Len(files[file].recs \o u) = Len(files[file].recs) + Len(u)
        /\ files[file].recs \o u \in Seq(Record) /\ Len(u) \in Nat
    BY <1>2, Joined
  <2>2. v.synced \in Nat /\ v.torn \in BOOLEAN
    BY DEF File
  <2> QED BY <2>1, <2>2, <1>2, <1>c
<1>4. /\ acked \in Nat /\ written \in Nat /\ written' \in Nat
      /\ checkpoint \in [gen : Nat, count : Nat, id : Nat]
      /\ acked = Len(H) /\ Logged(files, dir) = H
  <2>1. /\ acked \in Nat /\ written \in Nat
        /\ checkpoint \in [gen : Nat, count : Nat, id : Nat]
    BY <1>0 DEF Typed
  <2>2. acked = Len(H) /\ Logged(files, dir) = H
    BY <1>0, <1>1, <1>2 DEF Clean, Healthy
  <2>3. written' \in Nat
    BY <1>a, <2>1
  <2> QED BY <2>1, <2>2, <2>3
<1>4a. v.synced <= Len(v.recs)
  BY <1>c
<1> HIDE DEF H, c
<1>5. acked' \in Nat /\ acked' <= c + v.synced /\ (~durable => acked' = acked)
      /\ (~durable => status' = "unavailable") /\ (durable \/ (dirs' = dirs /\ offset' = offset))
  <2>1. \/ acked' = acked
        \/ acked' = Len(H) + Len(u) /\ v.synced = offset + Len(u)
    BY <1>b, <1>d
  <2>2. acked = c + offset /\ Len(H) = c + offset /\ v.synced >= offset
    BY <1>2, <1>4, <1>c
  <2>3. acked' \in Nat /\ acked' <= c + v.synced
    <3>1. offset \in Nat /\ c \in Nat /\ Len(u) \in Nat /\ v.synced \in Nat
      BY <1>2, <1>3
    <3>2. CASE acked' = acked
      BY <2>2, <3>1, <3>2
    <3>3. CASE acked' = Len(H) + Len(u) /\ v.synced = offset + Len(u)
      BY <2>2, <3>1, <3>3
    <3> QED BY <2>1, <3>2, <3>3
  <2> QED BY <2>3, <1>b
<1>6. /\ GoodFiles(gs) /\ Len(gs) = Len(files) /\ gs[file] = v
  <2>1. GoodFiles(files) /\ file \in 1..Len(files)
    BY <1>1, <1>2
  <2> QED BY <2>1, <1>4a, ChangedFiles
<1>7. /\ dirs \in Seq(Range(dirs)) /\ dirs # <<>> /\ dir \in Range(dirs)
      /\ dir.active = file /\ Ordered(dirs)
      /\ \A d \in Range(dirs) : Writable(file, segments, offset, d)
  BY <1>0, <1>1, DirFacts DEF Typed, Writing
<1>8. /\ dirs' \in Seq(Range(dirs')) /\ dirs' # <<>> /\ Range(dirs') \subseteq Range(dirs)
      /\ Last(dirs') = dir /\ Ordered(dirs')
      /\ durable => \A d \in Range(dirs') : d.active # 0
  <2>1. CASE durable
    BY <1>2, <1>7, <1>d, <2>1, NameDurableIs DEF SafeDisk
  <2>2. CASE ~durable
    BY <1>5, <1>7, <2>2 DEF dir
  <2> QED BY <2>1, <2>2
<1>9. \A d \in Range(dirs) :
           /\ Formed(gs, d)
           /\ d.active = file \/ (d.active = 0 /\ offset = 0)
           /\ \A segs : Sealed(files, d, segs) => Sealed(gs, d, segs)
           /\ Len(resolveSegments(d)) = Len(segments)
           /\ Begins(Logged(files, d), Logged(files, dir) \o u)
           /\ Firm(files, d) = c + offset
           /\ d.active # file =>
                /\ Logged(gs, d) = Logged(files, d)
                /\ Firm(gs, d) = Firm(files, d)
           /\ d.active = file =>
                /\ Logged(files, d) = H
                /\ Logged(gs, d) = H \o u
                /\ Linked(H \o u)
                /\ Firm(gs, d) = c + v.synced
  BY <1>1, <1>c, WrittenDir DEF H, c
<1>10. files' = gs /\ dir' = dir
  BY <1>8, <1>a DEF dir
<1> HIDE DEF gs
<1>11. /\ Logged(gs, dir) = H \o u
       /\ Begins(H \o u, H \o u) /\ H \o u \in Seq(Record) /\ Len(H \o u) = c + offset + Len(u)
       /\ Begins(H, H \o u) /\ Begins(H, H)
  <2>1. /\ H \o u \in Seq(Record) /\ Len(H \o u) = Len(H) + Len(u)
        /\ Begins(H, H) /\ Begins(H, H \o u) /\ Begins(H \o u, H \o u)
    BY <1>2, Joined
  <2> QED BY <1>2, <1>3, <1>7, <1>9, <2>1
<1>12. ASSUME NEW d \in Range(dirs')
       PROVE  /\ Sound(gs, checkpoint, acked', written', d)
              /\ Begins(Logged(gs, d), Logged(gs, dir))
  <2>0. d \in Range(dirs) /\ Sound(files, checkpoint, acked, written, d)
    BY <1>0, <1>8, <1>12 DEF DiskSound, AllSound
  <2>1. CASE d.active # file
    <3>1. ~durable /\ d.active = 0
      BY <2>0, <2>1, <1>8, <1>9, <1>12
    <3>2. /\ Formed(gs, d) /\ Logged(gs, d) = Logged(files, d) /\ Firm(gs, d) = Firm(files, d)
          /\ \A segs : Sealed(files, d, segs) => Sealed(gs, d, segs)
          /\ Begins(Logged(files, d), Logged(files, dir) \o u)
      BY <2>0, <2>1, <1>9
    <3>3. Sound(gs, checkpoint, acked, written, d)
      BY <2>0, <3>2, SameSound
    <3>4. Len(Logged(gs, d)) \in Nat
      BY <1>6, <3>2, LoggedType
    <3>5. Sound(gs, checkpoint, acked, written', d)
      BY <3>3, <3>4, <1>4, <1>a DEF Sound, Relied
    <3>6. acked' = acked
      BY <3>1, <1>5
    <3> QED BY <3>2, <3>5, <3>6, <1>4, <1>11
  <2>2. CASE d.active = file
    <3>1. /\ Formed(gs, d) /\ Logged(gs, d) = H \o u
          /\ Firm(gs, d) = c + v.synced /\ Firm(files, d) = c + offset
          /\ Logged(files, d) = H /\ Linked(H \o u)
          /\ \A segs : Sealed(files, d, segs) => Sealed(gs, d, segs)
      BY <2>0, <2>2, <1>9
    <3>2. Len(H) <= written
      BY <2>0, <3>1 DEF Sound, Relied
    <3>3. Len(Logged(gs, d)) <= written'
      BY <3>1, <3>2, <1>2, <1>3, <1>4, <1>11, <1>a
    <3>4. Firm(files, d) <= Firm(gs, d) /\ acked' <= Firm(gs, d)
      BY <3>1, <1>2, <1>3, <1>5, <1>c
    <3>5. Logged(gs, d) = Logged(files, d) \o u
      BY <3>1
    <3>6. Linked(Logged(gs, d))
      BY <3>1
    <3>7. Sound(gs, checkpoint, acked', written', d)
      BY <1>1, <1>4, <1>5, <1>6, <2>0, <3>1, <3>3, <3>4, <3>5, <3>6, ExtendedSound
    <3> QED BY <3>1, <3>7, <1>11
  <2> QED BY <2>1, <2>2
<1>13. DiskSound'
  <2>1. AllSound(dirs', gs, checkpoint, acked', written')
    BY <1>8, <1>12 DEF AllSound
  <2> QED BY <1>10, <1>a, <2>1 DEF DiskSound
<1>14. Refines
  <2>1. Replayed(dir) = H /\ Replayed(dir)' = H \o u
    BY <1>4, <1>8, <1>10, <1>11, ReplayedIs DEF dir
  <2>2. SubSeq(H \o u, 1, Len(H)) = H
    BY <1>2, Joined
  <2>3. Abstract!Grows
    BY <2>1, <2>2, <1>2, <1>3, <1>11, SMTT(30) DEF Abstract!Grows
  <2>4. CASE acked' = acked
    BY <2>3, <2>4 DEF Refines, Abstract!Next, Abstract!Strand
  <2>5. CASE acked' = Len(H) + Len(u)
    BY <2>1, <2>3, <2>5, <1>2, <1>3, <1>4, <1>11 DEF Refines, Abstract!Next, Abstract!Commit
  <2> QED BY <2>4, <2>5, <1>b
<1>15. /\ offset' \in Nat /\ offset' <= v.synced
       /\ (durable => offset' = offset + Len(u) /\ v.synced = offset + Len(u))
  BY <1>2, <1>3, <1>5, <1>c, <1>d
<1>16. Typed'
  BY <1>0, <1>2, <1>4, <1>5, <1>6, <1>8, <1>10, <1>15, <1>a, <1>b DEF Typed, Statuses
<1>17. Stopped'
  BY <1>1, <1>a DEF Stopped
<1>18. History(files', file', segments', offset') = IF durable THEN H \o u ELSE H
  <2>1. /\ History(gs, file, segments, offset) = H
        /\ History(gs, file, segments, offset + Len(u)) = H \o u
    <3>1. v.recs = files[file].recs \o u
      BY <1>c
    <3>a. offset <= Len(files[file].recs) /\ GoodFiles(files) /\ file \in 1..Len(files)
          /\ segments \in Seq(Seg) /\ offset \in Nat
      BY <1>1, <1>2
    <3>2. /\ History(Changed(files, file, v), file, segments, offset) = History(files, file, segments, offset)
          /\ offset = Len(files[file].recs) =>
               History(Changed(files, file, v), file, segments, offset + Len(u))
                   = History(files, file, segments, offset) \o u
      BY <1>4a, <3>1, <3>a, ExtendedHistory
    <3> QED BY <1>2, <3>2 DEF gs
  <2> QED BY <2>1, <1>5, <1>10, <1>a, <1>d
<1>19. Running'
  <2>1. ASSUME NEW d \in Range(dirs')
        PROVE  Known(files', file', segments', offset', d)
    <3> DEFINE K == History(files', file', segments', offset')
    <3>0. d \in Range(dirs) /\ Known(files, file, segments, offset, d)
      BY <1>0, <1>1, <1>8, <2>1 DEF Running
    <3>1. /\ Sealed(gs, d, segments)
          /\ Len(segments) <= Len(resolveSegments(d))
          /\ \A g \in 1..Len(segments) : resolveSegments(d)[g].recs = segments[g].recs
      BY <3>0, <1>9 DEF Known
    <3>2. Begins(K, Logged(gs, d)) /\ Len(K) <= Firm(gs, d)
      <4>1. CASE durable
        <5>1. d.active = file
          BY <3>0, <1>8, <1>9, <2>1, <4>1
        <5>2. Logged(gs, d) = H \o u /\ Firm(gs, d) = c + v.synced
          BY <3>0, <5>1, <1>9
        <5>3. K = H \o u
          BY <1>18, <4>1
        <5> HIDE DEF K
        <5> QED BY <5>2, <5>3, <4>1, <1>2, <1>3, <1>11, <1>15
      <4>2. CASE ~durable
        <5>1. K = H
          BY <1>18, <4>2
        <5>2. Begins(H, Logged(files, d)) /\ Len(H) <= Firm(files, d)
          BY <3>0, <1>2 DEF Known
        <5>3. CASE d.active = file
          <6>1. Logged(gs, d) = H \o u /\ Firm(gs, d) = c + v.synced
            BY <3>0, <5>3, <1>9
          <6> HIDE DEF K
          <6> QED BY <5>1, <6>1, <1>2, <1>3, <1>11, <1>c
        <5>4. CASE d.active # file
          <6>1. Logged(gs, d) = Logged(files, d) /\ Firm(gs, d) = Firm(files, d)
            BY <3>0, <5>4, <1>9
          <6> HIDE DEF K
          <6> QED BY <5>1, <5>2, <6>1
        <5> QED BY <5>3, <5>4
      <4> QED BY <4>1, <4>2
    <3> QED BY <3>1, <3>2, <1>10, <1>a DEF Known
  <2> QED BY <1>0, <1>a, <2>1 DEF Running
<1>20. Clean'
  <2>1. SUFFICES ASSUME Healthy'
                 PROVE  /\ Len(files'[file'].recs) = offset' /\ ~files'[file'].torn
                        /\ acked' = Len(History(files', file', segments', offset'))
                        /\ Logged(files', dir') = History(files', file', segments', offset')
    BY DEF Clean
  <2>2. durable /\ acked' = Len(H) + Len(u) /\ ~v.torn
    BY <2>1, <1>b, <1>d DEF Healthy
  <2>3. History(files', file', segments', offset') = H \o u
    BY <2>2, <1>18
  <2>4. files'[file'].recs = v.recs /\ ~files'[file'].torn
    BY <2>2, <1>6, <1>10, <1>a
  <2> QED BY <2>2, <2>3, <2>4, <1>2, <1>3, <1>10, <1>11, <1>15
<1>21. Writing'
  <2>1. ASSUME NEW d \in Range(dirs')
        PROVE  Writable(file, segments, offset', d)
    <3>1. d \in Range(dirs) /\ Writable(file, segments, offset, d)
      BY <1>7, <1>8, <2>1
    <3>2. CASE durable
      BY <1>8, <2>1, <3>1, <3>2 DEF Writable
    <3>3. CASE ~durable
      BY <3>1, <3>3, <1>5
    <3> QED BY <3>2, <3>3
  <2> QED BY <2>1, <1>7, <1>8, <1>10, <1>a DEF Writing
<1>22. Rolling'
  BY <1>1, <1>a DEF Rolling
<1>23. Flags'
  BY <1>0, <1>8, <1>a DEF Flags
<1>24. Compacting'
  BY <1>0, <1>1, <1>8, <1>10, <1>a DEF Compacting
<1> QED BY <1>13, <1>14, <1>16, <1>17, <1>19, <1>20, <1>21, <1>22, <1>23, <1>24 DEF Inv

\* The open file with recs behind what it held.
Longer(u, synced, torn) == [recs |-> Committed \o u, synced |-> synced, torn |-> torn]

\* What a write makes of the open file.
LEMMA LongerFile ==
    ASSUME Inv, Healthy, NEW u \in Seq(Record), Follows(ChainHead, u), NEW torn \in BOOLEAN,
           NEW y \in Nat, y \in offset..(offset + Len(u))
    PROVE  /\ Longer(u, y, torn) \in File
           /\ Grown(u, Longer(u, y, torn))
           /\ Longer(u, y, torn).synced = y
           /\ Longer(u, y, torn).torn = torn
           /\ Len(Committed \o u) = offset + Len(u)
<1> DEFINE v == Longer(u, y, torn)
<1>0. Typed /\ Running /\ Clean /\ phase = "open" /\ status = "healthy"
  BY DEF Inv, Healthy
<1>1. /\ Committed = files[file].recs /\ Committed \in Seq(Record) /\ Len(Committed) = offset
      /\ offset \in Nat
  BY <1>0, OpenFacts
<1>2. Committed \o u \in Seq(Record) /\ Len(Committed \o u) = offset + Len(u)
  BY <1>1, Joined
<1>3. v.recs = Committed \o u /\ v.synced = y /\ v.torn = torn /\ v \in File
  BY <1>2 DEF Longer, File
<1> HIDE DEF v
<1>4. v.synced <= Len(v.recs) /\ v.synced >= offset
  BY <1>1, <1>2, <1>3
<1>5. Grown(u, v)
  BY <1>1, <1>3, <1>4 DEF Grown
<1> QED BY <1>2, <1>3, <1>5 DEF v

\* WriteBatch and AfterDurableFails: the records are durable, with the name of
\* their file.
LEMMA WriteStep ==
    ASSUME SafeDisk, Inv, NEW n \in 1..MaxBatch, WriteBatch(n) \/ AfterDurableFails(n)
    PROVE  Inv' /\ Refines
<1> DEFINE u == Frames(n)
           v == Longer(u, offset + n, FALSE)
<1>0. Typed /\ Running /\ Clean /\ Healthy /\ Unlocked
  BY DEF Inv, WriteBatch, AfterDurableFails, CanWrite, Healthy
<1>1. offset \in Nat /\ ChainHead \in Seq(Record) /\ n \in Nat /\ offset + n \in Nat
  <2>1. offset \in Nat /\ ChainHead \in Seq(Record)
    BY <1>0, OpenFacts DEF Healthy
  <2>2. n \in Nat
    BY BoundsAssumption
  <2> QED BY <2>1, <2>2
<1>2. u \in Seq(Record) /\ Len(u) = n /\ Follows(ChainHead, u)
  BY <1>0, <1>1, FramesFollow
<1> HIDE DEF u
<1>3. offset + n \in offset..(offset + Len(u))
  BY <1>1, <1>2
<1>4. /\ v \in File /\ Grown(u, v) /\ v.synced = offset + n /\ v.torn = FALSE
      /\ Len(Committed \o u) = offset + n
  BY <1>0, <1>1, <1>2, <1>3, LongerFile
<1>5. files' = Changed(files, file, v)
  BY <1>4 DEF WriteBatch, AfterDurableFails, Changed, Longer, u
<1>6. /\ dirs' = NameDurable(file) /\ offset' = offset + n /\ written' = written + n
      /\ \/ status' = status /\ acked' = Len(ChainHead) + n
         \/ status' = "unavailable" /\ acked' = acked
      /\ phase' = phase /\ file' = file /\ segments' = segments /\ roll' = roll
      /\ compact' = compact /\ checkpoint' = checkpoint
  BY <1>0 DEF WriteBatch, AfterDurableFails, MarkUnavailable, Healthy
<1> HIDE DEF v
<1>7. Extension(u, v, n)
  <2>1. n <= n
    BY <1>1
  <2> QED BY <1>2, <1>4, <1>5, <1>6, <2>1 DEF Extension
<1> QED BY <1>0, <1>1, <1>2, <1>4, <1>7, ExtendStep

\* WriteFails: nothing of what it leaves counts.
LEMMA WriteFailsStep ==
    ASSUME SafeDisk, Inv, NEW n \in 1..MaxBatch, NEW k \in 0..MaxBatch, NEW torn \in BOOLEAN,
           WriteFails(n, k, torn)
    PROVE  Inv' /\ Refines
<1> DEFINE u == SubSeq(Frames(n), 1, k)
           v == Longer(u, offset, torn)
<1>0. Typed /\ Running /\ Clean /\ Healthy /\ Unlocked
  BY DEF Inv, WriteFails, CanWrite, Healthy
<1>1. offset \in Nat /\ ChainHead \in Seq(Record) /\ n \in Nat /\ k \in 0..n
  <2>1. offset \in Nat /\ ChainHead \in Seq(Record)
    BY <1>0, OpenFacts DEF Healthy
  <2>2. n \in Nat
    BY BoundsAssumption
  <2> QED BY <2>1, <2>2 DEF WriteFails
<1>2. Frames(n) \in Seq(Record) /\ Len(Frames(n)) = n /\ Follows(ChainHead, Frames(n))
  BY <1>0, <1>1, FramesFollow
<1>2a. u \in Seq(Record) /\ Len(u) = k /\ Follows(ChainHead, u)
  BY <1>1, <1>2, FollowsPart
<1> HIDE DEF u
<1>3. offset \in offset..(offset + Len(u)) /\ Len(u) <= n
  BY <1>1, <1>2a
<1>4. v \in File /\ Grown(u, v)
  BY <1>0, <1>1, <1>2a, <1>3, LongerFile
<1>5. files' = Changed(files, file, v)
  BY <1>4 DEF WriteFails, Changed, Longer, u
<1>6. /\ dirs' = dirs /\ offset' = offset /\ written' = written + n
      /\ status' = "unavailable" /\ acked' = acked
      /\ phase' = phase /\ file' = file /\ segments' = segments /\ roll' = roll
      /\ compact' = compact /\ checkpoint' = checkpoint
  BY <1>0 DEF WriteFails, MarkUnavailable, Healthy
<1> HIDE DEF v
<1>7. Extension(u, v, n)
  BY <1>3, <1>5, <1>6 DEF Extension
<1> QED BY <1>0, <1>1, <1>2a, <1>4, <1>7, ExtendStep

-----------------------------------------------------------------------------
(* Stopping and starting                                                   *)

\* Repair: the manifest says what the intent and the directory said.
LEMMA RepairStep ==
    ASSUME SafeDisk, Inv, Repair
    PROVE  Inv' /\ Refines
<1> DEFINE s == resolveSegments(dir)
<1>0. /\ Typed /\ DiskSound /\ Stopped /\ Running
  BY DEF Inv
<1>3. /\ dir \in Range(dirs) /\ Formed(files, dir) /\ Firm(files, dir) \in Nat
      /\ s \in Seq(Seg) /\ Len(s) \in Nat
      /\ Sealed(files, dir, s)
  BY <1>0, DirFacts
<1>a. PICK p \in Seq(Record) : p = <<>>
  BY EmptySeq
<1> DEFINE e == Managed(dir, s, p)
<1>1. /\ phase = "down" /\ dirs' = Append(dirs, e) /\ phase' = "repairing"
      /\ files' = files /\ status' = status /\ file' = file
      /\ segments' = segments /\ offset' = offset /\ compact' = compact /\ roll' = roll
      /\ checkpoint' = checkpoint /\ acked' = acked /\ written' = written
  BY <1>a DEF Repair, Managed, Named, counters
<1>2. /\ roll = "idle" /\ compact = Idle
      /\ \A i \in 1..Len(files) : files[i].synced = Len(files[i].recs)
  BY <1>0, <1>1 DEF Stopped
<1> HIDE DEF s
<1>4. /\ Formed(files, e) /\ e.active = dir.active
      /\ e.manifest.segs = s /\ e.manifest.pending = p
      /\ Sealed(files, e, s)
  BY <1>3, ManagedDir
<1> HIDE DEF e
<1>5. resolveSegments(e) = s
  BY <1>a, <1>4 DEF resolveSegments, Rolled
<1>6. Logged(files, e) = Logged(files, dir) /\ Firm(files, e) = Firm(files, dir)
  BY <1>4, <1>5 DEF Logged, Firm, s
<1>7. /\ dirs' \in Seq(Range(dirs')) /\ dirs' # <<>>
      /\ Range(dirs') \subseteq Range(dirs) \cup {e}
      /\ Last(dirs') = e /\ dir' = e
  BY <1>0, <1>1, NewDirs
<1>8. DiskSound' /\ Refines
  <2>1. Firm(files, e) >= Firm(files, dir) /\ Len(resolveSegments(e)) >= Len(resolveSegments(dir))
    BY <1>3, <1>5, <1>6 DEF s
  <2>2. Sealed(files, e, resolveSegments(e))
    BY <1>4, <1>5
  <2> QED BY <1>0, <1>1, <1>4, <1>6, <1>7, <2>1, <2>2, DiskMoves
<1>9. Typed'
  BY <1>0, <1>1, <1>7 DEF Typed
<1>10. Stopped'
  BY <1>1, <1>2, <1>4, <1>7, <1>a DEF Stopped
<1>11. Running' /\ Clean' /\ Writing' /\ Rolling' /\ Flags' /\ Compacting'
  BY <1>0, <1>1, <1>2 DEF Running, Clean, Healthy, Writing, Settled, Rolling, Flags,
                          Compacting, Idle
<1> QED BY <1>8, <1>9, <1>10, <1>11 DEF Inv

\* The process is gone and left one sound directory.
LEMMA ExitStep ==
    ASSUME Typed, Exit, NEW d, dirs' = <<d>>, GoodFiles(files'),
           \A i \in 1..Len(files') : files'[i].synced = Len(files'[i].recs),
           Sound(files', checkpoint, acked, written, d)
    PROVE  Inv'
<1>1. /\ phase' = "down" /\ status' = "healthy" /\ file' = 0
      /\ segments' = <<>> /\ offset' = 0 /\ roll' = "idle" /\ compact' = Idle
      /\ checkpoint' = checkpoint /\ acked' = acked /\ written' = written
  BY DEF Exit
<1>2. /\ dirs' \in Seq(Range(dirs')) /\ dirs' # <<>> /\ Range(dirs') = {d} /\ Last(dirs') = d
      /\ dir' = d
  BY LastOne DEF dir
<1>3. Typed'
  <2>1. segments' \in Seq(Seg)
    BY <1>1
  <2>2. 0 \in 0..Len(files')
    BY DEF GoodFiles
  <2> QED BY <1>1, <1>2, <2>1, <2>2 DEF Typed, Statuses, Idle
<1>4. DiskSound'
  <2>1. Formed(files', d)
    BY DEF Sound
  <2>2. Logged(files', d) \in Seq(Record)
    BY <2>1, LoggedType
  <2>3. Begins(Logged(files', d), Logged(files', d))
    BY <2>2, BeginsItself
  <2>4. AllSound(dirs', files', checkpoint, acked, written)
    BY <1>2, <2>3 DEF AllSound
  <2> QED BY <1>1, <2>4 DEF DiskSound
<1>5. Stopped'
  BY <1>1, <1>2 DEF Stopped
<1>6. Running' /\ Clean' /\ Writing' /\ Rolling' /\ Flags' /\ Compacting'
  BY <1>1 DEF Running, Clean, Healthy, Writing, Settled, Rolling, Flags, Compacting, Idle
<1> QED BY <1>3, <1>4, <1>5, <1>6 DEF Inv

\* Kill: what is durable is all there is.
LEMMA KillStep ==
    ASSUME SafeDisk, Inv, Kill
    PROVE  Inv' /\ Refines
<1>0. Typed /\ DiskSound /\ Running
  BY DEF Inv
<1>1. Exit /\ dirs' = dirs /\ files' = files /\ AllSynced
  BY DEF Kill, SafeDisk, disk
<1>2. dirs' = <<dir>>
  BY <1>1 DEF AllSynced, Synced
<1>3. Sound(files', checkpoint, acked, written, dir)
  BY <1>0, <1>1, DirFacts
<1>4. /\ GoodFiles(files')
      /\ \A i \in 1..Len(files') : files'[i].synced = Len(files'[i].recs)
  <2>1. GoodFiles(files) /\ files \in Seq(File)
    BY <1>0 DEF Typed, GoodFiles
  <2>2. DOMAIN files = 1..Len(files)
    BY <2>1
  <2> QED BY <1>1, <2>1, <2>2 DEF AllSynced
<1>5. Inv'
  BY <1>0, <1>1, <1>2, <1>3, <1>4, ExitStep
<1>6. Refines
  BY <1>1, ReplayedIs DEF Refines, Exit
<1> QED BY <1>5, <1>6

\* What Crash makes of the files.
LEMMA CrashFiles ==
    ASSUME Typed, NEW k, NEW n \in Nat, NEW torn \in BOOLEAN, Crash(k, n, torn)
    PROVE  /\ Crashed(files, files') /\ GoodFiles(files')
           /\ \A i \in 1..Len(files') : files'[i].synced = Len(files'[i].recs)
<1> DEFINE kept(f) == IF f.synced + n > Len(f.recs) THEN f.synced ELSE Len(f.recs) - n
           lost(f) == torn /\ (f.torn \/ kept(f) < Len(f.recs))
           v(f) == [recs |-> SubSeq(f.recs, 1, kept(f)), synced |-> kept(f), torn |-> lost(f)]
<1>0. GoodFiles(files) /\ files \in Seq(File) /\ Len(files) \in Nat /\ DOMAIN files = 1..Len(files)
  BY DEF Typed, GoodFiles
<1>1. files' = [i \in 1..Len(files) |-> v(files[i])]
  BY <1>0 DEF Crash
<1>2. ASSUME NEW f \in File, f.synced <= Len(f.recs)
      PROVE  /\ v(f) \in File /\ v(f).synced \in f.synced..Len(f.recs)
             /\ v(f).recs = SubSeq(f.recs, 1, v(f).synced)
             /\ v(f).synced = Len(v(f).recs)
             /\ ~f.torn /\ f.synced = Len(f.recs) => ~v(f).torn
  <2>1. f.recs \in Seq(Record) /\ f.synced \in Nat /\ Len(f.recs) \in Nat /\ f.torn \in BOOLEAN
    BY DEF File
  <2>2. kept(f) \in Nat /\ kept(f) \in f.synced..Len(f.recs)
    BY <1>2, <2>1
  <2>3. lost(f) \in BOOLEAN
    OBVIOUS
  <2>4. ~f.torn /\ f.synced = Len(f.recs) => ~lost(f)
    BY <2>1, <2>2
  <2> HIDE DEF kept, lost
  <2>5. SubSeq(f.recs, 1, kept(f)) \in Seq(Record) /\ Len(SubSeq(f.recs, 1, kept(f))) = kept(f)
    BY <2>1, <2>2
  <2>6. v(f).recs = SubSeq(f.recs, 1, kept(f)) /\ v(f).synced = kept(f) /\ v(f).torn = lost(f)
        /\ v(f) \in File
    BY <2>2, <2>3, <2>5 DEF File
  <2> HIDE DEF v
  <2> QED BY <2>1, <2>2, <2>4, <2>5, <2>6
<1> HIDE DEF v
<1>3. \A i \in 1..Len(files) : files[i] \in File /\ files[i].synced <= Len(files[i].recs)
  BY <1>0, FileType
<1>4. files' \in Seq(File) /\ Len(files') = Len(files)
  BY <1>0, <1>1, <1>2, <1>3
<1>5. ASSUME NEW i \in 1..Len(files)
      PROVE  /\ files'[i].synced \in files[i].synced..Len(files[i].recs)
             /\ files'[i].recs = SubSeq(files[i].recs, 1, files'[i].synced)
             /\ files'[i].synced = Len(files'[i].recs)
             /\ ~files[i].torn /\ files[i].synced = Len(files[i].recs) => ~files'[i].torn
  <2>1. files'[i] = v(files[i])
    BY <1>1
  <2> QED BY <2>1, <1>2, <1>3
<1>6. GoodFiles(files')
  <2>1. \A i \in 1..Len(files') : files'[i].synced <= Len(files'[i].recs)
    <3>1. ASSUME NEW i \in 1..Len(files') PROVE files'[i].synced <= Len(files'[i].recs)
      <4>1. i \in 1..Len(files)
        BY <1>4
      <4>2. files'[i] \in File
        BY <1>4, ElementOfSeq
      <4>3. files'[i].synced \in Nat
        BY <4>2 DEF File
      <4> QED BY <4>1, <4>3, <1>5
    <3> QED BY <3>1
  <2> QED BY <1>4, <2>1 DEF GoodFiles
<1>7. Crashed(files, files')
  BY <1>4, <1>5, <1>6 DEF Crashed
<1> QED BY <1>4, <1>5, <1>6, <1>7

\* Crash: a suffix goes that nobody relies on.
LEMMA CrashStep ==
    ASSUME SafeDisk, Inv, NEW k \in DOMAIN dirs, NEW n \in 0..MaxBatch, NEW torn \in BOOLEAN,
           Crash(k, n, torn)
    PROVE  Inv' /\ Refines
<1> DEFINE d == dirs[k]
           m == Firm(files', d)
           l == Logged(files, dir)
<1>0. Typed /\ DiskSound /\ Running
  BY DEF Inv
<1>1. Exit /\ dirs' = <<d>> /\ acked' = acked
  BY DEF Crash, Exit
<1>2. d \in Range(dirs)
  BY DEF Range
<1>3. n \in Nat
  BY BoundsAssumption
<1>4. /\ Crashed(files, files') /\ GoodFiles(files')
      /\ \A i \in 1..Len(files') : files'[i].synced = Len(files'[i].recs)
  BY <1>0, <1>3, CrashFiles
<1>5. /\ Sound(files, checkpoint, acked, written, d)
      /\ Begins(Logged(files, d), l)
      /\ GoodFiles(files) /\ checkpoint \in [gen : Nat, count : Nat, id : Nat]
      /\ acked \in Nat /\ written \in Nat
  BY <1>0, <1>2 DEF DiskSound, AllSound, dir, Typed
<1> HIDE DEF d
<1>6. Sound(files', checkpoint, acked, written, d)
  BY <1>4, <1>5, CrashedSound
<1>7. Inv'
  BY <1>0, <1>1, <1>4, <1>6, ExitStep
<1>8. Formed(files, d) /\ acked <= Firm(files, d)
  BY <1>5 DEF Sound, Relied
<1>9. /\ m \in Firm(files, d)..Len(Logged(files, d))
      /\ Logged(files', d) = SubSeq(Logged(files, d), 1, m)
  BY <1>4, <1>5, <1>8, CrashedDir
<1>10. /\ Logged(files, d) \in Seq(Record) /\ Firm(files, d) \in Nat /\ l \in Seq(Record)
  BY <1>0, <1>5, <1>8, LoggedType, DirFacts
<1>11. Replayed(dir) = l /\ Replayed(dir)' = Logged(files', d)
  BY <1>1, ReplayedIs, LastOne DEF dir
<1> DEFINE s == Logged(files, d)
<1> HIDE DEF m, l, s
<1>12. SubSeq(s, 1, m) = SubSeq(l, 1, m) /\ m \in acked..Len(l)
  <2>1. s \in Seq(Record) /\ l \in Seq(Record) /\ m \in Nat /\ m <= Len(s) /\ Len(s) <= Len(l)
        /\ \A i \in 1..Len(s) : l[i] = s[i]
    BY <1>5, <1>9, <1>10 DEF Begins, s
  <2>2. /\ SubSeq(s, 1, m) \in Seq(Record) /\ Len(SubSeq(s, 1, m)) = m
        /\ \A i \in 1..m : SubSeq(s, 1, m)[i] = s[i]
    BY <2>1
  <2>3. /\ SubSeq(l, 1, m) \in Seq(Record) /\ Len(SubSeq(l, 1, m)) = m
        /\ \A i \in 1..m : SubSeq(l, 1, m)[i] = l[i]
    BY <2>1
  <2>4. \A i \in 1..m : SubSeq(s, 1, m)[i] = SubSeq(l, 1, m)[i]
    BY <2>1, <2>2, <2>3
  <2>5. SubSeq(s, 1, m) = SubSeq(l, 1, m)
    BY <2>2, <2>3, <2>4, SeqEqual
  <2> QED BY <2>1, <2>5, <1>5, <1>8, <1>9, <1>10
<1>13. Abstract!Lose(m)
  BY <1>1, <1>9, <1>11, <1>12 DEF Abstract!Lose, s
<1>14. Refines
  BY <1>11, <1>12, <1>13 DEF Refines, Abstract!Next
<1> QED BY <1>7, <1>14

\* The disk once the log is open: i is the active file, e the directory.
Opened(i, e) ==
    /\ GoodFiles(files') /\ i \in 1..Len(files') /\ i # 0
    /\ files'[i].recs = ActiveRecs(dir) /\ Still(files', i)
    /\ dirs' \in Seq(Range(dirs')) /\ dirs' # <<>> /\ Range(dirs') \subseteq {dir, e}
    /\ Last(dirs') = e /\ Ordered(dirs')
    /\ e.active = i
    /\ \A d \in {dir, e} :
        /\ Formed(files', d) /\ d.manifest = dir.manifest
        /\ d.active = i \/ d.active = 0
        /\ Logged(files', d) = Logged(files, dir)
        /\ Firm(files', d) = Len(Logged(files, dir))
        /\ Sealed(files', d, dir.manifest.segs)
        /\ \A g \in DOMAIN d.wal : d.wal[g] # i

\* The state in which the log is opened.
LEMMA OpenableNow ==
    ASSUME Inv, Open
    PROVE  /\ phase \in {"down", "repairing"} /\ dir.manifest.pending = <<>>
           /\ RepairedDirs = <<dir>>
           /\ phase = "down" => dirs = <<dir>>
           /\ \A j \in 1..Len(files) : files[j].synced = Len(files[j].recs)
           /\ roll = "idle" /\ compact = Idle
           /\ ~Rolled(dir) /\ resolveSegments(dir) = dir.manifest.segs
<1>0. Stopped
  BY DEF Inv
<1>1. phase \in {"down", "repairing"} /\ dir.manifest.pending = <<>>
  BY <1>0 DEF Open, Stopped
<1>2. RepairedDirs = <<dir>> /\ (phase = "down" => dirs = <<dir>>)
  BY <1>0, <1>1 DEF Stopped, RepairedDirs, Synced
<1> QED BY <1>0, <1>1, <1>2 DEF Stopped, Rolled, resolveSegments

\* Once the log is open all that was found is history.
LEMMA OpenedStep ==
    ASSUME SafeDisk, Inv, Open, NEW i, NEW e, file' = i, Opened(i, e)
    PROVE  Inv' /\ Refines
<1> DEFINE s == dir.manifest.segs
           L == Logged(files, dir)
<1>0. /\ Typed /\ DiskSound /\ Running
  BY DEF Inv
<1>1. /\ offset' = Len(ActiveRecs(dir)) /\ segments' = s /\ acked' = Len(Replayed(dir))
      /\ phase' = "open" /\ status' = "healthy" /\ roll' = roll /\ compact' = compact
      /\ checkpoint' = checkpoint /\ written' = written
  BY DEF Open, counters
<1>2. /\ roll = "idle" /\ compact = Idle
      /\ ~Rolled(dir) /\ resolveSegments(dir) = s /\ dir.manifest.pending = <<>>
  BY OpenableNow
<1>3. /\ Sound(files, checkpoint, acked, written, dir) /\ Formed(files, dir)
      /\ s \in Seq(Seg) /\ Len(s) \in Nat /\ L \in Seq(Record) /\ Len(L) \in Nat
      /\ Concat(s) \in Seq(Record) /\ Len(Concat(s)) \in Nat
      /\ checkpoint \in [gen : Nat, count : Nat, id : Nat] /\ acked \in Nat /\ written \in Nat
      /\ GoodFiles(files)
  <2>1. /\ Sound(files, checkpoint, acked, written, dir) /\ Formed(files, dir)
        /\ s \in Seq(Seg) /\ L \in Seq(Record)
    BY <1>0, DirFacts
  <2>2. Concat(s) \in Seq(Record)
    BY <2>1, ConcatType
  <2> HIDE DEF s, L
  <2>3. Len(s) \in Nat /\ Len(L) \in Nat /\ Len(Concat(s)) \in Nat
    BY <2>1, <2>2
  <2> QED BY <1>0, <2>1, <2>2, <2>3 DEF Typed
<1>4. /\ GoodFiles(files') /\ i \in 1..Len(files') /\ i # 0
      /\ files'[i].recs = ActiveRecs(dir) /\ Still(files', i)
      /\ dirs' \in Seq(Range(dirs')) /\ dirs' # <<>> /\ Range(dirs') \subseteq {dir, e}
      /\ Last(dirs') = e /\ Ordered(dirs')
      /\ e.active = i
  BY DEF Opened
<1>5. ASSUME NEW d \in {dir, e}
      PROVE  /\ Formed(files', d) /\ d.manifest = dir.manifest
             /\ d.active = i \/ d.active = 0
             /\ Logged(files', d) = L
             /\ Firm(files', d) = Len(L)
             /\ Sealed(files', d, s)
             /\ \A g \in DOMAIN d.wal : d.wal[g] # i
  BY DEF Opened
<1>6. Replayed(dir) = L /\ Replayed(dir)' = L /\ dir' = e /\ acked' = Len(L)
  BY <1>1, <1>4, <1>5, ReplayedIs DEF dir
<1> HIDE DEF s, L
<1>7. ASSUME NEW d \in {dir, e}
      PROVE  ~Rolled(d) /\ resolveSegments(d) = s /\ d.manifest.segs = s
  BY <1>2, <1>5 DEF Rolled, resolveSegments, s
<1>8. ASSUME NEW d \in {dir, e}
      PROVE  Sound(files', checkpoint, acked', written, d)
  <2>1. /\ Linked(L) /\ checkpoint.gen <= Len(s) + 1 /\ checkpoint.count <= Firm(files, dir)
        /\ checkpoint.count > 0 => checkpoint.id = L[checkpoint.count].id
        /\ Len(L) <= written
    BY <1>2, <1>3 DEF Sound, Relied, L
  <2>2. Firm(files, dir) \in Nat /\ Firm(files, dir) <= Len(L) /\ checkpoint.count \in Nat
    BY <1>3, LoggedType DEF L
  <2>3. checkpoint.count <= Len(L) /\ Len(L) <= Len(L)
    BY <1>3, <2>1, <2>2
  <2>4. Relied(files', checkpoint, acked', written, d)
    BY <1>5, <1>6, <1>7, <1>8, <2>1, <2>3 DEF Relied
  <2> QED BY <1>5, <1>7, <1>8, <2>1, <2>4 DEF Sound
<1>9. DiskSound'
  <2>1. Begins(L, L)
    BY <1>3, BeginsItself
  <2>2. ASSUME NEW d \in Range(dirs')
        PROVE  /\ Sound(files', checkpoint, acked', written, d)
               /\ Begins(Logged(files', d), Logged(files', Last(dirs')))
    <3>1. d \in {dir, e} /\ Last(dirs') = e /\ e \in {dir, e}
      BY <1>4, <2>2
    <3> QED BY <1>5, <1>8, <2>1, <3>1
  <2>3. AllSound(dirs', files', checkpoint, acked', written)
    BY <2>2 DEF AllSound
  <2> QED BY <1>1, <2>3 DEF DiskSound
<1>10. Refines
  BY <1>6 DEF Refines, Abstract!Next, Abstract!Keep
<1>11. /\ ActiveRecs(dir) \in Seq(Record) /\ offset' \in Nat
       /\ files'[i].synced = offset' /\ Len(files'[i].recs) = offset' /\ ~files'[i].torn
  <2>1. files'[i].recs \in Seq(Record)
    BY <1>4, FileType
  <2>2. ActiveRecs(dir) \in Seq(Record)
    BY <1>4, <2>1
  <2>3. Len(ActiveRecs(dir)) \in Nat
    BY <2>2
  <2> QED BY <1>1, <1>4, <2>2, <2>3 DEF Still
<1>12. History(files', i, s, offset') = L
  <2>1. SubSeq(files'[i].recs, 1, offset') = ActiveRecs(dir)
    <3>1. SubSeq(ActiveRecs(dir), 1, Len(ActiveRecs(dir))) = ActiveRecs(dir)
      BY <1>11, SubSeqFull
    <3> QED BY <1>1, <1>4, <3>1
  <2>2. L = Concat(s) \o ActiveRecs(dir)
    BY <1>2 DEF L, Logged, ActiveRecs
  <2> QED BY <2>1, <2>2 DEF History
<1>13. Typed'
  <2>1. file' \in 0..Len(files')
    BY <1>4
  <2>2. offset' <= offset'
    BY <1>11
  <2>3. acked' \in Nat /\ written' \in Nat
    BY <1>1, <1>3, <1>6
  <2> QED BY <1>0, <1>1, <1>3, <1>4, <1>11, <2>1, <2>2, <2>3 DEF Typed, Statuses
<1>14. Stopped'
  BY <1>1 DEF Stopped
<1>15. Running'
  <2>1. ASSUME NEW d \in Range(dirs')
        PROVE  Known(files', i, s, offset', d)
    <3>1. d \in {dir, e}
      BY <1>4, <2>1
    <3>2. Begins(L, L) /\ Len(L) <= Len(L) /\ Len(s) <= Len(s)
      BY <1>3, BeginsItself
    <3> QED BY <1>5, <1>7, <1>12, <3>1, <3>2 DEF Known
  <2> QED BY <1>1, <1>4, <2>1 DEF Running
<1>16. Clean'
  <2>1. Logged(files', e) = L
    BY <1>5
  <2> QED BY <1>1, <1>6, <1>11, <1>12, <2>1 DEF Clean, Healthy
<1>17. Writing'
  <2>1. ASSUME NEW d \in Range(dirs')
        PROVE  Writable(i, s, offset', d)
    <3>1. d \in {dir, e}
      BY <1>4, <2>1
    <3>2. d.active = i \/ (d.active = 0 /\ offset' = 0)
      <4>1. CASE d = e
        BY <1>4, <4>1
      <4>2. CASE d = dir /\ dir.active = 0
        <5>1. ActiveRecs(dir) = <<>>
          BY <4>2 DEF ActiveRecs
        <5> QED BY <1>1, <4>2, <5>1
      <4>3. CASE d = dir /\ dir.active # 0
        BY <1>5, <4>3
      <4> QED BY <3>1, <4>1, <4>2, <4>3
    <3> QED BY <1>5, <1>7, <3>1, <3>2 DEF Writable
  <2> QED BY <1>1, <1>4, <1>6, <2>1 DEF Writing
<1>18. Rolling' /\ Compacting'
  BY <1>1, <1>2 DEF Rolling, Compacting, Idle
<1>19. Flags'
  BY <1>1, <1>4, <1>7 DEF Flags
<1> QED BY <1>9, <1>10, <1>13, <1>14, <1>15, <1>16, <1>17, <1>18, <1>19 DEF Inv

\* All that an open finds is durable.
LEMMA OpensWhole ==
    ASSUME Inv, Open
    PROVE  /\ GoodFiles(files) /\ Len(files) \in Nat /\ Formed(files, dir)
           /\ Sealed(files, dir, dir.manifest.segs)
           /\ Firm(files, dir) = Len(Logged(files, dir))
           /\ dir.active # 0 => dir.active \in 1..Len(files)
<1>0. Typed /\ DiskSound /\ Running
  BY DEF Inv
<1>1. /\ Formed(files, dir) /\ GoodFiles(files) /\ Len(files) \in Nat
      /\ Sealed(files, dir, resolveSegments(dir))
      /\ dir.active \in 0..Len(files)
      /\ Concat(resolveSegments(dir)) \in Seq(Record)
  BY <1>0, DirFacts DEF Typed
<1>2. /\ resolveSegments(dir) = dir.manifest.segs
      /\ \A j \in 1..Len(files) : files[j].synced = Len(files[j].recs)
  BY OpenableNow
<1>3. dir.active # 0 => dir.active \in 1..Len(files)
  BY <1>1
<1> DEFINE c == Concat(resolveSegments(dir))
<1>4. Firm(files, dir) = Len(Logged(files, dir))
  <2>1. CASE dir.active = 0
    <3>1. Logged(files, dir) = c \o <<>> /\ Firm(files, dir) = Len(c) + 0
      BY <2>1 DEF Logged, Firm
    <3>2. c \in Seq(Record)
      BY <1>1
    <3> HIDE DEF c
    <3>3. c \o <<>> = c /\ Len(c) + 0 = Len(c)
      BY <3>2, ConcatEmptySeq
    <3> QED BY <3>1, <3>3
  <2>2. CASE dir.active # 0
    <3> DEFINE r == files[dir.active].recs
    <3>1. Logged(files, dir) = c \o r /\ Firm(files, dir) = Len(c) + files[dir.active].synced
      BY <2>2 DEF Logged, Firm
    <3>2. c \in Seq(Record) /\ r \in Seq(Record) /\ files[dir.active].synced = Len(r)
      BY <1>1, <1>2, <1>3, <2>2, FileType
    <3> HIDE DEF c, r
    <3>3. Len(c \o r) = Len(c) + Len(r)
      BY <3>2, Joined
    <3> QED BY <3>1, <3>2, <3>3
  <2> QED BY <2>1, <2>2
<1> QED BY <1>1, <1>2, <1>3, <1>4

\* The active file is missing and is created.
LEMMA OpenMissing ==
    ASSUME SafeDisk, Inv, Open, dir.active = 0
    PROVE  Inv' /\ Refines
<1> DEFINE i == Len(files) + 1
           e == Started(dir, i)
           gs == Append(files, NoRecs)
<1>0. /\ GoodFiles(files) /\ Len(files) \in Nat /\ Formed(files, dir)
      /\ Sealed(files, dir, dir.manifest.segs)
      /\ Firm(files, dir) = Len(Logged(files, dir))
  BY OpensWhole
<1>1. /\ RepairedDirs = <<dir>> /\ ~Rolled(dir) /\ dir.manifest.pending = <<>>
      /\ resolveSegments(dir) = dir.manifest.segs
  BY OpenableNow
<1>2. files' = gs /\ dirs' = Append(<<dir>>, e) /\ file' = i
  BY <1>1 DEF Open, Started, NoRecs
<1>3. /\ GoodFiles(gs) /\ Len(gs) = i
      /\ \A j \in 1..Len(files) : gs[j] = files[j]
      /\ gs[i] = NoRecs
  BY <1>0, FilesGrow
<1>4. i \in 1..i /\ i # 0 /\ i \in Nat /\ Len(files) <= i
  BY <1>0
<1>5. /\ Formed(gs, e) /\ e.active = i /\ e.wal = dir.wal /\ e.gz = dir.gz
      /\ e.manifest = dir.manifest
  <2>1. i = Len(files) + 1
    OBVIOUS
  <2> HIDE DEF i, gs
  <2> QED BY <1>0, <1>3, <2>1, StartedDir
<1>6. \A g \in DOMAIN dir.wal : dir.wal[g] \in 1..Len(files) /\ dir.wal[g] # i
  BY <1>0 DEF Formed
<1> HIDE DEF e, gs, i
<1>7. /\ Formed(gs, dir)
      /\ Logged(gs, dir) = Logged(files, dir)
      /\ Firm(gs, dir) = Firm(files, dir)
      /\ \A segs : Sealed(files, dir, segs) => Sealed(gs, dir, segs)
  <2>1. \A g \in DOMAIN dir.wal : gs[dir.wal[g]] = files[dir.wal[g]]
    BY <1>3, <1>6
  <2>2. Len(gs) \in Nat /\ Len(files) <= Len(gs)
    BY <1>3, <1>4
  <2> QED BY <1>0, <2>1, <2>2, SameFiles
<1>8. gs[i].recs = <<>> /\ gs[i].synced = 0 /\ ~gs[i].torn
  BY <1>3 DEF NoRecs
<1>9. resolveSegments(e) = resolveSegments(dir)
  BY <1>1, <1>5 DEF resolveSegments, Rolled
<1>10. Logged(gs, e) = Logged(gs, dir) /\ Firm(gs, e) = Firm(gs, dir)
  <2>1. /\ Logged(gs, e) = Concat(resolveSegments(dir)) \o <<>>
        /\ Firm(gs, e) = Len(Concat(resolveSegments(dir))) + 0
    BY <1>4, <1>5, <1>8, <1>9 DEF Logged, Firm
  <2>2. /\ Logged(gs, dir) = Concat(resolveSegments(dir)) \o <<>>
        /\ Firm(gs, dir) = Len(Concat(resolveSegments(dir))) + 0
    BY DEF Logged, Firm
  <2> QED BY <2>1, <2>2
<1>11. Sealed(gs, e, dir.manifest.segs)
  <2>1. Sealed(gs, dir, dir.manifest.segs)
    BY <1>0, <1>7
  <2>2. e.wal = dir.wal /\ e.gz = dir.gz
    BY <1>5
  <2> QED BY <2>1, <2>2 DEF Sealed
<1>12. /\ dirs' \in Seq(Range(dirs')) /\ dirs' # <<>> /\ Range(dirs') \subseteq {dir, e}
       /\ Last(dirs') = e /\ Ordered(dirs')
  <2>1. <<dir>> \in Seq(Range(<<dir>>)) /\ Range(<<dir>>) = {dir} /\ Ordered(<<dir>>)
    BY LastOne, OrderedOne
  <2>2. e.active # 0
    BY <1>4, <1>5
  <2> QED BY <1>2, <2>1, <2>2, LastAppend, OrderedAppend
<1>13. gs[i].recs = ActiveRecs(dir) /\ Still(gs, i)
  BY <1>8 DEF ActiveRecs, Still
<1>14. Opened(i, e)
  <2>1. ASSUME NEW d \in {dir, e}
        PROVE  /\ Formed(gs, d) /\ d.manifest = dir.manifest
               /\ d.active = i \/ d.active = 0
               /\ Logged(gs, d) = Logged(files, dir)
               /\ Firm(gs, d) = Len(Logged(files, dir))
               /\ Sealed(gs, d, dir.manifest.segs)
               /\ \A g \in DOMAIN d.wal : d.wal[g] # i
    <3>1. CASE d = dir
      BY <1>0, <1>6, <1>7, <3>1
    <3>2. CASE d = e
      BY <1>0, <1>5, <1>6, <1>7, <1>10, <1>11, <3>2
    <3> QED BY <3>1, <3>2
  <2> QED BY <1>2, <1>3, <1>4, <1>5, <1>12, <1>13, <2>1 DEF Opened
<1> QED BY <1>2, <1>14, OpenedStep

\* A torn tail is cut, and the cut synced.
LEMMA CutFile ==
    ASSUME NEW f \in File, NEW b
    PROVE  [[f EXCEPT !.torn = b] EXCEPT !.synced = Len(f.recs)]
               = [recs |-> f.recs, synced |-> Len(f.recs), torn |-> b]
<1> DEFINE w == [f EXCEPT !.torn = b]
           n == Len(f.recs)
<1>1. f = [recs |-> f.recs, synced |-> f.synced, torn |-> f.torn]
  BY DEF File
<1>2. w = [recs |-> f.recs, synced |-> f.synced, torn |-> b]
  BY <1>1
<1> HIDE DEF w, n
<1>3. [w EXCEPT !.synced = n] = [recs |-> f.recs, synced |-> n, torn |-> b]
  BY <1>2
<1> QED BY <1>3 DEF w, n

\* The active file is there; a torn tail is cut.
LEMMA OpenThere ==
    ASSUME SafeDisk, Inv, Open, dir.active # 0
    PROVE  Inv' /\ Refines
<1> DEFINE i == dir.active
           f == files[i]
           v == [recs |-> f.recs, synced |-> Len(f.recs), torn |-> FALSE]
           gs == Changed(files, i, v)
           L == Logged(files, dir)
<1>0. /\ GoodFiles(files) /\ Len(files) \in Nat /\ Formed(files, dir)
      /\ Sealed(files, dir, dir.manifest.segs)
      /\ Firm(files, dir) = Len(L) /\ i \in 1..Len(files)
  BY OpensWhole
<1>1. /\ RepairedDirs = <<dir>> /\ (phase = "down" => dirs = <<dir>>)
      /\ phase \in {"down", "repairing"}
      /\ f.synced = Len(f.recs)
  BY <1>0, OpenableNow
<1>2. f \in File /\ f.recs \in Seq(Record) /\ Len(f.recs) \in Nat /\ f.torn \in BOOLEAN
  BY <1>0, FileType
<1>3. files' = gs
  <2>1. CASE f.torn
    <3>1. files' = [files EXCEPT ![i].torn = FALSE, ![i].synced = Len(files[i].recs)]
      BY <2>1 DEF Open
    <3>2. files \in Seq(File)
      BY <1>0 DEF GoodFiles
    <3>3. i \in DOMAIN files
      BY <1>0, <3>2
    <3>4. files' = [files EXCEPT ![i] = [[f EXCEPT !.torn = FALSE] EXCEPT !.synced = Len(f.recs)]]
      <4> DEFINE h == [files EXCEPT ![i] = [f EXCEPT !.torn = FALSE]]
                 w == [f EXCEPT !.torn = FALSE]
                 x == [w EXCEPT !.synced = Len(f.recs)]
      <4>1. h[i] = w
        BY <3>3
      <4>2. files' = [h EXCEPT ![i] = [h[i] EXCEPT !.synced = Len(f.recs)]]
        BY <3>1
      <4> HIDE DEF w
      <4>3. files' = [h EXCEPT ![i] = x]
        BY <4>1, <4>2
      <4> HIDE DEF x
      <4>4. [h EXCEPT ![i] = x] = [files EXCEPT ![i] = x]
        OBVIOUS
      <4> QED BY <4>3, <4>4 DEF x, w
    <3>5. [[f EXCEPT !.torn = FALSE] EXCEPT !.synced = Len(f.recs)] = v
      BY <1>2, CutFile
    <3> QED BY <3>4, <3>5 DEF Changed
  <2>2. CASE ~f.torn
    <3>1. files' = files
      BY <2>2 DEF Open
    <3>2. files \in Seq(File)
      BY <1>0 DEF GoodFiles
    <3>3. f = v
      BY <1>1, <1>2, <2>2 DEF File
    <3>4. [files EXCEPT ![i] = f] = files
      BY <1>0, <3>2
    <3> QED BY <3>1, <3>3, <3>4 DEF Changed
  <2> QED BY <2>1, <2>2
<1>4. /\ dirs' \in Seq(Range(dirs')) /\ dirs' # <<>> /\ Range(dirs') \subseteq {dir}
      /\ Last(dirs') = dir /\ Ordered(dirs')
  <2>1. /\ <<dir>> \in Seq(Range(<<dir>>)) /\ <<dir>> # <<>> /\ Range(<<dir>>) = {dir}
        /\ Last(<<dir>>) = dir /\ Ordered(<<dir>>)
    BY LastOne, OrderedOne
  <2>2. CASE f.torn /\ phase = "down"
    <3>1. dirs' = NameDurable(i) /\ dirs = <<dir>>
      BY <1>1, <2>2 DEF Open
    <3>2. dirs \in Seq(Range(dirs)) /\ dirs # <<>> /\ Ordered(dirs) /\ Range(dirs) = {dir}
      BY <2>1, <3>1
    <3>3. /\ NameDurable(i) \in Seq(Range(NameDurable(i))) /\ NameDurable(i) # <<>>
          /\ Range(NameDurable(i)) \subseteq Range(dirs)
          /\ Last(NameDurable(i)) = dir /\ Ordered(NameDurable(i))
      BY <3>2, NameDurableIs DEF SafeDisk
    <3> QED BY <3>1, <3>2, <3>3
  <2>3. CASE ~(f.torn /\ phase = "down")
    <3>1. dirs' = <<dir>>
      BY <1>1, <2>3 DEF Open
    <3> QED BY <2>1, <3>1
  <2> QED BY <2>2, <2>3
<1>5. PICK u \in Seq(Record) : u = <<>>
  BY EmptySeq
<1>6. v \in File /\ v.synced = Len(f.recs) /\ v.recs = f.recs /\ ~v.torn
  BY <1>2 DEF File
<1> HIDE DEF v
<1>7. v.synced <= Len(v.recs) /\ v.recs = f.recs \o u
  BY <1>2, <1>5, <1>6, ConcatEmptySeq
<1>8. \A g \in DOMAIN dir.wal : dir.wal[g] # i
  BY <1>0 DEF Formed
<1>9. GoodFiles(gs) /\ Len(gs) = Len(files) /\ gs[i] = v
  <2>1. v.synced <= Len(v.recs)
    BY <1>7
  <2> QED BY <1>0, <1>6, <2>1, ChangedFiles
<1>10. /\ Formed(gs, dir) /\ Logged(gs, dir) = L \o u
       /\ Firm(gs, dir) = Len(Concat(resolveSegments(dir))) + v.synced
       /\ Sealed(gs, dir, dir.manifest.segs)
  <2>1. v \in File
    BY <1>6
  <2>2. /\ Formed(gs, dir)
        /\ dir.active = i => Logged(gs, dir) = L \o u
        /\ dir.active = i => Firm(gs, dir) = Len(Concat(resolveSegments(dir))) + v.synced
        /\ \A segs : Sealed(files, dir, segs) => Sealed(gs, dir, segs)
    BY <1>0, <1>7, <1>8, <2>1, ExtendedDir, ZenonT(40)
  <2> QED BY <1>0, <2>2
<1>11. L \in Seq(Record)
  BY <1>0, LoggedType
<1>12. L \o u = L
  <2> HIDE DEF L
  <2> QED BY <1>5, <1>11, ConcatEmptySeq
<1>13. Firm(gs, dir) = Len(L)
  <2>1. Firm(files, dir) = Len(Concat(resolveSegments(dir))) + f.synced
    BY DEF Firm
  <2> QED BY <1>0, <1>1, <1>6, <1>10, <2>1
<1>14. file' = i
  BY DEF Open
<1>15. gs[i].recs = ActiveRecs(dir) /\ Still(gs, i)
  BY <1>6, <1>9 DEF ActiveRecs, Still
<1> HIDE DEF gs, L
<1>16. Opened(i, dir)
  <2>1. i \in 1..Len(gs) /\ i # 0
    BY <1>0, <1>9
  <2> QED BY <1>3, <1>4, <1>8, <1>9, <1>10, <1>12, <1>13, <1>15, <2>1 DEF Opened, L
<1> QED BY <1>14, <1>16, OpenedStep

\* Open.
LEMMA OpenStep ==
    ASSUME SafeDisk, Inv, Open
    PROVE  Inv' /\ Refines
BY OpenMissing, OpenThere

\* The empty data directory.
LEMMA InitInv == Init => Inv
<1> SUFFICES ASSUME Init PROVE Inv
  OBVIOUS
<1> DEFINE d == [active |-> 0, wal |-> <<>>, gz |-> <<>>, manifest |-> NoManifest]
<1>1. /\ dirs = <<d>> /\ files = <<>> /\ phase = "down" /\ status = "healthy" /\ file = 0
      /\ segments = <<>> /\ offset = 0 /\ roll = "idle" /\ compact = Idle
      /\ checkpoint = [gen |-> 0, count |-> 0, id |-> 0] /\ written = 0 /\ acked = 0
  BY DEF Init
<1>2. d.active = 0 /\ d.wal = <<>> /\ d.gz = <<>> /\ d.manifest = NoManifest
  OBVIOUS
<1>3. NoManifest.segs = <<>> /\ NoManifest.pending = <<>>
      /\ NoManifest \in [segs : Seq(Seg), pending : Seq(Record)]
  BY EmptySeq DEF NoManifest
<1>4. d = [active |-> d.active, wal |-> d.wal, gz |-> d.gz, manifest |-> d.manifest]
  OBVIOUS
<1> HIDE DEF d
<1>5. GoodFiles(files) /\ Len(files) = 0
  BY <1>1, EmptySeq DEF GoodFiles
<1>6. dirs \in Seq(Range(dirs)) /\ dirs # <<>> /\ Range(dirs) = {d} /\ Last(dirs) = d /\ dir = d
  BY <1>1, LastOne DEF dir
<1>7. DOMAIN d.wal = {}
  BY <1>2
<1>8. ~Rolled(d) /\ resolveSegments(d) = <<>>
  BY <1>2, <1>3 DEF Rolled, resolveSegments
<1>9. Logged(files, d) = <<>> /\ Firm(files, d) = 0 /\ Len(<<>>) = 0
  <2>1. <<>> \o <<>> = <<>> /\ Len(<<>>) = 0
    OBVIOUS
  <2>2. Concat(resolveSegments(d)) = <<>>
    BY <1>8, ConcatEmpty
  <2> QED BY <1>2, <2>1, <2>2 DEF Logged, Firm
<1>10. Formed(files, d)
  BY <1>2, <1>3, <1>4, <1>5, <1>7 DEF Formed
<1>11. Sound(files, checkpoint, acked, written, d)
  <2>1. Sealed(files, d, <<>>)
    BY DEF Sealed
  <2>2. Linked(<<>>)
    BY DEF Linked
  <2>3. Relied(files, checkpoint, acked, written, d)
    BY <1>1, <1>8, <1>9 DEF Relied
  <2> QED BY <1>8, <1>9, <1>10, <2>1, <2>2, <2>3 DEF Sound
<1>12. DiskSound
  <2>1. Begins(<<>>, <<>>)
    BY DEF Begins
  <2> QED BY <1>6, <1>9, <1>11, <2>1 DEF DiskSound, AllSound
<1>13. Typed
  BY <1>1, <1>5, <1>6, EmptySeq DEF Typed, Statuses, Idle
<1>14. Stopped
  BY <1>1, <1>5, <1>6 DEF Stopped
<1>15. Running /\ Clean /\ Writing /\ Rolling /\ Flags /\ Compacting
  BY <1>1 DEF Running, Clean, Healthy, Writing, Settled, Rolling, Flags, Compacting, Idle
<1> QED BY <1>12, <1>13, <1>14, <1>15 DEF Inv

-----------------------------------------------------------------------------
(* The theorems                                                            *)

\* Every step keeps the invariant, and is one of the abstract log or none.
LEMMA NextStep ==
    ASSUME SafeDisk, Inv, [Next]_vars
    PROVE  Inv' /\ Refines
<1>1. ASSUME NEW n \in 1..MaxBatch, WriteBatch(n) \/ AfterDurableFails(n)
      PROVE  Inv' /\ Refines
  BY <1>1, WriteStep
<1>2. ASSUME NEW n \in 1..MaxBatch, NEW k \in 0..MaxBatch, NEW torn \in BOOLEAN,
             WriteFails(n, k, torn)
      PROVE  Inv' /\ Refines
  BY <1>2, WriteFailsStep
<1>3. CASE RollIntent \/ RollSyncFails \/ RollRename \/ RollCreate \/ RollCommit \/ RollDone
  BY <1>3, RollIntentStep, RollSyncFailsStep, RollRenameStep, RollCreateStep,
     RollCommitStep, RollDoneStep
<1>4. ASSUME NEW synced \in BOOLEAN, RollFails(synced)
      PROVE  Inv' /\ Refines
  BY <1>4, RollFailsStep
<1>5. ASSUME NEW g \in DOMAIN segments, CompactCopy(g)
      PROVE  Inv' /\ Refines
  BY <1>5, CompactCopyStep
<1>6. CASE \/ CompactSwitch \/ CompactRemove \/ CompactDone \/ CompactClosed
           \/ CompactFails \/ CompactRemoveFails
  BY <1>6, CompactSwitchStep, CompactSteps
<1>7. CASE AdvanceCheckpoint
  BY <1>7, AdvanceCheckpointStep
<1>8. CASE Repair \/ Open \/ Close
  BY <1>8, RepairStep, OpenStep, CloseStep
<1>9. CASE Kill
  BY <1>9, KillStep
<1>10. ASSUME NEW k \in DOMAIN dirs, NEW n \in 0..MaxBatch, NEW torn \in BOOLEAN,
              Crash(k, n, torn)
       PROVE  Inv' /\ Refines
  BY <1>10, CrashStep
<1>11. CASE UNCHANGED vars
  BY <1>11, StutterStep
<1> QED
  BY <1>1, <1>2, <1>3, <1>4, <1>5, <1>6, <1>7, <1>8, <1>9, <1>10, <1>11 DEF Next, Terminated

\* What the invariant says of a directory a crash may leave.
LEMMA SoundOpens ==
    ASSUME GoodFiles(files), checkpoint \in [gen : Nat, count : Nat, id : Nat],
           NEW d, Sound(files, checkpoint, acked, written, d)
    PROVE  Opens(d)
<1> DEFINE segs == resolveSegments(d)
           l == Logged(files, d)
<1>1. /\ Formed(files, d) /\ Sealed(files, d, segs) /\ Linked(l)
      /\ checkpoint.gen <= Len(segs) + 1
      /\ checkpoint.count <= Firm(files, d)
      /\ checkpoint.count > 0 => checkpoint.id = l[checkpoint.count].id
  BY DEF Sound, Relied
<1>2. /\ segs \in Seq(Seg) /\ l \in Seq(Record) /\ Firm(files, d) \in Nat
      /\ Firm(files, d) <= Len(l) /\ Len(l) \in Nat
      /\ d.manifest.segs \in Seq(Seg)
  BY <1>1, LoggedType, ResolveType DEF Formed
<1>3. Replayed(d) = l
  BY DEF Replayed, Logged, ActiveRecs
<1>4. SegmentsPresent(d, segs)
  <2>1. DOMAIN segs = 1..Len(segs)
    BY <1>2
  <2> HIDE DEF segs
  <2> QED BY <1>1, <2>1 DEF SegmentsPresent, Sealed
<1>5. RollReadable(d)
  <2>1. SUFFICES ASSUME Rolled(d)
                 PROVE  LET f == files[d.wal[Len(d.manifest.segs) + 1]]
                        IN  f.recs = d.manifest.pending /\ ~f.torn
    BY DEF RollReadable
  <2> DEFINE m == d.manifest.segs
             x == Segment(d.manifest.pending, FALSE)
             g == Len(m) + 1
  <2>2. segs = Append(m, x)
    BY <2>1 DEF resolveSegments
  <2>3. x.recs = d.manifest.pending /\ ~x.compressed
    BY DEF Segment
  <2>4. Len(m) \in Nat
    BY <1>2
  <2> HIDE DEF x, m
  <2>5. Len(segs) = g /\ segs[g] = x
    BY <1>2, <2>2 DEF m
  <2>6. g \in 1..Len(segs)
    BY <2>4, <2>5
  <2> HIDE DEF segs
  <2>7. ~segs[g].compressed /\ segs[g].recs = d.manifest.pending
    BY <2>3, <2>5
  <2>8. files[d.wal[g]].recs = d.manifest.pending /\ ~files[d.wal[g]].torn
    BY <1>1, <2>6, <2>7 DEF Sealed, Still
  <2> QED BY <2>8 DEF m
<1>6. HeadMatches(l, Len(segs) + 1)
  <2>1. checkpoint.count \in Nat /\ checkpoint.gen \in Nat
    OBVIOUS
  <2>2. checkpoint.count <= Len(l)
    BY <1>1, <1>2, <2>1
  <2>3. ASSUME checkpoint.count = Len(l), l # <<>>
        PROVE  checkpoint.id = Last(l).id
    <3>1. Len(l) > 0
      BY <1>2, <2>3, EmptySeq
    <3> QED BY <1>1, <2>3, <3>1 DEF Last
  <2> QED BY <1>1, <2>2, <2>3 DEF HeadMatches
<1> QED BY <1>1, <1>3, <1>4, <1>5, <1>6 DEF Opens

\* The invariant implies Openable.
LEMMA InvOpenable == Inv => Openable
<1> SUFFICES ASSUME Inv, NEW k \in DOMAIN dirs PROVE Opens(dirs[k])
  BY DEF Openable
<1>1. Typed /\ DiskSound
  BY DEF Inv
<1>2. dirs[k] \in Range(dirs)
  BY DEF Range
<1>3. Sound(files, checkpoint, acked, written, dirs[k])
  BY <1>1, <1>2 DEF DiskSound, AllSound
<1> QED BY <1>1, <1>3, SoundOpens DEF Typed

\* The invariant implies MemoryAgrees.
LEMMA InvMemory == Inv => MemoryAgrees
<1> SUFFICES ASSUME Inv, phase = "open"
             PROVE  /\ SegmentsPresent(dir, segments)
                    /\ status = "healthy" => Replayed(dir) = ChainHead
  BY DEF MemoryAgrees
<1>1. Typed /\ DiskSound /\ Running /\ Clean
  BY DEF Inv
<1>2. Known(files, file, segments, offset, dir)
  BY <1>1, DirFacts
<1>3. Sealed(files, dir, segments) /\ DOMAIN segments = 1..Len(segments)
  BY <1>1, <1>2 DEF Known, Typed
<1>4. SegmentsPresent(dir, segments)
  BY <1>3 DEF SegmentsPresent, Sealed
<1>5. ChainHead = History(files, file, segments, offset)
  BY <1>1, OpenFacts
<1>6. status = "healthy" => Replayed(dir) = ChainHead
  BY <1>1, <1>5, ReplayedIs DEF Clean, Healthy, dir
<1> QED BY <1>4, <1>6

\* The invariant implies TypeOK.
LEMMA InvType == Inv => TypeOK
<1> SUFFICES ASSUME Inv PROVE TypeOK
  OBVIOUS
<1>1. Typed /\ DiskSound /\ Running
  BY DEF Inv
<1>2. dirs \in Seq(Range(dirs)) /\ dirs # <<>> /\ GoodFiles(files)
  BY <1>1 DEF Typed
<1>3. ASSUME NEW k \in 1..Len(dirs)
      PROVE  /\ dirs[k].active \in 0..Len(files)
             /\ Range(dirs[k].wal) \subseteq 1..Len(files)
  <2>1. dirs[k] \in Range(dirs)
    BY <1>2, <1>3 DEF Range
  <2>2. Formed(files, dirs[k])
    BY <1>1, <2>1 DEF DiskSound, AllSound, Sound
  <2> QED BY <2>2 DEF Formed, Range
<1>4. ASSUME NEW i \in 1..Len(files)
      PROVE  /\ files[i].recs \in Seq(Record)
             /\ files[i].synced \in 0..Len(files[i].recs)
             /\ files[i].torn \in BOOLEAN
  <2>1. /\ files[i].recs \in Seq(Record) /\ Len(files[i].recs) \in Nat
        /\ files[i].synced \in Nat /\ files[i].synced <= Len(files[i].recs)
        /\ files[i].torn \in BOOLEAN
    BY <1>2, FileType
  <2> QED BY <2>1
<1>5. file # 0 => offset \in 0..files[file].synced
  <2>1. SUFFICES ASSUME file # 0 PROVE offset \in 0..files[file].synced
    OBVIOUS
  <2>2. file \in 1..Len(files) /\ offset \in Nat /\ offset <= files[file].synced
    BY <1>1, <1>2, <2>1 DEF Typed, GoodFiles
  <2>3. files[file].synced \in Nat
    BY <1>2, <2>2, FileType
  <2> QED BY <2>2, <2>3
<1>6. checkpoint.count <= written /\ acked <= written
  <2>1. Sound(files, checkpoint, acked, written, dir) /\ Formed(files, dir)
    BY <1>1, DirFacts
  <2>2. /\ Firm(files, dir) \in Nat /\ Len(Logged(files, dir)) \in Nat
        /\ Firm(files, dir) <= Len(Logged(files, dir))
    BY <1>2, <2>1, LoggedType
  <2>3. /\ checkpoint.count <= Firm(files, dir) /\ acked <= Firm(files, dir)
        /\ Len(Logged(files, dir)) <= written
    BY <2>1 DEF Sound, Relied
  <2>4. checkpoint.count \in Nat /\ acked \in Nat /\ written \in Nat
    BY <1>1 DEF Typed
  <2> QED BY <2>2, <2>3, <2>4
<1>7. /\ phase \in {"down", "repairing", "open", "closed"} /\ status \in Statuses
      /\ file \in 0..Len(files)
      /\ roll \in {"idle", "intent", "renamed", "created", "committed"}
      /\ compact.at \in {"idle", "copied", "switched", "removed"}
  BY <1>1 DEF Typed
<1> QED BY <1>2, <1>3, <1>4, <1>5, <1>6, <1>7 DEF TypeOK

\* The inductive invariant holds, on a disk as SafeDisk says.
THEOREM InvariantHolds == ASSUME SafeDisk PROVE Spec => []Inv
<1>1. Init => Inv
  BY InitInv
<1>2. Inv /\ [Next]_vars => Inv'
  BY NextStep
<1> QED BY <1>1, <1>2, PTL DEF Spec

\* TypeOK: types, files of which no more is durable than there is, a committed
\* offset within what is durable (Log.offset, log.go), and nobody relies on
\* more records than were written.
THEOREM TypeCorrect == ASSUME SafeDisk PROVE Spec => []TypeOK
BY InvariantHolds, InvType, PTL

\* Openable: whatever directory a crash leaves in the middle of a roll, a
\* compaction or a repair, and with whichever I/O call failing, OpenWithOptions
\* and the startup's look at the checkpoint accept it.
THEOREM OpenableHolds == ASSUME SafeDisk PROVE Spec => []Openable
BY InvariantHolds, InvOpenable, PTL

\* MemoryAgrees: a running log finds every generation it believes sealed
\* (Log.Segments), and while it takes appends a replay visits exactly its
\* history (Log.Replay).
THEOREM MemoryAgreesHolds == ASSUME SafeDisk PROVE Spec => []MemoryAgrees
BY InvariantHolds, InvMemory, PTL

\* The directory of files is one durable log (DurableLog): it only grows while
\* the process runs, and a crash takes back only what nobody relies on.
THEOREM ImplementsDurableLog == ASSUME SafeDisk PROVE Spec => Implements
<1>1. Init => Abstract!Init
  <2> SUFFICES ASSUME Init PROVE Abstract!Init
    OBVIOUS
  <2>1. dir.active = 0 /\ dir.manifest = NoManifest /\ acked = 0
    BY LastOne DEF Init, dir
  <2>2. resolveSegments(dir) = <<>>
    BY <2>1 DEF resolveSegments, Rolled, NoManifest
  <2>3. Concat(resolveSegments(dir)) = <<>> /\ ActiveRecs(dir) = <<>> /\ <<>> \o <<>> = <<>>
    BY <2>1, <2>2, ConcatEmpty DEF ActiveRecs
  <2>4. Replayed(dir) = <<>>
    BY <2>3 DEF Replayed
  <2> QED BY <2>1, <2>4 DEF Abstract!Init
<1>2. Inv /\ [Next]_vars => [Abstract!Next]_(Abstract!vars)
  <2> SUFFICES ASSUME Inv, [Next]_vars PROVE [Abstract!Next]_(Abstract!vars)
    OBVIOUS
  <2>1. Refines
    BY NextStep
  <2> QED BY <2>1 DEF Refines, Abstract!vars
<1> QED BY <1>1, <1>2, InvariantHolds, PTL DEF Spec, Implements, Abstract!Spec
=============================================================================

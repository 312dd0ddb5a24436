-------------------------- MODULE IndexDumpProofs --------------------------
(***************************************************************************)
(* What is proved of the dumps of the index: whenever a process ends, the  *)
(* newest dump that is marked as done is whole and loads, and indexing     *)
(* goes on behind it without leaving a vector out.  The invariant follows  *)
(* a dump from the sizes it notes to the directory that has them, and says *)
(* what the vectors synced before the mark are worth.                      *)
(***************************************************************************)
EXTENDS IndexDump, FiniteSetTheorems, SequenceTheorems, WellFoundedInduction, TLAPS

-----------------------------------------------------------------------------
(* The inductive invariant.                                                *)

Versions == DOMAIN BucketOf
Entries == [vid : VectorIds, version : Versions, masked : BOOLEAN]
ListsType == [DumpBuckets -> Seq(Entries)]
DirType ==
  [index : {"none", "part", "whole"}, lists : ListsType, torn : BOOLEAN,
   done : BOOLEAN]

Resting == {"sizes", "vectors", "done", "last"}
Reading == [step : {"codes", "ids"}, dir : Nat,
            rest : (SUBSET DumpBuckets) \ {{}}, sizes : [DumpBuckets -> Nat],
            versions : Seq(Versions), read : ListsType]

\* A dump notes its directory, and between sizes and ids what it read so far.
DumpType ==
  \/ dump = NoDump
  \/ dump.step \in Resting /\ dump = [step |-> dump.step, dir |-> clock]
  \/ dump \in Reading /\ dump.dir = clock

DumpTypes ==
  /\ engine \in {"up", "down", "failed"}
  /\ stored \in Nat /\ synced \in Nat /\ synced <= stored /\ stored <= MaxVectors
  /\ version \in [VectorIds -> Versions]
  /\ gone \subseteq 0 .. (stored - 1)
  /\ lists \in ListsType
  /\ indexed_count_ \in 0 .. stored
  /\ updated \in Seq(VectorIds)
  /\ clock \in 0 .. MaxDumps
  /\ dirs \in [DOMAIN dirs -> DirType] /\ DOMAIN dirs \subseteq 1 .. clock
  /\ lastDir \in 0 .. clock
  /\ dirty \in BOOLEAN /\ unsure \in BOOLEAN
  /\ loaded \in [masks : BOOLEAN, torn : BOOLEAN]
  /\ DumpType

\* The place noted for a vector that is not deleted is that of a live entry.
LiveAt(v, p, ls) == \E b \in DumpBuckets : \E k \in EntriesOf(v, ls[b]) : p = <<b, k>>
PlacesAreLive ==
  /\ DOMAIN place = VectorIds
  /\ \A v \in VectorIds \ gone : place[v] = << >> \/ LiveAt(v, place[v], lists)

\* Outside of a process that is up no dump runs, nothing is indexed and all that
\* is left is on disk.
DownIsEmpty ==
  engine # "up" => /\ dump = NoDump /\ lastDir = 0 /\ ~dirty /\ synced = stored
                   /\ lists = NoLists /\ indexed_count_ = 0

-----------------------------------------------------------------------------
(* The directories.                                                        *)

\* The directory of a running dump is the newest; it is marked as done at the
\* end only, and the last one stays until then.
RunningDir ==
  dump.step # "none" =>
    /\ clock \in DOMAIN dirs /\ lastDir < clock
    /\ dirs[clock].done <=> dump.step = "last"
    /\ dump.step \in {"vectors", "done", "last"} => dirs[clock].index = "whole"

\* Whatever is marked as done is whole, and the last dump was marked.
MarkedAreWhole ==
  /\ \A s \in DoneDirs : dirs[s].index = "whole"
  /\ lastDir # 0 => lastDir \in DoneDirs

\* What is not dirty has been synced, but for what came during the dump: an
\* engine that is not dirty, and a dump past its vectors.
AllLate == \A v \in synced .. (stored - 1) : v \in late
SyncedButLate ==
  /\ engine = "up" /\ ~dirty /\ lastDir # 0 => AllLate
  /\ dump.step # "none" => dirty
  /\ dump.step \in {"done", "last"} => AllLate

-----------------------------------------------------------------------------
(* The vectors that count as indexed.                                      *)

\* No process so far has loaded masked entries or a torn dump.
Clean == ~loaded.masks /\ ~loaded.torn

LivePlaces(ls) == {p \in Places(ls) : ~ls[p[1]][p[2]].masked}

\* The first n vectors have a live entry, or an entry, or are deleted.
LiveOrGone(ls, n, dels) ==
  \A v \in 0 .. (n - 1) : v \in dels \/ \E b \in DumpBuckets : EntriesOf(v, ls[b]) # {}
ListedOrGone(ls, n, dels) ==
  \A v \in 0 .. (n - 1) :
    v \in dels \/ \E b \in DumpBuckets : \E k \in DOMAIN ls[b] : ls[b][k].vid = v

\* No more live entries than vectors count as indexed, and none of these
\* without one unless its document is gone.
Full(ls, n, dels) ==
  Cardinality(LivePlaces(ls)) <= n /\ LiveOrGone(ls, n, dels)
IndexIsFull == Clean /\ engine = "up" => Full(lists, indexed_count_, gone)

\* Lists that account for as many vectors as they have entries, of `limit`
\* vectors there are.
Accounted(ls, limit, dels) ==
  ~HasMasks(ls) =>
    /\ Cardinality(Places(ls)) <= limit
    /\ ListedOrGone(ls, Cardinality(Places(ls)), dels)

\* Lists of the same sizes, entries and masks; the codes may differ.
Alike(s, t) ==
  /\ Len(s) = Len(t)
  /\ \A k \in 1 .. Len(s) : s[k].vid = t[k].vid /\ s[k].masked = t[k].masked

\* The entries that a running dump is about to write: the first ones of each
\* list, as long as nothing tore them.
FirstsOf(ls, sizes) == [b \in DumpBuckets |-> SubSeq(ls[b], 1, sizes[b])]
ReadsPrefix ==
  dump.step \in {"codes", "ids"} /\ ~unsure =>
    /\ \A b \in DumpBuckets : dump.sizes[b] <= Len(lists[b])
    /\ \A b \in DumpBuckets \ dump.rest :
         Alike(dump.read[b], FirstsOf(lists, dump.sizes)[b])
    /\ dump.step = "ids" => Len(dump.versions) = dump.sizes[NextBucket]
    /\ Clean => Accounted(FirstsOf(lists, dump.sizes), stored, gone)

\* A directory with an index that was not torn accounts for vectors that are
\* there, and that are on disk once it is marked as done.
DirsAccount ==
  Clean =>
    \A s \in DOMAIN dirs : dirs[s].index = "whole" /\ ~dirs[s].torn =>
      /\ dirs[s].done => Accounted(dirs[s].lists, synced, gone)
      /\ dump.step = "vectors" /\ s = clock => Accounted(dirs[s].lists, stored, gone)
      /\ dump.step = "done" /\ s = clock => Accounted(dirs[s].lists, synced, gone)

DumpIInv ==
  /\ DumpTypes
  /\ PlacesAreLive
  /\ DownIsEmpty
  /\ RunningDir
  /\ MarkedAreWhole
  /\ SyncedButLate
  /\ IndexIsFull
  /\ ReadsPrefix
  /\ DirsAccount
  /\ DumpsLoad

-----------------------------------------------------------------------------
(* Numbers and lists.                                                      *)

\* What the assumption says of buckets and versions.
LEMMA DumpBounds ==
  /\ MaxVectors \in Nat /\ MaxDumps \in Nat /\ MaxProcesses \in Nat
  /\ Versions = 1 .. Len(BucketOf) /\ Len(BucketOf) \in Nat /\ 1 \in Versions
  /\ \A w \in Versions : BucketOf[w] \in DumpBuckets
  /\ DumpBuckets \subseteq Nat /\ DumpBuckets # {}
<1>1. MaxVectors \in Nat /\ MaxDumps \in Nat /\ MaxProcesses \in Nat /\ BucketOf \in Seq(Nat)
      /\ BucketOf # << >>
  BY IndexDumpAssumption
<1>2. DOMAIN BucketOf = 1 .. Len(BucketOf) /\ Len(BucketOf) \in Nat /\ Len(BucketOf) # 0
      /\ \A w \in 1 .. Len(BucketOf) : BucketOf[w] \in Nat
  BY <1>1
<1> QED
  BY <1>1, <1>2 DEF Versions, DumpBuckets

\* The buckets are finitely many.
LEMMA BucketsAreFinite == IsFiniteSet(DumpBuckets)
<1>1. IsFiniteSet(Versions)
  BY DumpBounds, FS_Interval
<1>2. [w \in Versions |-> BucketOf[w]] \in Surjection(Versions, DumpBuckets)
  BY DEF Surjection, Versions, DumpBuckets
<1> QED
  BY <1>1, <1>2, FS_Surjection

\* A set of numbers has a lowest one.
LEMMA LowestNumber ==
  ASSUME NEW S, S \subseteq Nat, S # {}
  PROVE  \E m \in S : \A k \in S : m <= k
<1> DEFINE R == StrictSubsetOrdering(Nat)
           F == FiniteSubsetsOf(Nat)
           T == {0 .. n : n \in S}
<1>1. IsWellFoundedOn(R, F)
  BY FS_StrictSubsetOrderingWellFounded
<1>2. T \subseteq F
  <2>1. ASSUME NEW n \in S PROVE 0 .. n \in F
    <3>1. n \in Nat /\ 0 .. n \subseteq Nat
      OBVIOUS
    <3>2. IsFiniteSet(0 .. n)
      BY <3>1, FS_Interval
    <3> QED
      BY <3>1, <3>2 DEF FiniteSubsetsOf
  <2> HIDE DEF F
  <2> QED
    BY <2>1
<1>3. T # {}
  OBVIOUS
<1>4. PICK x \in T : \A y \in T : ~(<<y, x>> \in R)
  <2> HIDE DEF R, F, T
  <2> QED
    BY <1>1, <1>2, <1>3, WFMin
<1>5. PICK m \in S : x = 0 .. m
  OBVIOUS
<1>6. ASSUME NEW k \in S, k < m PROVE FALSE
  <2>1. m \in Nat /\ k \in Nat
    OBVIOUS
  <2>2. 0 .. k \subseteq 0 .. m /\ m \in 0 .. m /\ m \notin 0 .. k
    BY <1>6, <2>1
  <2>3. 0 .. k \in T /\ 0 .. k \subseteq Nat /\ 0 .. m \subseteq Nat
    BY <2>1
  <2>4. <<0 .. k, 0 .. m>> \in R
    BY <2>2, <2>3 DEF StrictSubsetOrdering
  <2> QED
    BY <2>3, <2>4, <1>4, <1>5
<1> QED
  BY <1>6

\* A bounded set of numbers has a highest one.
LEMMA HighestNumber ==
  ASSUME NEW n \in Nat, NEW S, S \subseteq 0 .. n, S # {}
  PROVE  \E m \in S : \A k \in S : k <= m
<1> DEFINE T == {n - k : k \in S}
<1>1. T \subseteq Nat /\ T # {}
  OBVIOUS
<1>2. PICK m \in T : \A k \in T : m <= k
  <2> HIDE DEF T
  <2> QED
    BY <1>1, LowestNumber
<1>3. PICK h \in S : m = n - h
  OBVIOUS
<1>4. ASSUME NEW k \in S PROVE k <= h
  <2>1. n - k \in T
    OBVIOUS
  <2>2. m <= n - k /\ k \in 0 .. n /\ h \in 0 .. n
    BY <1>2, <2>1
  <2> QED
    BY <1>3, <2>2
<1> QED
  BY <1>4


-----------------------------------------------------------------------------
(* Among: the entries of a list that are in a set.                         *)

\* g is the function Among defines, up to position k.
AmongTo(s, S, g, k) ==
  [n \in 0 .. k |->
     IF n = 0 THEN << >>
     ELSE IF s[n] \in S THEN Append(g[n - 1], s[n]) ELSE g[n - 1]]

\* Among picks a function there is.
LEMMA AmongIsDefined ==
  ASSUME NEW s, NEW S, Len(s) \in Nat
  PROVE  \E g : g = AmongTo(s, S, g, Len(s)) /\ Among(s, S) = g[Len(s)]
<1> DEFINE Bad == {k \in 0 .. Len(s) : ~ \E g : g = AmongTo(s, S, g, k)}
<1>1. Bad = {}
  <2> SUFFICES ASSUME Bad # {} PROVE FALSE
    OBVIOUS
  <2>1. PICK m \in Bad : \A k \in Bad : m <= k
    <3>1. Bad \subseteq Nat
      OBVIOUS
    <3> HIDE DEF Bad
    <3> QED
      BY <3>1, LowestNumber
  <2>2. CASE m = 0
    <3> DEFINE h == [n \in 0 .. 0 |-> << >>]
    <3>1. h = AmongTo(s, S, h, 0)
      BY DEF AmongTo
    <3> QED
      BY <2>2, <3>1
  <2>3. CASE m # 0
    <3>1. m \in Nat /\ m - 1 \in 0 .. Len(s) /\ m - 1 \notin Bad
      BY <2>1, <2>3
    <3>2. PICK g : g = AmongTo(s, S, g, m - 1)
      BY <3>1
    <3> DEFINE last == IF s[m] \in S THEN Append(g[m - 1], s[m]) ELSE g[m - 1]
               h == [n \in 0 .. m |-> IF n = m THEN last ELSE g[n]]
    <3>3. \A n \in 0 .. m - 1 :
            g[n] = IF n = 0 THEN << >>
                   ELSE IF s[n] \in S THEN Append(g[n - 1], s[n]) ELSE g[n - 1]
      BY <3>2 DEF AmongTo
    <3>4. ASSUME NEW n \in 0 .. m
          PROVE  h[n] = IF n = 0 THEN << >>
                        ELSE IF s[n] \in S THEN Append(h[n - 1], s[n]) ELSE h[n - 1]
      <4>1. CASE n = m
        <5>1. n # 0 /\ n - 1 \in 0 .. m /\ n - 1 # m
          BY <2>3, <3>1, <4>1
        <5>2. h[n - 1] = g[n - 1] /\ h[n] = last
          BY <4>1, <5>1
        <5> QED
          BY <4>1, <5>1, <5>2
      <4>2. CASE n # m
        <5>1. n \in 0 .. m - 1 /\ h[n] = g[n]
          BY <3>1, <4>2
        <5>2. n # 0 => n - 1 \in 0 .. m /\ n - 1 # m /\ h[n - 1] = g[n - 1]
          BY <3>1, <4>2
        <5> QED
          BY <3>3, <5>1, <5>2
      <4> QED
        BY <4>1, <4>2
    <3>5. h = AmongTo(s, S, h, m)
      <4>1. h = [n \in 0 .. m |-> h[n]]
        OBVIOUS
      <4> HIDE DEF h
      <4> QED
        BY <3>4, <4>1 DEF AmongTo
    <3> QED
      BY <3>5, <2>1
  <2> QED
    BY <2>2, <2>3
<1>2. \E g : g = AmongTo(s, S, g, Len(s))
  BY <1>1
<1> DEFINE chosen == CHOOSE g : g = AmongTo(s, S, g, Len(s))
<1>3. chosen = AmongTo(s, S, chosen, Len(s))
  BY <1>2, Zenon
<1>4. Among(s, S) = chosen[Len(s)]
  BY Zenon DEF Among, AmongTo
<1> QED
  BY <1>3, <1>4, Zenon

\* f gives each entry of t its place among the first k of s: those in S, once.
PickedBy(f, t, s, S, k) ==
  /\ f \in [1 .. Len(t) -> 1 .. k]
  /\ \A i, j \in 1 .. Len(t) : f[i] = f[j] => i = j
  /\ \A i \in 1 .. Len(t) : t[i] = s[f[i]] /\ t[i] \in S
  /\ \A j \in 1 .. k : s[j] \in S => \E i \in 1 .. Len(t) : f[i] = j

\* One entry more is appended or left out.
LEMMA PickOneMore ==
  ASSUME NEW T, NEW s \in Seq(T), NEW S, NEW k \in 1 .. Len(s), NEW t \in Seq(T),
         NEW f, PickedBy(f, t, s, S, k - 1)
  PROVE  IF s[k] \in S THEN \E h : PickedBy(h, Append(t, s[k]), s, S, k)
                       ELSE PickedBy(f, t, s, S, k)
<1>1. /\ k \in Nat /\ Len(t) \in Nat /\ f \in [1 .. Len(t) -> 1 .. k - 1]
      /\ \A i, j \in 1 .. Len(t) : f[i] = f[j] => i = j
      /\ \A i \in 1 .. Len(t) : t[i] = s[f[i]] /\ t[i] \in S
      /\ \A j \in 1 .. k - 1 : s[j] \in S => \E i \in 1 .. Len(t) : f[i] = j
  BY DEF PickedBy
<1>2. CASE s[k] \notin S
  <2>1. f \in [1 .. Len(t) -> 1 .. k]
    BY <1>1
  <2>2. \A j \in 1 .. k : s[j] \in S => j \in 1 .. k - 1
    BY <1>1, <1>2
  <2> QED
    BY <1>1, <1>2, <2>1, <2>2 DEF PickedBy
<1>3. CASE s[k] \in S
  <2> DEFINE u == Append(t, s[k])
             h == [i \in 1 .. Len(t) + 1 |-> IF i = Len(t) + 1 THEN k ELSE f[i]]
  <2>1. /\ Len(u) = Len(t) + 1 /\ u[Len(t) + 1] = s[k]
        /\ \A i \in 1 .. Len(t) : u[i] = t[i]
    BY <1>1
  <2>2. /\ h[Len(t) + 1] = k
        /\ \A i \in 1 .. Len(t) : h[i] = f[i] /\ f[i] \in 1 .. k - 1
        /\ \A i \in 1 .. Len(t) + 1 : i \in 1 .. Len(t) \/ i = Len(t) + 1
        /\ DOMAIN h = 1 .. Len(t) + 1
    <3>1. Len(t) + 1 \in 1 .. Len(t) + 1 /\ Len(t) + 1 \notin 1 .. Len(t)
      BY <1>1
    <3>2. \A i \in 1 .. Len(t) : i \in 1 .. Len(t) + 1 /\ i # Len(t) + 1
      BY <1>1
    <3>3. \A i \in 1 .. Len(t) + 1 : i \in 1 .. Len(t) \/ i = Len(t) + 1
      BY <1>1
    <3> QED
      BY <1>1, <3>1, <3>2, <3>3
  <2>3. h \in [1 .. Len(u) -> 1 .. k]
    BY <1>1, <2>1
  <2> HIDE DEF u, h
  <2>4. \A i, j \in 1 .. Len(u) : h[i] = h[j] => i = j
    <3> SUFFICES ASSUME NEW i \in 1 .. Len(u), NEW j \in 1 .. Len(u), h[i] = h[j]
                 PROVE  i = j
      OBVIOUS
    <3>1. CASE i \in 1 .. Len(t) /\ j \in 1 .. Len(t)
      BY <1>1, <2>2, <3>1
    <3>2. CASE i = Len(t) + 1 /\ j = Len(t) + 1
      BY <3>2
    <3>3. k \notin 1 .. k - 1
      BY <1>1
    <3> QED
      BY <2>1, <2>2, <3>1, <3>2, <3>3
  <2>5. \A i \in 1 .. Len(u) : u[i] = s[h[i]] /\ u[i] \in S
    BY <1>1, <1>3, <2>1, <2>2
  <2>6. ASSUME NEW j \in 1 .. k, s[j] \in S PROVE \E i \in 1 .. Len(u) : h[i] = j
    <3>1. CASE j = k
      <4>1. Len(t) + 1 \in 1 .. Len(u)
        BY <1>1, <2>1
      <4> QED
        BY <2>2, <3>1, <4>1
    <3>2. CASE j # k
      <4>1. j \in 1 .. k - 1
        BY <1>1, <3>2
      <4>2. PICK i \in 1 .. Len(t) : f[i] = j
        BY <1>1, <2>6, <4>1
      <4>3. i \in 1 .. Len(u) /\ h[i] = j
        BY <1>1, <2>1, <2>2, <4>2
      <4> QED
        BY <4>3
    <3> QED
      BY <3>1, <3>2
  <2>7. PickedBy(h, u, s, S, k)
    BY <2>3, <2>4, <2>5, <2>6 DEF PickedBy
  <2> QED
    BY <1>3, <2>7 DEF u
<1> QED
  BY <1>2, <1>3

\* Among keeps the entries in the set, each once.
LEMMA AmongPicks ==
  ASSUME NEW T, NEW s \in Seq(T), NEW S
  PROVE  Among(s, S) \in Seq(T) /\ \E f : PickedBy(f, Among(s, S), s, S, Len(s))
<1>1. Len(s) \in Nat
  OBVIOUS
<1>2. PICK g : g = AmongTo(s, S, g, Len(s)) /\ Among(s, S) = g[Len(s)]
  BY <1>1, AmongIsDefined
<1>3. \A n \in 0 .. Len(s) :
        g[n] = IF n = 0 THEN << >>
               ELSE IF s[n] \in S THEN Append(g[n - 1], s[n]) ELSE g[n - 1]
  BY <1>2 DEF AmongTo
<1> DEFINE Good(k) == g[k] \in Seq(T) /\ \E f : PickedBy(f, g[k], s, S, k)
           Bad == {k \in 0 .. Len(s) : ~Good(k)}
<1>4. Good(0)
  <2>1. 0 \in 0 .. Len(s)
    BY <1>1
  <2>2. g[0] = << >>
    BY <1>3, <2>1
  <2>3. PickedBy([i \in 1 .. 0 |-> 1], << >>, s, S, 0)
    BY DEF PickedBy
  <2> QED
    BY <2>2, <2>3
<1>5. Bad = {}
  <2> SUFFICES ASSUME Bad # {} PROVE FALSE
    OBVIOUS
  <2>1. PICK m \in Bad : \A k \in Bad : m <= k
    <3>1. Bad \subseteq Nat
      OBVIOUS
    <3> HIDE DEF Bad
    <3> QED
      BY <3>1, LowestNumber
  <2>2. m # 0
    BY <1>4
  <2>3. m \in 1 .. Len(s) /\ m - 1 \in 0 .. Len(s) /\ ~(m <= m - 1)
    BY <1>1, <2>2
  <2>4. Good(m - 1)
    BY <2>1, <2>3
  <2>5. PICK f : PickedBy(f, g[m - 1], s, S, m - 1)
    BY <2>4
  <2>6. g[m - 1] \in Seq(T) /\ s[m] \in T
    BY <2>3, <2>4
  <2>7. IF s[m] \in S THEN \E h : PickedBy(h, Append(g[m - 1], s[m]), s, S, m)
                      ELSE PickedBy(f, g[m - 1], s, S, m)
    BY <2>3, <2>5, <2>6, PickOneMore
  <2>8. g[m] = IF s[m] \in S THEN Append(g[m - 1], s[m]) ELSE g[m - 1]
    BY <1>3, <2>2, <2>3
  <2>9. Good(m)
    <3> HIDE DEF Bad
    <3>1. CASE s[m] \in S
      BY <2>6, <2>7, <2>8, <3>1
    <3>2. CASE s[m] \notin S
      BY <2>6, <2>7, <2>8, <3>2
    <3> QED
      BY <3>1, <3>2
  <2> QED
    BY <2>1, <2>9
<1>6. Len(s) \in 0 .. Len(s)
  BY <1>1
<1>7. Good(Len(s))
  BY <1>5, <1>6
<1> QED
  BY <1>2, <1>7

-----------------------------------------------------------------------------
(* The places of the entries, counted.                                     *)

\* A list is a sequence of entries.
LEMMA ListOf ==
  ASSUME NEW ls \in ListsType, NEW b \in DumpBuckets
  PROVE  /\ ls[b] \in Seq(Entries) /\ Len(ls[b]) \in Nat
         /\ DOMAIN ls[b] = 1 .. Len(ls[b])
         /\ \A k \in DOMAIN ls[b] : ls[b][k] \in Entries
<1>1. ls[b] \in Seq(Entries)
  BY DEF ListsType
<1> HIDE DEF Entries
<1> QED
  BY <1>1

\* Places are pairs of a bucket and a position.
LEMMA PlaceIs ==
  ASSUME NEW ls
  PROVE  /\ \A b, k : <<b, k>> \in Places(ls) <=> b \in DumpBuckets /\ k \in DOMAIN ls[b]
         /\ \A p \in Places(ls) : /\ p = <<p[1], p[2]>>
                                  /\ p[1] \in DumpBuckets /\ p[2] \in DOMAIN ls[p[1]]
<1>1. ASSUME NEW p \in Places(ls)
      PROVE  p = <<p[1], p[2]>> /\ p[1] \in DumpBuckets /\ p[2] \in DOMAIN ls[p[1]]
  <2>1. PICK b \in DumpBuckets : p \in {b} \X DOMAIN ls[b]
    BY DEF Places
  <2> QED
    BY <2>1
<1>2. ASSUME NEW b, NEW k, b \in DumpBuckets, k \in DOMAIN ls[b]
      PROVE  <<b, k>> \in Places(ls)
  <2>1. <<b, k>> \in {b} \X DOMAIN ls[b]
    BY <1>2
  <2> QED
    BY <1>2, <2>1 DEF Places
<1>3. ASSUME NEW b, NEW k, <<b, k>> \in Places(ls)
      PROVE  b \in DumpBuckets /\ k \in DOMAIN ls[b]
  BY <1>1, <1>3
<1> QED
  BY <1>1, <1>2, <1>3

\* There are finitely many.
LEMMA PlacesAreFinite ==
  ASSUME NEW ls \in ListsType
  PROVE  IsFiniteSet(Places(ls)) /\ Cardinality(Places(ls)) \in Nat
<1> DEFINE of(b) == {b} \X DOMAIN ls[b]
           T == {of(b) : b \in DumpBuckets}
<1>1. \A b \in DumpBuckets : IsFiniteSet(of(b))
  <2> TAKE b \in DumpBuckets
  <2>1. IsFiniteSet(DOMAIN ls[b])
    BY ListOf, FS_Interval
  <2> QED
    BY <2>1, FS_Singleton, FS_Product
<1>2. IsFiniteSet(T)
  <2>1. [b \in DumpBuckets |-> of(b)] \in Surjection(DumpBuckets, T)
    BY DEF Surjection
  <2> HIDE DEF T
  <2> QED
    BY <2>1, BucketsAreFinite, FS_Surjection
<1>3. IsFiniteSet(UNION T)
  <2>1. \A S \in T : IsFiniteSet(S)
    BY <1>1
  <2> HIDE DEF T
  <2> QED
    BY <1>2, <2>1, FS_UNION
<1>4. Places(ls) = UNION T
  BY DEF Places
<1> QED
  BY <1>3, <1>4, FS_CardinalityType

\* The places of live entries, too.
LEMMA LivePlaceIs ==
  ASSUME NEW ls \in ListsType
  PROVE  /\ \A b, k : <<b, k>> \in LivePlaces(ls) <=>
                        b \in DumpBuckets /\ k \in DOMAIN ls[b] /\ ~ls[b][k].masked
         /\ LivePlaces(ls) \subseteq Places(ls)
         /\ IsFiniteSet(LivePlaces(ls)) /\ Cardinality(LivePlaces(ls)) \in Nat
<1>1. LivePlaces(ls) \subseteq Places(ls)
  BY DEF LivePlaces
<1>2. IsFiniteSet(LivePlaces(ls)) /\ Cardinality(LivePlaces(ls)) \in Nat
  BY <1>1, PlacesAreFinite, FS_Subset, FS_CardinalityType
<1>3. ASSUME NEW b, NEW k
      PROVE  <<b, k>> \in LivePlaces(ls) <=>
               b \in DumpBuckets /\ k \in DOMAIN ls[b] /\ ~ls[b][k].masked
  <2>1. <<b, k>>[1] = b /\ <<b, k>>[2] = k
    OBVIOUS
  <2>2. <<b, k>> \in LivePlaces(ls) <=> <<b, k>> \in Places(ls) /\ ~ls[b][k].masked
    BY <2>1, Zenon DEF LivePlaces
  <2> QED
    BY <2>2, PlaceIs
<1> QED
  BY <1>1, <1>2, <1>3

\* Without a masked entry the number that is loaded is that of the entries.
LEMMA PlainListsCount ==
  ASSUME NEW ls \in ListsType, ~HasMasks(ls)
  PROVE  LoadedCount(ls) = Cardinality(Places(ls)) /\ LivePlaces(ls) = Places(ls)
<1>1. Subtracted(ls) = {}
  <2> SUFFICES ASSUME NEW p \in Subtracted(ls) PROVE FALSE
    OBVIOUS
  <2>1. PICK b \in DumpBuckets : /\ p \in {b} \X (DOMAIN ls[b]) \X DOMAIN ls[b]
                                 /\ ls[b][p[3]].masked
    BY DEF Subtracted
  <2>2. p[3] \in DOMAIN ls[b]
    BY <2>1
  <2> QED
    BY <2>1, <2>2 DEF HasMasks
<1>2. Cardinality(Subtracted(ls)) = 0
  BY <1>1, FS_EmptySet
<1>3. LivePlaces(ls) = Places(ls)
  <2>1. \A p \in Places(ls) : ~ls[p[1]][p[2]].masked
    BY PlaceIs DEF HasMasks
  <2> QED
    BY <2>1 DEF LivePlaces
<1> QED
  BY <1>2, <1>3, PlacesAreFinite DEF LoadedCount

\* What lists account for depends on their sizes, entries and masks only.
LEMMA AlikeAccount ==
  ASSUME NEW ls \in ListsType, NEW ms \in ListsType, NEW limit, NEW dels,
         \A b \in DumpBuckets : Alike(ls[b], ms[b]),
         Accounted(ls, limit, dels)
  PROVE  Accounted(ms, limit, dels)
<1>1. \A b \in DumpBuckets :
        /\ DOMAIN ls[b] = DOMAIN ms[b]
        /\ \A k \in DOMAIN ls[b] :
             ls[b][k].vid = ms[b][k].vid /\ ls[b][k].masked = ms[b][k].masked
  BY ListOf, Zenon DEF Alike
<1>2. Places(ls) = Places(ms)
  BY <1>1, Zenon DEF Places
<1>3. HasMasks(ls) <=> HasMasks(ms)
  BY <1>1, Zenon DEF HasMasks
<1>4. \A v : (\E b \in DumpBuckets : \E k \in DOMAIN ls[b] : ls[b][k].vid = v)
             => \E b \in DumpBuckets : \E k \in DOMAIN ms[b] : ms[b][k].vid = v
  <2> SUFFICES ASSUME NEW v, NEW b \in DumpBuckets, NEW k \in DOMAIN ls[b],
                      ls[b][k].vid = v
               PROVE  k \in DOMAIN ms[b] /\ ms[b][k].vid = v
    OBVIOUS
  <2>1. DOMAIN ls[b] = DOMAIN ms[b] /\ ls[b][k].vid = ms[b][k].vid
    BY <1>1, Zenon
  <2> QED
    BY <2>1
<1> QED
  BY <1>2, <1>3, <1>4, Zenon DEF Accounted, ListedOrGone

\* It stays accounted for when vectors come, and when those go that are beyond.
LEMMA AccountedLater ==
  ASSUME NEW ls \in ListsType, NEW m \in Nat, NEW n \in Nat, m <= n,
         NEW dels, NEW later, \A v \in dels : v < m => v \in later,
         Accounted(ls, m, dels)
  PROVE  Accounted(ls, n, later)
<1> SUFFICES ASSUME ~HasMasks(ls)
             PROVE  /\ Cardinality(Places(ls)) <= n
                    /\ ListedOrGone(ls, Cardinality(Places(ls)), later)
  BY DEF Accounted
<1> DEFINE c == Cardinality(Places(ls))
<1>1. c \in Nat /\ c <= m /\ ListedOrGone(ls, c, dels)
  BY PlacesAreFinite DEF Accounted
<1>2. c <= n
  BY <1>1
<1> HIDE DEF c
<1>3. \A v \in 0 .. (c - 1) : v < m
  BY <1>1
<1> QED
  BY <1>1, <1>2, <1>3, Zenon DEF ListedOrGone, c

-----------------------------------------------------------------------------
(* The buckets and directories that are chosen.                            *)

\* The buckets have a highest number.
LEMMA BucketBound == \E n \in Nat : DumpBuckets \subseteq 0 .. n
<1> DEFINE Bounded(k) == \E n \in Nat : \A w \in 1 .. k : BucketOf[w] \in 0 .. n
           Bad == {k \in 0 .. Len(BucketOf) : ~Bounded(k)}
<1>1. /\ Len(BucketOf) \in Nat /\ Versions = 1 .. Len(BucketOf)
      /\ \A w \in Versions : BucketOf[w] \in Nat
  BY DumpBounds
<1>2. Bounded(0)
  OBVIOUS
<1>3. Bad = {}
  <2> SUFFICES ASSUME Bad # {} PROVE FALSE
    OBVIOUS
  <2>1. PICK m \in Bad : \A k \in Bad : m <= k
    <3>1. Bad \subseteq Nat
      OBVIOUS
    <3> HIDE DEF Bad
    <3> QED
      BY <3>1, LowestNumber
  <2>2. m \in 1 .. Len(BucketOf) /\ m - 1 \in 0 .. Len(BucketOf) /\ ~(m <= m - 1)
    BY <1>1, <1>2
  <2>3. Bounded(m - 1)
    BY <2>1, <2>2
  <2>4. PICK n \in Nat : \A w \in 1 .. m - 1 : BucketOf[w] \in 0 .. n
    BY <2>3
  <2> DEFINE last == BucketOf[m]
  <2>5. last \in Nat
    BY <1>1, <2>2
  <2>6. \A w \in 1 .. m : w = m \/ w \in 1 .. m - 1
    BY <2>2
  <2> HIDE DEF last
  <2>7. \A i \in 0 .. n : i \in 0 .. n + last
    BY <2>5
  <2>8. n + last \in Nat /\ last \in 0 .. n + last
    BY <2>5
  <2>9. \A w \in 1 .. m : BucketOf[w] \in 0 .. n + last
    BY <2>4, <2>6, <2>7, <2>8, Zenon DEF last
  <2>10. Bounded(m)
    BY <2>8, <2>9, Zenon
  <2> QED
    BY <2>1, <2>10, Zenon
<1>4. Bounded(Len(BucketOf))
  <2>1. Len(BucketOf) \in 0 .. Len(BucketOf)
    BY <1>1
  <2> HIDE DEF Bounded
  <2> QED
    BY <1>3, <2>1
<1> QED
  BY <1>1, <1>4 DEF DumpBuckets, Versions

\* The place that is noted for a vector is that of a live entry, or the old one
\* when the vector has no new entry.
LEMMA NotedPlace ==
  ASSUME NEW places, NEW ls \in ListsType, NEW from, NEW v \in VectorIds
  PROVE  \/ LiveAt(v, Noted(places, ls, from)[v], ls)
         \/ /\ Noted(places, ls, from)[v] = places[v]
            /\ \A b \in DumpBuckets : \A k \in EntriesOf(v, ls[b]) : ~(k >= from[b])
<1> DEFINE homes == {b \in DumpBuckets : \E k \in EntriesOf(v, ls[b]) : k >= from[b]}
           b0 == CHOOSE c \in homes : \A d \in homes : d <= c
           at == EntriesOf(v, ls[b0])
           k0 == CHOOSE k \in at : \A l \in at : l <= k
<1>1. Noted(places, ls, from)[v] = IF homes = {} THEN places[v] ELSE <<b0, k0>>
  BY Zenon DEF Noted
<1>2. CASE homes = {}
  BY <1>1, <1>2, Zenon
<1>3. CASE homes # {}
  <2>1. b0 \in homes
    <3>1. PICK n \in Nat : DumpBuckets \subseteq 0 .. n
      BY BucketBound
    <3>2. homes \subseteq 0 .. n
      BY <3>1
    <3> HIDE DEF homes
    <3>3. \E c \in homes : \A d \in homes : d <= c
      BY <1>3, <3>2, HighestNumber
    <3> QED
      BY <3>3, Zenon
  <2>2. b0 \in DumpBuckets /\ at # {}
    BY <2>1, Zenon
  <2> HIDE DEF b0
  <2>3. at \subseteq 0 .. Len(ls[b0]) /\ Len(ls[b0]) \in Nat
    BY <2>2, ListOf DEF EntriesOf
  <2>4. k0 \in at
    <3> HIDE DEF at
    <3>1. \E k \in at : \A l \in at : l <= k
      BY <2>2, <2>3, HighestNumber
    <3> QED
      BY <3>1, Zenon
  <2> HIDE DEF k0
  <2>5. Noted(places, ls, from)[v] = <<b0, k0>>
    BY <1>1, <1>3, Zenon DEF b0, k0
  <2>6. LiveAt(v, <<b0, k0>>, ls)
    BY <2>2, <2>4, Zenon DEF LiveAt
  <2> QED
    BY <2>5, <2>6, Zenon
<1> QED
  BY <1>2, <1>3

\* The next bucket is one of the rest.
LEMMA NextIsOfTheRest ==
  ASSUME dump.rest \in (SUBSET DumpBuckets) \ {{}}
  PROVE  NextBucket \in dump.rest
<1>1. dump.rest \subseteq Nat /\ dump.rest # {}
  BY DumpBounds
<1>2. \E b \in dump.rest : \A c \in dump.rest : b <= c
  BY <1>1, LowestNumber
<1> QED
  BY <1>2, Zenon DEF NextBucket

\* The newest directory that is done is one of them.
LEMMA NewestIsDone ==
  ASSUME clock \in Nat, DOMAIN dirs \subseteq 1 .. clock, DoneDirs # {}
  PROVE  Newest \in DoneDirs
<1>1. DoneDirs \subseteq 0 .. clock
  BY DEF DoneDirs
<1>2. \E s \in DoneDirs : \A t \in DoneDirs : t <= s
  BY <1>1, HighestNumber
<1> QED
  BY <1>2, Zenon DEF Newest

-----------------------------------------------------------------------------
(* What a running dump has read.                                           *)

\* The first entries of lists that are long enough.
LEMMA FirstsAre ==
  ASSUME NEW ls \in ListsType, NEW sizes \in [DumpBuckets -> Nat],
         \A b \in DumpBuckets : sizes[b] <= Len(ls[b])
  PROVE  /\ FirstsOf(ls, sizes) \in ListsType
         /\ \A b \in DumpBuckets :
              /\ Len(FirstsOf(ls, sizes)[b]) = sizes[b]
              /\ FirstsOf(ls, sizes)[b] = SubSeq(ls[b], 1, sizes[b])
              /\ \A k \in 1 .. sizes[b] : FirstsOf(ls, sizes)[b][k] = ls[b][k]
<1>1. ASSUME NEW b \in DumpBuckets
      PROVE  /\ FirstsOf(ls, sizes)[b] = SubSeq(ls[b], 1, sizes[b])
             /\ SubSeq(ls[b], 1, sizes[b]) \in Seq(Entries)
             /\ Len(SubSeq(ls[b], 1, sizes[b])) = sizes[b]
             /\ \A k \in 1 .. sizes[b] : SubSeq(ls[b], 1, sizes[b])[k] = ls[b][k]
  <2>1. FirstsOf(ls, sizes)[b] = SubSeq(ls[b], 1, sizes[b])
    BY DEF FirstsOf
  <2>2. ls[b] \in Seq(Entries) /\ Len(ls[b]) \in Nat /\ sizes[b] \in Nat
        /\ sizes[b] <= Len(ls[b])
    BY ListOf
  <2> DEFINE s == ls[b]
             n == sizes[b]
  <2> HIDE DEF s, n, Entries
  <2>3. s \in Seq(Entries) /\ n \in Nat /\ n <= Len(s)
    BY <2>2 DEF s, n
  <2>4. /\ SubSeq(s, 1, n) \in Seq(Entries) /\ Len(SubSeq(s, 1, n)) = n
        /\ \A k \in 1 .. n : SubSeq(s, 1, n)[k] = s[k]
    BY <2>3
  <2> QED
    BY <2>1, <2>4 DEF s, n
<1>2. FirstsOf(ls, sizes) \in ListsType
  <2>1. FirstsOf(ls, sizes) = [b \in DumpBuckets |-> FirstsOf(ls, sizes)[b]]
    BY DEF FirstsOf
  <2> HIDE DEF Entries
  <2> QED
    BY <1>1, <2>1, Zenon DEF ListsType
<1> QED
  BY <1>1, <1>2, Zenon

\* Lists that only grew at their ends, and whose masks stayed.
Extends(ls, ms) ==
  \A b \in DumpBuckets :
    /\ Len(ls[b]) <= Len(ms[b])
    /\ \A k \in 1 .. Len(ls[b]) :
         ls[b][k].vid = ms[b][k].vid /\ ls[b][k].masked = ms[b][k].masked

\* Their first entries are alike.
LEMMA FirstsStayAlike ==
  ASSUME NEW ls \in ListsType, NEW ms \in ListsType, Extends(ls, ms),
         NEW sizes \in [DumpBuckets -> Nat],
         \A b \in DumpBuckets : sizes[b] <= Len(ls[b])
  PROVE  /\ \A b \in DumpBuckets : sizes[b] <= Len(ms[b])
         /\ \A b \in DumpBuckets : Alike(FirstsOf(ls, sizes)[b], FirstsOf(ms, sizes)[b])
<1>1. \A b \in DumpBuckets : sizes[b] <= Len(ms[b])
  <2> TAKE b \in DumpBuckets
  <2>1. /\ sizes[b] \in Nat /\ Len(ls[b]) \in Nat /\ Len(ms[b]) \in Nat
        /\ sizes[b] <= Len(ls[b]) /\ Len(ls[b]) <= Len(ms[b])
    BY ListOf DEF Extends
  <2> QED
    BY <2>1
<1>2. ASSUME NEW b \in DumpBuckets
      PROVE  Alike(FirstsOf(ls, sizes)[b], FirstsOf(ms, sizes)[b])
  <2>1. /\ Len(FirstsOf(ls, sizes)[b]) = sizes[b] /\ Len(FirstsOf(ms, sizes)[b]) = sizes[b]
        /\ \A k \in 1 .. sizes[b] : FirstsOf(ls, sizes)[b][k] = ls[b][k]
        /\ \A k \in 1 .. sizes[b] : FirstsOf(ms, sizes)[b][k] = ms[b][k]
    BY <1>1, FirstsAre
  <2>2. \A k \in 1 .. sizes[b] : k \in 1 .. Len(ls[b])
    <3>1. sizes[b] \in Nat /\ Len(ls[b]) \in Nat /\ sizes[b] <= Len(ls[b])
      BY ListOf
    <3> QED
      BY <3>1
  <2>3. \A k \in 1 .. sizes[b] :
          ls[b][k].vid = ms[b][k].vid /\ ls[b][k].masked = ms[b][k].masked
    BY <2>2, Zenon DEF Extends
  <2> QED
    BY <2>1, <2>3, Zenon DEF Alike
<1> QED
  BY <1>1, <1>2

\* What is like a list is like what that is like.
LEMMA AlikeIsTransitive ==
  ASSUME NEW r, NEW s, NEW t, Alike(r, s), Alike(s, t)
  PROVE  Alike(r, t)
  BY Zenon DEF Alike

-----------------------------------------------------------------------------
(* Steps of callers and of the indexing thread.                            *)

\* What the steps that leave dumps alone share: it is enough that they keep
\* the types, the places and the number of entries, and that they tell a
\* running dump what they do.
LEMMA CallsKeep ==
  ASSUME DumpIInv, engine = "up",
         UNCHANGED <<engine, clock, synced, lastDir, dirs, dump, loaded>>,
         stored' \in Nat, stored <= stored', stored' <= MaxVectors,
         gone \subseteq gone', gone' \subseteq 0 .. (stored' - 1),
         version' \in [VectorIds -> Versions], lists' \in ListsType,
         indexed_count_' \in 0 .. stored', updated' \in Seq(VectorIds),
         dirty' \in BOOLEAN, unsure' \in BOOLEAN, dirty => dirty',
         stored' = stored \/ dirty',
         late \subseteq late',
         dump.step # "none" => \A v \in stored .. (stored' - 1) : v \in late',
         PlacesAreLive', IndexIsFull',
         dump.step \in {"codes", "ids"} /\ ~unsure' => ~unsure /\ Extends(lists, lists')
  PROVE  DumpIInv'
<1>1. DumpTypes /\ RunningDir /\ MarkedAreWhole /\ SyncedButLate /\ ReadsPrefix /\ DirsAccount
      /\ DumpsLoad
  BY DEF DumpIInv
<1>2. DumpTypes'
  <2>1. DumpType'
    BY <1>1, Zenon DEF DumpTypes, DumpType
  <2>2. synced' <= stored' /\ synced' \in Nat
    BY <1>1 DEF DumpTypes
  <2> QED
    BY <1>1, <2>1, <2>2, Zenon DEF DumpTypes
<1>3. DownIsEmpty' /\ DumpsLoad'
  <2>1. "up" # "failed"
    OBVIOUS
  <2> QED
    BY <2>1, Zenon DEF DownIsEmpty, DumpsLoad
<1>4. RunningDir' /\ MarkedAreWhole'
  BY <1>1, Zenon DEF RunningDir, MarkedAreWhole, DoneDirs
<1>5. SyncedButLate'
  <2>1. AllLate /\ (stored' = stored \/ dump.step # "none") => AllLate'
    <3> SUFFICES ASSUME AllLate, stored' = stored \/ dump.step # "none",
                        NEW v \in synced .. (stored' - 1)
                 PROVE  v \in late'
      BY Zenon DEF AllLate
    <3>1. v \in synced .. (stored - 1) \/ v \in stored .. (stored' - 1)
      BY <1>1 DEF DumpTypes
    <3>2. CASE v \in synced .. (stored - 1)
      BY <3>2, Zenon DEF AllLate
    <3>3. CASE v \in stored .. (stored' - 1)
      <4>1. stored' # stored
        BY <1>1, <3>3 DEF DumpTypes
      <4> QED
        BY <3>3, <4>1, Zenon
    <3> QED
      BY <3>1, <3>2, <3>3
  <2>2. \A x : x \in {"done", "last"} => x # "none"
    OBVIOUS
  <2> QED
    BY <1>1, <2>1, <2>2, Zenon DEF SyncedButLate
<1>6. ReadsPrefix'
  <2> SUFFICES ASSUME dump.step \in {"codes", "ids"}, ~unsure'
               PROVE  /\ \A b \in DumpBuckets : dump.sizes[b] <= Len(lists'[b])
                      /\ \A b \in DumpBuckets \ dump.rest :
                           Alike(dump.read[b], FirstsOf(lists', dump.sizes)[b])
                      /\ dump.step = "ids" => Len(dump.versions) = dump.sizes[NextBucket]
                      /\ Clean => Accounted(FirstsOf(lists', dump.sizes), stored', gone')
    BY Zenon DEF ReadsPrefix, NextBucket, Clean
  <2>1. ~unsure /\ Extends(lists, lists') /\ lists \in ListsType
    BY <1>1 DEF DumpTypes
  <2>2. dump.sizes \in [DumpBuckets -> Nat]
    <3>1. dump \in Reading
      BY <1>1 DEF DumpTypes, DumpType, NoDump, Resting
    <3> QED
      BY <3>1 DEF Reading
  <2>3. /\ \A b \in DumpBuckets : dump.sizes[b] <= Len(lists[b])
        /\ \A b \in DumpBuckets \ dump.rest :
             Alike(dump.read[b], FirstsOf(lists, dump.sizes)[b])
        /\ dump.step = "ids" => Len(dump.versions) = dump.sizes[NextBucket]
        /\ Clean => Accounted(FirstsOf(lists, dump.sizes), stored, gone)
    BY <1>1, <2>1, Zenon DEF ReadsPrefix
  <2>4. /\ \A b \in DumpBuckets : dump.sizes[b] <= Len(lists'[b])
        /\ \A b \in DumpBuckets :
             Alike(FirstsOf(lists, dump.sizes)[b], FirstsOf(lists', dump.sizes)[b])
    BY <2>1, <2>2, <2>3, FirstsStayAlike
  <2>5. \A b \in DumpBuckets \ dump.rest :
          Alike(dump.read[b], FirstsOf(lists', dump.sizes)[b])
    BY <2>3, <2>4, AlikeIsTransitive
  <2>6. ASSUME Clean PROVE Accounted(FirstsOf(lists', dump.sizes), stored', gone')
    <3>1. /\ FirstsOf(lists, dump.sizes) \in ListsType
          /\ FirstsOf(lists', dump.sizes) \in ListsType
      BY <2>1, <2>2, <2>3, <2>4, FirstsAre
    <3>2. Accounted(FirstsOf(lists', dump.sizes), stored, gone)
      BY <2>3, <2>4, <2>6, <3>1, AlikeAccount
    <3>3. stored \in Nat
      BY <1>1 DEF DumpTypes
    <3> QED
      BY <3>1, <3>2, <3>3, AccountedLater
  <2> QED
    BY <2>3, <2>4, <2>5, <2>6
<1>7. DirsAccount'
  <2> SUFFICES ASSUME Clean, NEW s \in DOMAIN dirs, dirs[s].index = "whole", ~dirs[s].torn
               PROVE  /\ dirs[s].done => Accounted(dirs[s].lists, synced, gone')
                      /\ dump.step = "vectors" /\ s = clock
                         => Accounted(dirs[s].lists, stored', gone')
                      /\ dump.step = "done" /\ s = clock
                         => Accounted(dirs[s].lists, synced, gone')
    BY Zenon DEF DirsAccount, Clean
  <2>1. dirs[s].lists \in ListsType /\ stored \in Nat /\ synced \in Nat
    <3>1. dirs[s] \in DirType
      BY <1>1 DEF DumpTypes
    <3> QED
      BY <1>1, <3>1 DEF DumpTypes, DirType
  <2>2. /\ dirs[s].done => Accounted(dirs[s].lists, synced, gone)
        /\ dump.step = "vectors" /\ s = clock => Accounted(dirs[s].lists, stored, gone)
        /\ dump.step = "done" /\ s = clock => Accounted(dirs[s].lists, synced, gone)
    BY <1>1, Zenon DEF DirsAccount
  <2>3. \A n \in Nat : \A m \in Nat :
          n <= m /\ Accounted(dirs[s].lists, n, gone) => Accounted(dirs[s].lists, m, gone')
    BY <2>1, AccountedLater
  <2>4. synced <= synced
    BY <2>1
  <2> QED
    BY <2>1, <2>2, <2>3, <2>4, Zenon
<1> QED
  BY <1>2, <1>3, <1>4, <1>5, <1>6, <1>7 DEF DumpIInv

\* Lists that stay are extended by nothing.
LEMMA ExtendsItself ==
  ASSUME NEW ls \in ListsType
  PROVE  Extends(ls, ls)
<1>1. \A b \in DumpBuckets : Len(ls[b]) <= Len(ls[b])
  BY ListOf
<1> QED
  BY <1>1, Zenon DEF Extends

\* A vector more; it is not indexed yet.
LEMMA AddVectorStep ==
  ASSUME DumpIInv, AddVector
  PROVE  DumpIInv'
<1>1. DumpTypes /\ PlacesAreLive /\ IndexIsFull
  BY DEF DumpIInv
<1>2. /\ engine = "up" /\ stored' = stored + 1 /\ stored' <= MaxVectors /\ dirty'
      /\ UNCHANGED <<engine, clock, synced, version, gone, lists, place, indexed_count_,
                     updated, lastDir, dirs, dump, unsure, loaded>>
      /\ late' = IF dump.step = "none" THEN late ELSE late \cup {stored}
  BY <1>1, DumpBounds DEF AddVector, Behind, DumpTypes
<1>3. /\ stored \in Nat /\ stored' \in Nat /\ stored <= stored'
      /\ gone' \subseteq 0 .. (stored' - 1) /\ indexed_count_' \in 0 .. stored'
      /\ \A v \in stored .. (stored' - 1) : v = stored
  BY <1>1, <1>2 DEF DumpTypes
<1>4. late \subseteq late' /\ (dump.step # "none" => stored \in late')
  BY <1>2
<1>5. PlacesAreLive' /\ IndexIsFull'
  BY <1>1, <1>2, Zenon DEF PlacesAreLive, IndexIsFull, Clean
<1>6. Extends(lists, lists')
  BY <1>1, <1>2, ExtendsItself DEF DumpTypes
<1>7. /\ version' \in [VectorIds -> Versions] /\ lists' \in ListsType
      /\ updated' \in Seq(VectorIds) /\ dirty' \in BOOLEAN /\ unsure' \in BOOLEAN
  BY <1>1, <1>2, Zenon DEF DumpTypes
<1> QED
  BY <1>2, <1>3, <1>4, <1>5, <1>6, <1>7, CallsKeep

\* Another version of a vector, which the index will be told of.
LEMMA ChangeVectorStep ==
  ASSUME DumpIInv, NEW v \in VectorIds, ChangeVector(v)
  PROVE  DumpIInv'
<1>1. DumpTypes /\ PlacesAreLive /\ IndexIsFull
  BY DEF DumpIInv
<1>2. /\ engine = "up" /\ version[v] < Len(BucketOf)
      /\ version' = [version EXCEPT ![v] = @ + 1] /\ updated' = Append(updated, v) /\ dirty'
      /\ UNCHANGED <<engine, clock, synced, stored, gone, lists, place, indexed_count_,
                     lastDir, dirs, dump, unsure, loaded>>
      /\ late' = IF dump.step = "none" THEN late ELSE late \cup {v}
  BY DEF ChangeVector, Behind
<1>3. version' \in [VectorIds -> Versions]
  <2>1. version[v] \in Versions /\ version[v] + 1 \in Versions
    BY <1>1, <1>2, DumpBounds DEF DumpTypes
  <2> HIDE DEF Versions
  <2> QED
    BY <1>1, <1>2, <2>1 DEF DumpTypes
<1>4. updated' \in Seq(VectorIds)
  <2> HIDE DEF VectorIds
  <2> QED
    BY <1>1, <1>2, AppendProperties DEF DumpTypes
<1>5. PlacesAreLive' /\ IndexIsFull'
  BY <1>1, <1>2, Zenon DEF PlacesAreLive, IndexIsFull, Clean
<1>6. Extends(lists, lists')
  BY <1>1, <1>2, ExtendsItself DEF DumpTypes
<1>7. /\ stored' \in Nat /\ stored <= stored' /\ stored' <= MaxVectors
      /\ gone' \subseteq 0 .. (stored' - 1) /\ lists' \in ListsType
      /\ indexed_count_' \in 0 .. stored' /\ dirty' \in BOOLEAN /\ unsure' \in BOOLEAN
      /\ late \subseteq late' /\ \A w \in stored .. (stored' - 1) : w \in late'
  BY <1>1, <1>2 DEF DumpTypes
<1> QED
  BY <1>2, <1>3, <1>4, <1>5, <1>6, <1>7, CallsKeep

\* A vector that is deleted needs no entry.
LEMMA DropVectorStep ==
  ASSUME DumpIInv, NEW v \in VectorIds, DropVector(v)
  PROVE  DumpIInv'
<1>1. DumpTypes /\ PlacesAreLive /\ IndexIsFull
  BY DEF DumpIInv
<1>2. /\ engine = "up" /\ v < stored /\ gone' = gone \cup {v} /\ dirty'
      /\ UNCHANGED <<engine, clock, synced, stored, version, lists, place, indexed_count_,
                     updated, lastDir, dirs, dump, late, unsure, loaded>>
  BY DEF DropVector
<1>3. v \in 0 .. (stored - 1)
  BY <1>1, <1>2 DEF DumpTypes, VectorIds
<1>4. PlacesAreLive'
  BY <1>1, <1>2, Zenon DEF PlacesAreLive
<1>5. IndexIsFull'
  BY <1>1, <1>2, Zenon DEF IndexIsFull, Clean, Full, LiveOrGone
<1>6. Extends(lists, lists')
  BY <1>1, <1>2, ExtendsItself DEF DumpTypes
<1>7. /\ stored' \in Nat /\ stored <= stored' /\ stored' <= MaxVectors
      /\ gone' \subseteq 0 .. (stored' - 1) /\ lists' \in ListsType
      /\ indexed_count_' \in 0 .. stored' /\ dirty' \in BOOLEAN /\ unsure' \in BOOLEAN
      /\ late \subseteq late' /\ \A w \in stored .. (stored' - 1) : w \in late'
  BY <1>1, <1>2, <1>3 DEF DumpTypes
<1>8. version' \in [VectorIds -> Versions] /\ updated' \in Seq(VectorIds)
  BY <1>1, <1>2, Zenon DEF DumpTypes
<1> QED
  BY <1>2, <1>4, <1>5, <1>6, <1>7, <1>8, CallsKeep

\* An updated vector that waits.
LEMMA UpdateLaterStep ==
  ASSUME DumpIInv, UpdateLater
  PROVE  DumpIInv'
<1>1. DumpTypes /\ PlacesAreLive /\ IndexIsFull
  BY DEF DumpIInv
<1>2. /\ engine = "up" /\ updated # << >>
      /\ updated' = Append(Tail(updated), Head(updated))
      /\ UNCHANGED <<engine, clock, synced, stored, version, gone, lists, place,
                     indexed_count_, dirty, lastDir, dirs, dump, late, unsure, loaded>>
  BY DEF UpdateLater, dumpHistory
<1>3. updated' \in Seq(VectorIds)
  <2>1. updated \in Seq(VectorIds)
    BY <1>1 DEF DumpTypes
  <2> HIDE DEF VectorIds
  <2>2. Tail(updated) \in Seq(VectorIds) /\ Head(updated) \in VectorIds
    BY <1>2, <2>1, HeadTailProperties
  <2> QED
    BY <1>2, <2>2, AppendProperties
<1>4. PlacesAreLive' /\ IndexIsFull'
  BY <1>1, <1>2, Zenon DEF PlacesAreLive, IndexIsFull, Clean
<1>5. Extends(lists, lists')
  BY <1>1, <1>2, ExtendsItself DEF DumpTypes
<1>6. /\ stored' \in Nat /\ stored <= stored' /\ stored' <= MaxVectors
      /\ gone' \subseteq 0 .. (stored' - 1) /\ lists' \in ListsType
      /\ indexed_count_' \in 0 .. stored'
      /\ late \subseteq late' /\ \A w \in stored .. (stored' - 1) : w \in late'
  BY <1>1, <1>2 DEF DumpTypes
<1>7. version' \in [VectorIds -> Versions] /\ dirty' \in BOOLEAN /\ unsure' \in BOOLEAN
  BY <1>1, <1>2, Zenon DEF DumpTypes
<1> QED
  BY <1>2, <1>3, <1>4, <1>5, <1>6, <1>7, CallsKeep

\* What has a live entry still has it in lists that grew.
LEMMA EntriesStay ==
  ASSUME NEW ls \in ListsType, NEW ms \in ListsType, Extends(ls, ms), NEW v
  PROVE  /\ \A b \in DumpBuckets : EntriesOf(v, ls[b]) \subseteq EntriesOf(v, ms[b])
         /\ \A p : LiveAt(v, p, ls) => LiveAt(v, p, ms)
<1>1. ASSUME NEW b \in DumpBuckets, NEW k \in EntriesOf(v, ls[b])
      PROVE  k \in EntriesOf(v, ms[b])
  <2>1. /\ k \in DOMAIN ls[b] /\ ls[b][k].vid = v /\ ~ls[b][k].masked
        /\ k \in 1 .. Len(ls[b])
    BY ListOf DEF EntriesOf
  <2>2. k \in DOMAIN ms[b]
    <3>1. /\ Len(ls[b]) <= Len(ms[b]) /\ Len(ls[b]) \in Nat /\ Len(ms[b]) \in Nat
          /\ DOMAIN ms[b] = 1 .. Len(ms[b])
      BY ListOf DEF Extends
    <3> QED
      BY <2>1, <3>1
  <2>3. ms[b][k].vid = v /\ ~ms[b][k].masked
    BY <2>1, Zenon DEF Extends
  <2> QED
    BY <2>2, <2>3, Zenon DEF EntriesOf
<1> QED
  BY <1>1, Zenon DEF LiveAt

\* The new vectors, in the lists of their buckets.
NewEntries ==
  [k \in 1 .. (stored - indexed_count_) |-> ListEntry(indexed_count_ + k - 1)]
InBucket(b) == {e \in EntriesIn(NewEntries) : BucketOf[e.version] = b}
NewIn(b) == Among(NewEntries, InBucket(b))

\* The new entry at position k.
LEMMA NewEntryIs ==
  ASSUME DumpTypes
  PROVE  /\ NewEntries \in Seq(Entries) /\ Len(NewEntries) = stored - indexed_count_
         /\ stored - indexed_count_ \in Nat
         /\ \A k \in 1 .. (stored - indexed_count_) :
              /\ NewEntries[k].vid = indexed_count_ + k - 1 /\ ~NewEntries[k].masked
              /\ BucketOf[NewEntries[k].version] \in DumpBuckets
              /\ \A b : NewEntries[k] \in InBucket(b) <=> BucketOf[NewEntries[k].version] = b
<1>1. /\ stored - indexed_count_ \in Nat /\ stored <= MaxVectors /\ MaxVectors \in Nat
      /\ indexed_count_ \in Nat /\ stored \in Nat
  BY DumpBounds DEF DumpTypes
<1> DEFINE n == stored - indexed_count_
<1>2. \A k \in 1 .. n : /\ indexed_count_ + k - 1 \in VectorIds
                        /\ version[indexed_count_ + k - 1] \in Versions
  <2>1. \A k \in 1 .. n : indexed_count_ + k - 1 \in VectorIds
    BY <1>1 DEF VectorIds
  <2>2. version \in [VectorIds -> Versions]
    BY DEF DumpTypes
  <2> QED
    BY <2>1, <2>2
<1>3. \A k \in 1 .. n : NewEntries[k] = ListEntry(indexed_count_ + k - 1)
  BY Zenon DEF NewEntries
<1>4. \A k \in 1 .. n :
        /\ NewEntries[k] \in Entries
        /\ NewEntries[k].vid = indexed_count_ + k - 1 /\ ~NewEntries[k].masked
        /\ BucketOf[NewEntries[k].version] \in DumpBuckets
  <2> TAKE k \in 1 .. n
  <2> DEFINE w == indexed_count_ + k - 1
  <2>1. w \in VectorIds /\ version[w] \in Versions /\ NewEntries[k] = ListEntry(w)
    BY <1>2, <1>3
  <2> HIDE DEF w
  <2>2. /\ ListEntry(w) \in Entries /\ ListEntry(w).vid = w
        /\ ListEntry(w).version = version[w] /\ ~ListEntry(w).masked
    BY <2>1 DEF ListEntry, Entries
  <2>3. BucketOf[version[w]] \in DumpBuckets
    BY <2>1, DumpBounds
  <2> QED
    BY <2>1, <2>2, <2>3 DEF w
<1>5. NewEntries \in Seq(Entries) /\ Len(NewEntries) = n /\ DOMAIN NewEntries = 1 .. n
  <2>1. NewEntries \in [1 .. n -> Entries]
    BY <1>4, Zenon DEF NewEntries
  <2> HIDE DEF Entries
  <2> QED
    BY <1>1, <2>1
<1>6. \A k \in 1 .. n : \A b :
        NewEntries[k] \in InBucket(b) <=> BucketOf[NewEntries[k].version] = b
  BY <1>5, Zenon DEF InBucket, EntriesIn
<1> QED
  BY <1>1, <1>4, <1>5, <1>6

\* The new vectors get entries at the ends of the lists of their buckets.
LEMMA AddRTVecsStep ==
  ASSUME DumpIInv, AddRTVecs
  PROVE  DumpIInv'
<1>1. DumpTypes /\ PlacesAreLive /\ IndexIsFull
  BY DEF DumpIInv
<1>2. /\ engine = "up" /\ indexed_count_' = stored /\ dirty'
      /\ lists' = [b \in DumpBuckets |-> lists[b] \o NewIn(b)]
      /\ place' = Noted(place, lists', [b \in DumpBuckets |-> Len(lists[b]) + 1])
      /\ UNCHANGED <<engine, clock, synced, stored, version, gone, updated, lastDir,
                     dirs, dump, unsure, loaded>>
      /\ late \subseteq late'
  BY Zenon DEF AddRTVecs, Behind, NewIn, NewEntries, InBucket
<1> DEFINE n == stored - indexed_count_
<1>3. /\ NewEntries \in Seq(Entries) /\ Len(NewEntries) = n /\ n \in Nat
      /\ \A k \in 1 .. n :
           /\ NewEntries[k].vid = indexed_count_ + k - 1 /\ ~NewEntries[k].masked
           /\ BucketOf[NewEntries[k].version] \in DumpBuckets
           /\ \A b : NewEntries[k] \in InBucket(b) <=> BucketOf[NewEntries[k].version] = b
  BY <1>1, NewEntryIs
<1>4. \A b : NewIn(b) \in Seq(Entries)
             /\ \E f : PickedBy(f, NewIn(b), NewEntries, InBucket(b), n)
  BY <1>3, AmongPicks DEF NewIn
<1>5. lists \in ListsType /\ stored \in Nat /\ indexed_count_ \in 0 .. stored
  BY <1>1 DEF DumpTypes
<1>6. ASSUME NEW b \in DumpBuckets
      PROVE  /\ lists'[b] \in Seq(Entries) /\ DOMAIN lists'[b] = 1 .. Len(lists'[b])
             /\ Len(lists[b]) \in Nat /\ Len(NewIn(b)) \in Nat
             /\ Len(lists'[b]) = Len(lists[b]) + Len(NewIn(b))
             /\ \A k \in 1 .. Len(lists[b]) : lists'[b][k] = lists[b][k]
             /\ \A i \in 1 .. Len(NewIn(b)) : lists'[b][Len(lists[b]) + i] = NewIn(b)[i]
  <2> DEFINE s == lists[b]
             t == NewIn(b)
  <2>1. s \in Seq(Entries) /\ t \in Seq(Entries) /\ lists'[b] = s \o t
    BY <1>2, <1>4, <1>5, ListOf
  <2> HIDE DEF s, t, Entries
  <2>2. /\ s \o t \in Seq(Entries) /\ Len(s) \in Nat /\ Len(t) \in Nat
        /\ Len(s \o t) = Len(s) + Len(t)
        /\ DOMAIN (s \o t) = 1 .. Len(s \o t)
    BY <2>1
  <2>3. \A k \in 1 .. Len(s) + Len(t) :
          (s \o t)[k] = IF k <= Len(s) THEN s[k] ELSE t[k - Len(s)]
    BY <2>1, ConcatProperties
  <2>4. ASSUME NEW k \in 1 .. Len(s) PROVE (s \o t)[k] = s[k]
    <3>1. k \in 1 .. Len(s) + Len(t) /\ k <= Len(s)
      BY <2>2
    <3> QED
      BY <2>3, <3>1
  <2>5. ASSUME NEW i \in 1 .. Len(t) PROVE (s \o t)[Len(s) + i] = t[i]
    <3>1. /\ Len(s) + i \in 1 .. Len(s) + Len(t) /\ ~(Len(s) + i <= Len(s))
          /\ Len(s) + i - Len(s) = i
      BY <2>2
    <3> QED
      BY <2>3, <3>1
  <2> QED
    BY <2>1, <2>2, <2>4, <2>5, Zenon DEF s, t
<1>7. lists' \in ListsType
  <2>1. lists' = [b \in DumpBuckets |-> lists'[b]]
    BY <1>2, Zenon
  <2> HIDE DEF Entries
  <2> QED
    BY <1>6, <2>1, Zenon DEF ListsType
<1>8. Extends(lists, lists')
  <2>1. \A b \in DumpBuckets : Len(lists[b]) <= Len(lists'[b])
    <3> TAKE b \in DumpBuckets
    <3>1. /\ Len(lists'[b]) = Len(lists[b]) + Len(NewIn(b))
          /\ Len(lists[b]) \in Nat /\ Len(NewIn(b)) \in Nat
      BY <1>6
    <3> QED
      BY <3>1
  <2> QED
    BY <1>6, <2>1, Zenon DEF Extends
<1>9. PlacesAreLive'
  <2> SUFFICES ASSUME NEW v \in VectorIds \ gone
               PROVE  place'[v] = << >> \/ LiveAt(v, place'[v], lists')
    <3>1. DOMAIN place' = VectorIds
      BY <1>2, Zenon DEF Noted
    <3> QED
      BY <1>2, <3>1, Zenon DEF PlacesAreLive
  <2>1. LiveAt(v, place'[v], lists') \/ place'[v] = place[v]
    BY <1>2, <1>7, NotedPlace, Zenon
  <2>2. place[v] = << >> \/ LiveAt(v, place[v], lists)
    BY <1>1, Zenon DEF PlacesAreLive
  <2> QED
    BY <1>5, <1>7, <1>8, <2>1, <2>2, EntriesStay
<1>10. ASSUME NEW v \in indexed_count_ .. (stored - 1)
       PROVE  \E b \in DumpBuckets : EntriesOf(v, lists'[b]) # {}
  <2> DEFINE k == v - indexed_count_ + 1
             b == BucketOf[NewEntries[k].version]
  <2>1. k \in 1 .. n /\ indexed_count_ + k - 1 = v
    BY <1>5
  <2>2. NewEntries[k].vid = v /\ ~NewEntries[k].masked /\ b \in DumpBuckets
        /\ NewEntries[k] \in InBucket(b)
    BY <1>3, <2>1
  <2> HIDE DEF k, b
  <2>3. PICK f : PickedBy(f, NewIn(b), NewEntries, InBucket(b), n)
    BY <1>4
  <2>4. PICK i \in 1 .. Len(NewIn(b)) : f[i] = k
    BY <2>1, <2>2, <2>3, Zenon DEF PickedBy
  <2>5. NewIn(b)[i] = NewEntries[k]
    BY <2>3, <2>4, Zenon DEF PickedBy
  <2>6. Len(lists[b]) + i \in DOMAIN lists'[b]
        /\ lists'[b][Len(lists[b]) + i] = NewEntries[k]
    <3>1. /\ DOMAIN lists'[b] = 1 .. Len(lists'[b])
          /\ Len(lists'[b]) = Len(lists[b]) + Len(NewIn(b))
          /\ Len(lists[b]) \in Nat /\ Len(NewIn(b)) \in Nat
          /\ lists'[b][Len(lists[b]) + i] = NewIn(b)[i]
      BY <1>6, <2>2
    <3> QED
      BY <2>5, <3>1
  <2>7. Len(lists[b]) + i \in EntriesOf(v, lists'[b])
    BY <2>2, <2>6, Zenon DEF EntriesOf
  <2> QED
    BY <2>2, <2>7
<1>11. Cardinality(LivePlaces(lists')) <= Cardinality(LivePlaces(lists)) + n
  <2> DEFINE N == LivePlaces(lists') \ LivePlaces(lists)
             at(p) == p[2] - Len(lists[p[1]])
             pick(b) == CHOOSE f : PickedBy(f, NewIn(b), NewEntries, InBucket(b), n)
             h == [p \in N |-> pick(p[1])[at(p)]]
  <2>1. \A b : PickedBy(pick(b), NewIn(b), NewEntries, InBucket(b), n)
    BY <1>4, Zenon
  <2> HIDE DEF pick
  <2>2. ASSUME NEW p \in N
        PROVE  /\ p = <<p[1], p[2]>> /\ p[1] \in DumpBuckets
               /\ at(p) \in 1 .. Len(NewIn(p[1])) /\ p[2] = Len(lists[p[1]]) + at(p)
    <3>1. p \in Places(lists') /\ p \in LivePlaces(lists')
      BY DEF LivePlaces
    <3>2. p = <<p[1], p[2]>> /\ p[1] \in DumpBuckets /\ p[2] \in DOMAIN lists'[p[1]]
      BY <3>1, PlaceIs
    <3> DEFINE b == p[1]
               k == p[2]
    <3>3. ~lists'[b][k].masked
      BY <3>1, Zenon DEF LivePlaces
    <3>4. p = <<b, k>> /\ b \in DumpBuckets /\ k \in DOMAIN lists'[b]
      BY <3>2
    <3> HIDE DEF b, k
    <3>5. <<b, k>> \notin LivePlaces(lists)
      BY <3>4
    <3>6. /\ DOMAIN lists'[b] = 1 .. Len(lists'[b]) /\ Len(lists[b]) \in Nat
          /\ Len(NewIn(b)) \in Nat /\ Len(lists'[b]) = Len(lists[b]) + Len(NewIn(b))
          /\ \A j \in 1 .. Len(lists[b]) : lists'[b][j] = lists[b][j]
      BY <1>6, <3>4
    <3>7. k \notin 1 .. Len(lists[b])
      <4> SUFFICES ASSUME k \in 1 .. Len(lists[b]) PROVE FALSE
        OBVIOUS
      <4>1. k \in DOMAIN lists[b] /\ ~lists[b][k].masked
        BY <1>5, <3>3, <3>4, <3>6, ListOf, Zenon
      <4> QED
        BY <1>5, <3>4, <3>5, <4>1, LivePlaceIs
    <3>8. k - Len(lists[b]) \in 1 .. Len(NewIn(b)) /\ k = Len(lists[b]) + (k - Len(lists[b]))
      BY <3>4, <3>6, <3>7
    <3> QED
      BY <3>2, <3>8 DEF b, k
  <2>3. ASSUME NEW p \in N
        PROVE  /\ h[p] = pick(p[1])[at(p)] /\ h[p] \in 1 .. n
               /\ BucketOf[NewEntries[h[p]].version] = p[1]
    <3> DEFINE b == p[1]
               i == at(p)
    <3>1. h[p] = pick(b)[i] /\ i \in 1 .. Len(NewIn(b))
      BY <2>2
    <3> HIDE DEF b, i, h
    <3>2. PickedBy(pick(b), NewIn(b), NewEntries, InBucket(b), n)
      BY <2>1
    <3>3. pick(b)[i] \in 1 .. n /\ NewEntries[pick(b)[i]] \in InBucket(b)
      BY <3>1, <3>2 DEF PickedBy
    <3>4. BucketOf[NewEntries[pick(b)[i]].version] = b
      BY <1>3, <3>3
    <3> QED
      BY <3>1, <3>3, <3>4 DEF b, i
  <2>4. ASSUME NEW p \in N, NEW q \in N, h[p] = h[q] PROVE p = q
    <3>1. p[1] = q[1]
      <4>1. BucketOf[NewEntries[h[p]].version] = p[1] /\ BucketOf[NewEntries[h[q]].version] = q[1]
        BY <2>3
      <4> HIDE DEF h, N
      <4> QED
        BY <2>4, <4>1
    <3>2. pick(p[1])[at(p)] = pick(p[1])[at(q)]
      BY <2>3, <2>4, <3>1, Zenon
    <3>3. at(p) \in 1 .. Len(NewIn(p[1])) /\ at(q) \in 1 .. Len(NewIn(p[1]))
      BY <2>2, <3>1
    <3> HIDE DEF N, h
    <3>4. at(p) = at(q)
      <4> DEFINE i == at(p)
                 j == at(q)
                 b == p[1]
      <4>1. pick(b)[i] = pick(b)[j] /\ i \in 1 .. Len(NewIn(b)) /\ j \in 1 .. Len(NewIn(b))
        BY <3>2, <3>3
      <4>2. PickedBy(pick(b), NewIn(b), NewEntries, InBucket(b), n)
        BY <2>1
      <4> HIDE DEF i, j, b
      <4>3. i = j
        BY <4>1, <4>2, Zenon DEF PickedBy
      <4> QED
        BY <4>3 DEF i, j
    <3>5. p[2] = q[2]
      <4>1. p[2] = Len(lists[p[1]]) + at(p) /\ q[2] = Len(lists[q[1]]) + at(q)
        BY <2>2
      <4> HIDE DEF at
      <4> QED
        BY <3>1, <3>4, <4>1
    <3>6. p = <<p[1], p[2]>> /\ q = <<q[1], q[2]>>
      BY <2>2
    <3> QED
      BY <3>1, <3>5, <3>6, Zenon
  <2>5. h \in Injection(N, 1 .. n)
    <3>1. h \in [N -> 1 .. n]
      BY <2>3
    <3> HIDE DEF N, h
    <3> QED
      BY <2>4, <3>1 DEF Injection, IsInjective
  <2>6. IsFiniteSet(N) /\ Cardinality(N) <= n /\ Cardinality(N) \in Nat
    <3> HIDE DEF N, h
    <3>1. IsFiniteSet(1 .. n) /\ Cardinality(1 .. n) = n
      <4>2. n \in Nat
        BY <1>3
      <4> HIDE DEF n
      <4>3. /\ IsFiniteSet(1 .. n) /\ Cardinality(1 .. n) = IF 1 > n THEN 0 ELSE n - 1 + 1
        BY <4>2, FS_Interval
      <4> QED
        BY <4>2, <4>3
    <3> QED
      BY <2>5, <3>1, FS_Injection, FS_CardinalityType
  <2>7. IsFiniteSet(LivePlaces(lists)) /\ Cardinality(LivePlaces(lists)) \in Nat
    BY <1>5, LivePlaceIs
  <2>8. LivePlaces(lists') \subseteq LivePlaces(lists) \cup N
    OBVIOUS
  <2> HIDE DEF N
  <2>9. /\ IsFiniteSet(LivePlaces(lists) \cup N)
        /\ Cardinality(LivePlaces(lists) \cup N) <= Cardinality(LivePlaces(lists)) + Cardinality(N)
    <3>1. /\ IsFiniteSet(LivePlaces(lists) \cup N)
          /\ Cardinality(LivePlaces(lists) \cup N)
               = Cardinality(LivePlaces(lists)) + Cardinality(N)
                 - Cardinality(LivePlaces(lists) \cap N)
      BY <2>6, <2>7, FS_Union
    <3>2. Cardinality(LivePlaces(lists) \cap N) \in Nat
      BY <2>6, FS_Subset, FS_CardinalityType
    <3> QED
      BY <2>6, <2>7, <3>1, <3>2
  <2>10. /\ Cardinality(LivePlaces(lists')) <= Cardinality(LivePlaces(lists) \cup N)
         /\ Cardinality(LivePlaces(lists') ) \in Nat
         /\ Cardinality(LivePlaces(lists) \cup N) \in Nat
    BY <1>7, <2>8, <2>9, FS_Subset, FS_CardinalityType, LivePlaceIs
  <2> QED
    BY <1>3, <2>6, <2>7, <2>9, <2>10
<1>12. IndexIsFull'
  <2> SUFFICES ASSUME Clean PROVE Full(lists', stored, gone)
    BY <1>2, Zenon DEF IndexIsFull, Clean
  <2>1. Full(lists, indexed_count_, gone)
    BY <1>1, <1>2, Zenon DEF IndexIsFull
  <2>2. Cardinality(LivePlaces(lists')) <= stored
    <3>1. /\ Cardinality(LivePlaces(lists)) <= indexed_count_
          /\ Cardinality(LivePlaces(lists)) \in Nat /\ Cardinality(LivePlaces(lists')) \in Nat
      BY <1>5, <1>7, <2>1, LivePlaceIs DEF Full
    <3> QED
      BY <1>5, <1>11, <3>1
  <2>3. ASSUME NEW v \in 0 .. (stored - 1), v \notin gone
        PROVE  \E b \in DumpBuckets : EntriesOf(v, lists'[b]) # {}
    <3>1. CASE v \in indexed_count_ .. (stored - 1)
      BY <1>10, <3>1
    <3>2. CASE v \in 0 .. (indexed_count_ - 1)
      <4>1. \E b \in DumpBuckets : EntriesOf(v, lists[b]) # {}
        BY <2>1, <2>3, <3>2, Zenon DEF Full, LiveOrGone
      <4> QED
        BY <1>5, <1>7, <1>8, <4>1, EntriesStay
    <3> QED
      <4>1. v \in 0 .. (indexed_count_ - 1) \/ v \in indexed_count_ .. (stored - 1)
        BY <1>5
      <4> QED
        BY <3>1, <3>2, <4>1
  <2> QED
    BY <2>2, <2>3, Zenon DEF Full, LiveOrGone
<1>13. /\ stored' \in Nat /\ stored <= stored' /\ stored' <= MaxVectors
       /\ gone' \subseteq 0 .. (stored' - 1) /\ indexed_count_' \in 0 .. stored'
       /\ \A w \in stored .. (stored' - 1) : w \in late'
  BY <1>1, <1>2 DEF DumpTypes
<1>14. /\ version' \in [VectorIds -> Versions] /\ updated' \in Seq(VectorIds)
       /\ dirty' \in BOOLEAN /\ unsure' \in BOOLEAN
  BY <1>1, <1>2, Zenon DEF DumpTypes
<1> QED
  BY <1>2, <1>7, <1>8, <1>9, <1>12, <1>13, <1>14, CallsKeep

\* An entry that gets another version.
Rewrite(ls, b, k, w) == [ls EXCEPT ![b][k].version = w]

\* It stays the entry of its vector, masked or not.
LEMMA Rewritten ==
  ASSUME NEW ls \in ListsType, NEW b \in DumpBuckets, NEW k \in DOMAIN ls[b],
         NEW w \in Versions, NEW ms, ms = Rewrite(ls, b, k, w)
  PROVE  /\ ms \in ListsType
         /\ \A c \in DumpBuckets :
              /\ DOMAIN ms[c] = DOMAIN ls[c] /\ Len(ms[c]) = Len(ls[c])
              /\ \A j \in DOMAIN ls[c] :
                   ms[c][j].vid = ls[c][j].vid /\ ms[c][j].masked = ls[c][j].masked
<1> DEFINE s == ls[b]
           t == [s EXCEPT ![k].version = w]
<1>1. s \in Seq(Entries) /\ k \in 1 .. Len(s) /\ s[k] \in Entries
  BY ListOf
<1>2. ms = [ls EXCEPT ![b] = t] /\ DOMAIN ls = DumpBuckets
  BY DEF ListsType, Rewrite
<1> HIDE DEF s
<1>3. [s[k] EXCEPT !.version = w] \in Entries
  BY <1>1 DEF Entries
<1>4. t = [s EXCEPT ![k] = [s[k] EXCEPT !.version = w]]
  OBVIOUS
<1>5. t \in Seq(Entries) /\ Len(t) = Len(s) /\ DOMAIN t = DOMAIN s
      /\ \A j \in DOMAIN s : t[j] = IF j = k THEN [s[k] EXCEPT !.version = w] ELSE s[j]
  <2> HIDE DEF t, Entries
  <2> QED
    BY <1>1, <1>3, <1>4, ExceptSeq
<1>6. \A j \in DOMAIN s : t[j].vid = s[j].vid /\ t[j].masked = s[j].masked
  <2> TAKE j \in DOMAIN s
  <2>1. [s[k] EXCEPT !.version = w].vid = s[k].vid
        /\ [s[k] EXCEPT !.version = w].masked = s[k].masked
    BY <1>1 DEF Entries
  <2> HIDE DEF t
  <2> QED
    BY <1>5, <2>1
<1> HIDE DEF t
<1>7. \A c \in DumpBuckets : ms[c] = IF c = b THEN t ELSE ls[c]
  BY <1>2
<1>8. ms \in ListsType
  <2>1. ms = [c \in DumpBuckets |-> ms[c]]
    BY <1>2
  <2>2. \A c \in DumpBuckets : ms[c] \in Seq(Entries)
    BY <1>5, <1>7, ListOf, Zenon
  <2> HIDE DEF Entries
  <2> QED
    BY <2>1, <2>2, Zenon DEF ListsType
<1>9. ASSUME NEW c \in DumpBuckets
      PROVE  /\ DOMAIN ms[c] = DOMAIN ls[c] /\ Len(ms[c]) = Len(ls[c])
             /\ \A j \in DOMAIN ls[c] :
                  ms[c][j].vid = ls[c][j].vid /\ ms[c][j].masked = ls[c][j].masked
  <2>1. CASE c = b
    BY <1>5, <1>6, <1>7, <2>1, Zenon DEF s
  <2>2. CASE c # b
    BY <1>7, <2>2, Zenon
  <2> QED
    BY <2>1, <2>2
<1> QED
  BY <1>8, <1>9

\* An entry that is masked while another list gets a new one.
Move(ls, b, k, to, e) == [ls EXCEPT ![b][k].masked = TRUE, ![to] = Append(@, e)]

\* The others stay as they are.
LEMMA Moved ==
  ASSUME NEW ls \in ListsType, NEW b \in DumpBuckets, NEW k \in DOMAIN ls[b],
         NEW to \in DumpBuckets, to # b, NEW e \in Entries, NEW ms,
         ms = Move(ls, b, k, to, e)
  PROVE  /\ ms \in ListsType
         /\ DOMAIN ms[b] = DOMAIN ls[b] /\ ms[b][k].masked
         /\ \A j \in DOMAIN ls[b] : j # k => ms[b][j] = ls[b][j]
         /\ DOMAIN ms[to] = DOMAIN ls[to] \cup {Len(ls[to]) + 1}
         /\ Len(ls[to]) + 1 \notin DOMAIN ls[to] /\ ms[to][Len(ls[to]) + 1] = e
         /\ \A j \in DOMAIN ls[to] : ms[to][j] = ls[to][j]
         /\ \A c \in DumpBuckets \ {b, to} : ms[c] = ls[c]
<1> DEFINE s == ls[b]
           t == [s EXCEPT ![k].masked = TRUE]
           u == ls[to]
<1>1. /\ s \in Seq(Entries) /\ k \in 1 .. Len(s) /\ s[k] \in Entries
      /\ u \in Seq(Entries) /\ Len(u) \in Nat
  BY ListOf
<1>2. ms = [ls EXCEPT ![b] = t, ![to] = Append(u, e)] /\ DOMAIN ls = DumpBuckets
  BY DEF ListsType, Move
<1> HIDE DEF s, u
<1>3. [s[k] EXCEPT !.masked = TRUE] \in Entries /\ [s[k] EXCEPT !.masked = TRUE].masked
  BY <1>1 DEF Entries
<1>4. t = [s EXCEPT ![k] = [s[k] EXCEPT !.masked = TRUE]]
  OBVIOUS
<1>5. t \in Seq(Entries) /\ DOMAIN t = DOMAIN s
      /\ \A j \in DOMAIN s : t[j] = IF j = k THEN [s[k] EXCEPT !.masked = TRUE] ELSE s[j]
  <2> HIDE DEF t, Entries
  <2> QED
    BY <1>1, <1>3, <1>4, ExceptSeq
<1>6. t[k].masked /\ \A j \in DOMAIN s : j # k => t[j] = s[j]
  <2>1. k \in DOMAIN s
    BY DEF s
  <2> HIDE DEF t
  <2> QED
    BY <1>3, <1>5, <2>1
<1>7. /\ Append(u, e) \in Seq(Entries)
      /\ DOMAIN Append(u, e) = DOMAIN u \cup {Len(u) + 1} /\ Len(u) + 1 \notin DOMAIN u
      /\ \A j \in DOMAIN u : Append(u, e)[j] = u[j]
      /\ Append(u, e)[Len(u) + 1] = e
  <2> HIDE DEF Entries
  <2>1. /\ Append(u, e) \in Seq(Entries) /\ Len(Append(u, e)) = Len(u) + 1
        /\ \A i \in 1 .. Len(u) : Append(u, e)[i] = u[i]
        /\ Append(u, e)[Len(u) + 1] = e
    BY <1>1, AppendProperties
  <2>2. DOMAIN u = 1 .. Len(u) /\ DOMAIN Append(u, e) = 1 .. Len(u) + 1
    BY <1>1, <2>1
  <2> QED
    BY <1>1, <2>1, <2>2
<1> HIDE DEF t
<1>8. ms[b] = t /\ ms[to] = Append(u, e) /\ \A c \in DumpBuckets \ {b, to} : ms[c] = ls[c]
  BY <1>2
<1>9. ms \in ListsType
  <2>1. ms = [c \in DumpBuckets |-> ms[c]]
    BY <1>2
  <2>2. \A c \in DumpBuckets : ms[c] \in Seq(Entries)
    <3> TAKE c \in DumpBuckets
    <3>1. c = b \/ c = to \/ c \in DumpBuckets \ {b, to}
      OBVIOUS
    <3> QED
      BY <1>5, <1>7, <1>8, <3>1, ListOf, Zenon
  <2> HIDE DEF Entries
  <2> QED
    BY <2>1, <2>2, Zenon DEF ListsType
<1> QED
  BY <1>5, <1>6, <1>7, <1>8, <1>9, Zenon DEF s, u

\* Lists with the same entries but for their codes.
LEMMA SameEntries ==
  ASSUME NEW ls \in ListsType, NEW ms \in ListsType,
         \A c \in DumpBuckets :
           /\ DOMAIN ms[c] = DOMAIN ls[c] /\ Len(ms[c]) = Len(ls[c])
           /\ \A j \in DOMAIN ls[c] :
                ms[c][j].vid = ls[c][j].vid /\ ms[c][j].masked = ls[c][j].masked
  PROVE  /\ Extends(ls, ms) /\ LivePlaces(ms) = LivePlaces(ls)
         /\ \A v : \A c \in DumpBuckets : EntriesOf(v, ms[c]) = EntriesOf(v, ls[c])
<1>1. ASSUME NEW v, NEW c \in DumpBuckets PROVE EntriesOf(v, ms[c]) = EntriesOf(v, ls[c])
  <2>1. \A j : j \in EntriesOf(v, ms[c]) <=> j \in EntriesOf(v, ls[c])
    BY Zenon DEF EntriesOf
  <2> QED
    BY <2>1, Zenon DEF EntriesOf
<1>2. Extends(ls, ms)
  <2>1. \A c \in DumpBuckets : DOMAIN ls[c] = 1 .. Len(ls[c]) /\ Len(ls[c]) <= Len(ms[c])
    BY ListOf
  <2> QED
    BY <2>1, Zenon DEF Extends
<1>3. LivePlaces(ms) = LivePlaces(ls)
  <2>1. \A c, j : <<c, j>> \in LivePlaces(ls) <=>
                   c \in DumpBuckets /\ j \in DOMAIN ls[c] /\ ~ls[c][j].masked
    BY LivePlaceIs
  <2>2. \A c, j : <<c, j>> \in LivePlaces(ms) <=>
                   c \in DumpBuckets /\ j \in DOMAIN ms[c] /\ ~ms[c][j].masked
    BY LivePlaceIs
  <2>3. ASSUME NEW c, NEW j PROVE <<c, j>> \in LivePlaces(ms) <=> <<c, j>> \in LivePlaces(ls)
    <3>1. c \in DumpBuckets => /\ DOMAIN ms[c] = DOMAIN ls[c]
                               /\ j \in DOMAIN ls[c] => ms[c][j].masked = ls[c][j].masked
      OBVIOUS
    <3> QED
      BY <2>1, <2>2, <3>1
  <2>4. \A p \in LivePlaces(ms) : p = <<p[1], p[2]>>
    BY PlaceIs, LivePlaceIs, Zenon
  <2>5. \A p \in LivePlaces(ls) : p = <<p[1], p[2]>>
    BY PlaceIs, LivePlaceIs, Zenon
  <2>6. ASSUME NEW p PROVE p \in LivePlaces(ms) <=> p \in LivePlaces(ls)
    <3> DEFINE c == p[1]
               j == p[2]
    <3>1. <<c, j>> \in LivePlaces(ms) <=> <<c, j>> \in LivePlaces(ls)
      BY <2>3
    <3>2. (p \in LivePlaces(ms) => p = <<c, j>>) /\ (p \in LivePlaces(ls) => p = <<c, j>>)
      BY <2>4, <2>5
    <3> HIDE DEF c, j
    <3> QED
      BY <3>1, <3>2
  <2> QED
    BY <2>6
<1> QED
  BY <1>1, <1>2, <1>3

\* One entry less and one more that are live.
LEMMA MovedPlaces ==
  ASSUME NEW ls \in ListsType, NEW ms \in ListsType,
         NEW b \in DumpBuckets, NEW k \in DOMAIN ls[b],
         NEW to \in DumpBuckets, to # b, NEW new,
         ~ls[b][k].masked,
         DOMAIN ms[b] = DOMAIN ls[b] /\ ms[b][k].masked,
         \A j \in DOMAIN ls[b] : j # k => ms[b][j] = ls[b][j],
         DOMAIN ms[to] = DOMAIN ls[to] \cup {new},
         \A j \in DOMAIN ls[to] : ms[to][j] = ls[to][j],
         \A c \in DumpBuckets \ {b, to} : ms[c] = ls[c]
  PROVE  Cardinality(LivePlaces(ms)) <= Cardinality(LivePlaces(ls))
<1> DEFINE L == LivePlaces(ls)
           M == LivePlaces(ms)
           out == <<b, k>>
           into == <<to, new>>
<1>1. M \subseteq (L \ {out}) \cup {into}
  <2> SUFFICES ASSUME NEW c, NEW j, <<c, j>> \in M, <<c, j>> # into
               PROVE  <<c, j>> \in L /\ <<c, j>> # out
    <3>1. \A p \in M : p = <<p[1], p[2]>>
      BY PlaceIs, LivePlaceIs, Zenon
    <3> HIDE DEF L, M, out, into
    <3>2. ASSUME NEW p \in M, p # into PROVE p \in L /\ p # out
      <4> DEFINE c == p[1]
                 j == p[2]
      <4>1. p = <<c, j>>
        BY <3>1, <3>2
      <4> HIDE DEF c, j
      <4> QED
        BY <3>2, <4>1
    <3> QED
      BY <3>2
  <2>1. c \in DumpBuckets /\ j \in DOMAIN ms[c] /\ ~ms[c][j].masked
    BY LivePlaceIs
  <2>2. c = to => j # new
    OBVIOUS
  <2>3. <<c, j>> # out
    <3> SUFFICES ASSUME <<c, j>> = out PROVE FALSE
      OBVIOUS
    <3>1. c = b /\ j = k
      OBVIOUS
    <3> QED
      BY <2>1, <3>1
  <2>4. j \in DOMAIN ls[c] /\ ms[c][j] = ls[c][j]
    <3>1. CASE c = b
      <4>1. j # k
        BY <2>1, <3>1
      <4> QED
        BY <2>1, <3>1, <4>1
    <3>2. CASE c = to
      BY <2>1, <2>2, <3>2
    <3>3. CASE c \in DumpBuckets \ {b, to}
      BY <2>1, <3>3
    <3> QED
      BY <2>1, <3>1, <3>2, <3>3
  <2>5. <<c, j>> \in L
    BY <2>1, <2>4, LivePlaceIs
  <2> QED
    BY <2>3, <2>5
<1>2. IsFiniteSet(L) /\ Cardinality(L) \in Nat /\ IsFiniteSet(M) /\ Cardinality(M) \in Nat
      /\ out \in L
  BY LivePlaceIs
<1> HIDE DEF L, M, out, into
<1>3. IsFiniteSet(L \ {out}) /\ Cardinality(L \ {out}) = Cardinality(L) - 1
  BY <1>2, FS_RemoveElement
<1>4. /\ IsFiniteSet((L \ {out}) \cup {into})
      /\ Cardinality((L \ {out}) \cup {into}) <= Cardinality(L)
      /\ Cardinality((L \ {out}) \cup {into}) \in Nat
  <2> DEFINE R == L \ {out}
  <2> HIDE DEF R
  <2>1. IsFiniteSet(R \cup {into}) /\ (Cardinality(R \cup {into}) = Cardinality(R)
                                     \/ Cardinality(R \cup {into}) = Cardinality(R) + 1)
    BY <1>3, FS_AddElement DEF R
  <2> QED
    BY <1>2, <1>3, <2>1, FS_CardinalityType DEF R
<1>5. Cardinality(M) <= Cardinality((L \ {out}) \cup {into})
  BY <1>1, <1>4, FS_Subset
<1> QED
  BY <1>2, <1>4, <1>5 DEF L, M

\* An updated vector is overwritten where it is, or masked there and added to
\* another list, or has no entry to change.
LEMMA UpdateIndexStep ==
  ASSUME DumpIInv, UpdateIndex
  PROVE  DumpIInv'
<1>1. DumpTypes /\ PlacesAreLive /\ IndexIsFull
  BY DEF DumpIInv
<1> DEFINE v == Head(updated)
           to == BucketOf[version[v]]
           p == place[v]
<1>2. /\ engine = "up" /\ updated # << >> /\ updated' = Tail(updated)
      /\ UNCHANGED <<engine, clock, synced, stored, version, gone, indexed_count_,
                     lastDir, dirs, dump, loaded>>
      /\ late \subseteq late'
  BY Zenon DEF UpdateIndex, Behind
<1>3. \/ UNCHANGED <<lists, place, unsure>>
      \/ /\ v \notin gone /\ p # << >> /\ p[1] = to
         /\ lists' = [lists EXCEPT ![to][p[2]].version = version[v]]
         /\ UNCHANGED <<place, unsure>>
      \/ /\ v \notin gone /\ p # << >> /\ p[1] # to
         /\ lists' = [lists EXCEPT ![p[1]][p[2]].masked = TRUE,
                                   ![to] = Append(@, ListEntry(v))]
         /\ place' = [place EXCEPT ![v] = <<to, Len(lists[to]) + 1>>]
         /\ Tears
  BY DEF UpdateIndex
<1>4. v \in VectorIds /\ updated' \in Seq(VectorIds)
  <2>1. updated \in Seq(VectorIds)
    BY <1>1 DEF DumpTypes
  <2> HIDE DEF VectorIds
  <2> QED
    BY <1>2, <2>1, HeadTailProperties
<1>5. version[v] \in Versions /\ to \in DumpBuckets
  <2>1. version[v] \in Versions
    BY <1>1, <1>4 DEF DumpTypes
  <2> QED
    BY <2>1, DumpBounds
<1>6. lists \in ListsType
  BY <1>1 DEF DumpTypes
<1> HIDE DEF v, to, p
<1>7. /\ version' \in [VectorIds -> Versions] /\ stored' \in Nat /\ stored <= stored'
      /\ stored' <= MaxVectors /\ gone' \subseteq 0 .. (stored' - 1)
      /\ indexed_count_' \in 0 .. stored' /\ dirty' \in BOOLEAN /\ (dirty => dirty')
      /\ \A w \in stored .. (stored' - 1) : w \in late'
  <2>1. dirty' \in BOOLEAN /\ (dirty => dirty')
    BY <1>1, Zenon DEF DumpTypes, UpdateIndex
  <2> QED
    BY <1>1, <1>2, <2>1 DEF DumpTypes
<1>8. ASSUME lists' \in ListsType, unsure' \in BOOLEAN, PlacesAreLive', IndexIsFull',
             dump.step \in {"codes", "ids"} /\ ~unsure' => ~unsure /\ Extends(lists, lists')
      PROVE  DumpIInv'
  BY <1>2, <1>4, <1>7, <1>8, CallsKeep
<1>9. CASE UNCHANGED <<lists, place, unsure>>
  <2>1. PlacesAreLive' /\ IndexIsFull'
    BY <1>1, <1>2, <1>9, Zenon DEF PlacesAreLive, IndexIsFull, Clean
  <2>2. Extends(lists, lists')
    BY <1>6, <1>9, ExtendsItself
  <2>3. unsure' \in BOOLEAN
    BY <1>1, <1>9 DEF DumpTypes
  <2> QED
    BY <1>6, <1>8, <1>9, <2>1, <2>2, <2>3
<1>10. ASSUME v \notin gone, p # << >>
       PROVE  \E b \in DumpBuckets : \E k \in DOMAIN lists[b] :
                p = <<b, k>> /\ lists[b][k].vid = v /\ ~lists[b][k].masked
  BY <1>1, <1>4, <1>10, Zenon DEF PlacesAreLive, LiveAt, EntriesOf, p
<1>11. CASE /\ v \notin gone /\ p # << >> /\ p[1] = to
            /\ lists' = [lists EXCEPT ![to][p[2]].version = version[v]]
            /\ UNCHANGED <<place, unsure>>
  <2>1. PICK b \in DumpBuckets : \E k \in DOMAIN lists[b] : p = <<b, k>>
    BY <1>10, <1>11
  <2>2. PICK k \in DOMAIN lists[b] : p = <<b, k>>
    BY <2>1
  <2>3. lists' = Rewrite(lists, b, k, version[v])
    BY <1>11, <2>2 DEF Rewrite
  <2>4. /\ lists' \in ListsType
        /\ \A c \in DumpBuckets :
             /\ DOMAIN lists'[c] = DOMAIN lists[c] /\ Len(lists'[c]) = Len(lists[c])
             /\ \A j \in DOMAIN lists[c] : /\ lists'[c][j].vid = lists[c][j].vid
                                           /\ lists'[c][j].masked = lists[c][j].masked
    BY <1>5, <1>6, <2>3, Rewritten
  <2>5. /\ Extends(lists, lists') /\ LivePlaces(lists') = LivePlaces(lists)
        /\ \A x : \A c \in DumpBuckets : EntriesOf(x, lists'[c]) = EntriesOf(x, lists[c])
    BY <1>6, <2>4, SameEntries
  <2>6. PlacesAreLive'
    <3>1. place' = place /\ gone' = gone
      BY <1>2, <1>11
    <3>2. \A x, q : LiveAt(x, q, lists) => LiveAt(x, q, lists')
      BY <2>5, Zenon DEF LiveAt
    <3> QED
      BY <1>1, <3>1, <3>2, Zenon DEF PlacesAreLive
  <2>7. IndexIsFull'
    BY <1>1, <1>2, <2>5, Zenon DEF IndexIsFull, Clean, Full, LiveOrGone
  <2>8. unsure' \in BOOLEAN
    BY <1>1, <1>11 DEF DumpTypes
  <2> QED
    BY <1>8, <1>11, <2>4, <2>5, <2>6, <2>7, <2>8
<1>12. CASE /\ v \notin gone /\ p # << >> /\ p[1] # to
            /\ lists' = [lists EXCEPT ![p[1]][p[2]].masked = TRUE,
                                      ![to] = Append(@, ListEntry(v))]
            /\ place' = [place EXCEPT ![v] = <<to, Len(lists[to]) + 1>>]
            /\ Tears
  <2>1. PICK b \in DumpBuckets : \E k \in DOMAIN lists[b] :
          p = <<b, k>> /\ lists[b][k].vid = v /\ ~lists[b][k].masked
    BY <1>10, <1>12
  <2>2. PICK k \in DOMAIN lists[b] : p = <<b, k>> /\ lists[b][k].vid = v /\ ~lists[b][k].masked
    BY <2>1
  <2> DEFINE new == Len(lists[to]) + 1
             e == ListEntry(v)
  <2>3. to # b /\ lists' = Move(lists, b, k, to, e)
    BY <1>12, <2>2 DEF Move
  <2>4. e \in Entries /\ e.vid = v /\ ~e.masked
    BY <1>4, <1>5 DEF ListEntry, Entries
  <2> HIDE DEF e
  <2>5. /\ lists' \in ListsType
        /\ DOMAIN lists'[b] = DOMAIN lists[b] /\ lists'[b][k].masked
        /\ \A j \in DOMAIN lists[b] : j # k => lists'[b][j] = lists[b][j]
        /\ DOMAIN lists'[to] = DOMAIN lists[to] \cup {new}
        /\ new \notin DOMAIN lists[to] /\ lists'[to][new] = e
        /\ \A j \in DOMAIN lists[to] : lists'[to][j] = lists[to][j]
        /\ \A c \in DumpBuckets \ {b, to} : lists'[c] = lists[c]
    BY <1>5, <1>6, <2>3, <2>4, Moved DEF new
  <2> HIDE DEF new
  <2>6. Cardinality(LivePlaces(lists')) <= Cardinality(LivePlaces(lists))
    BY <1>5, <1>6, <2>2, <2>3, <2>5, MovedPlaces
  <2>7. ASSUME NEW x, x # v, NEW c \in DumpBuckets, NEW j \in EntriesOf(x, lists[c])
        PROVE  j \in EntriesOf(x, lists'[c])
    <3>1. j \in DOMAIN lists[c] /\ lists[c][j].vid = x /\ ~lists[c][j].masked
      BY DEF EntriesOf
    <3>2. j \in DOMAIN lists'[c] /\ lists'[c][j] = lists[c][j]
      <4>1. CASE c = b
        <5>1. j # k
          BY <2>2, <2>7, <3>1, <4>1
        <5> QED
          BY <2>5, <3>1, <4>1, <5>1
      <4>2. CASE c = to
        BY <2>5, <3>1, <4>2
      <4>3. CASE c \in DumpBuckets \ {b, to}
        BY <2>5, <3>1, <4>3
      <4> QED
        BY <4>1, <4>2, <4>3
    <3> QED
      BY <3>1, <3>2 DEF EntriesOf
  <2>8. new \in EntriesOf(v, lists'[to])
    BY <2>4, <2>5 DEF EntriesOf
  <2>9. PlacesAreLive'
    <3> SUFFICES ASSUME NEW x \in VectorIds \ gone
                 PROVE  place'[x] = << >> \/ LiveAt(x, place'[x], lists')
      <4>1. DOMAIN place' = VectorIds /\ gone' = gone
        BY <1>1, <1>2, <1>12 DEF PlacesAreLive
      <4> QED
        BY <4>1, Zenon DEF PlacesAreLive
    <3>1. CASE x = v
      <4>2. CASE place'[x] = <<to, new>>
        BY <1>5, <2>8, <3>1, <4>2, Zenon DEF LiveAt
      <4>3. v \in DOMAIN place
        BY <1>1, <1>4 DEF PlacesAreLive
      <4>4. place'[v] = <<to, new>>
        BY <1>12, <4>3 DEF new
      <4> QED
        BY <3>1, <4>2, <4>4
    <3>2. CASE x # v
      <4>1. place'[x] = place[x]
        BY <1>12, <3>2
      <4>2. place[x] = << >> \/ LiveAt(x, place[x], lists)
        BY <1>1, Zenon DEF PlacesAreLive
      <4>3. LiveAt(x, place[x], lists) => LiveAt(x, place[x], lists')
        BY <2>7, <3>2, Zenon DEF LiveAt
      <4> QED
        BY <4>1, <4>2, <4>3
    <3> QED
      BY <3>1, <3>2
  <2>10. IndexIsFull'
    <3> SUFFICES ASSUME Clean PROVE Full(lists', indexed_count_, gone)
      BY <1>2, Zenon DEF IndexIsFull, Clean
    <3>1. Full(lists, indexed_count_, gone)
      BY <1>1, <1>2, Zenon DEF IndexIsFull
    <3>2. Cardinality(LivePlaces(lists')) <= indexed_count_
      <4>1. /\ Cardinality(LivePlaces(lists)) <= indexed_count_ /\ indexed_count_ \in Nat
            /\ Cardinality(LivePlaces(lists)) \in Nat /\ Cardinality(LivePlaces(lists')) \in Nat
        <5>1. indexed_count_ \in Nat
          BY <1>1 DEF DumpTypes
        <5> QED
          BY <1>6, <2>5, <3>1, <5>1, LivePlaceIs DEF Full
      <4> QED
        BY <2>6, <4>1
    <3>3. ASSUME NEW x \in 0 .. (indexed_count_ - 1), x \notin gone
          PROVE  \E c \in DumpBuckets : EntriesOf(x, lists'[c]) # {}
      <4>1. CASE x = v
        BY <1>5, <2>8, <4>1
      <4>2. CASE x # v
        <5>1. \E c \in DumpBuckets : EntriesOf(x, lists[c]) # {}
          BY <3>1, <3>3, Zenon DEF Full, LiveOrGone
        <5> QED
          BY <2>7, <4>2, <5>1
      <4> QED
        BY <4>1, <4>2
    <3> QED
      BY <3>2, <3>3, Zenon DEF Full, LiveOrGone
  <2>11. unsure' \in BOOLEAN /\ (dump.step \in {"codes", "ids"} => unsure')
    BY <1>1, <1>12 DEF Tears, DumpTypes
  <2> QED
    BY <1>8, <2>5, <2>9, <2>10, <2>11
<1> QED
  BY <1>3, <1>9, <1>11, <1>12

\* The lists that are compacted and what stays in them.
Packed == {b \in DumpBuckets : dead[b] > 0 /\ 10 * dead[b] >= 3 * Len(lists[b])}
Staying(b) == {e \in EntriesIn(lists[b]) : ~e.masked /\ e.vid \notin gone}

\* Compaction keeps the live entries whose documents are there.
LEMMA CompactIfNeedStep ==
  ASSUME DumpIInv, CompactIfNeed
  PROVE  DumpIInv'
<1>1. DumpTypes /\ PlacesAreLive /\ IndexIsFull
  BY DEF DumpIInv
<1> DEFINE from == [b \in DumpBuckets |-> IF b \in Packed THEN 1 ELSE Len(lists[b]) + 1]
<1>2. /\ engine = "up"
      /\ lists' = [b \in DumpBuckets |-> IF b \notin Packed THEN lists[b]
                                         ELSE Among(lists[b], Staying(b))]
      /\ place' = Noted(place, lists', from)
      /\ IF Packed = {} THEN UNCHANGED unsure ELSE Tears
      /\ UNCHANGED <<engine, clock, synced, stored, version, gone, indexed_count_, updated,
                     dirty, lastDir, dirs, dump, late, loaded>>
  BY Zenon DEF CompactIfNeed, Packed, Staying
<1>3. lists \in ListsType /\ stored \in Nat /\ indexed_count_ \in 0 .. stored
  BY <1>1 DEF DumpTypes
<1>4. \A b \in DumpBuckets :
        /\ from[b] = IF b \in Packed THEN 1 ELSE Len(lists[b]) + 1
        /\ b \notin Packed => lists'[b] = lists[b]
        /\ b \in Packed => lists'[b] = Among(lists[b], Staying(b))
  BY <1>2, Zenon
<1> HIDE DEF from
<1> DEFINE pick(b) == CHOOSE f : PickedBy(f, lists'[b], lists[b], Staying(b), Len(lists[b]))
<1>5. \A b \in Packed :
        /\ lists'[b] \in Seq(Entries)
        /\ PickedBy(pick(b), lists'[b], lists[b], Staying(b), Len(lists[b]))
  <2> TAKE b \in Packed
  <2>1. b \in DumpBuckets
    BY DEF Packed
  <2>2. lists[b] \in Seq(Entries) /\ lists'[b] = Among(lists[b], Staying(b))
    BY <1>3, <1>4, <2>1, ListOf
  <2> HIDE DEF Entries
  <2>3. /\ lists'[b] \in Seq(Entries)
        /\ \E f : PickedBy(f, lists'[b], lists[b], Staying(b), Len(lists[b]))
    BY <2>2, AmongPicks
  <2> QED
    BY <2>3, Zenon
<1> HIDE DEF pick
<1>6. lists' \in ListsType
  <2>1. lists' = [b \in DumpBuckets |-> lists'[b]]
    BY <1>2, Zenon
  <2>2. \A b \in DumpBuckets : lists'[b] \in Seq(Entries)
    BY <1>3, <1>4, <1>5, ListOf, Zenon
  <2> HIDE DEF Entries
  <2> QED
    BY <2>1, <2>2, Zenon DEF ListsType
<1>7. ASSUME NEW b \in Packed
      PROVE  /\ b \in DumpBuckets /\ DOMAIN lists'[b] = 1 .. Len(lists'[b])
             /\ DOMAIN lists[b] = 1 .. Len(lists[b])
             /\ \A i \in DOMAIN lists'[b] :
                  pick(b)[i] \in DOMAIN lists[b] /\ lists'[b][i] = lists[b][pick(b)[i]]
             /\ \A i, j \in DOMAIN lists'[b] : pick(b)[i] = pick(b)[j] => i = j
             /\ \A k \in DOMAIN lists[b] : lists[b][k] \in Staying(b) =>
                  \E i \in DOMAIN lists'[b] : lists'[b][i] = lists[b][k]
  <2>1. b \in DumpBuckets
    BY DEF Packed
  <2>2. DOMAIN lists'[b] = 1 .. Len(lists'[b]) /\ DOMAIN lists[b] = 1 .. Len(lists[b])
    BY <1>3, <1>6, <2>1, ListOf
  <2> DEFINE f == pick(b)
             s == lists[b]
             t == lists'[b]
  <2>3. PickedBy(f, t, s, Staying(b), Len(s))
    BY <1>5
  <2> HIDE DEF f, s, t
  <2>4. /\ f \in [1 .. Len(t) -> 1 .. Len(s)]
        /\ \A i, j \in 1 .. Len(t) : f[i] = f[j] => i = j
        /\ \A i \in 1 .. Len(t) : t[i] = s[f[i]]
        /\ \A j \in 1 .. Len(s) : s[j] \in Staying(b) => \E i \in 1 .. Len(t) : f[i] = j
    BY <2>3, Zenon DEF PickedBy
  <2>5. \A i \in 1 .. Len(t) : f[i] \in 1 .. Len(s)
    BY <2>4
  <2>6. \A k \in 1 .. Len(s) : s[k] \in Staying(b) => \E i \in 1 .. Len(t) : t[i] = s[k]
    BY <2>4
  <2> QED
    BY <2>1, <2>2, <2>4, <2>5, <2>6 DEF f, s, t
<1>8. ASSUME NEW v, v \notin gone, NEW b \in DumpBuckets, NEW k \in EntriesOf(v, lists[b])
      PROVE  /\ EntriesOf(v, lists'[b]) # {}
             /\ b \notin Packed => k \in EntriesOf(v, lists'[b])
  <2>1. k \in DOMAIN lists[b] /\ lists[b][k].vid = v /\ ~lists[b][k].masked
    BY DEF EntriesOf
  <2>2. CASE b \notin Packed
    BY <1>4, <2>2
  <2>3. CASE b \in Packed
    <3>1. lists[b][k] \in Staying(b)
      BY <1>8, <2>1, Zenon DEF Staying, EntriesIn
    <3>2. PICK i \in DOMAIN lists'[b] : lists'[b][i] = lists[b][k]
      BY <1>7, <2>1, <2>3, <3>1
    <3>3. i \in EntriesOf(v, lists'[b])
      BY <2>1, <3>2 DEF EntriesOf
    <3> QED
      BY <2>3, <3>3
  <2> QED
    BY <2>2, <2>3
<1>9. PlacesAreLive'
  <2> SUFFICES ASSUME NEW v \in VectorIds \ gone
               PROVE  place'[v] = << >> \/ LiveAt(v, place'[v], lists')
    <3>1. DOMAIN place' = VectorIds
      BY <1>2, Zenon DEF Noted
    <3> QED
      BY <1>2, <3>1, Zenon DEF PlacesAreLive
  <2>1. \/ LiveAt(v, place'[v], lists')
        \/ /\ place'[v] = place[v]
           /\ \A b \in DumpBuckets : \A k \in EntriesOf(v, lists'[b]) : ~(k >= from[b])
    BY <1>2, <1>6, NotedPlace, Zenon
  <2>2. place[v] = << >> \/ LiveAt(v, place[v], lists)
    BY <1>1, Zenon DEF PlacesAreLive
  <2>3. ASSUME /\ \A b \in DumpBuckets : \A k \in EntriesOf(v, lists'[b]) : ~(k >= from[b]),
               LiveAt(v, place[v], lists)
        PROVE  LiveAt(v, place[v], lists')
    <3>1. PICK b \in DumpBuckets : \E k \in EntriesOf(v, lists[b]) : place[v] = <<b, k>>
      BY <2>3, Zenon DEF LiveAt
    <3>2. PICK k \in EntriesOf(v, lists[b]) : place[v] = <<b, k>>
      BY <3>1
    <3>3. b \notin Packed
      <4> SUFFICES ASSUME b \in Packed PROVE FALSE
        OBVIOUS
      <4>1. PICK i : i \in EntriesOf(v, lists'[b])
        BY <1>8
      <4>2. i >= 1
        <5>1. i \in 1 .. Len(lists'[b])
          BY <1>6, <4>1, ListOf DEF EntriesOf
        <5> QED
          BY <5>1
      <4> QED
        BY <1>4, <2>3, <4>1, <4>2
    <3> QED
      BY <1>8, <3>2, <3>3 DEF LiveAt
  <2> QED
    BY <2>1, <2>2, <2>3
<1>10. Cardinality(LivePlaces(lists')) <= Cardinality(LivePlaces(lists))
  <2> DEFINE L == LivePlaces(lists)
             M == LivePlaces(lists')
             was(p) == IF p[1] \in Packed THEN pick(p[1])[p[2]] ELSE p[2]
             h == [p \in M |-> <<p[1], was(p)>>]
  <2>1. ASSUME NEW p \in M
        PROVE  /\ p = <<p[1], p[2]>> /\ p[1] \in DumpBuckets /\ p[2] \in DOMAIN lists'[p[1]]
               /\ ~lists'[p[1]][p[2]].masked
    <3>1. p \in Places(lists') /\ ~lists'[p[1]][p[2]].masked
      BY Zenon DEF LivePlaces
    <3> QED
      BY <3>1, PlaceIs
  <2>2. ASSUME NEW p \in M PROVE h[p] = <<p[1], was(p)>> /\ h[p] \in L
    <3> DEFINE b == p[1]
               i == p[2]
               k == was(p)
    <3>1. b \in DumpBuckets /\ i \in DOMAIN lists'[b] /\ ~lists'[b][i].masked
      BY <2>1
    <3>2. (b \in Packed => k = pick(b)[i]) /\ (b \notin Packed => k = i)
      BY Zenon
    <3>3. h[p] = <<b, k>>
      BY Zenon
    <3> HIDE DEF b, i, k
    <3>4. k \in DOMAIN lists[b] /\ lists[b][k] = lists'[b][i]
      <4>1. CASE b \in Packed
        BY <1>7, <3>1, <3>2, <4>1
      <4>2. CASE b \notin Packed
        BY <1>4, <3>1, <3>2, <4>2
      <4> QED
        BY <4>1, <4>2
    <3>5. <<b, k>> \in L
      BY <1>3, <3>1, <3>4, LivePlaceIs
    <3> QED
      BY <3>3, <3>5 DEF b, k
  <2>3. ASSUME NEW p \in M, NEW q \in M, h[p] = h[q] PROVE p = q
    <3>1. p[1] = q[1] /\ was(p) = was(q)
      <4>1. <<p[1], was(p)>> = <<q[1], was(q)>>
        BY <2>2, <2>3, Zenon
      <4> HIDE DEF was
      <4> QED
        BY <4>1
    <3>2. p[2] = q[2]
      <4>1. p[2] \in DOMAIN lists'[p[1]] /\ q[2] \in DOMAIN lists'[p[1]]
        BY <2>1, <3>1
      <4>2. CASE p[1] \in Packed
        <5> DEFINE b == p[1]
                   i == p[2]
                   j == q[2]
        <5>1. pick(b)[i] = pick(b)[j]
          BY <3>1, <4>2
        <5>2. b \in Packed /\ i \in DOMAIN lists'[b] /\ j \in DOMAIN lists'[b]
          BY <4>1, <4>2
        <5> HIDE DEF b, i, j
        <5>3. i = j
          BY <1>7, <5>1, <5>2
        <5> QED
          BY <5>3 DEF i, j
      <4>3. CASE p[1] \notin Packed
        BY <3>1, <4>3, Zenon
      <4> QED
        BY <4>2, <4>3
    <3> QED
      <4>1. p = <<p[1], p[2]>> /\ q = <<q[1], q[2]>>
        BY <2>1
      <4> QED
        BY <3>1, <3>2, <4>1, Zenon
  <2>4. h \in Injection(M, L)
    <3>1. h \in [M -> L]
      BY <2>2
    <3> HIDE DEF L, M, h
    <3> QED
      BY <2>3, <3>1 DEF Injection, IsInjective
  <2>5. IsFiniteSet(L)
    BY <1>3, LivePlaceIs
  <2> HIDE DEF L, M, h
  <2>6. Cardinality(M) <= Cardinality(L)
    BY <2>4, <2>5, FS_Injection
  <2> QED
    BY <2>6 DEF L, M
<1>11. IndexIsFull'
  <2> SUFFICES ASSUME Clean PROVE Full(lists', indexed_count_, gone)
    BY <1>2, Zenon DEF IndexIsFull, Clean
  <2>1. Full(lists, indexed_count_, gone)
    BY <1>1, <1>2, Zenon DEF IndexIsFull
  <2>2. Cardinality(LivePlaces(lists')) <= indexed_count_
    <3>1. /\ Cardinality(LivePlaces(lists)) <= indexed_count_ /\ indexed_count_ \in Nat
          /\ Cardinality(LivePlaces(lists)) \in Nat /\ Cardinality(LivePlaces(lists')) \in Nat
      BY <1>3, <1>6, <2>1, LivePlaceIs DEF Full
    <3> QED
      BY <1>10, <3>1
  <2>3. ASSUME NEW v \in 0 .. (indexed_count_ - 1), v \notin gone
        PROVE  \E b \in DumpBuckets : EntriesOf(v, lists'[b]) # {}
    <3>1. PICK b \in DumpBuckets : EntriesOf(v, lists[b]) # {}
      BY <2>1, <2>3, Zenon DEF Full, LiveOrGone
    <3> QED
      BY <1>8, <2>3, <3>1
  <2> QED
    BY <2>2, <2>3, Zenon DEF Full, LiveOrGone
<1>12. ASSUME dump.step \in {"codes", "ids"}, ~unsure'
       PROVE  ~unsure /\ Extends(lists, lists')
  <2>1. Packed = {} /\ ~unsure
    BY <1>2, <1>12, Zenon DEF Tears
  <2>2. lists' = lists
    <3>1. \A b \in DumpBuckets : lists'[b] = lists[b]
      BY <1>4, <2>1
    <3>2. lists' = [b \in DumpBuckets |-> lists'[b]] /\ lists = [b \in DumpBuckets |-> lists[b]]
      BY <1>2, <1>3, Zenon DEF ListsType
    <3> QED
      BY <3>1, <3>2, Zenon
  <2> QED
    BY <1>3, <2>1, <2>2, ExtendsItself
<1>13. unsure' \in BOOLEAN
  BY <1>1, <1>2 DEF DumpTypes, Tears
<1>14. /\ stored' \in Nat /\ stored <= stored' /\ stored' <= MaxVectors
       /\ gone' \subseteq 0 .. (stored' - 1) /\ indexed_count_' \in 0 .. stored'
       /\ \A w \in stored .. (stored' - 1) : w \in late'
  BY <1>1, <1>2 DEF DumpTypes
<1>15. /\ version' \in [VectorIds -> Versions] /\ updated' \in Seq(VectorIds)
       /\ dirty' \in BOOLEAN
  BY <1>1, <1>2, Zenon DEF DumpTypes
<1> QED
  BY <1>2, <1>6, <1>9, <1>11, <1>12, <1>13, <1>14, <1>15, CallsKeep

-----------------------------------------------------------------------------
(* Steps of a dump.                                                        *)

\* What the step of a dump says of what it noted.
LEMMA DumpIs ==
  ASSUME DumpType
  PROVE  /\ dump.step \in Resting =>
              dump = [step |-> dump.step, dir |-> clock] /\ dump.dir = clock
         /\ dump.step \in {"codes", "ids"} => dump \in Reading /\ dump.dir = clock
<1>1. CASE dump = NoDump
  <2>1. dump.step = "none"
    BY <1>1 DEF NoDump
  <2> QED
    BY <2>1 DEF Resting
<1>2. CASE dump.step \in Resting /\ dump = [step |-> dump.step, dir |-> clock]
  <2>1. dump.dir = clock
    BY <1>2
  <2> QED
    BY <1>2, <2>1 DEF Resting
<1>3. CASE dump \in Reading /\ dump.dir = clock
  <2>1. dump.step \in {"codes", "ids"}
    BY <1>3 DEF Reading
  <2> QED
    BY <1>3, <2>1 DEF Resting
<1> QED
  BY <1>1, <1>2, <1>3 DEF DumpType

\* A dump runs while the engine is up.
LEMMA DumpsAreUp ==
  ASSUME DownIsEmpty, dump.step # "none"
  PROVE  engine = "up"
  BY DEF DownIsEmpty, NoDump

\* What the steps of a dump share: the index and the vectors stay.
LEMMA DumpsKeep ==
  ASSUME DumpIInv, engine = "up", OnlyDump,
         clock' \in 0 .. MaxDumps, synced' \in Nat, synced' <= stored,
         dirs' \in [DOMAIN dirs' -> DirType], DOMAIN dirs' \subseteq 1 .. clock',
         lastDir' \in 0 .. clock', dirty' \in BOOLEAN, unsure' \in BOOLEAN, DumpType',
         RunningDir', MarkedAreWhole', SyncedButLate', ReadsPrefix', DirsAccount'
  PROVE  DumpIInv'
<1>1. DumpTypes /\ PlacesAreLive /\ IndexIsFull /\ DumpsLoad
  BY DEF DumpIInv
<1>2. UNCHANGED <<engine, stored, version, gone, lists, place, indexed_count_, updated, loaded>>
  BY DEF OnlyDump
<1>3. DumpTypes'
  <2>1. synced' <= stored'
    BY <1>2
  <2> QED
    BY <1>1, <1>2, <2>1, Zenon DEF DumpTypes
<1>4. PlacesAreLive' /\ IndexIsFull' /\ DumpsLoad'
  BY <1>1, <1>2, Zenon DEF PlacesAreLive, IndexIsFull, DumpsLoad, Clean
<1>5. DownIsEmpty'
  BY <1>2, Zenon DEF DownIsEmpty
<1> QED
  BY <1>3, <1>4, <1>5, Zenon DEF DumpIInv

\* A directory for a second that had none.
LEMMA BeginDumpStep ==
  ASSUME ~SameSecond, DumpIInv, BeginDump
  PROVE  DumpIInv'
<1>1. DumpTypes /\ MarkedAreWhole /\ SyncedButLate /\ DirsAccount
  BY DEF DumpIInv
<1>2. /\ engine = "up" /\ dirty /\ clock < MaxDumps /\ clock' = clock + 1
      /\ dump' = [step |-> "sizes", dir |-> clock'] /\ unsure' = FALSE
      /\ UNCHANGED <<synced, dirty, lastDir>> /\ OnlyDump
  BY DEF BeginDump
<1>3. /\ clock \in Nat /\ clock' \in 0 .. MaxDumps /\ clock' \notin DOMAIN dirs
      /\ clock' \in 1 .. clock' /\ \A s \in DOMAIN dirs : s \in 1 .. clock' /\ s # clock'
      /\ lastDir' \in 0 .. clock' /\ lastDir' < clock'
  <2>1. /\ clock \in Nat /\ MaxDumps \in Nat /\ DOMAIN dirs \subseteq 1 .. clock
        /\ lastDir \in 0 .. clock
    BY <1>1, DumpBounds DEF DumpTypes
  <2> DEFINE next == clock + 1
  <2>2. next \in 0 .. MaxDumps /\ next \in 1 .. next /\ lastDir \in 0 .. next /\ lastDir < next
    BY <1>2, <2>1
  <2>3. next \notin DOMAIN dirs /\ \A s \in DOMAIN dirs : s \in 1 .. next /\ s # next
    BY <2>1
  <2> QED
    BY <1>2, <2>1, <2>2, <2>3
<1>4. dirs' = [s \in DOMAIN dirs \cup {clock'} |-> IF s = clock' THEN EmptyDir ELSE dirs[s]]
  BY <1>3, Zenon DEF BeginDump
<1>5. /\ DOMAIN dirs' = DOMAIN dirs \cup {clock'} /\ dirs'[clock'] = EmptyDir
      /\ \A s \in DOMAIN dirs : dirs'[s] = dirs[s]
  BY <1>3, <1>4
<1>6. EmptyDir.index = "none" /\ ~EmptyDir.done /\ EmptyDir \in DirType
  <2>1. NoLists \in ListsType
    <3>1. << >> \in Seq(Entries)
      <4> HIDE DEF Entries
      <4> QED
        OBVIOUS
    <3> QED
      BY <3>1, Zenon DEF NoLists, ListsType
  <2> HIDE DEF NoLists, ListsType
  <2> QED
    BY <2>1 DEF EmptyDir, DirType
<1>7. dirs' \in [DOMAIN dirs' -> DirType] /\ DOMAIN dirs' \subseteq 1 .. clock'
  <2>1. \A s \in DOMAIN dirs' : dirs'[s] \in DirType
    <3>1. dirs \in [DOMAIN dirs -> DirType]
      BY <1>1 DEF DumpTypes
    <3> HIDE DEF EmptyDir, DirType
    <3> QED
      BY <1>5, <1>6, <3>1
  <2>2. dirs' = [s \in DOMAIN dirs' |-> dirs'[s]]
    BY <1>4
  <2>3. DOMAIN dirs' \subseteq 1 .. clock'
    BY <1>3, <1>5
  <2> HIDE DEF DirType
  <2> QED
    BY <2>1, <2>2, <2>3
<1> HIDE DEF EmptyDir
<1>8. /\ dump'.step = "sizes" /\ dump'.step \in Resting
      /\ dump' = [step |-> dump'.step, dir |-> clock']
  BY <1>2 DEF Resting
<1>9. DumpType'
  BY <1>8 DEF DumpType
<1>10. RunningDir'
  BY <1>3, <1>5, <1>6, <1>8 DEF RunningDir
<1>11. DoneDirs' = DoneDirs /\ clock' \notin DoneDirs'
  BY <1>3, <1>5, <1>6 DEF DoneDirs
<1>12. MarkedAreWhole'
  <2>1. \A s \in DoneDirs : dirs[s].index = "whole" /\ s \in DOMAIN dirs
    BY <1>1 DEF MarkedAreWhole, DoneDirs
  <2>2. \A s \in DoneDirs' : dirs'[s].index = "whole"
    BY <1>5, <1>11, <2>1
  <2> QED
    BY <1>1, <1>2, <1>11, <2>2, Zenon DEF MarkedAreWhole
<1>13. SyncedButLate'
  BY <1>2, <1>8 DEF SyncedButLate
<1>14. ReadsPrefix'
  BY <1>8 DEF ReadsPrefix
<1>15. DirsAccount'
  <2> SUFFICES ASSUME Clean, NEW s \in DOMAIN dirs', dirs'[s].index = "whole", ~dirs'[s].torn,
                      dirs'[s].done
               PROVE  Accounted(dirs'[s].lists, synced, gone)
    BY <1>2, <1>8 DEF DirsAccount, OnlyDump, Clean
  <2>1. s \in DOMAIN dirs /\ dirs'[s] = dirs[s]
    BY <1>5, <1>6
  <2> QED
    BY <1>1, <2>1 DEF DirsAccount
<1>16. synced' \in Nat /\ synced' <= stored /\ dirty' \in BOOLEAN /\ unsure' \in BOOLEAN
  BY <1>1, <1>2 DEF DumpTypes
<1> QED
  BY <1>2, <1>3, <1>7, <1>9, <1>10, <1>12, <1>13, <1>14, <1>15, <1>16, DumpsKeep

\* The directory of the running dump gets another content.
LEMMA RunningDirChanges ==
  ASSUME DumpTypes, clock \in DOMAIN dirs, NEW d \in DirType, NEW ds,
         ds = [dirs EXCEPT ![clock] = d]
  PROVE  /\ DOMAIN ds = DOMAIN dirs /\ ds \in [DOMAIN ds -> DirType]
         /\ DOMAIN ds \subseteq 1 .. clock
         /\ ds[clock] = d /\ \A s \in DOMAIN dirs : s # clock => ds[s] = dirs[s]
<1>1. dirs \in [DOMAIN dirs -> DirType] /\ DOMAIN dirs \subseteq 1 .. clock
  BY DEF DumpTypes
<1> HIDE DEF DirType
<1> QED
  BY <1>1

\* The entries that are about to be written when the dump notes the sizes.
LEMMA AllAreAccounted ==
  ASSUME DumpTypes, Full(lists, indexed_count_, gone),
         NEW sizes \in [DumpBuckets -> Nat], \A b \in DumpBuckets : sizes[b] = Len(lists[b])
  PROVE  Accounted(FirstsOf(lists, sizes), stored, gone)
<1>1. lists \in ListsType /\ stored \in Nat /\ indexed_count_ \in 0 .. stored
  BY DEF DumpTypes
<1>2. Accounted(lists, stored, gone)
  <2> SUFFICES ASSUME ~HasMasks(lists)
               PROVE  /\ Cardinality(Places(lists)) <= stored
                      /\ ListedOrGone(lists, Cardinality(Places(lists)), gone)
    BY DEF Accounted
  <2> DEFINE c == Cardinality(Places(lists))
  <2>1. c \in Nat /\ c <= indexed_count_ /\ LiveOrGone(lists, indexed_count_, gone)
    BY <1>1, PlacesAreFinite, PlainListsCount DEF Full
  <2> HIDE DEF c
  <2>2. \A v \in 0 .. (c - 1) : v \in 0 .. (indexed_count_ - 1)
    BY <1>1, <2>1
  <2>3. ListedOrGone(lists, c, gone)
    BY <2>1, <2>2, Zenon DEF LiveOrGone, ListedOrGone, EntriesOf
  <2> QED
    BY <1>1, <2>1, <2>3 DEF c
<1>3. \A b \in DumpBuckets : sizes[b] <= Len(lists[b])
  BY <1>1, ListOf
<1>4. /\ FirstsOf(lists, sizes) \in ListsType
      /\ \A b \in DumpBuckets :
           /\ Len(FirstsOf(lists, sizes)[b]) = sizes[b]
           /\ \A k \in 1 .. sizes[b] : FirstsOf(lists, sizes)[b][k] = lists[b][k]
  BY <1>1, <1>3, FirstsAre
<1>5. \A b \in DumpBuckets : Alike(lists[b], FirstsOf(lists, sizes)[b])
  BY <1>4, Zenon DEF Alike
<1> QED
  BY <1>1, <1>2, <1>4, <1>5, AlikeAccount

\* The sizes are noted; the file is not complete.
LEMMA WriteSizesStep ==
  ASSUME DumpIInv, WriteSizes
  PROVE  DumpIInv'
<1>1. DumpTypes /\ RunningDir /\ MarkedAreWhole /\ SyncedButLate /\ DirsAccount /\ IndexIsFull
      /\ DownIsEmpty
  BY DEF DumpIInv
<1>2. dump.step = "sizes" /\ OnlyDump /\ UNCHANGED <<clock, synced, dirty, lastDir, late, unsure>>
  BY DEF WriteSizes
<1>3. engine = "up" /\ dirty /\ dump.dir = clock /\ dump = [step |-> "sizes", dir |-> clock]
  <2>1. dump.step # "none" /\ dump.step \in Resting
    BY <1>2 DEF Resting
  <2>2. DumpType
    BY <1>1 DEF DumpTypes
  <2> QED
    BY <1>1, <1>2, <2>1, <2>2, DumpsAreUp, DumpIs DEF SyncedButLate
<1>4. /\ clock \in DOMAIN dirs /\ lastDir < clock /\ ~dirs[clock].done
      /\ dirs[clock] \in DirType
  <2>1. clock \in DOMAIN dirs /\ lastDir < clock /\ ~dirs[clock].done
    BY <1>1, <1>2 DEF RunningDir
  <2> QED
    BY <1>1, <2>1 DEF DumpTypes
<1> DEFINE d == [dirs[clock] EXCEPT !.index = "part"]
           sizes == [b \in DumpBuckets |-> Len(lists[b])]
<1>5. d \in DirType /\ d.index = "part" /\ d.done = dirs[clock].done
  BY <1>4 DEF DirType
<1>6. dirs' = [dirs EXCEPT ![clock] = d]
  BY <1>3 DEF WriteSizes
<1>7. dump' = [step |-> "codes", dir |-> clock, rest |-> DumpBuckets, sizes |-> sizes,
               versions |-> << >>, read |-> NoLists]
  BY <1>3, Zenon DEF WriteSizes
<1> HIDE DEF d
<1>8. /\ DOMAIN dirs' = DOMAIN dirs /\ dirs' \in [DOMAIN dirs' -> DirType]
      /\ DOMAIN dirs' \subseteq 1 .. clock
      /\ dirs'[clock] = d /\ \A s \in DOMAIN dirs : s # clock => dirs'[s] = dirs[s]
  BY <1>1, <1>4, <1>5, <1>6, RunningDirChanges
<1>9. lists \in ListsType /\ clock \in 0 .. MaxDumps /\ sizes \in [DumpBuckets -> Nat]
      /\ \A b \in DumpBuckets : sizes[b] = Len(lists[b]) /\ sizes[b] <= Len(lists[b])
  <2>1. lists \in ListsType /\ clock \in 0 .. MaxDumps
    BY <1>1 DEF DumpTypes
  <2> QED
    BY <2>1, ListOf
<1> HIDE DEF sizes
<1>10. dump' \in Reading /\ dump'.dir = clock /\ dump'.step = "codes"
       /\ dump'.rest = DumpBuckets /\ dump'.sizes = sizes
  <2>1. << >> \in Seq(Versions) /\ NoLists \in ListsType
    <3>1. << >> \in Seq(Entries) /\ << >> \in Seq(Versions)
      <4> HIDE DEF Entries, Versions
      <4> QED
        OBVIOUS
    <3> QED
      BY <3>1, Zenon DEF NoLists, ListsType
  <2>2. clock \in Nat /\ DumpBuckets \in (SUBSET DumpBuckets) \ {{}}
    BY <1>9, DumpBounds
  <2> HIDE DEF NoLists, ListsType, Versions, DumpBuckets
  <2> QED
    BY <1>7, <1>9, <2>1, <2>2 DEF Reading
<1>11. DumpType'
  BY <1>2, <1>10 DEF DumpType
<1>12. RunningDir'
  BY <1>2, <1>4, <1>5, <1>8, <1>10 DEF RunningDir
<1>13. DoneDirs' = DoneDirs /\ \A s \in DoneDirs : s # clock /\ dirs'[s] = dirs[s]
  BY <1>4, <1>5, <1>8 DEF DoneDirs
<1>14. MarkedAreWhole'
  BY <1>1, <1>2, <1>13 DEF MarkedAreWhole
<1>15. SyncedButLate'
  BY <1>2, <1>3, <1>10 DEF SyncedButLate, AllLate, OnlyDump
<1>16. ReadsPrefix'
  <2>1. \A b \in DumpBuckets : dump'.sizes[b] <= Len(lists'[b])
    BY <1>2, <1>9, <1>10 DEF OnlyDump
  <2>2. \A b \in DumpBuckets \ dump'.rest :
          Alike(dump'.read[b], FirstsOf(lists', dump'.sizes)[b])
    BY <1>10
  <2>3. Clean' => Accounted(FirstsOf(lists', dump'.sizes), stored', gone')
    <3>1. Clean => Accounted(FirstsOf(lists, sizes), stored, gone)
      <4>1. Clean => Full(lists, indexed_count_, gone)
        BY <1>1, <1>3 DEF IndexIsFull
      <4> QED
        BY <1>1, <1>9, <4>1, AllAreAccounted
    <3>2. UNCHANGED <<lists, stored, gone, loaded>>
      BY <1>2 DEF OnlyDump
    <3> QED
      BY <1>10, <3>1, <3>2, Zenon DEF Clean
  <2>4. dump'.step # "ids"
    BY <1>10
  <2> QED
    BY <2>1, <2>2, <2>3, <2>4, Zenon DEF ReadsPrefix
<1>17. DirsAccount'
  <2> SUFFICES ASSUME Clean, NEW s \in DOMAIN dirs', dirs'[s].index = "whole", ~dirs'[s].torn,
                      dirs'[s].done
               PROVE  Accounted(dirs'[s].lists, synced, gone)
    BY <1>2, <1>10 DEF DirsAccount, OnlyDump, Clean
  <2>1. s \in DOMAIN dirs /\ dirs'[s] = dirs[s]
    BY <1>5, <1>8
  <2> QED
    BY <1>1, <2>1 DEF DirsAccount
<1>18. synced' \in Nat /\ synced' <= stored /\ dirty' \in BOOLEAN /\ unsure' \in BOOLEAN
       /\ clock' \in 0 .. MaxDumps /\ lastDir' \in 0 .. clock' /\ DOMAIN dirs' \subseteq 1 .. clock'
  BY <1>1, <1>2, <1>8 DEF DumpTypes
<1> QED
  BY <1>2, <1>3, <1>8, <1>11, <1>12, <1>14, <1>15, <1>16, <1>17, <1>18, DumpsKeep

\* The first entries of a list, as many as there are.
LEMMA FirstOfIs ==
  ASSUME NEW ls \in ListsType, NEW b \in DumpBuckets, NEW n \in Nat
  PROVE  /\ FirstOf(ls[b], n) \in Seq(Entries)
         /\ DOMAIN FirstOf(ls[b], n) = 1 .. Len(FirstOf(ls[b], n))
         /\ Len(FirstOf(ls[b], n)) <= n /\ Len(FirstOf(ls[b], n)) \in Nat
         /\ n <= Len(ls[b]) => Len(FirstOf(ls[b], n)) = n
         /\ \A k \in 1 .. Len(FirstOf(ls[b], n)) : FirstOf(ls[b], n)[k] = ls[b][k]
<1> DEFINE s == ls[b]
           m == IF n <= Len(s) THEN n ELSE Len(s)
<1>1. s \in Seq(Entries) /\ Len(s) \in Nat
  BY ListOf
<1> HIDE DEF s, Entries
<1>2. m \in Nat /\ m <= Len(s) /\ m <= n /\ (n <= Len(s) => m = n)
  BY <1>1
<1>3. FirstOf(s, n) = SubSeq(s, 1, m)
  BY Zenon DEF FirstOf
<1> HIDE DEF m
<1>4. /\ SubSeq(s, 1, m) \in Seq(Entries) /\ Len(SubSeq(s, 1, m)) = m
      /\ DOMAIN SubSeq(s, 1, m) = 1 .. m
      /\ \A k \in 1 .. m : SubSeq(s, 1, m)[k] = s[k]
  BY <1>1, <1>2
<1> QED
  BY <1>2, <1>3, <1>4 DEF s

\* The codes of a list are read; its ids will follow.
LEMMA WriteCodesStep ==
  ASSUME DumpIInv, WriteCodes
  PROVE  DumpIInv'
<1>1. DumpTypes /\ RunningDir /\ MarkedAreWhole /\ SyncedButLate /\ DirsAccount /\ ReadsPrefix
      /\ DownIsEmpty
  BY DEF DumpIInv
<1>2. /\ dump.step = "codes" /\ OnlyDump
      /\ UNCHANGED <<clock, synced, dirty, lastDir, dirs, late, unsure>>
  BY DEF WriteCodes
<1>3. engine = "up" /\ dump \in Reading /\ dump.dir = clock
  <2>1. dump.step # "none" /\ dump.step \in {"codes", "ids"}
    BY <1>2
  <2>2. DumpType
    BY <1>1 DEF DumpTypes
  <2> QED
    BY <1>1, <2>1, <2>2, DumpsAreUp, DumpIs
<1>4. /\ dump.rest \in (SUBSET DumpBuckets) \ {{}} /\ dump.sizes \in [DumpBuckets -> Nat]
      /\ NextBucket \in DumpBuckets
  <2>1. dump.rest \in (SUBSET DumpBuckets) \ {{}} /\ dump.sizes \in [DumpBuckets -> Nat]
    BY <1>3 DEF Reading
  <2> QED
    BY <2>1, NextIsOfTheRest
<1> DEFINE part == FirstOf(lists[NextBucket], dump.sizes[NextBucket])
           codes == [k \in DOMAIN part |-> part[k].version]
<1>5. lists \in ListsType /\ dump.sizes[NextBucket] \in Nat
  BY <1>1, <1>4 DEF DumpTypes
<1>6. /\ part \in Seq(Entries) /\ Len(part) \in Nat /\ DOMAIN part = 1 .. Len(part)
      /\ dump.sizes[NextBucket] <= Len(lists[NextBucket]) => Len(part) = dump.sizes[NextBucket]
  <2> DEFINE b == NextBucket
             n == dump.sizes[NextBucket]
  <2>1. b \in DumpBuckets /\ n \in Nat /\ part = FirstOf(lists[b], n)
    BY <1>4, <1>5
  <2> HIDE DEF b, n, part, Entries
  <2>2. /\ FirstOf(lists[b], n) \in Seq(Entries)
        /\ DOMAIN FirstOf(lists[b], n) = 1 .. Len(FirstOf(lists[b], n))
        /\ Len(FirstOf(lists[b], n)) \in Nat
        /\ n <= Len(lists[b]) => Len(FirstOf(lists[b], n)) = n
    BY <1>5, <2>1, FirstOfIs
  <2> QED
    BY <2>1, <2>2, Zenon DEF b, n
<1>7. dump' = [dump EXCEPT !.step = "ids", !.versions = codes]
  BY Zenon DEF WriteCodes
<1> HIDE DEF part
<1>8. codes \in Seq(Versions) /\ Len(codes) = Len(part)
  <2>1. \A k \in DOMAIN part : part[k].version \in Versions
    <3>1. \A k \in DOMAIN part : part[k] \in Entries
      <4> HIDE DEF Entries
      <4> QED
        BY <1>6
    <3> QED
      BY <3>1 DEF Entries
  <2>2. codes \in [1 .. Len(part) -> Versions]
    BY <1>6, <2>1
  <2> HIDE DEF codes, Versions
  <2> QED
    BY <1>6, <2>2
<1> HIDE DEF codes
<1>9. /\ dump' \in Reading /\ dump'.dir = clock /\ dump'.step = "ids"
      /\ dump'.rest = dump.rest /\ dump'.sizes = dump.sizes /\ dump'.read = dump.read
      /\ dump'.versions = codes
  <2> HIDE DEF ListsType, Versions, DumpBuckets
  <2> QED
    BY <1>3, <1>7, <1>8 DEF Reading
<1>10. DumpType'
  BY <1>2, <1>9 DEF DumpType
<1>11. RunningDir' /\ MarkedAreWhole'
  BY <1>1, <1>2, <1>9 DEF RunningDir, MarkedAreWhole, DoneDirs
<1>12. SyncedButLate'
  BY <1>1, <1>2, <1>9 DEF SyncedButLate
<1>13. ReadsPrefix'
  <2> SUFFICES ASSUME ~unsure'
               PROVE  /\ \A b \in DumpBuckets : dump'.sizes[b] <= Len(lists'[b])
                      /\ \A b \in DumpBuckets \ dump'.rest :
                           Alike(dump'.read[b], FirstsOf(lists', dump'.sizes)[b])
                      /\ Len(dump'.versions) = dump'.sizes[NextBucket']
                      /\ Clean' => Accounted(FirstsOf(lists', dump'.sizes), stored', gone')
    BY Zenon DEF ReadsPrefix
  <2>1. /\ \A b \in DumpBuckets : dump.sizes[b] <= Len(lists[b])
        /\ \A b \in DumpBuckets \ dump.rest :
             Alike(dump.read[b], FirstsOf(lists, dump.sizes)[b])
        /\ Clean => Accounted(FirstsOf(lists, dump.sizes), stored, gone)
    BY <1>1, <1>2 DEF ReadsPrefix
  <2>2. NextBucket' = NextBucket /\ UNCHANGED <<lists, stored, gone, loaded>>
    BY <1>2, <1>9 DEF NextBucket, OnlyDump
  <2>3. Len(codes) = dump.sizes[NextBucket]
    BY <1>4, <1>6, <1>8, <2>1
  <2>4. Clean' = Clean
    BY <2>2 DEF Clean
  <2> QED
    BY <1>9, <2>1, <2>2, <2>3, <2>4
<1>14. DirsAccount'
  <2>1. /\ UNCHANGED <<stored, gone, loaded, dirs, synced, clock>>
        /\ dump'.step # "vectors" /\ dump'.step # "done"
    BY <1>2, <1>9 DEF OnlyDump
  <2> QED
    BY <1>1, <2>1, Zenon DEF DirsAccount, Clean
<1>15. synced' \in Nat /\ synced' <= stored /\ dirty' \in BOOLEAN /\ unsure' \in BOOLEAN
       /\ clock' \in 0 .. MaxDumps /\ lastDir' \in 0 .. clock' /\ DOMAIN dirs' \subseteq 1 .. clock'
       /\ dirs' \in [DOMAIN dirs' -> DirType]
  BY <1>1, <1>2 DEF DumpTypes
<1> QED
  BY <1>2, <1>3, <1>10, <1>11, <1>12, <1>13, <1>14, <1>15, DumpsKeep

\* What is read of a list: the ids that are there and the codes read before.
ReadOf(b) ==
  LET part == FirstOf(lists[b], Len(dump.versions))
  IN [k \in DOMAIN part |-> [part[k] EXCEPT !.version = dump.versions[k]]]

\* As long as nothing tore the lists it is like the first part of this one.
LEMMA ReadOfIs ==
  ASSUME lists \in ListsType, NEW b \in DumpBuckets, dump.versions \in Seq(Versions)
  PROVE  /\ ReadOf(b) \in Seq(Entries)
         /\ \A sizes \in [DumpBuckets -> Nat] :
              /\ \A c \in DumpBuckets : sizes[c] <= Len(lists[c])
              /\ Len(dump.versions) = sizes[b]
              => Alike(ReadOf(b), FirstsOf(lists, sizes)[b])
<1> DEFINE n == Len(dump.versions)
           part == FirstOf(lists[b], n)
           m == Len(part)
           entry(k) == [part[k] EXCEPT !.version = dump.versions[k]]
<1>1. n \in Nat /\ \A k \in 1 .. n : dump.versions[k] \in Versions
  <2> HIDE DEF Versions
  <2> QED
    OBVIOUS
<1>2. /\ part \in Seq(Entries) /\ DOMAIN part = 1 .. m /\ m <= n /\ m \in Nat
      /\ n <= Len(lists[b]) => m = n
      /\ \A k \in 1 .. m : part[k] = lists[b][k]
  <2> HIDE DEF n
  <2> QED
    BY <1>1, FirstOfIs
<1>3. ReadOf(b) = [k \in 1 .. m |-> entry(k)]
  BY <1>2, Zenon DEF ReadOf
<1> HIDE DEF n, part
<1>4. \A k \in 1 .. m : /\ entry(k) \in Entries
                        /\ entry(k).vid = part[k].vid /\ entry(k).masked = part[k].masked
  <2> TAKE k \in 1 .. m
  <2>1. part[k] \in Entries
    <3> HIDE DEF Entries
    <3> QED
      BY <1>2
  <2>2. dump.versions[k] \in Versions
    <3>1. k \in 1 .. m /\ m <= n /\ m \in Nat /\ n \in Nat
      BY <1>1, <1>2
    <3> HIDE DEF m
    <3>2. k \in 1 .. n
      BY <3>1
    <3> QED
      BY <1>1, <3>2
  <2> QED
    BY <2>1, <2>2 DEF Entries
<1> HIDE DEF m, entry
<1>5. ReadOf(b) \in Seq(Entries) /\ Len(ReadOf(b)) = m
      /\ \A k \in 1 .. m : ReadOf(b)[k] = entry(k)
  <2>1. ReadOf(b) \in [1 .. m -> Entries]
    BY <1>3, <1>4, Zenon
  <2> HIDE DEF Entries
  <2> QED
    BY <1>2, <1>3, <2>1
<1>6. ASSUME NEW sizes \in [DumpBuckets -> Nat],
             \A c \in DumpBuckets : sizes[c] <= Len(lists[c]), n = sizes[b]
      PROVE  Alike(ReadOf(b), FirstsOf(lists, sizes)[b])
  <2>1. /\ Len(FirstsOf(lists, sizes)[b]) = sizes[b]
        /\ \A k \in 1 .. sizes[b] : FirstsOf(lists, sizes)[b][k] = lists[b][k]
    BY <1>6, FirstsAre
  <2>2. m = sizes[b]
    BY <1>2, <1>6
  <2>3. \A k \in 1 .. m : /\ ReadOf(b)[k].vid = FirstsOf(lists, sizes)[b][k].vid
                          /\ ReadOf(b)[k].masked = FirstsOf(lists, sizes)[b][k].masked
    BY <1>2, <1>4, <1>5, <2>1, <2>2
  <2> QED
    BY <1>5, <2>1, <2>2, <2>3, Zenon DEF Alike
<1> QED
  BY <1>5, <1>6 DEF n

\* The ids of a list are read; after the last one the file is whole.
LEMMA WriteIdsStep ==
  ASSUME DumpIInv, WriteIds
  PROVE  DumpIInv'
<1>1. DumpTypes /\ RunningDir /\ MarkedAreWhole /\ SyncedButLate /\ DirsAccount /\ ReadsPrefix
      /\ DownIsEmpty
  BY DEF DumpIInv
<1> DEFINE b == NextBucket
           read == [dump.read EXCEPT ![b] = ReadOf(b)]
<1>2. /\ dump.step = "ids" /\ OnlyDump
      /\ UNCHANGED <<clock, synced, dirty, lastDir, late, unsure>>
      /\ IF dump.rest = {b}
         THEN /\ dump' = [step |-> "vectors", dir |-> dump.dir]
              /\ dirs' = [dirs EXCEPT
                            ![dump.dir] = [@ EXCEPT !.index = "whole", !.lists = read,
                                                    !.torn = unsure]]
         ELSE /\ dump' = [dump EXCEPT !.step = "codes", !.read = read, !.rest = @ \ {b}]
              /\ UNCHANGED dirs
  BY Zenon DEF WriteIds, ReadOf
<1>3. engine = "up" /\ dirty /\ dump \in Reading /\ dump.dir = clock
  <2>1. dump.step # "none" /\ dump.step \in {"codes", "ids"}
    BY <1>2
  <2>2. DumpType
    BY <1>1 DEF DumpTypes
  <2> QED
    BY <1>1, <2>1, <2>2, DumpsAreUp, DumpIs DEF SyncedButLate
<1>4. /\ dump.rest \in (SUBSET DumpBuckets) \ {{}} /\ dump.sizes \in [DumpBuckets -> Nat]
      /\ dump.versions \in Seq(Versions) /\ dump.read \in ListsType
      /\ b \in dump.rest /\ b \in DumpBuckets
  <2>1. /\ dump.rest \in (SUBSET DumpBuckets) \ {{}} /\ dump.sizes \in [DumpBuckets -> Nat]
        /\ dump.versions \in Seq(Versions) /\ dump.read \in ListsType
    BY <1>3 DEF Reading
  <2> QED
    BY <2>1, NextIsOfTheRest
<1> HIDE DEF b
<1>5. lists \in ListsType /\ stored \in Nat
  BY <1>1 DEF DumpTypes
<1>6. ReadOf(b) \in Seq(Entries)
  BY <1>4, <1>5, ReadOfIs
<1>7. /\ read \in ListsType /\ read[b] = ReadOf(b)
      /\ \A c \in DumpBuckets : c # b => read[c] = dump.read[c]
  <2> HIDE DEF Entries, DumpBuckets
  <2> QED
    BY <1>4, <1>6 DEF ListsType
<1> HIDE DEF read
<1>8. ASSUME ~unsure
      PROVE  /\ \A c \in DumpBuckets : dump.sizes[c] <= Len(lists[c])
             /\ \A c \in (DumpBuckets \ dump.rest) \cup {b} :
                  Alike(read[c], FirstsOf(lists, dump.sizes)[c])
             /\ Clean => Accounted(FirstsOf(lists, dump.sizes), stored, gone)
  <2>1. /\ \A c \in DumpBuckets : dump.sizes[c] <= Len(lists[c])
        /\ \A c \in DumpBuckets \ dump.rest :
             Alike(dump.read[c], FirstsOf(lists, dump.sizes)[c])
        /\ Len(dump.versions) = dump.sizes[b]
        /\ Clean => Accounted(FirstsOf(lists, dump.sizes), stored, gone)
    BY <1>1, <1>2, <1>8 DEF ReadsPrefix, b
  <2>2. Alike(read[b], FirstsOf(lists, dump.sizes)[b])
    BY <1>4, <1>5, <1>7, <2>1, ReadOfIs
  <2>3. \A c \in DumpBuckets \ dump.rest : read[c] = dump.read[c]
    BY <1>4, <1>7
  <2> QED
    BY <2>1, <2>2, <2>3
<1>9. synced' \in Nat /\ synced' <= stored /\ dirty' \in BOOLEAN /\ unsure' \in BOOLEAN
      /\ clock' \in 0 .. MaxDumps /\ lastDir' \in 0 .. clock' /\ clock \in Nat
      /\ dirs \in [DOMAIN dirs -> DirType] /\ DOMAIN dirs \subseteq 1 .. clock
  BY <1>1, <1>2 DEF DumpTypes
<1>10. /\ clock \in DOMAIN dirs /\ lastDir < clock /\ ~dirs[clock].done
       /\ dirs[clock] \in DirType
  <2>1. clock \in DOMAIN dirs /\ lastDir < clock /\ ~dirs[clock].done
    BY <1>1, <1>2 DEF RunningDir
  <2> QED
    BY <1>1, <2>1 DEF DumpTypes
<1>11. UNCHANGED <<lists, stored, gone, loaded>> /\ Clean' = Clean
  BY <1>2 DEF OnlyDump, Clean
<1>12. CASE dump.rest # {b}
  <2>1. dump' = [dump EXCEPT !.step = "codes", !.read = read, !.rest = @ \ {b}] /\ dirs' = dirs
    BY <1>2, <1>12
  <2>2. dump.rest \ {b} \in (SUBSET DumpBuckets) \ {{}}
    BY <1>4, <1>12
  <2>3. /\ dump' \in Reading /\ dump'.dir = clock /\ dump'.step = "codes"
        /\ dump'.rest = dump.rest \ {b} /\ dump'.sizes = dump.sizes /\ dump'.read = read
    <3> HIDE DEF ListsType, Versions, DumpBuckets
    <3> QED
      BY <1>3, <1>7, <2>1, <2>2 DEF Reading
  <2>4. DumpType'
    BY <1>2, <2>3 DEF DumpType
  <2>5. RunningDir' /\ MarkedAreWhole'
    BY <1>1, <1>2, <2>1, <2>3 DEF RunningDir, MarkedAreWhole, DoneDirs
  <2>6. SyncedButLate'
    BY <1>2, <1>3, <2>3 DEF SyncedButLate
  <2>7. ReadsPrefix'
    <3> SUFFICES ASSUME ~unsure'
                 PROVE  /\ \A c \in DumpBuckets : dump'.sizes[c] <= Len(lists'[c])
                        /\ \A c \in DumpBuckets \ dump'.rest :
                             Alike(dump'.read[c], FirstsOf(lists', dump'.sizes)[c])
                        /\ Clean' => Accounted(FirstsOf(lists', dump'.sizes), stored', gone')
      <4>1. dump'.step # "ids"
        BY <2>3
      <4> QED
        BY <4>1, Zenon DEF ReadsPrefix
    <3>1. DumpBuckets \ dump'.rest \subseteq (DumpBuckets \ dump.rest) \cup {b}
      BY <2>3
    <3> QED
      BY <1>2, <1>8, <1>11, <2>3, <3>1
  <2>8. DirsAccount'
    <3>1. /\ UNCHANGED <<stored, gone, loaded, dirs, synced, clock>>
          /\ dump'.step # "vectors" /\ dump'.step # "done"
      BY <1>2, <1>11, <2>1, <2>3
    <3> QED
      BY <1>1, <3>1, Zenon DEF DirsAccount, Clean
  <2>9. dirs' \in [DOMAIN dirs' -> DirType] /\ DOMAIN dirs' \subseteq 1 .. clock'
    BY <1>2, <1>9, <2>1
  <2> QED
    BY <1>2, <1>3, <1>9, <2>4, <2>5, <2>6, <2>7, <2>8, <2>9, DumpsKeep
<1>13. CASE dump.rest = {b}
  <2> DEFINE d == [dirs[clock] EXCEPT !.index = "whole", !.lists = read, !.torn = unsure]
  <2>1. dump' = [step |-> "vectors", dir |-> clock] /\ dirs' = [dirs EXCEPT ![clock] = d]
    BY <1>2, <1>3, <1>13
  <2>2. d \in DirType /\ d.index = "whole" /\ d.lists = read /\ d.torn = unsure /\ ~d.done
    <3>1. unsure \in BOOLEAN
      BY <1>2, <1>9
    <3> HIDE DEF ListsType
    <3> QED
      BY <1>7, <1>10, <3>1 DEF DirType
  <2> HIDE DEF d
  <2>3. /\ DOMAIN dirs' = DOMAIN dirs /\ dirs' \in [DOMAIN dirs' -> DirType]
        /\ DOMAIN dirs' \subseteq 1 .. clock
        /\ dirs'[clock] = d /\ \A s \in DOMAIN dirs : s # clock => dirs'[s] = dirs[s]
    BY <1>1, <1>10, <2>1, <2>2, RunningDirChanges
  <2>4. dump'.step = "vectors" /\ dump'.step \in Resting /\ dump' = [step |-> dump'.step, dir |-> clock]
    BY <2>1 DEF Resting
  <2>5. DumpType'
    BY <1>2, <2>4 DEF DumpType
  <2>6. RunningDir'
    BY <1>2, <1>10, <2>2, <2>3, <2>4 DEF RunningDir
  <2>7. DoneDirs' = DoneDirs /\ \A s \in DoneDirs : s # clock /\ dirs'[s] = dirs[s]
    BY <1>10, <2>2, <2>3 DEF DoneDirs
  <2>8. MarkedAreWhole'
    BY <1>1, <1>2, <2>7 DEF MarkedAreWhole
  <2>9. SyncedButLate'
    BY <1>2, <1>3, <2>4 DEF SyncedButLate
  <2>10. ReadsPrefix'
    BY <2>4 DEF ReadsPrefix
  <2>11. DirsAccount'
    <3> SUFFICES ASSUME Clean, NEW s \in DOMAIN dirs', dirs'[s].index = "whole", ~dirs'[s].torn
                 PROVE  /\ dirs'[s].done => Accounted(dirs'[s].lists, synced, gone)
                        /\ s = clock => Accounted(dirs'[s].lists, stored, gone)
      <4>1. dump'.step # "done" /\ UNCHANGED <<synced, stored, gone, clock>>
        BY <1>2, <1>11, <2>4
      <4> QED
        BY <1>11, <4>1, Zenon DEF DirsAccount
    <3>1. CASE s = clock
      <4>1. ~unsure /\ dirs'[s].lists = read /\ ~dirs'[s].done
        BY <2>2, <2>3, <3>1
      <4>2. \A c \in DumpBuckets : c \in (DumpBuckets \ dump.rest) \cup {b}
        BY <1>13
      <4>3. /\ \A c \in DumpBuckets : Alike(FirstsOf(lists, dump.sizes)[c], read[c])
            /\ Accounted(FirstsOf(lists, dump.sizes), stored, gone)
            /\ FirstsOf(lists, dump.sizes) \in ListsType
        <5>1. \A c \in DumpBuckets : Alike(read[c], FirstsOf(lists, dump.sizes)[c])
          BY <1>8, <4>1, <4>2
        <5>2. /\ Accounted(FirstsOf(lists, dump.sizes), stored, gone)
              /\ FirstsOf(lists, dump.sizes) \in ListsType
          BY <1>4, <1>5, <1>8, <4>1, FirstsAre
        <5> QED
          BY <5>1, <5>2, Zenon DEF Alike
      <4>4. Accounted(read, stored, gone)
        BY <1>7, <4>3, AlikeAccount
      <4> QED
        BY <4>1, <4>4
    <3>2. CASE s # clock
      <4>1. s \in DOMAIN dirs /\ dirs'[s] = dirs[s]
        BY <2>3, <3>2
      <4> QED
        BY <1>1, <3>2, <4>1 DEF DirsAccount
    <3> QED
      BY <3>1, <3>2
  <2> QED
    BY <1>2, <1>3, <1>9, <2>3, <2>5, <2>6, <2>8, <2>9, <2>10, <2>11, DumpsKeep
<1> QED
  BY <1>12, <1>13

\* The vectors are written, those that came during the dump with them.
LEMMA SyncVectorsStep ==
  ASSUME DumpIInv, SyncVectors
  PROVE  DumpIInv'
<1>1. DumpTypes /\ RunningDir /\ MarkedAreWhole /\ SyncedButLate /\ DirsAccount /\ DownIsEmpty
  BY DEF DumpIInv
<1>2. /\ dump.step = "vectors" /\ OnlyDump /\ synced' = stored
      /\ dump' = [dump EXCEPT !.step = "done"]
      /\ UNCHANGED <<clock, dirty, lastDir, dirs, late, unsure>>
  BY DEF SyncVectors
<1>3. engine = "up" /\ dirty /\ dump = [step |-> "vectors", dir |-> clock]
  <2>1. dump.step # "none" /\ dump.step \in Resting
    BY <1>2 DEF Resting
  <2>2. DumpType
    BY <1>1 DEF DumpTypes
  <2> QED
    BY <1>1, <1>2, <2>1, <2>2, DumpsAreUp, DumpIs DEF SyncedButLate
<1>4. /\ dump'.step = "done" /\ dump'.step \in Resting
      /\ dump' = [step |-> dump'.step, dir |-> clock]
  BY <1>2, <1>3 DEF Resting
<1>5. DumpType'
  BY <1>2, <1>4 DEF DumpType
<1>6. RunningDir' /\ MarkedAreWhole'
  BY <1>1, <1>2, <1>4 DEF RunningDir, MarkedAreWhole, DoneDirs
<1>7. synced' = stored' /\ stored' = stored /\ stored \in Nat /\ synced \in Nat /\ synced <= stored
      /\ UNCHANGED <<stored, gone, loaded>> /\ Clean' = Clean
  BY <1>1, <1>2 DEF OnlyDump, DumpTypes, Clean
<1>8. SyncedButLate'
  <2>1. AllLate'
    BY <1>7 DEF AllLate
  <2> QED
    BY <1>2, <1>3, <2>1 DEF SyncedButLate
<1>9. ReadsPrefix'
  BY <1>4 DEF ReadsPrefix
<1>10. DirsAccount'
  <2> SUFFICES ASSUME Clean, NEW s \in DOMAIN dirs, dirs[s].index = "whole", ~dirs[s].torn,
                      dirs[s].done \/ s = clock
               PROVE  Accounted(dirs[s].lists, stored, gone)
    BY <1>2, <1>4, <1>7 DEF DirsAccount
  <2>1. CASE s = clock
    BY <1>1, <1>2, <2>1 DEF DirsAccount
  <2>2. CASE dirs[s].done
    <3>1. Accounted(dirs[s].lists, synced, gone)
      BY <1>1, <2>2 DEF DirsAccount
    <3>2. dirs[s].lists \in ListsType
      <4>1. dirs[s] \in DirType
        BY <1>1 DEF DumpTypes
      <4> QED
        BY <4>1 DEF DirType
    <3> QED
      BY <1>7, <3>1, <3>2, AccountedLater
  <2> QED
    BY <2>1, <2>2
<1>11. synced' \in Nat /\ synced' <= stored /\ dirty' \in BOOLEAN /\ unsure' \in BOOLEAN
       /\ clock' \in 0 .. MaxDumps /\ lastDir' \in 0 .. clock' /\ DOMAIN dirs' \subseteq 1 .. clock'
       /\ dirs' \in [DOMAIN dirs' -> DirType]
  BY <1>1, <1>2 DEF DumpTypes
<1> QED
  BY <1>2, <1>3, <1>5, <1>6, <1>8, <1>9, <1>10, <1>11, DumpsKeep

\* The directory is marked as done.
LEMMA WriteDoneStep ==
  ASSUME DumpIInv, WriteDone
  PROVE  DumpIInv'
<1>1. DumpTypes /\ RunningDir /\ MarkedAreWhole /\ SyncedButLate /\ DirsAccount /\ DownIsEmpty
  BY DEF DumpIInv
<1>2. /\ dump.step = "done" /\ OnlyDump /\ dump' = [dump EXCEPT !.step = "last"]
      /\ UNCHANGED <<clock, synced, dirty, lastDir, late, unsure>>
  BY DEF WriteDone
<1>3. engine = "up" /\ dirty /\ AllLate /\ dump = [step |-> "done", dir |-> clock]
  <2>1. dump.step # "none" /\ dump.step \in Resting
    BY <1>2 DEF Resting
  <2>2. DumpType
    BY <1>1 DEF DumpTypes
  <2> QED
    BY <1>1, <1>2, <2>1, <2>2, DumpsAreUp, DumpIs DEF SyncedButLate
<1>4. /\ clock \in DOMAIN dirs /\ lastDir < clock /\ dirs[clock].index = "whole"
      /\ dirs[clock] \in DirType
  <2>1. clock \in DOMAIN dirs /\ lastDir < clock /\ dirs[clock].index = "whole"
    BY <1>1, <1>2 DEF RunningDir
  <2> QED
    BY <1>1, <2>1 DEF DumpTypes
<1> DEFINE d == [dirs[clock] EXCEPT !.done = TRUE]
<1>5. /\ d \in DirType /\ d.done /\ d.index = "whole" /\ d.torn = dirs[clock].torn
      /\ d.lists = dirs[clock].lists
  BY <1>4 DEF DirType
<1>6. dirs' = [dirs EXCEPT ![clock] = d]
  <2>1. dump.dir = clock
    BY <1>3
  <2> QED
    BY <2>1 DEF WriteDone
<1> HIDE DEF d
<1>7. /\ DOMAIN dirs' = DOMAIN dirs /\ dirs' \in [DOMAIN dirs' -> DirType]
      /\ DOMAIN dirs' \subseteq 1 .. clock
      /\ dirs'[clock] = d /\ \A s \in DOMAIN dirs : s # clock => dirs'[s] = dirs[s]
  BY <1>1, <1>4, <1>5, <1>6, RunningDirChanges
<1>8. /\ dump'.step = "last" /\ dump'.step \in Resting
      /\ dump' = [step |-> dump'.step, dir |-> clock]
  BY <1>2, <1>3 DEF Resting
<1>9. DumpType'
  BY <1>2, <1>8 DEF DumpType
<1>10. RunningDir'
  BY <1>2, <1>4, <1>5, <1>7, <1>8 DEF RunningDir
<1>11. DoneDirs \subseteq DoneDirs' /\ \A s \in DoneDirs' : s = clock \/ (s \in DoneDirs /\ dirs'[s] = dirs[s])
  BY <1>5, <1>7 DEF DoneDirs
<1>12. MarkedAreWhole'
  <2>1. \A s \in DoneDirs' : dirs'[s].index = "whole"
    BY <1>1, <1>5, <1>7, <1>11 DEF MarkedAreWhole
  <2> QED
    BY <1>1, <1>2, <1>11, <2>1 DEF MarkedAreWhole
<1>13. SyncedButLate'
  <2>1. AllLate'
    BY <1>2, <1>3 DEF AllLate, OnlyDump
  <2> QED
    BY <1>2, <1>3, <2>1 DEF SyncedButLate
<1>14. ReadsPrefix'
  BY <1>8 DEF ReadsPrefix
<1>15. DirsAccount'
  <2> SUFFICES ASSUME Clean, NEW s \in DOMAIN dirs', dirs'[s].index = "whole", ~dirs'[s].torn,
                      dirs'[s].done
               PROVE  Accounted(dirs'[s].lists, synced, gone)
    BY <1>2, <1>8 DEF DirsAccount, OnlyDump, Clean
  <2>1. CASE s = clock
    BY <1>1, <1>2, <1>4, <1>5, <1>7, <2>1 DEF DirsAccount
  <2>2. CASE s # clock
    <3>1. s \in DOMAIN dirs /\ dirs'[s] = dirs[s]
      BY <1>7, <2>2
    <3> QED
      BY <1>1, <3>1 DEF DirsAccount
  <2> QED
    BY <2>1, <2>2
<1>16. synced' \in Nat /\ synced' <= stored /\ dirty' \in BOOLEAN /\ unsure' \in BOOLEAN
       /\ clock' \in 0 .. MaxDumps /\ lastDir' \in 0 .. clock' /\ DOMAIN dirs' \subseteq 1 .. clock'
  BY <1>1, <1>2, <1>7 DEF DumpTypes
<1> QED
  BY <1>2, <1>3, <1>7, <1>9, <1>10, <1>12, <1>13, <1>14, <1>15, <1>16, DumpsKeep

\* The directory before goes once this one is done.
LEMMA RemoveLastStep ==
  ASSUME DumpIInv, RemoveLast
  PROVE  DumpIInv'
<1>1. DumpTypes /\ RunningDir /\ MarkedAreWhole /\ SyncedButLate /\ DirsAccount /\ DownIsEmpty
  BY DEF DumpIInv
<1>2. /\ dump.step = "last" /\ OnlyDump /\ dump' = NoDump /\ lastDir' = dump.dir
      /\ dirty' = FALSE /\ dirs' = [s \in DOMAIN dirs \ {lastDir} |-> dirs[s]]
      /\ UNCHANGED <<clock, synced, late, unsure>>
  BY DEF RemoveLast
<1>3. engine = "up" /\ AllLate /\ lastDir' = clock
  <2>1. dump.step # "none" /\ dump.step \in Resting
    BY <1>2 DEF Resting
  <2>2. DumpType
    BY <1>1 DEF DumpTypes
  <2> QED
    BY <1>1, <1>2, <2>1, <2>2, DumpsAreUp, DumpIs DEF SyncedButLate
<1>4. /\ clock \in DOMAIN dirs /\ lastDir < clock /\ dirs[clock].done /\ clock \in Nat
      /\ dirs \in [DOMAIN dirs -> DirType] /\ DOMAIN dirs \subseteq 1 .. clock
      /\ clock \in 0 .. MaxDumps /\ lastDir \in 0 .. clock
  BY <1>1, <1>2 DEF RunningDir, DumpTypes
<1>5. /\ DOMAIN dirs' = DOMAIN dirs \ {lastDir} /\ clock \in DOMAIN dirs'
      /\ \A s \in DOMAIN dirs' : s \in DOMAIN dirs /\ dirs'[s] = dirs[s]
  <2>1. clock # lastDir
    BY <1>4
  <2> QED
    BY <1>2, <1>4, <2>1
<1>6. dirs' \in [DOMAIN dirs' -> DirType] /\ DOMAIN dirs' \subseteq 1 .. clock'
  <2>1. \A s \in DOMAIN dirs' : dirs'[s] \in DirType
    BY <1>4, <1>5
  <2>2. dirs' = [s \in DOMAIN dirs' |-> dirs'[s]]
    BY <1>2
  <2>3. DOMAIN dirs' \subseteq 1 .. clock'
    BY <1>2, <1>4, <1>5
  <2> HIDE DEF DirType
  <2> QED
    BY <2>1, <2>2, <2>3
<1>7. dump'.step = "none"
  BY <1>2 DEF NoDump
<1>8. DumpType'
  BY <1>2 DEF DumpType, NoDump
<1>9. RunningDir' /\ ReadsPrefix'
  BY <1>7 DEF RunningDir, ReadsPrefix
<1>10. MarkedAreWhole'
  <2>1. \A s \in DoneDirs' : s \in DoneDirs /\ dirs'[s] = dirs[s]
    BY <1>5 DEF DoneDirs
  <2>2. clock \in DoneDirs'
    BY <1>4, <1>5 DEF DoneDirs
  <2> QED
    BY <1>1, <1>3, <2>1, <2>2 DEF MarkedAreWhole
<1>11. SyncedButLate'
  <2>1. AllLate'
    BY <1>2, <1>3 DEF AllLate, OnlyDump
  <2> QED
    BY <1>7, <2>1 DEF SyncedButLate
<1>12. DirsAccount'
  <2> SUFFICES ASSUME Clean, NEW s \in DOMAIN dirs', dirs'[s].index = "whole", ~dirs'[s].torn,
                      dirs'[s].done
               PROVE  Accounted(dirs'[s].lists, synced, gone)
    BY <1>2, <1>7 DEF DirsAccount, OnlyDump, Clean
  <2>1. s \in DOMAIN dirs /\ dirs'[s] = dirs[s]
    BY <1>5
  <2> QED
    BY <1>1, <2>1 DEF DirsAccount
<1>13. synced' \in Nat /\ synced' <= stored /\ dirty' \in BOOLEAN /\ unsure' \in BOOLEAN
       /\ clock' \in 0 .. MaxDumps /\ lastDir' \in 0 .. clock'
  <2>1. synced' = synced /\ unsure' = unsure /\ clock' = clock
    BY <1>2
  <2>2. synced \in Nat /\ synced <= stored /\ unsure \in BOOLEAN
    BY <1>1 DEF DumpTypes
  <2>3. dirty' \in BOOLEAN
    BY <1>2
  <2> QED
    BY <1>3, <1>4, <2>1, <2>2, <2>3
<1> QED
  BY <1>2, <1>3, <1>6, <1>8, <1>9, <1>10, <1>11, <1>12, <1>13, DumpsKeep

-----------------------------------------------------------------------------
(* From one process to the next.                                           *)

\* Empty lists are full.
LEMMA NoListsAreFull ==
  NoLists \in ListsType /\ Full(NoLists, 0, gone)
<1>1. NoLists \in ListsType
  <2>1. << >> \in Seq(Entries)
    <3> HIDE DEF Entries
    <3> QED
      OBVIOUS
  <2> QED
    BY <2>1, Zenon DEF NoLists, ListsType
<1>2. LivePlaces(NoLists) = {}
  <2> SUFFICES ASSUME NEW p \in LivePlaces(NoLists) PROVE FALSE
    OBVIOUS
  <2>1. p \in Places(NoLists)
    BY DEF LivePlaces
  <2>2. p[1] \in DumpBuckets /\ p[2] \in DOMAIN NoLists[p[1]]
    BY <2>1, PlaceIs
  <2>3. NoLists[p[1]] = << >>
    BY <2>2 DEF NoLists
  <2> QED
    BY <2>2, <2>3
<1>3. Cardinality(LivePlaces(NoLists)) = 0
  BY <1>2, FS_EmptySet
<1>4. LiveOrGone(NoLists, 0, gone)
  BY DEF LiveOrGone
<1> QED
  BY <1>1, <1>3, <1>4 DEF Full

\* Without places nothing is out of place.
LEMMA NoPlacesAreLive ==
  DOMAIN NoPlaces = VectorIds /\ \A v \in VectorIds : NoPlaces[v] = << >>
  BY Zenon DEF NoPlaces

\* The process ends: what was synced is left.
LEMMA EndProcessStep ==
  ASSUME DumpIInv, EndProcess
  PROVE  DumpIInv'
<1>1. DumpTypes /\ MarkedAreWhole /\ DirsAccount
  BY DEF DumpIInv
<1>2. /\ engine' = "down" /\ stored' \in synced .. stored /\ synced' = stored'
      /\ version' = [v \in VectorIds |-> IF v < stored' THEN version[v] ELSE 1]
      /\ gone' = gone \cap (0 .. stored' - 1)
      /\ lists' = NoLists /\ place' = NoPlaces /\ indexed_count_' = 0 /\ updated' = << >>
      /\ dirty' = FALSE /\ lastDir' = 0 /\ dump' = NoDump /\ unsure' = FALSE
      /\ UNCHANGED <<clock, dirs, loaded>>
  BY DEF EndProcess
<1>3. /\ stored \in Nat /\ synced \in Nat /\ stored <= MaxVectors /\ MaxVectors \in Nat
      /\ stored' \in Nat /\ synced <= stored' /\ stored' <= MaxVectors
  BY <1>1, <1>2, DumpBounds DEF DumpTypes
<1>4. dump'.step = "none" /\ DumpType'
  BY <1>2 DEF NoDump, DumpType
<1>5. DumpTypes'
  <2>1. version' \in [VectorIds -> Versions]
    <3>1. \A v \in VectorIds : version[v] \in Versions
      BY <1>1 DEF DumpTypes
    <3> HIDE DEF Versions
    <3> QED
      BY <1>2, <3>1, DumpBounds
  <2>2. lists' \in ListsType /\ updated' \in Seq(VectorIds)
    <3>1. << >> \in Seq(VectorIds)
      <4> HIDE DEF VectorIds
      <4> QED
        OBVIOUS
    <3> QED
      BY <1>2, <3>1, NoListsAreFull
  <2>3. gone' \subseteq 0 .. (stored' - 1) /\ indexed_count_' \in 0 .. stored'
        /\ synced' \in Nat /\ synced' <= stored'
    BY <1>2, <1>3
  <2>4. /\ clock' \in 0 .. MaxDumps /\ lastDir' \in 0 .. clock'
        /\ dirs' \in [DOMAIN dirs' -> DirType] /\ DOMAIN dirs' \subseteq 1 .. clock'
        /\ loaded' \in [masks : BOOLEAN, torn : BOOLEAN]
    <3>1. /\ clock \in 0 .. MaxDumps /\ dirs \in [DOMAIN dirs -> DirType]
          /\ DOMAIN dirs \subseteq 1 .. clock /\ loaded \in [masks : BOOLEAN, torn : BOOLEAN]
      BY <1>1 DEF DumpTypes
    <3>2. 0 \in 0 .. clock
      BY <3>1
    <3>3. clock' = clock /\ lastDir' = 0 /\ dirs' = dirs /\ loaded' = loaded
      BY <1>2
    <3> QED
      BY <3>1, <3>2, <3>3, Zenon
  <2>5. dirty' \in BOOLEAN /\ unsure' \in BOOLEAN /\ engine' \in {"up", "down", "failed"}
    BY <1>2
  <2> QED
    BY <1>3, <1>4, <2>1, <2>2, <2>3, <2>4, <2>5, Zenon DEF DumpTypes
<1>6. PlacesAreLive'
  BY <1>2, NoPlacesAreLive DEF PlacesAreLive
<1>7. DownIsEmpty' /\ DumpsLoad' /\ IndexIsFull'
  BY <1>2 DEF DownIsEmpty, DumpsLoad, IndexIsFull
<1>8. RunningDir' /\ ReadsPrefix'
  BY <1>4 DEF RunningDir, ReadsPrefix
<1>9. MarkedAreWhole'
  BY <1>1, <1>2 DEF MarkedAreWhole, DoneDirs
<1>10. SyncedButLate'
  BY <1>2, <1>4 DEF SyncedButLate
<1>11. \A v \in gone : v < synced => v \in gone'
  <2>1. gone \subseteq 0 .. (stored - 1)
    BY <1>1 DEF DumpTypes
  <2>2. gone' = gone \cap (0 .. stored' - 1)
    BY <1>2
  <2> DEFINE left == stored'
  <2>3. left \in Nat /\ stored \in Nat /\ synced \in Nat /\ synced <= left
    BY <1>3
  <2> HIDE DEF left
  <2>4. \A v \in gone : v < synced => v \in 0 .. (left - 1)
    BY <2>1, <2>3
  <2> QED
    BY <2>2, <2>4 DEF left
<1>12. DirsAccount'
  <2> SUFFICES ASSUME Clean, NEW s \in DOMAIN dirs, dirs[s].index = "whole", ~dirs[s].torn,
                      dirs[s].done
               PROVE  Accounted(dirs[s].lists, stored', gone')
    BY <1>2, <1>4 DEF DirsAccount, Clean
  <2>1. Accounted(dirs[s].lists, synced, gone)
    BY <1>1 DEF DirsAccount
  <2>2. dirs[s].lists \in ListsType
    <3>1. dirs[s] \in DirType
      BY <1>1 DEF DumpTypes
    <3> QED
      BY <3>1 DEF DirType
  <2> QED
    BY <1>3, <1>11, <2>1, <2>2, AccountedLater
<1> QED
  BY <1>5, <1>6, <1>7, <1>8, <1>9, <1>10, <1>12 DEF DumpIInv

\* No dump was done: the index starts empty.
LEMMA LoadWithoutIndexStep ==
  ASSUME DumpIInv, LoadWithoutIndex
  PROVE  DumpIInv'
<1>1. DumpTypes /\ DownIsEmpty /\ PlacesAreLive
  BY DEF DumpIInv
<1>2. /\ engine = "down" /\ engine' = "up" /\ dirs' = << >>
      /\ UNCHANGED <<clock, stored, synced, version, gone, lists, place, indexed_count_,
                     updated, dirty, lastDir, dump, unsure, loaded>>
  BY DEF LoadWithoutIndex, dumpHistory
<1>3. /\ dump = NoDump /\ lastDir = 0 /\ ~dirty /\ synced = stored
      /\ lists = NoLists /\ indexed_count_ = 0 /\ dump.step = "none"
  BY <1>1, <1>2 DEF DownIsEmpty, NoDump
<1>4. DOMAIN dirs' = {} /\ dirs' \in [DOMAIN dirs' -> DirType] /\ DoneDirs' = {}
  <2> HIDE DEF DirType
  <2> QED
    BY <1>2 DEF DoneDirs
<1>5. DumpTypes'
  <2>1. DumpType'
    BY <1>2, <1>3 DEF DumpType
  <2>2. DOMAIN dirs' \subseteq 1 .. clock' /\ engine' \in {"up", "down", "failed"}
    BY <1>2, <1>4
  <2> QED
    BY <1>1, <1>2, <1>4, <2>1, <2>2, Zenon DEF DumpTypes
<1>6. PlacesAreLive'
  BY <1>1, <1>2, Zenon DEF PlacesAreLive
<1>7. DownIsEmpty' /\ DumpsLoad'
  BY <1>2 DEF DownIsEmpty, DumpsLoad
<1>8. RunningDir' /\ ReadsPrefix'
  BY <1>2, <1>3 DEF RunningDir, ReadsPrefix
<1>9. MarkedAreWhole'
  BY <1>2, <1>3, <1>4 DEF MarkedAreWhole
<1>10. SyncedButLate'
  BY <1>2, <1>3 DEF SyncedButLate
<1>11. IndexIsFull'
  BY <1>2, <1>3, NoListsAreFull, Zenon DEF IndexIsFull
<1>12. DirsAccount'
  BY <1>4 DEF DirsAccount
<1> QED
  BY <1>5, <1>6, <1>7, <1>8, <1>9, <1>10, <1>11, <1>12 DEF DumpIInv

\* The newest dump that is done is loaded; it cannot fail without masked entries
\* or a torn dump.
LEMMA LoadNewestStep ==
  ASSUME DumpIInv, LoadNewest
  PROVE  DumpIInv'
<1>1. DumpTypes /\ DownIsEmpty /\ PlacesAreLive /\ MarkedAreWhole /\ DirsAccount
  BY DEF DumpIInv
<1> DEFINE ls == dirs[Newest].lists
           n == LoadedCount(ls)
<1>2. /\ engine = "down" /\ DoneDirs # {}
      /\ loaded' = [masks |-> loaded.masks \/ HasMasks(ls),
                    torn |-> loaded.torn \/ dirs[Newest].torn]
      /\ IF dirs[Newest].index = "whole" /\ n \in 0 .. stored
         THEN /\ engine' = "up"
              /\ lists' = ls
              /\ place' = Noted(NoPlaces, ls, All)
              /\ indexed_count_' = n
              /\ lastDir' = Newest
              /\ dirs' = [s \in DoneDirs |-> dirs[s]]
         ELSE /\ engine' = "failed"
              /\ UNCHANGED <<lists, place, indexed_count_, lastDir, dirs>>
      /\ UNCHANGED <<clock, stored, synced, version, gone, updated, dirty, dump, late, unsure>>
  BY Zenon DEF LoadNewest
<1>3. /\ dump = NoDump /\ lastDir = 0 /\ ~dirty /\ synced = stored
      /\ lists = NoLists /\ indexed_count_ = 0 /\ dump.step = "none"
  BY <1>1, <1>2 DEF DownIsEmpty, NoDump
<1>4. /\ Newest \in DoneDirs /\ Newest \in DOMAIN dirs /\ dirs[Newest].done
      /\ dirs[Newest].index = "whole" /\ dirs[Newest] \in DirType /\ Newest \in 1 .. clock
  <2>1. clock \in Nat /\ DOMAIN dirs \subseteq 1 .. clock
    BY <1>1 DEF DumpTypes
  <2>2. Newest \in DoneDirs
    BY <1>2, <2>1, NewestIsDone
  <2>3. Newest \in DOMAIN dirs /\ dirs[Newest].done
    BY <2>2 DEF DoneDirs
  <2> QED
    BY <1>1, <2>1, <2>2, <2>3 DEF MarkedAreWhole, DumpTypes
<1>5. ls \in ListsType /\ dirs[Newest].torn \in BOOLEAN
  BY <1>4 DEF DirType
<1> HIDE DEF ls, n
<1>6. loaded' \in [masks : BOOLEAN, torn : BOOLEAN] /\ (Clean' => Clean /\ ~HasMasks(ls) /\ ~dirs[Newest].torn)
  <2>1. loaded.masks \in BOOLEAN /\ loaded.torn \in BOOLEAN
    BY <1>1 DEF DumpTypes
  <2>2. HasMasks(ls) \in BOOLEAN
    BY DEF HasMasks
  <2> QED
    BY <1>2, <1>5, <2>1, <2>2 DEF Clean
<1>7. ASSUME Clean, ~HasMasks(ls), ~dirs[Newest].torn
      PROVE  n \in 0 .. stored /\ Full(ls, n, gone)
  <2>1. Accounted(ls, synced, gone)
    BY <1>1, <1>4, <1>7 DEF DirsAccount, ls
  <2>2. n = Cardinality(Places(ls)) /\ LivePlaces(ls) = Places(ls) /\ n \in Nat
    BY <1>5, <1>7, PlainListsCount, PlacesAreFinite DEF n
  <2>3. n <= stored /\ ListedOrGone(ls, n, gone)
    BY <1>3, <1>7, <2>1, <2>2 DEF Accounted
  <2>4. LiveOrGone(ls, n, gone)
    <3> SUFFICES ASSUME NEW v \in 0 .. (n - 1), v \notin gone
                 PROVE  \E b \in DumpBuckets : EntriesOf(v, ls[b]) # {}
      BY Zenon DEF LiveOrGone
    <3>1. PICK b \in DumpBuckets : \E k \in DOMAIN ls[b] : ls[b][k].vid = v
      BY <2>3, Zenon DEF ListedOrGone
    <3>2. PICK k \in DOMAIN ls[b] : ls[b][k].vid = v
      BY <3>1
    <3>3. k \in EntriesOf(v, ls[b])
      BY <1>7, <3>2 DEF EntriesOf, HasMasks
    <3> QED
      BY <3>3
  <2>5. stored \in Nat /\ n <= n
    BY <1>1, <2>2 DEF DumpTypes
  <2> QED
    BY <2>2, <2>3, <2>4, <2>5 DEF Full
<1>8. CASE n \in 0 .. stored
  <2>1. /\ engine' = "up" /\ lists' = ls /\ place' = Noted(NoPlaces, ls, All)
        /\ indexed_count_' = n /\ lastDir' = Newest /\ dirs' = [s \in DoneDirs |-> dirs[s]]
    BY <1>2, <1>4, <1>8
  <2>2. /\ DOMAIN dirs' = DoneDirs /\ DoneDirs' = DoneDirs
        /\ \A s \in DoneDirs : dirs'[s] = dirs[s] /\ s \in DOMAIN dirs
    BY <2>1 DEF DoneDirs
  <2>3. DumpTypes'
    <3>1. DumpType'
      BY <1>2, <1>3 DEF DumpType
    <3>2. dirs' \in [DOMAIN dirs' -> DirType] /\ DOMAIN dirs' \subseteq 1 .. clock'
      <4>1. dirs \in [DOMAIN dirs -> DirType] /\ DOMAIN dirs \subseteq 1 .. clock
        BY <1>1 DEF DumpTypes
      <4>2. \A s \in DOMAIN dirs' : dirs'[s] \in DirType
        BY <2>2, <4>1
      <4>3. dirs' = [s \in DOMAIN dirs' |-> dirs'[s]]
        BY <2>1
      <4> HIDE DEF DirType
      <4> QED
        BY <1>2, <2>2, <4>1, <4>2, <4>3
    <3>3. lastDir' \in 0 .. clock' /\ engine' \in {"up", "down", "failed"}
      BY <1>2, <1>4, <2>1
    <3>4. lists' \in ListsType /\ indexed_count_' \in 0 .. stored'
      BY <1>2, <1>5, <1>8, <2>1
    <3> QED
      BY <1>1, <1>2, <1>6, <3>1, <3>2, <3>3, <3>4, Zenon DEF DumpTypes
  <2>4. PlacesAreLive'
    <3>1. DOMAIN place' = VectorIds
      BY <2>1, Zenon DEF Noted
    <3>2. ASSUME NEW v \in VectorIds PROVE place'[v] = << >> \/ LiveAt(v, place'[v], lists')
      BY <1>5, <2>1, NotedPlace, NoPlacesAreLive, Zenon
    <3> QED
      BY <3>1, <3>2, Zenon DEF PlacesAreLive
  <2>5. DownIsEmpty' /\ DumpsLoad'
    BY <2>1 DEF DownIsEmpty, DumpsLoad
  <2>6. RunningDir' /\ ReadsPrefix'
    BY <1>2, <1>3 DEF RunningDir, ReadsPrefix
  <2>7. MarkedAreWhole'
    BY <1>1, <1>4, <2>1, <2>2 DEF MarkedAreWhole
  <2>8. SyncedButLate'
    <3>1. AllLate'
      <4>1. stored \in Nat
        BY <1>1 DEF DumpTypes
      <4> QED
        BY <1>2, <1>3, <4>1 DEF AllLate
    <3> QED
      BY <1>2, <1>3, <3>1 DEF SyncedButLate
  <2>9. IndexIsFull'
    BY <1>2, <1>6, <1>7, <2>1, Zenon DEF IndexIsFull
  <2>10. DirsAccount'
    <3> SUFFICES ASSUME Clean', NEW s \in DOMAIN dirs', dirs'[s].index = "whole",
                        ~dirs'[s].torn, dirs'[s].done
                 PROVE  Accounted(dirs'[s].lists, synced, gone)
      BY <1>2, <1>3 DEF DirsAccount
    <3>1. s \in DOMAIN dirs /\ dirs'[s] = dirs[s] /\ Clean
      BY <1>6, <2>2
    <3> QED
      BY <1>1, <3>1 DEF DirsAccount
  <2> QED
    BY <2>3, <2>4, <2>5, <2>6, <2>7, <2>8, <2>9, <2>10 DEF DumpIInv
<1>9. CASE n \notin 0 .. stored
  <2>1. engine' = "failed" /\ UNCHANGED <<lists, place, indexed_count_, lastDir, dirs>>
    BY <1>2, <1>9
  <2>2. ~Clean' /\ (loaded'.masks \/ loaded'.torn)
    <3>1. ~Clean'
      BY <1>6, <1>7, <1>9
    <3> QED
      BY <3>1 DEF Clean
  <2>3. DumpTypes'
    <3>1. DumpType'
      BY <1>2, <1>3 DEF DumpType
    <3>2. engine' \in {"up", "down", "failed"}
      BY <2>1
    <3> QED
      BY <1>1, <1>2, <1>6, <2>1, <3>1, <3>2, Zenon DEF DumpTypes
  <2>4. PlacesAreLive' /\ MarkedAreWhole'
    BY <1>1, <1>2, <2>1, Zenon DEF PlacesAreLive, MarkedAreWhole, DoneDirs
  <2>5. DownIsEmpty'
    BY <1>2, <1>3, <2>1 DEF DownIsEmpty
  <2>6. RunningDir' /\ ReadsPrefix' /\ SyncedButLate'
    BY <1>2, <1>3, <2>1 DEF RunningDir, ReadsPrefix, SyncedButLate
  <2>7. IndexIsFull' /\ DirsAccount' /\ DumpsLoad'
    BY <2>2 DEF IndexIsFull, DirsAccount, DumpsLoad
  <2> QED
    BY <2>3, <2>4, <2>5, <2>6, <2>7 DEF DumpIInv
<1> QED
  BY <1>8, <1>9

-----------------------------------------------------------------------------
(* The theorems.                                                           *)

\* The invariant holds at the start.
LEMMA DumpInitInv == IndexDumpInit => DumpIInv
<1> SUFFICES ASSUME IndexDumpInit PROVE DumpIInv
  OBVIOUS
<1>1. /\ engine = "up" /\ clock = 0 /\ stored = 0 /\ synced = 0 /\ gone = {}
      /\ version = [v \in VectorIds |-> 1] /\ lists = NoLists /\ place = NoPlaces
      /\ indexed_count_ = 0 /\ updated = << >> /\ dirty = FALSE /\ lastDir = 0
      /\ dirs = << >> /\ dump = NoDump /\ unsure = FALSE /\ loaded = NothingLoaded
  BY DEF IndexDumpInit
<1>2. dump.step = "none" /\ DumpType
  BY <1>1 DEF NoDump, DumpType
<1>3. DOMAIN dirs = {} /\ dirs \in [DOMAIN dirs -> DirType] /\ DoneDirs = {}
  <2> HIDE DEF DirType
  <2> QED
    BY <1>1 DEF DoneDirs
<1>4. DumpTypes
  <2>1. version \in [VectorIds -> Versions] /\ lists \in ListsType /\ updated \in Seq(VectorIds)
    <3>1. << >> \in Seq(VectorIds)
      <4> HIDE DEF VectorIds
      <4> QED
        OBVIOUS
    <3> HIDE DEF VectorIds, Versions
    <3> QED
      BY <1>1, <3>1, DumpBounds, NoListsAreFull
  <2>2. /\ stored \in Nat /\ synced \in Nat /\ synced <= stored /\ stored <= MaxVectors
        /\ gone \subseteq 0 .. (stored - 1) /\ indexed_count_ \in 0 .. stored
        /\ clock \in 0 .. MaxDumps /\ lastDir \in 0 .. clock
    BY <1>1, DumpBounds
  <2>3. /\ engine \in {"up", "down", "failed"} /\ dirty \in BOOLEAN /\ unsure \in BOOLEAN
        /\ loaded \in [masks : BOOLEAN, torn : BOOLEAN] /\ DOMAIN dirs \subseteq 1 .. clock
    BY <1>1, <1>3 DEF NothingLoaded
  <2> QED
    BY <1>2, <1>3, <2>1, <2>2, <2>3 DEF DumpTypes
<1>5. PlacesAreLive
  BY <1>1, NoPlacesAreLive DEF PlacesAreLive
<1>6. DownIsEmpty /\ DumpsLoad
  BY <1>1 DEF DownIsEmpty, DumpsLoad
<1>7. RunningDir /\ ReadsPrefix
  BY <1>2 DEF RunningDir, ReadsPrefix
<1>8. MarkedAreWhole /\ SyncedButLate
  BY <1>1, <1>2, <1>3 DEF MarkedAreWhole, SyncedButLate
<1>9. IndexIsFull /\ DirsAccount
  BY <1>1, <1>3, NoListsAreFull DEF IndexIsFull, DirsAccount
<1> QED
  BY <1>4, <1>5, <1>6, <1>7, <1>8, <1>9 DEF DumpIInv

\* Every step keeps it, as long as no two dumps begin in one second.
LEMMA DumpStepInv ==
  ASSUME ~SameSecond, DumpIInv, [IndexDumpNext]_indexDumpVars
  PROVE  DumpIInv'
<1>1. CASE AddVector
  BY <1>1, AddVectorStep
<1>2. CASE AddRTVecs
  BY <1>2, AddRTVecsStep
<1>3. CASE UpdateIndex
  BY <1>3, UpdateIndexStep
<1>4. CASE UpdateLater
  BY <1>4, UpdateLaterStep
<1>5. CASE CompactIfNeed
  BY <1>5, CompactIfNeedStep
<1>6. CASE \E v \in VectorIds : ChangeVector(v) \/ DropVector(v)
  BY <1>6, ChangeVectorStep, DropVectorStep
<1>7. CASE BeginDump
  BY <1>7, BeginDumpStep
<1>8. CASE WriteSizes
  BY <1>8, WriteSizesStep
<1>9. CASE WriteCodes
  BY <1>9, WriteCodesStep
<1>10. CASE WriteIds
  BY <1>10, WriteIdsStep
<1>11. CASE SyncVectors
  BY <1>11, SyncVectorsStep
<1>12. CASE WriteDone
  BY <1>12, WriteDoneStep
<1>13. CASE RemoveLast
  BY <1>13, RemoveLastStep
<1>14. CASE EndProcess
  BY <1>14, EndProcessStep
<1>15. CASE LoadWithoutIndex
  BY <1>15, LoadWithoutIndexStep
<1>16. CASE LoadNewest
  BY <1>16, LoadNewestStep
<1>17. CASE UNCHANGED indexDumpVars
  <2>1. UNCHANGED <<engine, clock, stored, synced, version, gone, lists, place, indexed_count_,
                    updated, dirty, lastDir, dirs, dump, late, unsure, loaded>>
    BY <1>17 DEF indexDumpVars, dumpVars, dumpHistory
  <2>2. DumpTypes' /\ PlacesAreLive' /\ DownIsEmpty'
    BY <2>1, Zenon DEF DumpIInv, DumpTypes, DumpType, PlacesAreLive, DownIsEmpty
  <2>3. RunningDir' /\ MarkedAreWhole' /\ SyncedButLate'
    BY <2>1, Zenon DEF DumpIInv, RunningDir, MarkedAreWhole, SyncedButLate, AllLate, DoneDirs
  <2>4. IndexIsFull' /\ ReadsPrefix' /\ DirsAccount' /\ DumpsLoad'
    BY <2>1, Zenon DEF DumpIInv, IndexIsFull, ReadsPrefix, DirsAccount, DumpsLoad, Clean,
                       NextBucket
  <2> QED
    BY <2>2, <2>3, <2>4 DEF DumpIInv
<1> QED
  BY <1>1, <1>2, <1>3, <1>4, <1>5, <1>6, <1>7, <1>8, <1>9, <1>10, <1>11, <1>12, <1>13, <1>14,
     <1>15, <1>16, <1>17 DEF IndexDumpNext

\* The invariant of dumps in seconds of their own: what a dump reads while
\* vectors come, change and go, what is marked as done, and what it accounts for.
THEOREM DumpsAccount ==
  ASSUME ~SameSecond
  PROVE  IndexDumpSpec => []DumpIInv
<1>1. IndexDumpInit => DumpIInv
  BY DumpInitInv
<1>2. DumpIInv /\ [IndexDumpNext]_indexDumpVars => DumpIInv'
  BY DumpStepInv
<1> QED
  BY <1>1, <1>2, PTL DEF IndexDumpSpec

\* Whenever a process ends, the newest dump marked as done is whole, loads unless
\* masked entries or a torn dump were loaded, and has every vector of an engine
\* that is not dirty but those added meanwhile (gamma_engine.cc:1531-1548).
THEOREM DumpsServe ==
  ASSUME ~SameSecond
  PROVE  IndexDumpSpec => []NewestDumpServes
<1>1. DumpIInv => NewestDumpServes
  <2> SUFFICES ASSUME DumpIInv PROVE NewestDumpServes
    OBVIOUS
  <2>1. DumpTypes /\ MarkedAreWhole /\ SyncedButLate /\ DumpsLoad
    BY DEF DumpIInv
  <2>2. IndexDumpTypeOK
    <3>1. /\ clock \in 0 .. MaxDumps /\ lastDir \in 0 .. clock
          /\ DOMAIN dirs \subseteq 1 .. clock /\ synced \in Nat
      BY <2>1 DEF DumpTypes
    <3>2. 0 <= synced /\ lastDir \in 0 .. MaxDumps /\ DOMAIN dirs \subseteq 1 .. MaxDumps
      BY <3>1, DumpBounds
    <3> QED
      BY <2>1, <3>2 DEF DumpTypes, IndexDumpTypeOK
  <2>3. NewestDumpIsWhole
    <3>1. clock \in Nat /\ DOMAIN dirs \subseteq 1 .. clock
      BY <2>1 DEF DumpTypes
    <3>2. DoneDirs # {} => Newest \in DoneDirs
      BY <3>1, NewestIsDone
    <3> QED
      BY <2>1, <3>2 DEF MarkedAreWhole, NewestDumpIsWhole
  <2>4. CleanMeansDumped
    BY <2>1 DEF SyncedButLate, AllLate, CleanMeansDumped
  <2> QED
    BY <2>1, <2>2, <2>3, <2>4 DEF NewestDumpServes
<1> QED
  BY <1>1, DumpsAccount, PTL

\* Indexing goes on behind the vectors that count as indexed, loaded or not, and
\* none of these is without an entry unless its document is gone
\* (vector_manager.cc:861).
THEOREM IndexingMissesNone ==
  ASSUME ~SameSecond
  PROVE  IndexDumpSpec => []NoVectorIsSkipped
<1>1. DumpIInv => NoVectorIsSkipped
  <2> SUFFICES ASSUME DumpIInv PROVE NoVectorIsSkipped
    OBVIOUS
  <2>1. IndexIsFull
    BY DEF DumpIInv
  <2> QED
    BY <2>1, Zenon DEF IndexIsFull, Clean, Full, LiveOrGone, NoVectorIsSkipped
<1> QED
  BY <1>1, DumpsAccount, PTL
=============================================================================

-------------------------- MODULE LeveledMapProofs --------------------------
(***************************************************************************)
(* Lemmas about LeveledMap: what reading, merging, compacting and writing  *)
(* a stack of levels do, for every number of levels, every set of keys and *)
(* every set of expire times.                                              *)
(*                                                                         *)
(* They rest on one property of a stack: Sound.  A level may hold an entry *)
(* only above older entries of the same key, or a tombstone above the same *)
(* tombstone; no entry is newer than the seq counter of its level, and the *)
(* counters grow with the levels.                                          *)
(***************************************************************************)
EXTENDS LeveledMap, SequenceTheorems, WellFoundedInduction, TLAPS

\* what an entry holds: an expire time, 0 for none, or the key an expire entry points to
Val == {0} \union Times \union StrKeys

\* records are kept by user key, the expire index by expire time and seq
MapKey == StrKeys \union (Times \X Nat)

\* Marked: a record or a tombstone, with its internal seq
Entry == [seq : Nat, tomb : BOOLEAN, val : Val]

PartialMap == UNION {[D -> Entry] : D \in SUBSET MapKey}

\* one level: sys_data and the two maps
LevelType == [seq : Nat, applied : Nat, data : PartialMap]

-----------------------------------------------------------------------------
(* Partial maps and levels *)

\* A level's map, a BTreeMap in the code, is determined by its keys and their entries.
LEMMA MapFacts ==
    ASSUME NEW f \in PartialMap
    PROVE  /\ DOMAIN f \subseteq MapKey
           /\ f \in [DOMAIN f -> Entry]
           /\ f = [k \in DOMAIN f |-> f[k]]
           /\ \A k \in DOMAIN f : f[k] \in Entry
<1>1. PICK D \in SUBSET MapKey : f \in [D -> Entry]
  BY DEF PartialMap
<1>2. QED
  BY <1>1

\* A function from some of the keys to entries is the map of a level.
LEMMA MapIntro ==
    ASSUME NEW D \in SUBSET MapKey, NEW f \in [D -> Entry]
    PROVE  f \in PartialMap
BY DEF PartialMap

\* A level built from its parts has these parts.
LEMMA LevelFacts ==
    ASSUME NEW s \in Nat, NEW n \in Nat, NEW d \in PartialMap
    PROVE  /\ Level(s, n, d) \in LevelType
           /\ Level(s, n, d).seq = s
           /\ Level(s, n, d).applied = n
           /\ Level(s, n, d).data = d
BY DEF Level, LevelType

\* A level is made of its seq, its last_applied and its map, each of its kind.
LEMMA LevelParts ==
    ASSUME NEW l \in LevelType
    PROVE  /\ l = Level(l.seq, l.applied, l.data)
           /\ l.seq \in Nat
           /\ l.applied \in Nat
           /\ l.data \in PartialMap
BY DEF Level, LevelType

\* Marked::empty() is a tombstone, and a new level has no key.
LEMMA NotFoundFacts ==
    /\ NotFound \in Entry
    /\ NotFound.tomb
    /\ NoData \in PartialMap
    /\ DOMAIN NoData = {}
<1>1. NotFound \in Entry /\ NotFound.tomb
  BY DEF NotFound, Tombstone, Entry, Val
<1>2. NoData \in [{} -> Entry] /\ DOMAIN NoData = {}
  BY DEF NoData
<1>3. QED
  BY <1>1, <1>2, MapIntro, Zenon

-----------------------------------------------------------------------------
(* Reading *)

\* A set of level numbers that is not empty has a greatest one, which Top finds: the
\* newest level that get() stops at exists.
LEMMA TopFacts ==
    ASSUME NEW n \in Nat, NEW S \in SUBSET (1 .. n), S # {}
    PROVE  /\ Top(S) \in S
           /\ \A j \in S : j <= Top(S)
<1> DEFINE R == OpToRel(<, Nat)
           T == {n - i : i \in S}
<1>1. T \subseteq Nat
  OBVIOUS
<1>1a. T # {}
  BY Zenon
<1>2. IsWellFoundedOn(R, Nat)
  BY Zenon, NatLessThanWellFounded
<1>3. \A x, y \in Nat : <<y, x>> \in R <=> y < x
  BY DEF OpToRel
<1> HIDE DEF R
<1>4. PICK x \in T : \A y \in T : ~(<<y, x>> \in R)
  BY <1>1, <1>1a, <1>2, WFMin, Zenon
<1>5. \A y \in T : x <= y
  <2> HIDE DEF T
  <2> TAKE y \in T
  <2>1. x \in Nat /\ y \in Nat /\ ~(<<y, x>> \in R)
    BY <1>1, <1>4
  <2>2. ~(y < x)
    BY <2>1, <1>3
  <2> QED BY <2>1, <2>2
<1>6. PICK i \in S : x = n - i
  OBVIOUS
<1>7. \A j \in S : j <= i
  BY <1>5, <1>6
<1>8. QED
  BY <1>7, Zenon DEF Top

\* A key is in a stack of levels when some level has it; Holding names these levels.
LEMMA KeysFacts ==
    ASSUME NEW st \in Seq(LevelType), NEW k
    PROVE  /\ k \in Keys(st) <=> \E i \in 1 .. Len(st) : k \in DOMAIN st[i].data
           /\ Len(st) \in Nat
           /\ Holding(st, k) = {i \in 1 .. Len(st) : k \in DOMAIN st[i].data}
<1>1. DOMAIN st = 1 .. Len(st) /\ Len(st) \in Nat
  BY LenProperties
<1>2. QED
  BY <1>1 DEF Keys, Holding

\* compacted_get of a key that some level has returns the entry of the newest such level.
LEMMA GetFacts ==
    ASSUME NEW st \in Seq(LevelType), NEW k \in Keys(st)
    PROVE  \E i \in 1 .. Len(st) :
              /\ k \in DOMAIN st[i].data
              /\ compacted_get(st, k) = st[i].data[k]
              /\ \A j \in 1 .. Len(st) : k \in DOMAIN st[j].data => j <= i
<1> DEFINE H == Holding(st, k)
<1>1. H = {i \in 1 .. Len(st) : k \in DOMAIN st[i].data} /\ Len(st) \in Nat
  BY KeysFacts
<1>2. H # {}
  BY <1>1, KeysFacts
<1>3. H \in SUBSET (1 .. Len(st))
  BY <1>1
<1> HIDE DEF H
<1>4. Top(H) \in H /\ \A j \in H : j <= Top(H)
  BY <1>1, <1>2, <1>3, TopFacts, Zenon
<1>5. compacted_get(st, k) = st[Top(H)].data[k]
  BY <1>2 DEF compacted_get, H
<1>6. QED
  BY <1>1, <1>4, <1>5, Zenon

\* The entry that compacted_get returns is the one in the level above which no level has
\* the key.
LEMMA GetUnique ==
    ASSUME NEW st \in Seq(LevelType), NEW k, NEW i \in 1 .. Len(st), k \in DOMAIN st[i].data,
           \A j \in 1 .. Len(st) : k \in DOMAIN st[j].data => j <= i
    PROVE  k \in Keys(st) /\ compacted_get(st, k) = st[i].data[k]
<1>1. k \in Keys(st) /\ Len(st) \in Nat
  BY KeysFacts
<1>2. PICK m \in 1 .. Len(st) :
          /\ k \in DOMAIN st[m].data
          /\ compacted_get(st, k) = st[m].data[k]
          /\ \A j \in 1 .. Len(st) : k \in DOMAIN st[j].data => j <= m
  BY <1>1, GetFacts
<1>3. m = i
  BY <1>1, <1>2
<1>4. QED
  BY <1>1, <1>2, <1>3

\* compacted_get of a key that no level has returns Marked::empty().
LEMMA GetNone ==
    ASSUME NEW st \in Seq(LevelType), NEW k, k \notin Keys(st)
    PROVE  compacted_get(st, k) = NotFound
<1>1. Holding(st, k) = {}
  BY KeysFacts
<1>2. QED
  BY <1>1 DEF compacted_get

\* Reading two stacks of levels, one on top of the other: a key that the upper one has is
\* read there, any other key in the lower one, as get() goes on to the persisted level.
LEMMA GetConcat ==
    ASSUME NEW s \in Seq(LevelType), NEW t \in Seq(LevelType), NEW k
    PROVE  /\ k \in Keys(s \o t) <=> k \in Keys(s) \/ k \in Keys(t)
           /\ k \in Keys(t) => compacted_get(s \o t, k) = compacted_get(t, k)
           /\ k \notin Keys(t) => compacted_get(s \o t, k) = compacted_get(s, k)
<1>1. PICK u : u = s \o t
  BY Zenon
<1>2. /\ u \in Seq(LevelType)
      /\ Len(u) = Len(s) + Len(t)
      /\ \A i \in 1 .. Len(s) + Len(t) : u[i] = IF i <= Len(s) THEN s[i] ELSE t[i - Len(s)]
  BY <1>1, ConcatProperties
<1>3. Len(s) \in Nat /\ Len(t) \in Nat
  BY LenProperties
<1>4. \A i \in 1 .. Len(s) : i \in 1 .. Len(u) /\ u[i] = s[i]
  BY <1>2, <1>3
<1>5. \A i \in 1 .. Len(t) : i + Len(s) \in 1 .. Len(u) /\ u[i + Len(s)] = t[i]
  <2> TAKE i \in 1 .. Len(t)
  <2>1. PICK j : j = i + Len(s)
    OBVIOUS
  <2>2. j \in 1 .. Len(s) + Len(t) /\ ~(j <= Len(s)) /\ j - Len(s) = i
    BY <2>1, <1>3
  <2>3. QED
    BY <2>1, <2>2, <1>2
<1>6. \A i \in 1 .. Len(u) : \/ i \in 1 .. Len(s) /\ u[i] = s[i]
                             \/ i - Len(s) \in 1 .. Len(t) /\ u[i] = t[i - Len(s)]
  BY <1>2, <1>3
<1>7. k \in Keys(u) <=> k \in Keys(s) \/ k \in Keys(t)
  <2>1. ASSUME k \in Keys(u)
        PROVE  k \in Keys(s) \/ k \in Keys(t)
    <3>1. PICK i \in 1 .. Len(u) : k \in DOMAIN u[i].data
      BY <2>1, <1>2, KeysFacts
    <3>2. CASE i \in 1 .. Len(s) /\ u[i] = s[i]
      BY <3>1, <3>2, KeysFacts
    <3>3. CASE i - Len(s) \in 1 .. Len(t) /\ u[i] = t[i - Len(s)]
      BY <3>1, <3>3, KeysFacts
    <3>4. QED
      BY <3>2, <3>3, <1>6
  <2>2. k \in Keys(s) => k \in Keys(u)
    BY <1>2, <1>4, KeysFacts
  <2>3. ASSUME k \in Keys(t)
        PROVE  k \in Keys(u)
    <3>1. PICK i \in 1 .. Len(t) : k \in DOMAIN t[i].data
      BY <2>3, KeysFacts
    <3>2. i + Len(s) \in 1 .. Len(u) /\ u[i + Len(s)] = t[i]
      BY <1>5
    <3>3. QED
      BY <3>1, <3>2, <1>2, KeysFacts
  <2>4. QED
    BY <2>1, <2>2, <2>3
<1>8. ASSUME k \in Keys(t)
      PROVE  compacted_get(u, k) = compacted_get(t, k)
  <2>1. PICK i \in 1 .. Len(t) :
            /\ k \in DOMAIN t[i].data
            /\ compacted_get(t, k) = t[i].data[k]
            /\ \A j \in 1 .. Len(t) : k \in DOMAIN t[j].data => j <= i
    BY <1>8, GetFacts
  <2>2. i + Len(s) \in 1 .. Len(u) /\ u[i + Len(s)] = t[i]
    BY <1>5
  <2>3. ASSUME NEW j \in 1 .. Len(u), k \in DOMAIN u[j].data
        PROVE  j <= i + Len(s)
    <3>1. CASE j \in 1 .. Len(s)
      BY <3>1, <1>3
    <3>2. CASE j - Len(s) \in 1 .. Len(t) /\ u[j] = t[j - Len(s)]
      <4>1. j - Len(s) <= i
        BY <2>1, <2>3, <3>2
      <4>2. QED
        BY <4>1, <1>3, <1>2
    <3>3. QED
      BY <3>1, <3>2, <1>6
  <2>4. compacted_get(u, k) = u[i + Len(s)].data[k]
    BY <2>1, <2>2, <2>3, <1>2, GetUnique, Zenon
  <2>5. QED
    BY <2>1, <2>2, <2>4
<1>9. ASSUME k \notin Keys(t)
      PROVE  compacted_get(u, k) = compacted_get(s, k)
  <2>1. CASE k \notin Keys(s)
    BY <2>1, <1>2, <1>7, <1>9, GetNone
  <2>2. CASE k \in Keys(s)
    <3>1. PICK i \in 1 .. Len(s) :
              /\ k \in DOMAIN s[i].data
              /\ compacted_get(s, k) = s[i].data[k]
              /\ \A j \in 1 .. Len(s) : k \in DOMAIN s[j].data => j <= i
      BY <2>2, GetFacts
    <3>2. i \in 1 .. Len(u) /\ u[i] = s[i]
      BY <1>4
    <3>3. ASSUME NEW j \in 1 .. Len(u), k \in DOMAIN u[j].data
          PROVE  j <= i
      <4>1. CASE j \in 1 .. Len(s) /\ u[j] = s[j]
        BY <4>1, <3>1, <3>3
      <4>2. CASE j - Len(s) \in 1 .. Len(t) /\ u[j] = t[j - Len(s)]
        BY <4>2, <3>3, <1>9, KeysFacts
      <4>3. QED
        BY <4>1, <4>2, <1>6
    <3>4. compacted_get(u, k) = u[i].data[k]
      BY <3>1, <3>2, <3>3, <1>2, GetUnique, Zenon
    <3>5. QED
      BY <3>1, <3>2, <3>4
  <2>3. QED
    BY <2>1, <2>2
<1>10. QED
  BY <1>1, <1>7, <1>8, <1>9

\* A stack of one level is read like its map.
LEMMA GetOne ==
    ASSUME NEW l \in LevelType, NEW k
    PROVE  /\ <<l>> \in Seq(LevelType)
           /\ k \in Keys(<<l>>) <=> k \in DOMAIN l.data
           /\ k \in DOMAIN l.data => compacted_get(<<l>>, k) = l.data[k]
<1>1. PICK u : u = <<l>>
  BY Zenon
<1>2. u \in Seq(LevelType) /\ Len(u) = 1 /\ u[1] = l
  BY <1>1
<1>3. 1 .. Len(u) = {1}
  BY <1>2
<1>4. k \in Keys(u) <=> k \in DOMAIN l.data
  BY <1>2, <1>3, KeysFacts
<1>5. k \in DOMAIN l.data => compacted_get(u, k) = l.data[k]
  BY <1>2, <1>3, GetUnique
<1>6. QED
  BY <1>1, <1>2, <1>4, <1>5

\* Reading through a level on top of a stack: the level's own entry hides those below it.
LEMMA GetAppend ==
    ASSUME NEW s \in Seq(LevelType), NEW l \in LevelType, NEW k
    PROVE  /\ Append(s, l) \in Seq(LevelType)
           /\ k \in Keys(Append(s, l)) <=> k \in Keys(s) \/ k \in DOMAIN l.data
           /\ compacted_get(Append(s, l), k)
                  = IF k \in DOMAIN l.data THEN l.data[k] ELSE compacted_get(s, k)
<1>1. Append(s, l) = s \o <<l>> /\ Append(s, l) \in Seq(LevelType)
  BY AppendIsConcat, AppendProperties
<1>2. PICK u : u = <<l>>
  BY Zenon
<1>3. /\ u \in Seq(LevelType)
      /\ k \in Keys(u) <=> k \in DOMAIN l.data
      /\ k \in DOMAIN l.data => compacted_get(u, k) = l.data[k]
  BY <1>2, GetOne
<1>4. /\ k \in Keys(s \o u) <=> k \in Keys(s) \/ k \in Keys(u)
      /\ k \in Keys(u) => compacted_get(s \o u, k) = compacted_get(u, k)
      /\ k \notin Keys(u) => compacted_get(s \o u, k) = compacted_get(s, k)
  BY <1>3, GetConcat
<1>5. QED
  BY <1>1, <1>2, <1>3, <1>4

\* Whatever the key, compacted_get returns an entry.
LEMMA GetType ==
    ASSUME NEW st \in Seq(LevelType), NEW k
    PROVE  compacted_get(st, k) \in Entry
<1>1. CASE k \notin Keys(st)
  BY <1>1, GetNone, NotFoundFacts
<1>2. CASE k \in Keys(st)
  <2>1. PICK i \in 1 .. Len(st) :
            k \in DOMAIN st[i].data /\ compacted_get(st, k) = st[i].data[k]
    BY <1>2, GetFacts
  <2>2. st[i] \in LevelType
    BY ElementOfSeq
  <2>3. QED
    BY <2>1, <2>2, LevelParts, MapFacts
<1>3. QED
  BY <1>1, <1>2

-----------------------------------------------------------------------------
(* What makes a stack of levels sound *)

\* entry b may be in a newer level than entry a of the same key
Follows(a, b) == Below(a, b) \/ (a = b /\ a.tomb)

\* the entries of a key grow with the levels
Ordered(st) ==
    \A i, j \in 1 .. Len(st) :
        i < j => \A k \in DOMAIN st[i].data \intersect DOMAIN st[j].data :
                    Follows(st[i].data[k], st[j].data[k])

\* the entries of one level: no internal seq above the level's own, a tombstone without value,
\* a record with an expire time or none, an expire key that names a seq already given out
Fine(l) ==
    \A k \in DOMAIN l.data :
        /\ l.data[k].seq <= l.seq
        /\ l.data[k].tomb => l.data[k].val = 0
        /\ k \in StrKeys /\ ~l.data[k].tomb => l.data[k].val \in {0} \union Times
        /\ k \notin StrKeys => k[2] <= l.seq

\* a stack of levels as a node builds them
Sound(st) ==
    /\ \A i \in 1 .. Len(st) : Fine(st[i])
    /\ \A i, j \in 1 .. Len(st) : i < j => st[i].seq <= st[j].seq
    /\ Ordered(st)

\* Of two entries of a key in different levels the newer is never below the older, and they
\* have the same place in the order of by_key_seq only as two tombstones.
LEMMA FollowsFacts ==
    ASSUME NEW a \in Entry, NEW b \in Entry, Follows(a, b)
    PROVE  /\ ~Below(b, a)
           /\ ~Below(a, b) => a = b /\ a.tomb
           /\ SameOrder(a, b) => a.tomb /\ b.tomb
           /\ a.seq <= b.seq
BY DEF Follows, Below, SameOrder, Entry

\* What a level of a stack holds for a key is an entry, and the key is a user key or an
\* expire key.
LEMMA EntryOf ==
    ASSUME NEW st \in Seq(LevelType), NEW i \in 1 .. Len(st), NEW k \in DOMAIN st[i].data
    PROVE  st[i].data[k] \in Entry /\ k \in MapKey
<1>1. st[i] \in LevelType
  BY ElementOfSeq
<1>2. QED
  BY <1>1, LevelParts, MapFacts

\* MapApiRO::range over levels whose entries grow merges each key to the entry that get()
\* finds, and the assertion in by_key_seq holds of everything it compares.
THEOREM MergeIsGet ==
    ASSUME NEW st \in Seq(LevelType), Ordered(st)
    PROVE  /\ compacted_range(st) = [k \in Keys(st) |-> compacted_get(st, k)]
           /\ MergeOrderOk(st)
<1>0. DOMAIN st = 1 .. Len(st) /\ Len(st) \in Nat
  BY LenProperties
<1>1. ASSUME NEW k \in Keys(st)
      PROVE  Greatest(Entries(st, k)) = compacted_get(st, k)
  <2>1. PICK i \in 1 .. Len(st) :
            /\ k \in DOMAIN st[i].data
            /\ compacted_get(st, k) = st[i].data[k]
            /\ \A j \in 1 .. Len(st) : k \in DOMAIN st[j].data => j <= i
    BY GetFacts
  <2>2. PICK e : e = st[i].data[k]
    OBVIOUS
  <2>3. Entries(st, k) = {st[j].data[k] : j \in {j \in 1 .. Len(st) : k \in DOMAIN st[j].data}}
    BY KeysFacts DEF Entries
  <2>4. e \in Entries(st, k) /\ e \in Entry
    BY <2>1, <2>2, <2>3, EntryOf
  <2>5. ASSUME NEW o \in Entries(st, k)
        PROVE  o \in Entry /\ (o = e \/ Follows(o, e))
    <3>1. PICK j \in 1 .. Len(st) : k \in DOMAIN st[j].data /\ o = st[j].data[k]
      BY <2>3
    <3>2. j <= i
      BY <2>1, <3>1
    <3>3. CASE j = i
      BY <3>1, <3>3, <2>2, <2>4
    <3>4. CASE j < i
      BY <3>1, <3>4, <2>1, <2>2, EntryOf DEF Ordered
    <3>5. QED
      BY <3>2, <3>3, <3>4, <1>0
  <2>6. \A o \in Entries(st, k) : ~Below(e, o)
    <3> TAKE o \in Entries(st, k)
    <3>1. CASE o = e
      BY <3>1, <2>4 DEF Below, Entry
    <3>2. CASE Follows(o, e)
      BY <3>2, <2>4, <2>5, FollowsFacts
    <3>3. QED
      BY <3>1, <3>2, <2>5
  <2>7. ASSUME NEW m \in Entries(st, k), \A o \in Entries(st, k) : ~Below(m, o)
        PROVE  m = e
    BY <2>4, <2>5, <2>7, FollowsFacts
  <2>8. QED
    BY <2>1, <2>2, <2>4, <2>6, <2>7 DEF Greatest
<1>2. MergeOrderOk(st)
  <2> SUFFICES ASSUME NEW i \in 1 .. Len(st), NEW j \in 1 .. Len(st),
                      NEW k \in DOMAIN st[i].data \intersect DOMAIN st[j].data,
                      i # j, SameOrder(st[i].data[k], st[j].data[k])
               PROVE  st[i].data[k].tomb
    BY <1>0 DEF MergeOrderOk
  <2>1. PICK a, b : a = st[i].data[k] /\ b = st[j].data[k]
    OBVIOUS
  <2>2. a \in Entry /\ b \in Entry
    BY <2>1, EntryOf
  <2>3. CASE i < j
    <3>1. Follows(a, b)
      BY <2>1, <2>3 DEF Ordered
    <3>2. QED
      BY <3>1, <2>1, <2>2, FollowsFacts
  <2>4. CASE j < i
    <3>1. Follows(b, a)
      BY <2>1, <2>4 DEF Ordered
    <3>2. SameOrder(b, a)
      BY <2>1 DEF SameOrder
    <3>3. QED
      BY <3>1, <3>2, <2>1, <2>2, FollowsFacts
  <2>5. QED
    BY <2>3, <2>4, <1>0
<1>3. QED
  BY <1>1, <1>2 DEF compacted_range

-----------------------------------------------------------------------------
(* What a stack shows *)

\* What a reader of the whole stack sees: the newest level's seq counter, and of each key
\* the entry that get() finds unless it is a tombstone.
LEMMA ViewFacts ==
    ASSUME NEW st \in Seq(LevelType)
    PROVE  /\ View(st) = [seq |-> View(st).seq, data |-> View(st).data]
           /\ View(st).seq = st[Len(st)].seq
           /\ View(st).data \in PartialMap
           /\ \A k : k \in DOMAIN View(st).data <=> ~compacted_get(st, k).tomb
           /\ \A k \in DOMAIN View(st).data :
                 k \in Keys(st) /\ View(st).data[k] = compacted_get(st, k)
<1> DEFINE live == {k \in Keys(st) : ~compacted_get(st, k).tomb}
           d == [k \in live |-> compacted_get(st, k)]
<1>1. PICK v : v = View(st)
  OBVIOUS
<1>2. v = [seq |-> st[Len(st)].seq, data |-> d]
  BY <1>1 DEF View
<1>3. v.seq = st[Len(st)].seq /\ v.data = d /\ v = [seq |-> v.seq, data |-> v.data]
  BY <1>2
<1>4. live \in SUBSET MapKey
  <2> SUFFICES ASSUME NEW k \in Keys(st) PROVE k \in MapKey
    OBVIOUS
  <2>1. PICK i \in 1 .. Len(st) : k \in DOMAIN st[i].data
    BY KeysFacts
  <2>2. QED
    BY <2>1, EntryOf
<1>5. d \in [live -> Entry]
  BY GetType
<1>6. d \in PartialMap
  BY <1>4, <1>5, MapIntro
<1>7. \A k : k \in live <=> ~compacted_get(st, k).tomb
  BY GetNone, NotFoundFacts
<1>8. DOMAIN d = live /\ \A k \in live : k \in Keys(st) /\ d[k] = compacted_get(st, k)
  OBVIOUS
<1> HIDE DEF d, live
<1>9. QED
  BY <1>1, <1>3, <1>6, <1>7, <1>8

\* A map with exactly the records that get() finds is what the stack shows.
LEMMA ViewIs ==
    ASSUME NEW st \in Seq(LevelType), NEW s, NEW f \in PartialMap,
           s = st[Len(st)].seq,
           \A k : k \in DOMAIN f <=> ~compacted_get(st, k).tomb,
           \A k \in DOMAIN f : f[k] = compacted_get(st, k)
    PROVE  View(st) = [seq |-> s, data |-> f]
<1>1. PICK v : v = View(st)
  OBVIOUS
<1>2. /\ v = [seq |-> v.seq, data |-> v.data]
      /\ v.seq = s
      /\ v.data \in PartialMap
      /\ DOMAIN v.data = DOMAIN f
      /\ \A k \in DOMAIN f : v.data[k] = f[k]
  BY <1>1, ViewFacts, Zenon
<1>3. v.data = [k \in DOMAIN v.data |-> v.data[k]] /\ f = [k \in DOMAIN f |-> f[k]]
  BY <1>2, MapFacts
<1>4. v.data = f
  BY <1>2, <1>3
<1>5. QED
  BY <1>1, <1>2, <1>4

-----------------------------------------------------------------------------
(* Stacks that a node builds *)

\* level l may lie on top of the levels `below`
Rests(below, l) ==
    \A i \in 1 .. Len(below) :
        /\ below[i].seq <= l.seq
        /\ \A k \in DOMAIN below[i].data \intersect DOMAIN l.data :
              Follows(below[i].data[k], l.data[k])

\* A stack is sound when the levels below its top are, the top is, and the top may lie on
\* them: what a write to the writable level has to keep.
LEMMA SoundAppend ==
    ASSUME NEW s \in Seq(LevelType), NEW l \in LevelType
    PROVE  Sound(Append(s, l)) <=> Sound(s) /\ Fine(l) /\ Rests(s, l)
<1>1. PICK u : u = Append(s, l)
  BY Zenon
<1>2. /\ u \in Seq(LevelType)
      /\ Len(u) = Len(s) + 1
      /\ \A i \in 1 .. Len(s) : u[i] = s[i]
      /\ u[Len(s) + 1] = l
  BY <1>1, AppendProperties
<1>3. Len(s) \in Nat
  BY LenProperties
<1>4. 1 .. Len(u) = 1 .. Len(s) \union {Len(s) + 1}
  BY <1>2, <1>3
<1>5. ASSUME Sound(u) PROVE Sound(s) /\ Fine(l) /\ Rests(s, l)
  <2>1. Sound(s) /\ Fine(l)
    BY <1>2, <1>4, <1>5 DEF Sound, Ordered
  <2>2. Rests(s, l)
    <3> SUFFICES ASSUME NEW i \in 1 .. Len(s)
                 PROVE  /\ s[i].seq <= l.seq
                        /\ \A k \in DOMAIN s[i].data \intersect DOMAIN l.data :
                              Follows(s[i].data[k], l.data[k])
      BY DEF Rests
    <3>1. PICK j : j = Len(s) + 1
      OBVIOUS
    <3>2. i \in 1 .. Len(u) /\ j \in 1 .. Len(u) /\ i < j /\ u[i] = s[i] /\ u[j] = l
      BY <3>1, <1>2, <1>3, <1>4
    <3>3. QED
      BY <3>2, <1>5 DEF Sound, Ordered
  <2>3. QED
    BY <2>1, <2>2
<1>6. ASSUME Sound(s), Fine(l), Rests(s, l) PROVE Sound(u)
  <2>1. \A i \in 1 .. Len(u) : Fine(u[i])
    BY <1>2, <1>4, <1>6 DEF Sound
  <2>2. ASSUME NEW i \in 1 .. Len(u), NEW j \in 1 .. Len(u), i < j
        PROVE  /\ u[i].seq <= u[j].seq
               /\ \A k \in DOMAIN u[i].data \intersect DOMAIN u[j].data :
                     Follows(u[i].data[k], u[j].data[k])
    <3>1. i \in 1 .. Len(s) /\ u[i] = s[i]
      BY <2>2, <1>2, <1>3, <1>4
    <3>2. CASE j \in 1 .. Len(s)
      BY <3>1, <3>2, <2>2, <1>2, <1>6 DEF Sound, Ordered
    <3>3. CASE j = Len(s) + 1
      BY <3>1, <3>3, <1>2, <1>6 DEF Rests
    <3>4. QED
      BY <3>2, <3>3, <1>4
  <2>3. QED
    BY <2>1, <2>2 DEF Sound, Ordered
<1>7. QED
  BY <1>1, <1>5, <1>6

\* A stack of one level is sound when the level is.
LEMMA OneIsSound ==
    ASSUME NEW l \in LevelType
    PROVE  /\ <<l>> \in Seq(LevelType)
           /\ Len(<<l>>) = 1 /\ <<l>>[1] = l
           /\ Sound(<<l>>) <=> Fine(l)
<1>1. PICK u : u = <<l>>
  BY Zenon
<1>2. u \in Seq(LevelType) /\ Len(u) = 1 /\ u[1] = l
  BY <1>1
<1>3. 1 .. Len(u) = {1}
  BY <1>2
<1>4. Sound(u) <=> Fine(l)
  BY <1>2, <1>3 DEF Sound, Ordered
<1>5. QED
  BY <1>1, <1>2, <1>4

\* a plain map that could have come from the log: no tombstones
Flat(f) ==
    /\ f = [seq |-> f.seq, data |-> f.data]
    /\ f.seq \in Nat
    /\ f.data \in PartialMap
    /\ \A k \in DOMAIN f.data : ~f.data[k].tomb
    /\ Fine(Level(f.seq, 0, f.data))

\* What a sound stack shows is a plain map without tombstones, as a snapshot must be.
LEMMA ViewIsFlat ==
    ASSUME NEW st \in Seq(LevelType), st # <<>>, Sound(st)
    PROVE  Flat(View(st))
<1>1. PICK v : v = View(st)
  OBVIOUS
<1>2. PICK n : n = Len(st)
  OBVIOUS
<1>3. n \in Nat /\ n \in 1 .. Len(st)
  BY <1>2, EmptySeq
<1>4. /\ v = [seq |-> v.seq, data |-> v.data]
      /\ v.seq = st[n].seq
      /\ v.data \in PartialMap
      /\ \A k : k \in DOMAIN v.data <=> ~compacted_get(st, k).tomb
      /\ \A k \in DOMAIN v.data : k \in Keys(st) /\ v.data[k] = compacted_get(st, k)
  BY <1>1, <1>2, ViewFacts
<1>5. st[n] \in LevelType
  BY <1>3, ElementOfSeq
<1>6. v.seq \in Nat
  BY <1>4, <1>5, LevelParts
<1>7. PICK l : l = Level(v.seq, 0, v.data)
  OBVIOUS
<1>8. l.seq = v.seq /\ l.data = v.data
  BY <1>7 DEF Level
<1>9. Fine(l)
  <2> SUFFICES ASSUME NEW k \in DOMAIN v.data
               PROVE  /\ v.data[k].seq <= v.seq
                      /\ v.data[k].tomb => v.data[k].val = 0
                      /\ k \in StrKeys /\ ~v.data[k].tomb => v.data[k].val \in {0} \union Times
                      /\ k \notin StrKeys => k[2] <= v.seq
    BY <1>8 DEF Fine
  <2>1. PICK i \in 1 .. Len(st) : k \in DOMAIN st[i].data /\ compacted_get(st, k) = st[i].data[k]
    BY <1>4, GetFacts
  <2>2. st[i].seq <= st[n].seq
    <3>1. CASE i = n
      BY <3>1, <1>5, LevelParts
    <3>2. CASE i < n
      BY <3>2, <1>3 DEF Sound
    <3>3. QED
      BY <3>1, <3>2, <1>2, <1>3
  <2>3. PICK e : e = st[i].data[k]
    OBVIOUS
  <2>4. /\ e \in Entry /\ k \in MapKey
        /\ e.seq <= st[i].seq
        /\ e.tomb => e.val = 0
        /\ k \in StrKeys /\ ~e.tomb => e.val \in {0} \union Times
        /\ k \notin StrKeys => k[2] <= st[i].seq
    BY <2>1, <2>3, EntryOf DEF Sound, Fine
  <2>5. st[i] \in LevelType
    BY ElementOfSeq
  <2>6. st[i].seq \in Nat /\ st[n].seq \in Nat /\ e.seq \in Nat /\ (k \notin StrKeys => k[2] \in Nat)
    BY <2>4, <2>5, <1>5, LevelParts DEF Entry, MapKey
  <2>7. v.data[k] = e
    BY <2>1, <2>3, <1>4
  <2>8. QED
    BY <2>2, <2>4, <2>6, <2>7, <1>4
<1>10. \A k \in DOMAIN v.data : ~v.data[k].tomb
  BY <1>4
<1>11. QED
  BY <1>1, <1>4, <1>6, <1>7, <1>9, <1>10 DEF Flat

\* A level made of a plain map, as a snapshot file is, is sound and shows that map.
LEMMA FlatLevel ==
    ASSUME NEW f, Flat(f), NEW n \in Nat, NEW l, l = Level(f.seq, n, f.data)
    PROVE  /\ l \in LevelType
           /\ l.seq = f.seq /\ l.applied = n /\ l.data = f.data
           /\ Fine(l)
           /\ Sound(<<l>>)
           /\ View(<<l>>) = f
<1>1. l \in LevelType /\ l.seq = f.seq /\ l.applied = n /\ l.data = f.data
  BY LevelFacts DEF Flat
<1>2. Fine(l)
  <2>1. PICK m : m = Level(f.seq, 0, f.data)
    OBVIOUS
  <2>2. Fine(m) /\ m.seq = l.seq /\ m.data = l.data
    BY <2>1, <1>1 DEF Flat, Level
  <2>3. QED
    BY <2>2 DEF Fine
<1>3. PICK u : u = <<l>>
  BY Zenon
<1>4. u \in Seq(LevelType) /\ Len(u) = 1 /\ u[1] = l /\ Sound(u)
  BY <1>1, <1>2, <1>3, OneIsSound
<1>5. \A k : /\ k \in Keys(u) <=> k \in DOMAIN l.data
             /\ k \in DOMAIN l.data => compacted_get(u, k) = l.data[k]
  BY <1>1, <1>3, GetOne
<1>6. \A k : k \in DOMAIN f.data <=> ~compacted_get(u, k).tomb
  BY <1>1, <1>4, <1>5, GetNone, NotFoundFacts DEF Flat
<1>7. View(u) = [seq |-> f.seq, data |-> f.data]
  <2>1. PICK d : d = f.data
    OBVIOUS
  <2>2. d \in PartialMap /\ f.seq = u[Len(u)].seq
    BY <2>1, <1>1, <1>4 DEF Flat
  <2>3. \A k \in DOMAIN d : d[k] = compacted_get(u, k)
    BY <2>1, <1>1, <1>5
  <2>4. \A k : k \in DOMAIN d <=> ~compacted_get(u, k).tomb
    BY <2>1, <1>6
  <2>5. QED
    BY <2>1, <2>2, <2>3, <2>4, <1>4, ViewIs, Zenon
<1>8. QED
  BY <1>1, <1>2, <1>3, <1>4, <1>7 DEF Flat

\* freeze_writable: a new level on top of a stack, with the counters of the one below it,
\* keeps the stack sound and does not show.
LEMMA FreezeFacts ==
    ASSUME NEW s \in Seq(LevelType), NEW w \in LevelType, Sound(Append(s, w)),
           NEW n, n = NewLevel(w)
    PROVE  /\ n \in LevelType /\ n.seq = w.seq /\ n.applied = w.applied
           /\ Sound(Append(Append(s, w), n))
           /\ View(Append(Append(s, w), n)) = View(Append(s, w))
<1>1. w.seq \in Nat /\ w.applied \in Nat
  BY LevelParts
<1>2. n \in LevelType /\ n.seq = w.seq /\ n.applied = w.applied /\ n.data = NoData
  BY <1>1, LevelFacts, NotFoundFacts DEF NewLevel
<1>3. DOMAIN n.data = {}
  BY <1>2, NotFoundFacts
<1>4. PICK u : u = Append(s, w)
  BY Zenon
<1>5. /\ u \in Seq(LevelType) /\ Len(u) = Len(s) + 1 /\ Len(s) \in Nat
      /\ u[Len(s) + 1] = w
  BY <1>4, AppendProperties, LenProperties
<1>6. \A i \in 1 .. Len(u) : u[i].seq <= w.seq
  <2> TAKE i \in 1 .. Len(u)
  <2>1. CASE i = Len(s) + 1
    BY <2>1, <1>1, <1>5
  <2>2. CASE i < Len(s) + 1
    BY <2>2, <1>4, <1>5 DEF Sound
  <2>3. QED
    BY <2>1, <2>2, <1>5
<1>7. Fine(n) /\ Rests(u, n)
  BY <1>2, <1>3, <1>6 DEF Fine, Rests
<1>8. Sound(Append(u, n))
  BY <1>2, <1>4, <1>5, <1>7, SoundAppend, Zenon
<1>9. PICK x : x = Append(u, n)
  BY Zenon
<1>10. x \in Seq(LevelType) /\ x[Len(x)] = n
  BY <1>2, <1>5, <1>9, AppendProperties
<1>11. \A k : compacted_get(x, k) = compacted_get(u, k)
  BY <1>2, <1>3, <1>5, <1>9, GetAppend
<1>12. PICK v : v = View(u)
  OBVIOUS
<1>13. /\ v = [seq |-> v.seq, data |-> v.data]
       /\ v.seq = u[Len(u)].seq
       /\ v.data \in PartialMap
       /\ \A k : k \in DOMAIN v.data <=> ~compacted_get(u, k).tomb
       /\ \A k \in DOMAIN v.data : v.data[k] = compacted_get(u, k)
  BY <1>5, <1>12, ViewFacts
<1>14. v.seq = x[Len(x)].seq
  BY <1>2, <1>5, <1>10, <1>13
<1>15. View(x) = [seq |-> v.seq, data |-> v.data]
  <2>1. PICK d : d = v.data
    OBVIOUS
  <2>2. /\ d \in PartialMap
        /\ \A k : k \in DOMAIN d <=> ~compacted_get(x, k).tomb
        /\ \A k \in DOMAIN d : d[k] = compacted_get(x, k)
    BY <2>1, <1>11, <1>13
  <2>3. QED
    BY <2>1, <2>2, <1>10, <1>14, ViewIs
<1>16. QED
  BY <1>2, <1>4, <1>8, <1>9, <1>12, <1>13, <1>15

\* install_snapshot and open: a snapshot with a new level on top is sound and shows the
\* snapshot's map.
LEMMA InstallFacts ==
    ASSUME NEW f, Flat(f), NEW n \in Nat, NEW b, b = Level(f.seq, n, f.data),
           NEW w, w = NewLevel(b)
    PROVE  /\ b \in LevelType
           /\ w \in LevelType /\ w.applied = n
           /\ Sound(Append(<<b>>, w))
           /\ View(Append(<<b>>, w)) = f
<1>1. b \in LevelType /\ b.applied = n /\ Sound(<<b>>) /\ View(<<b>>) = f
  BY FlatLevel
<1>2. <<>> \in Seq(LevelType) /\ <<b>> \in Seq(LevelType)
  BY <1>1, EmptySeq, OneIsSound
<1>3. PICK e : e = <<>>
  OBVIOUS
<1>4. e \in Seq(LevelType)
  BY <1>2, <1>3
<1>5. Append(e, b) = <<b>>
  <2>1. Append(e, b) = e \o <<b>>
    BY <1>1, <1>4, AppendIsConcat
  <2>2. e \o <<b>> = <<b>>
    BY <1>2, <1>3, ConcatEmptySeq
  <2>3. QED
    BY <2>1, <2>2
<1>6. Sound(Append(e, b))
  BY <1>1, <1>5
<1>7. /\ w \in LevelType /\ w.applied = b.applied
      /\ Sound(Append(Append(e, b), w))
      /\ View(Append(Append(e, b), w)) = View(Append(e, b))
  BY <1>1, <1>4, <1>6, FreezeFacts
<1>8. QED
  BY <1>1, <1>5, <1>7

\* replace_with_compacted: when the levels under the writable one are replaced by one level
\* made of what they show, the stack stays sound and shows the same.
LEMMA ReplaceFacts ==
    ASSUME NEW s \in Seq(LevelType), s # <<>>, NEW w \in LevelType, Sound(Append(s, w)),
           NEW n \in Nat, NEW b, b = Level(View(s).seq, n, View(s).data)
    PROVE  /\ b \in LevelType
           /\ Sound(Append(<<b>>, w))
           /\ View(Append(<<b>>, w)) = View(Append(s, w))
<1>1. Sound(s) /\ Fine(w) /\ Rests(s, w)
  BY SoundAppend
<1>2. PICK f : f = View(s)
  OBVIOUS
<1>3. Flat(f)
  BY <1>1, <1>2, ViewIsFlat
<1>4. b \in LevelType /\ b.seq = f.seq /\ b.data = f.data /\ Sound(<<b>>)
  BY <1>2, <1>3, FlatLevel
<1>5. PICK u : u = <<b>>
  BY Zenon
<1>6. /\ u \in Seq(LevelType) /\ Len(u) = 1 /\ u[1] = b
      /\ \A k : /\ k \in Keys(u) <=> k \in DOMAIN b.data
                /\ k \in DOMAIN b.data => compacted_get(u, k) = b.data[k]
  BY <1>4, <1>5, OneIsSound, GetOne
<1>7. /\ f.seq = s[Len(s)].seq
      /\ \A k : k \in DOMAIN f.data <=> ~compacted_get(s, k).tomb
      /\ \A k \in DOMAIN f.data : k \in Keys(s) /\ f.data[k] = compacted_get(s, k)
  BY <1>2, ViewFacts
<1>8. \A k : /\ compacted_get(u, k).tomb <=> compacted_get(s, k).tomb
             /\ ~compacted_get(s, k).tomb => compacted_get(u, k) = compacted_get(s, k)
  BY <1>4, <1>6, <1>7, GetNone, NotFoundFacts, <1>3 DEF Flat
<1>9. Rests(u, w)
  <2> SUFFICES /\ b.seq <= w.seq
               /\ \A k \in DOMAIN b.data \intersect DOMAIN w.data : Follows(b.data[k], w.data[k])
    BY <1>6 DEF Rests
  <2>1. b.seq <= w.seq
    <3>1. Len(s) \in 1 .. Len(s)
      BY EmptySeq
    <3>2. QED
      BY <3>1, <1>1, <1>4, <1>7 DEF Rests
  <2>2. ASSUME NEW k \in DOMAIN b.data \intersect DOMAIN w.data
        PROVE  Follows(b.data[k], w.data[k])
    <3>1. k \in Keys(s) /\ b.data[k] = compacted_get(s, k)
      BY <1>4, <1>7
    <3>2. PICK i \in 1 .. Len(s) : k \in DOMAIN s[i].data /\ compacted_get(s, k) = s[i].data[k]
      BY <3>1, GetFacts
    <3>3. QED
      BY <3>1, <3>2, <1>1 DEF Rests
  <2>3. QED
    BY <2>1, <2>2
<1>10. Sound(Append(u, w))
  BY <1>1, <1>4, <1>5, <1>6, <1>9, SoundAppend, Zenon
<1>11. PICK x, y : x = Append(u, w) /\ y = Append(s, w)
  BY Zenon
<1>12. x \in Seq(LevelType) /\ y \in Seq(LevelType) /\ x[Len(x)] = w /\ y[Len(y)] = w
  BY <1>6, <1>11, AppendProperties
<1>13. \A k : /\ compacted_get(x, k) = IF k \in DOMAIN w.data THEN w.data[k] ELSE compacted_get(u, k)
              /\ compacted_get(y, k) = IF k \in DOMAIN w.data THEN w.data[k] ELSE compacted_get(s, k)
  BY <1>6, <1>11, GetAppend
<1>14. PICK v : v = View(y)
  OBVIOUS
<1>15. /\ v = [seq |-> v.seq, data |-> v.data]
       /\ v.seq = y[Len(y)].seq
       /\ v.data \in PartialMap
       /\ \A k : k \in DOMAIN v.data <=> ~compacted_get(y, k).tomb
       /\ \A k \in DOMAIN v.data : v.data[k] = compacted_get(y, k)
  BY <1>12, <1>14, ViewFacts
<1>16. View(x) = [seq |-> v.seq, data |-> v.data]
  <2>1. PICK d : d = v.data
    OBVIOUS
  <2>2. \A k : k \in DOMAIN d <=> ~compacted_get(x, k).tomb
    BY <2>1, <1>8, <1>13, <1>15
  <2>3. \A k \in DOMAIN d : d[k] = compacted_get(x, k)
    BY <2>1, <1>8, <1>13, <1>15
  <2>4. d \in PartialMap /\ v.seq = x[Len(x)].seq
    BY <2>1, <1>12, <1>15
  <2>5. QED
    BY <2>1, <2>2, <2>3, <2>4, <1>12, ViewIs, Zenon
<1>17. QED
  BY <1>4, <1>5, <1>10, <1>11, <1>14, <1>15, <1>16

\* Compactor::compact: merging the immutable levels, then the result with the persisted one,
\* and dropping tombstones writes exactly the map that the stack of all of them shows, with
\* the seq counter and the last_applied of the newest level.
THEOREM CompactIsView ==
    ASSUME NEW db \in Seq(LevelType), NEW levels \in Seq(LevelType), levels # <<>>,
           Sound(db \o levels)
    PROVE  compact(levels, db) = Level(View(db \o levels).seq, levels[Len(levels)].applied,
                                       View(db \o levels).data)
<1>1. PICK st : st = db \o levels
  BY Zenon
<1>2. /\ st \in Seq(LevelType)
      /\ Len(st) = Len(db) + Len(levels)
      /\ \A i \in 1 .. Len(db) + Len(levels) :
            st[i] = IF i <= Len(db) THEN db[i] ELSE levels[i - Len(db)]
      /\ Len(db) \in Nat /\ Len(levels) \in Nat \ {0}
  BY <1>1, ConcatProperties, LenProperties, EmptySeq
<1>3. \A i \in 1 .. Len(db) : i \in 1 .. Len(st) /\ st[i] = db[i]
  BY <1>2
<1>4. ASSUME NEW i \in 1 .. Len(levels)
      PROVE  i + Len(db) \in 1 .. Len(st) /\ st[i + Len(db)] = levels[i]
  <2>1. PICK j : j = i + Len(db)
    OBVIOUS
  <2>2. j \in 1 .. Len(st) /\ ~(j <= Len(db)) /\ j - Len(db) = i
    BY <2>1, <1>2
  <2>3. QED
    BY <2>1, <2>2, <1>2
<1>5. Ordered(st)
  BY <1>1 DEF Sound
<1>6. Ordered(levels)
  <2> SUFFICES ASSUME NEW i \in 1 .. Len(levels), NEW j \in 1 .. Len(levels), i < j,
                      NEW k \in DOMAIN levels[i].data \intersect DOMAIN levels[j].data
               PROVE  Follows(levels[i].data[k], levels[j].data[k])
    BY DEF Ordered
  <2>1. PICK a, b : a = i + Len(db) /\ b = j + Len(db)
    OBVIOUS
  <2>2. /\ a \in 1 .. Len(st) /\ st[a] = levels[i]
        /\ b \in 1 .. Len(st) /\ st[b] = levels[j]
        /\ a < b
    BY <2>1, <1>2, <1>4
  <2>3. QED
    BY <2>2, <1>5 DEF Ordered
<1>7. PICK mem : mem = compacted_range(levels)
  OBVIOUS
<1>8. mem = [k \in Keys(levels) |-> compacted_get(levels, k)]
  BY <1>6, <1>7, MergeIsGet
<1>9. mem \in PartialMap
  <2>1. \A k \in Keys(levels) : k \in MapKey
    BY KeysFacts, EntryOf
  <2>2. Keys(levels) \in SUBSET MapKey
    BY <2>1
  <2>3. mem \in [Keys(levels) -> Entry]
    BY <1>8, GetType
  <2>4. QED
    BY <2>2, <2>3, MapIntro
<1>10. PICK m : m = Level(0, 0, mem)
  OBVIOUS
<1>11. m \in LevelType /\ m.data = mem
  BY <1>9, <1>10, LevelFacts
<1>12. PICK x : x = db \o <<m>>
  BY Zenon
<1>13. x = Append(db, m)
  BY <1>11, <1>12, AppendIsConcat
<1>14. /\ x \in Seq(LevelType) /\ Len(x) = Len(db) + 1 /\ x[Len(db) + 1] = m
       /\ \A i \in 1 .. Len(db) : x[i] = db[i]
       /\ \A k : /\ k \in Keys(x) <=> k \in Keys(db) \/ k \in DOMAIN m.data
                 /\ compacted_get(x, k)
                       = IF k \in DOMAIN m.data THEN m.data[k] ELSE compacted_get(db, k)
  BY <1>11, <1>13, AppendProperties, GetAppend
<1>15. Ordered(x)
  <2> SUFFICES ASSUME NEW i \in 1 .. Len(x), NEW j \in 1 .. Len(x), i < j,
                      NEW k \in DOMAIN x[i].data \intersect DOMAIN x[j].data
               PROVE  Follows(x[i].data[k], x[j].data[k])
    BY DEF Ordered
  <2>1. i \in 1 .. Len(db) /\ x[i] = db[i] /\ i \in 1 .. Len(st) /\ st[i] = db[i]
    BY <1>2, <1>3, <1>14
  <2>2. CASE j \in 1 .. Len(db)
    <3>1. x[j] = db[j] /\ j \in 1 .. Len(st) /\ st[j] = db[j]
      BY <2>2, <1>3, <1>14
    <3>2. QED
      BY <2>1, <3>1, <1>5 DEF Ordered
  <2>3. CASE j = Len(db) + 1
    <3>1. x[j] = m /\ k \in Keys(levels) /\ m.data[k] = compacted_get(levels, k)
      BY <2>3, <1>8, <1>11, <1>14
    <3>2. PICK a \in 1 .. Len(levels) :
              k \in DOMAIN levels[a].data /\ compacted_get(levels, k) = levels[a].data[k]
      BY <3>1, GetFacts
    <3>3. PICK b : b = a + Len(db)
      OBVIOUS
    <3>4. b \in 1 .. Len(st) /\ st[b] = levels[a] /\ i < b
      BY <3>3, <2>1, <1>2, <1>4
    <3>5. Follows(st[i].data[k], st[b].data[k])
      BY <2>1, <3>2, <3>4, <1>5 DEF Ordered
    <3>6. QED
      BY <2>1, <3>1, <3>2, <3>4, <3>5
  <2>4. QED
    BY <2>2, <2>3, <1>2, <1>14
<1>16. PICK merged : merged = compacted_range(x)
  OBVIOUS
<1>17. merged = [k \in Keys(x) |-> compacted_get(x, k)]
  BY <1>14, <1>15, <1>16, MergeIsGet
<1>18. \A k : /\ k \in Keys(x) <=> k \in Keys(st)
              /\ k \in Keys(st) => compacted_get(x, k) = compacted_get(st, k)
  <2> TAKE k
  <2>1. DOMAIN m.data = Keys(levels) /\ (k \in Keys(levels) => m.data[k] = compacted_get(levels, k))
    BY <1>8, <1>11
  <2>2. /\ k \in Keys(st) <=> k \in Keys(db) \/ k \in Keys(levels)
        /\ k \in Keys(levels) => compacted_get(st, k) = compacted_get(levels, k)
        /\ k \notin Keys(levels) => compacted_get(st, k) = compacted_get(db, k)
    BY <1>1, GetConcat
  <2>3. QED
    BY <2>1, <2>2, <1>14
<1>19. merged = [k \in Keys(st) |-> compacted_get(st, k)]
  <2>1. Keys(x) = Keys(st)
    BY <1>18, Zenon
  <2>2. QED
    BY <2>1, <1>17, <1>18
<1>20. PICK live : live = {k \in Keys(st) : ~compacted_get(st, k).tomb}
  BY Zenon
<1>21. {k \in DOMAIN merged : ~merged[k].tomb} = live
  BY <1>19, <1>20
<1>22. [k \in {k \in DOMAIN merged : ~merged[k].tomb} |-> merged[k]]
          = [k \in live |-> compacted_get(st, k)]
  BY <1>19, <1>20, <1>21
<1>23. PICK d : d = [k \in live |-> compacted_get(st, k)]
  BY Zenon
<1>24. compact(levels, db) = Level(levels[Len(levels)].seq, levels[Len(levels)].applied, d)
  BY <1>7, <1>10, <1>12, <1>16, <1>22, <1>23, Zenon DEF compact
<1>25. View(st) = [seq |-> st[Len(st)].seq, data |-> d]
  BY <1>20, <1>23 DEF View
<1>26. st[Len(st)] = levels[Len(levels)]
  <2>1. Len(levels) \in 1 .. Len(levels) /\ Len(levels) + Len(db) = Len(st)
    BY <1>2
  <2>2. QED
    BY <2>1, <1>4
<1>27. QED
  BY <1>1, <1>24, <1>25, <1>26

-----------------------------------------------------------------------------
(* Writing *)

\* Insert into a level's map sets one key and leaves the other keys and the counters alone.
LEMMA InsertFacts ==
    ASSUME NEW l \in LevelType, NEW k \in MapKey, NEW m \in Entry, NEW n, n = Insert(l, k, m)
    PROVE  /\ n \in LevelType
           /\ n.seq = l.seq /\ n.applied = l.applied
           /\ DOMAIN n.data = DOMAIN l.data \union {k}
           /\ n.data[k] = m
           /\ \A x \in DOMAIN l.data : x # k => n.data[x] = l.data[x]
<1>1. l.seq \in Nat /\ l.applied \in Nat /\ l.data \in PartialMap
  BY LevelParts
<1>2. PICK d : d = [x \in DOMAIN l.data \union {k} |-> IF x = k THEN m ELSE l.data[x]]
  BY Zenon
<1>3. DOMAIN l.data \union {k} \in SUBSET MapKey /\ \A x \in DOMAIN l.data : l.data[x] \in Entry
  BY <1>1, MapFacts
<1>4. d \in [DOMAIN l.data \union {k} -> Entry]
  BY <1>2, <1>3
<1>5. d \in PartialMap
  BY <1>3, <1>4, MapIntro
<1>6. n = Level(l.seq, l.applied, d)
  BY <1>2 DEF Insert
<1>7. n \in LevelType /\ n.seq = l.seq /\ n.applied = l.applied /\ n.data = d
  BY <1>1, <1>5, <1>6, LevelFacts
<1>8. QED
  BY <1>2, <1>7

\* The two kinds of entries, and what they hold.
LEMMA MarkedFacts ==
    ASSUME NEW s \in Nat, NEW v \in Val
    PROVE  /\ Tombstone(s) \in Entry /\ Tombstone(s).seq = s
           /\ Tombstone(s).tomb /\ Tombstone(s).val = 0
           /\ Normal(s, v) \in Entry /\ Normal(s, v).seq = s
           /\ ~Normal(s, v).tomb /\ Normal(s, v).val = v
BY DEF Tombstone, Normal, Entry, Val

\* A tombstone is determined by its seq.
LEMMA TombstoneIs ==
    ASSUME NEW e \in Entry, e.tomb, e.val = 0
    PROVE  e = Tombstone(e.seq)
BY DEF Entry, Tombstone

\* A tombstone with a level's seq may lie above any entry that is not newer than it.
LEMMA FollowedByTombstone ==
    ASSUME NEW e \in Entry, NEW s \in Nat, e.seq <= s, e.tomb => e.val = 0
    PROVE  Follows(e, Tombstone(s))
<1>1. e.seq \in Nat
  BY DEF Entry
<1>2. PICK t : t = Tombstone(s)
  OBVIOUS
<1>3. t.seq = s /\ t.tomb
  BY <1>2 DEF Tombstone
<1>4. CASE e.seq < s \/ ~e.tomb
  BY <1>1, <1>2, <1>3, <1>4 DEF Follows, Below
<1>5. CASE e.seq = s /\ e.tomb
  BY <1>2, <1>5, TombstoneIs DEF Follows
<1>6. QED
  BY <1>1, <1>4, <1>5

\* An entry in a level below is not newer than the level on top, and neither is the seq
\* that an expire key names.
LEMMA EntryBelow ==
    ASSUME NEW b \in Seq(LevelType), Sound(b), NEW w \in LevelType, Rests(b, w),
           NEW i \in 1 .. Len(b), NEW k \in DOMAIN b[i].data
    PROVE  /\ b[i].data[k] \in Entry
           /\ b[i].data[k].seq <= w.seq
           /\ b[i].data[k].tomb => b[i].data[k].val = 0
           /\ k \in MapKey
           /\ k \notin StrKeys => k[2] <= w.seq
<1>1. PICK e : e = b[i].data[k]
  OBVIOUS
<1>2. PICK s : s = b[i].seq
  OBVIOUS
<1>3. e \in Entry /\ k \in MapKey
  BY <1>1, EntryOf
<1>4. b[i] \in LevelType
  BY ElementOfSeq
<1>5. s \in Nat /\ w.seq \in Nat /\ s <= w.seq
  BY <1>2, <1>4, LevelParts DEF Rests
<1>6. e.seq <= s /\ (e.tomb => e.val = 0) /\ (k \notin StrKeys => k[2] <= s)
  BY <1>1, <1>2 DEF Sound, Fine
<1>7. e.seq \in Nat /\ (k \notin StrKeys => k[2] \in Nat)
  BY <1>3 DEF Entry, MapKey
<1>8. QED
  BY <1>1, <1>3, <1>5, <1>6, <1>7

\* Level::set(key, None) of a key that the stack has writes a tombstone with the current
\* seq, which may lie on what the levels below hold of the key.
LEMMA SetNoneFacts ==
    ASSUME NEW b \in Seq(LevelType), Sound(b), NEW w \in LevelType, Fine(w), Rests(b, w),
           NEW k \in Keys(Append(b, w)), NEW n, n = SetNone(w, k)
    PROVE  /\ n \in LevelType /\ n.seq = w.seq /\ n.applied = w.applied
           /\ Fine(n) /\ Rests(b, n)
           /\ DOMAIN n.data = DOMAIN w.data \union {k}
           /\ n.data[k].tomb
           /\ \A x \in DOMAIN w.data : x # k => n.data[x] = w.data[x]
<1>1. w.seq \in Nat /\ w.data \in PartialMap
  BY LevelParts
<1>2. PICK t : t = Tombstone(w.seq)
  OBVIOUS
<1>3. t \in Entry /\ t.seq = w.seq /\ t.tomb /\ t.val = 0
  BY <1>1, <1>2, MarkedFacts DEF Val
<1>4. k \in MapKey /\ (k \notin StrKeys => k[2] <= w.seq)
  <2>1. k \in Keys(b) \/ k \in DOMAIN w.data
    BY GetAppend
  <2>2. CASE k \in DOMAIN w.data
    BY <2>2, <1>1, MapFacts DEF Fine
  <2>3. CASE k \in Keys(b)
    <3>1. PICK i \in 1 .. Len(b) : k \in DOMAIN b[i].data
      BY <2>3, KeysFacts
    <3>2. QED
      BY <3>1, EntryBelow
  <2>4. QED
    BY <2>1, <2>2, <2>3
<1>5. n = Insert(w, k, t)
  BY <1>2 DEF SetNone
<1>6. /\ n \in LevelType /\ n.seq = w.seq /\ n.applied = w.applied
      /\ DOMAIN n.data = DOMAIN w.data \union {k}
      /\ n.data[k] = t
      /\ \A x \in DOMAIN w.data : x # k => n.data[x] = w.data[x]
  BY <1>3, <1>4, <1>5, InsertFacts
<1>7. Fine(n)
  <2> SUFFICES ASSUME NEW x \in DOMAIN n.data
               PROVE  /\ n.data[x].seq <= n.seq
                      /\ n.data[x].tomb => n.data[x].val = 0
                      /\ x \in StrKeys /\ ~n.data[x].tomb => n.data[x].val \in {0} \union Times
                      /\ x \notin StrKeys => x[2] <= n.seq
    BY DEF Fine
  <2>1. CASE x = k
    BY <2>1, <1>1, <1>3, <1>4, <1>6
  <2>2. CASE x # k
    BY <2>2, <1>6 DEF Fine
  <2>3. QED
    BY <2>1, <2>2
<1>8. Rests(b, n)
  <2> SUFFICES ASSUME NEW i \in 1 .. Len(b)
               PROVE  /\ b[i].seq <= n.seq
                      /\ \A x \in DOMAIN b[i].data \intersect DOMAIN n.data :
                            Follows(b[i].data[x], n.data[x])
    BY DEF Rests
  <2>1. b[i].seq <= n.seq
    BY <1>6 DEF Rests
  <2>2. ASSUME NEW x \in DOMAIN b[i].data \intersect DOMAIN n.data
        PROVE  Follows(b[i].data[x], n.data[x])
    <3>1. CASE x = k
      <4>1. PICK e : e = b[i].data[x]
        OBVIOUS
      <4>2. e \in Entry /\ e.seq <= w.seq /\ (e.tomb => e.val = 0)
        BY <4>1, EntryBelow
      <4>3. Follows(e, t)
        BY <4>2, <1>1, <1>2, FollowedByTombstone
      <4>4. QED
        BY <3>1, <4>1, <4>3, <1>6
    <3>2. CASE x # k
      BY <3>2, <1>6 DEF Rests
    <3>3. QED
      BY <3>1, <3>2
  <2>3. QED
    BY <2>1, <2>2
<1>9. QED
  BY <1>3, <1>6, <1>7, <1>8

\* MapApi::set(key, None) hides the key and nothing else, whether or not the key was there.
LEMMA MapSetNoneFacts ==
    ASSUME NEW b \in Seq(LevelType), Sound(b), NEW w \in LevelType, Fine(w), Rests(b, w),
           NEW k, NEW n, n = MapSetNone(b, w, k)
    PROVE  /\ n \in LevelType /\ n.seq = w.seq /\ n.applied = w.applied
           /\ Fine(n) /\ Rests(b, n)
           /\ compacted_get(Append(b, n), k).tomb
           /\ \A x : x # k => compacted_get(Append(b, n), x) = compacted_get(Append(b, w), x)
<1>1. CASE compacted_get(Append(b, w), k) = NotFound
  <2>1. n = w
    BY <1>1 DEF MapSetNone
  <2>2. QED
    BY <1>1, <2>1, NotFoundFacts
<1>2. CASE compacted_get(Append(b, w), k) # NotFound
  <2>1. n = SetNone(w, k)
    BY <1>2 DEF MapSetNone
  <2>2. k \in Keys(Append(b, w))
    BY <1>2, GetAppend, GetNone
  <2>3. /\ n \in LevelType /\ n.seq = w.seq /\ n.applied = w.applied
        /\ Fine(n) /\ Rests(b, n)
        /\ DOMAIN n.data = DOMAIN w.data \union {k}
        /\ n.data[k].tomb
        /\ \A x \in DOMAIN w.data : x # k => n.data[x] = w.data[x]
    BY <2>1, <2>2, SetNoneFacts
  <2>4. \A x : /\ compacted_get(Append(b, n), x)
                      = IF x \in DOMAIN n.data THEN n.data[x] ELSE compacted_get(b, x)
               /\ compacted_get(Append(b, w), x)
                      = IF x \in DOMAIN w.data THEN w.data[x] ELSE compacted_get(b, x)
    BY <2>3, GetAppend
  <2>5. compacted_get(Append(b, n), k).tomb
    BY <2>3, <2>4
  <2>6. \A x : x # k => compacted_get(Append(b, n), x) = compacted_get(Append(b, w), x)
    BY <2>3, <2>4
  <2>7. QED
    BY <2>3, <2>5, <2>6
<1>3. QED
  BY <1>1, <1>2

\* MapApi::set of a record takes the next seq: the level's seq is then above those of all
\* levels below, and a reader finds the new record and otherwise what was there.
LEMMA SetStrFacts ==
    ASSUME NEW b \in Seq(LevelType), Sound(b), NEW w \in LevelType, Fine(w), Rests(b, w),
           NEW k \in StrKeys, NEW v \in {0} \union Times, NEW n, n = SetStr(w, k, v)
    PROVE  /\ n \in LevelType /\ n.seq = w.seq + 1 /\ n.applied = w.applied
           /\ Fine(n) /\ Rests(b, n)
           /\ \A i \in 1 .. Len(b) : b[i].seq < n.seq
           /\ compacted_get(Append(b, n), k) = Normal(w.seq + 1, v)
           /\ \A x : x # k => compacted_get(Append(b, n), x) = compacted_get(Append(b, w), x)
<1>1. w.seq \in Nat /\ w.applied \in Nat /\ w.data \in PartialMap
  BY LevelParts
<1>2. PICK u : u = Level(w.seq + 1, w.applied, w.data)
  OBVIOUS
<1>3. u \in LevelType /\ u.seq = w.seq + 1 /\ u.applied = w.applied /\ u.data = w.data
  BY <1>1, <1>2, LevelFacts
<1>4. PICK m : m = Normal(w.seq + 1, v)
  OBVIOUS
<1>5. m \in Entry /\ m.seq = w.seq + 1 /\ ~m.tomb /\ m.val = v
  BY <1>1, <1>4, MarkedFacts DEF Val
<1>6. n = Insert(u, k, m)
  BY <1>2, <1>4 DEF SetStr
<1>7. /\ n \in LevelType /\ n.seq = w.seq + 1 /\ n.applied = w.applied
      /\ DOMAIN n.data = DOMAIN w.data \union {k}
      /\ n.data[k] = m
      /\ \A x \in DOMAIN w.data : x # k => n.data[x] = w.data[x]
  <2>1. k \in MapKey
    BY DEF MapKey
  <2>2. QED
    BY <2>1, <1>3, <1>5, <1>6, InsertFacts
<1>8. Fine(n)
  <2> SUFFICES ASSUME NEW x \in DOMAIN n.data
               PROVE  /\ n.data[x].seq <= n.seq
                      /\ n.data[x].tomb => n.data[x].val = 0
                      /\ x \in StrKeys /\ ~n.data[x].tomb => n.data[x].val \in {0} \union Times
                      /\ x \notin StrKeys => x[2] <= n.seq
    BY DEF Fine
  <2>1. CASE x = k
    BY <2>1, <1>1, <1>5, <1>7
  <2>2. CASE x # k
    <3>1. PICK e : e = w.data[x]
      OBVIOUS
    <3>2. /\ x \in DOMAIN w.data
          /\ n.data[x] = e
          /\ e.seq <= w.seq
          /\ e.tomb => e.val = 0
          /\ x \in StrKeys /\ ~e.tomb => e.val \in {0} \union Times
          /\ x \notin StrKeys => x[2] <= w.seq
      BY <2>2, <3>1, <1>7 DEF Fine
    <3>3. e.seq \in Nat /\ (x \notin StrKeys => x[2] \in Nat)
      BY <3>1, <3>2, <1>1, MapFacts DEF Entry, MapKey
    <3>4. QED
      BY <3>2, <3>3, <1>1, <1>7
  <2>3. QED
    BY <2>1, <2>2
<1>9. \A i \in 1 .. Len(b) : b[i].seq < n.seq
  <2> TAKE i \in 1 .. Len(b)
  <2>1. b[i] \in LevelType
    BY ElementOfSeq
  <2>2. b[i].seq \in Nat /\ b[i].seq <= w.seq
    BY <2>1, LevelParts DEF Rests
  <2>3. QED
    BY <2>2, <1>1, <1>7
<1>10. Rests(b, n)
  <2> SUFFICES ASSUME NEW i \in 1 .. Len(b)
               PROVE  /\ b[i].seq <= n.seq
                      /\ \A x \in DOMAIN b[i].data \intersect DOMAIN n.data :
                            Follows(b[i].data[x], n.data[x])
    BY DEF Rests
  <2>1. b[i].seq <= n.seq
    <3>1. b[i] \in LevelType
      BY ElementOfSeq
    <3>2. b[i].seq \in Nat
      BY <3>1, LevelParts
    <3>3. QED
      BY <3>2, <1>1, <1>7, <1>9
  <2>2. ASSUME NEW x \in DOMAIN b[i].data \intersect DOMAIN n.data
        PROVE  Follows(b[i].data[x], n.data[x])
    <3>1. CASE x = k
      <4>1. PICK e : e = b[i].data[x]
        OBVIOUS
      <4>2. e \in Entry /\ e.seq <= w.seq
        BY <4>1, EntryBelow
      <4>3. e.seq < m.seq
        BY <4>2, <1>1, <1>5 DEF Entry
      <4>4. QED
        BY <3>1, <4>1, <4>3, <1>7 DEF Follows, Below
    <3>2. CASE x # k
      BY <3>2, <1>7 DEF Rests
    <3>3. QED
      BY <3>1, <3>2
  <2>3. QED
    BY <2>1, <2>2
<1>11. \A x : /\ compacted_get(Append(b, n), x)
                      = IF x \in DOMAIN n.data THEN n.data[x] ELSE compacted_get(b, x)
              /\ compacted_get(Append(b, w), x)
                      = IF x \in DOMAIN w.data THEN w.data[x] ELSE compacted_get(b, x)
  BY <1>7, GetAppend
<1>12. compacted_get(Append(b, n), k) = m
  BY <1>7, <1>11
<1>13. \A x : x # k => compacted_get(Append(b, n), x) = compacted_get(Append(b, w), x)
  BY <1>7, <1>11
<1>14. QED
  BY <1>4, <1>7, <1>8, <1>9, <1>10, <1>12, <1>13

\* MapApi::set of an expire key, right after the record took a new seq: no level below can
\* have that key, so the entry may lie on them, and a reader finds it.
LEMMA SetExpireFacts ==
    ASSUME NEW b \in Seq(LevelType), Sound(b), NEW w \in LevelType, Fine(w), Rests(b, w),
           \A i \in 1 .. Len(b) : b[i].seq < w.seq,
           NEW v \in StrKeys, NEW k \in Times \X Nat, k[2] = w.seq,
           NEW n, n = SetExpire(w, k, v)
    PROVE  /\ n \in LevelType /\ n.seq = w.seq /\ n.applied = w.applied
           /\ Fine(n) /\ Rests(b, n)
           /\ compacted_get(Append(b, n), k) = Normal(w.seq, v)
           /\ \A x : x # k => compacted_get(Append(b, n), x) = compacted_get(Append(b, w), x)
<1>1. w.seq \in Nat /\ w.data \in PartialMap
  BY LevelParts
<1>2. k \in MapKey /\ k \notin StrKeys /\ k[2] = w.seq
  BY PlainMapAssumption DEF MapKey
<1>3. PICK m : m = Normal(w.seq, v)
  OBVIOUS
<1>4. m \in Entry /\ m.seq = w.seq /\ ~m.tomb
  BY <1>1, <1>3, MarkedFacts, Zenon DEF Val
<1>5. n = Insert(w, k, m)
  BY <1>3 DEF SetExpire
<1>6. /\ n \in LevelType /\ n.seq = w.seq /\ n.applied = w.applied
      /\ DOMAIN n.data = DOMAIN w.data \union {k}
      /\ n.data[k] = m
      /\ \A x \in DOMAIN w.data : x # k => n.data[x] = w.data[x]
  BY <1>2, <1>4, <1>5, InsertFacts
<1>7. Fine(n)
  <2> SUFFICES ASSUME NEW x \in DOMAIN n.data
               PROVE  /\ n.data[x].seq <= n.seq
                      /\ n.data[x].tomb => n.data[x].val = 0
                      /\ x \in StrKeys /\ ~n.data[x].tomb => n.data[x].val \in {0} \union Times
                      /\ x \notin StrKeys => x[2] <= n.seq
    BY DEF Fine
  <2>1. CASE x = k
    BY <2>1, <1>1, <1>2, <1>4, <1>6
  <2>2. CASE x # k
    BY <2>2, <1>6 DEF Fine
  <2>3. QED
    BY <2>1, <2>2
<1>8. Rests(b, n)
  <2> SUFFICES ASSUME NEW i \in 1 .. Len(b)
               PROVE  /\ b[i].seq <= n.seq
                      /\ \A x \in DOMAIN b[i].data \intersect DOMAIN n.data :
                            Follows(b[i].data[x], n.data[x])
    BY DEF Rests
  <2>1. b[i].seq <= n.seq
    BY <1>6 DEF Rests
  <2>2. ASSUME NEW x \in DOMAIN b[i].data \intersect DOMAIN n.data
        PROVE  Follows(b[i].data[x], n.data[x])
    <3>1. CASE x = k
      <4>1. b[i] \in LevelType
        BY ElementOfSeq
      <4>2. b[i].seq \in Nat /\ b[i].seq < w.seq
        BY <4>1, LevelParts
      <4>3. k[2] <= b[i].seq
        BY <3>1, <1>2 DEF Sound, Fine
      <4>4. QED
        BY <4>2, <4>3, <1>1, <1>2
    <3>2. CASE x # k
      BY <3>2, <1>6 DEF Rests
    <3>3. QED
      BY <3>1, <3>2
  <2>3. QED
    BY <2>1, <2>2
<1>9. \A x : /\ compacted_get(Append(b, n), x)
                    = IF x \in DOMAIN n.data THEN n.data[x] ELSE compacted_get(b, x)
             /\ compacted_get(Append(b, w), x)
                    = IF x \in DOMAIN w.data THEN w.data[x] ELSE compacted_get(b, x)
  BY <1>6, GetAppend
<1>10. compacted_get(Append(b, n), k) = m
  BY <1>6, <1>9
<1>11. \A x : x # k => compacted_get(Append(b, n), x) = compacted_get(Append(b, w), x)
  BY <1>6, <1>9
<1>12. QED
  BY <1>3, <1>6, <1>7, <1>8, <1>10, <1>11

-----------------------------------------------------------------------------
(* A command does to the view what it does to a plain map *)

\* A record has an expire key when it has an expire time; a tombstone has none.
LEMMA ExpireKeysFacts ==
    ASSUME NEW e \in Entry
    PROVE  /\ e.tomb \/ e.val = 0 => ExpireKeys(e) = {}
           /\ ~e.tomb /\ e.val # 0 => ExpireKeys(e) = {<<e.val, e.seq>>}
BY DEF ExpireKeys

\* The previous record that upsert_kv reads through the levels has the expire key that the
\* record of the shown map has.
LEMMA PreviousFacts ==
    ASSUME NEW st \in Seq(LevelType), st # <<>>, Sound(st), NEW k \in StrKeys,
           NEW prev, prev = compacted_get(st, k), NEW f, f = View(st)
    PROVE  /\ prev \in Entry
           /\ ExpireKeys(prev) \in SUBSET (Times \X Nat)
           /\ ExpireKeys(prev) = IF k \in DOMAIN f.data THEN ExpireKeys(f.data[k]) ELSE {}
<1>1. prev \in Entry
  BY GetType
<1>2. Flat(f)
  BY ViewIsFlat
<1>3. /\ k \in DOMAIN f.data <=> ~prev.tomb
      /\ k \in DOMAIN f.data => f.data[k] = prev
  BY ViewFacts
<1>4. ExpireKeys(prev) = IF k \in DOMAIN f.data THEN ExpireKeys(f.data[k]) ELSE {}
  BY <1>1, <1>3, ExpireKeysFacts
<1>5. ExpireKeys(prev) \in SUBSET (Times \X Nat)
  <2>1. CASE prev.tomb \/ prev.val = 0
    BY <2>1, <1>1, ExpireKeysFacts
  <2>2. CASE ~prev.tomb /\ prev.val # 0
    <3>1. PICK l : l = Level(f.seq, 0, f.data)
      OBVIOUS
    <3>2. Fine(l) /\ l.data = f.data
      BY <3>1, <1>2 DEF Flat, Level
    <3>3. k \in DOMAIN l.data /\ l.data[k] = prev
      BY <3>2, <2>2, <1>3
    <3>4. prev.val \in Times
      BY <3>2, <3>3, <2>2 DEF Fine
    <3>5. prev.seq \in Nat
      BY <1>1 DEF Entry
    <3>6. ExpireKeys(prev) = {<<prev.val, prev.seq>>}
      BY <2>2, <1>1, ExpireKeysFacts
    <3>7. QED
      BY <3>4, <3>5, <3>6
  <2>3. QED
    BY <2>1, <2>2
<1>6. QED
  BY <1>1, <1>4, <1>5

\* update_expire_index, its first half: the expire key of the previous record is hidden and
\* nothing else.
LEMMA DropExpireFacts ==
    ASSUME NEW b \in Seq(LevelType), Sound(b), NEW w \in LevelType, Fine(w), Rests(b, w),
           NEW prev \in Entry, NEW n, n = DropExpire(b, w, prev)
    PROVE  /\ n \in LevelType /\ n.seq = w.seq /\ n.applied = w.applied
           /\ Fine(n) /\ Rests(b, n)
           /\ \A x \in ExpireKeys(prev) : compacted_get(Append(b, n), x).tomb
           /\ \A x : x \notin ExpireKeys(prev) =>
                        compacted_get(Append(b, n), x) = compacted_get(Append(b, w), x)
<1>1. CASE ExpireKeys(prev) = {}
  BY <1>1 DEF DropExpire
<1>2. CASE ExpireKeys(prev) # {}
  <2>1. PICK k : k = <<prev.val, prev.seq>>
    BY Zenon
  <2>2. ExpireKeys(prev) = {k}
    BY <2>1, <1>2, ExpireKeysFacts
  <2>3. n = MapSetNone(b, w, k)
    BY <2>1, <1>2 DEF DropExpire
  <2>4. /\ n \in LevelType /\ n.seq = w.seq /\ n.applied = w.applied
        /\ Fine(n) /\ Rests(b, n)
        /\ compacted_get(Append(b, n), k).tomb
        /\ \A x : x # k => compacted_get(Append(b, n), x) = compacted_get(Append(b, w), x)
    BY <2>3, MapSetNoneFacts
  <2>5. QED
    BY <2>2, <2>4
<1>3. QED
  BY <1>1, <1>2

\* A delete written to the writable level does to the shown map what it does to a plain map.
LEMMA DelFacts ==
    ASSUME NEW b \in Seq(LevelType), NEW w \in LevelType, Sound(Append(b, w)),
           NEW cmd \in Cmds, cmd.op = "del", NEW n, n = UpsertDel(b, w, cmd)
    PROVE  /\ n \in LevelType /\ n.applied = w.applied
           /\ Sound(Append(b, n))
           /\ View(Append(b, n)) = FlatApply(View(Append(b, w)), cmd)
<1>1. Sound(b) /\ Fine(w) /\ Rests(b, w)
  BY SoundAppend
<1>2. cmd.key \in StrKeys
  BY DEF Cmds
<1>3. PICK k : k = cmd.key
  OBVIOUS
<1>4. PICK s : s = Append(b, w)
  BY Zenon
<1>5. s \in Seq(LevelType) /\ s # <<>> /\ s[Len(s)] = w
  BY <1>4, AppendProperties
<1>6. PICK f : f = View(s)
  OBVIOUS
<1>7. PICK prev : prev = compacted_get(s, k)
  OBVIOUS
<1>8. PICK old : old = ExpireKeys(prev)
  OBVIOUS
<1>9. /\ prev \in Entry
      /\ old \in SUBSET (Times \X Nat)
      /\ old = IF k \in DOMAIN f.data THEN ExpireKeys(f.data[k]) ELSE {}
  BY <1>2, <1>3, <1>4, <1>5, <1>6, <1>7, <1>8, PreviousFacts, Zenon
<1>10. PICK w1 : w1 = MapSetNone(b, w, k)
  OBVIOUS
<1>11. /\ w1 \in LevelType /\ w1.seq = w.seq /\ w1.applied = w.applied
       /\ Fine(w1) /\ Rests(b, w1)
       /\ compacted_get(Append(b, w1), k).tomb
       /\ \A x : x # k => compacted_get(Append(b, w1), x) = compacted_get(s, x)
  BY <1>1, <1>4, <1>10, MapSetNoneFacts
<1>12. n = DropExpire(b, w1, prev)
  BY <1>3, <1>4, <1>7, <1>10 DEF UpsertDel
<1>13. /\ n \in LevelType /\ n.seq = w1.seq /\ n.applied = w1.applied
       /\ Fine(n) /\ Rests(b, n)
       /\ \A x \in old : compacted_get(Append(b, n), x).tomb
       /\ \A x : x \notin old =>
                    compacted_get(Append(b, n), x) = compacted_get(Append(b, w1), x)
  <2>1. /\ n \in LevelType /\ n.seq = w1.seq /\ n.applied = w1.applied
        /\ Fine(n) /\ Rests(b, n)
        /\ \A x \in ExpireKeys(prev) : compacted_get(Append(b, n), x).tomb
        /\ \A x : x \notin ExpireKeys(prev) =>
                     compacted_get(Append(b, n), x) = compacted_get(Append(b, w1), x)
    BY <1>1, <1>9, <1>11, <1>12, DropExpireFacts
  <2>2. QED
    BY <2>1, <1>8
<1>14. Sound(Append(b, n))
  BY <1>1, <1>13, SoundAppend
<1>15. PICK t : t = Append(b, n)
  BY Zenon
<1>16. t \in Seq(LevelType) /\ t[Len(t)] = n
  BY <1>13, <1>15, AppendProperties
<1>17. /\ f = [seq |-> f.seq, data |-> f.data]
       /\ f.seq = w.seq
       /\ f.data \in PartialMap
       /\ \A x : x \in DOMAIN f.data <=> ~compacted_get(s, x).tomb
       /\ \A x \in DOMAIN f.data : f.data[x] = compacted_get(s, x)
  BY <1>5, <1>6, ViewFacts
<1>18. PICK kept : kept = DOMAIN f.data \ ({k} \union old)
  BY Zenon
<1>19. PICK d : d = [x \in kept |-> f.data[x]]
  BY Zenon
<1>20. FlatApply(f, cmd) = [seq |-> f.seq, data |-> d]
  BY <1>3, <1>9, <1>18, <1>19 DEF FlatApply
<1>21. DOMAIN d = kept /\ \A x \in kept : d[x] = f.data[x]
  BY <1>19
<1>22. d \in PartialMap
  <2>1. kept \in SUBSET MapKey
    BY <1>17, <1>18, MapFacts
  <2>2. \A x \in kept : f.data[x] \in Entry
    BY <1>17, <1>18, MapFacts
  <2>3. d \in [kept -> Entry]
    BY <2>2, <1>19
  <2>4. QED
    BY <2>1, <2>3, MapIntro
<1>23. \A x : x \in kept <=> ~compacted_get(t, x).tomb
  <2> TAKE x
  <2>1. CASE x \in old
    BY <2>1, <1>13, <1>15, <1>18
  <2>2. CASE x \notin old /\ x = k
    BY <2>2, <1>11, <1>13, <1>15, <1>18
  <2>3. CASE x \notin old /\ x # k
    BY <2>3, <1>11, <1>13, <1>15, <1>17, <1>18
  <2>4. QED
    BY <2>1, <2>2, <2>3
<1>24. \A x \in kept : d[x] = compacted_get(t, x)
  <2> TAKE x \in kept
  <2>1. x \notin old /\ x # k /\ x \in DOMAIN f.data
    BY <1>18
  <2>2. QED
    BY <2>1, <1>11, <1>13, <1>15, <1>17, <1>21
<1>25. f.seq = t[Len(t)].seq
  BY <1>11, <1>13, <1>16, <1>17
<1>26. View(t) = [seq |-> f.seq, data |-> d]
  BY <1>16, <1>21, <1>22, <1>23, <1>24, <1>25, ViewIs
<1>27. QED
  BY <1>4, <1>6, <1>11, <1>13, <1>14, <1>15, <1>20, <1>26

\* An upsert written to the writable level, with the expire key of the previous record
\* hidden and its own added, does to the shown map what it does to a plain map.
LEMMA PutFacts ==
    ASSUME NEW b \in Seq(LevelType), NEW w \in LevelType, Sound(Append(b, w)),
           NEW cmd \in Cmds, cmd.op = "put", NEW n, n = UpsertPut(b, w, cmd)
    PROVE  /\ n \in LevelType /\ n.applied = w.applied
           /\ Sound(Append(b, n))
           /\ View(Append(b, n)) = FlatApply(View(Append(b, w)), cmd)
<1>1. Sound(b) /\ Fine(w) /\ Rests(b, w)
  BY SoundAppend
<1>2. cmd.key \in StrKeys /\ cmd.exp \in {0} \union Times
  BY DEF Cmds
<1>3. PICK k, v : k = cmd.key /\ v = cmd.exp
  OBVIOUS
<1>4. PICK s : s = Append(b, w)
  BY Zenon
<1>5. s \in Seq(LevelType) /\ s # <<>> /\ s[Len(s)] = w
  BY <1>4, AppendProperties
<1>6. PICK f : f = View(s)
  OBVIOUS
<1>7. PICK prev : prev = compacted_get(s, k)
  OBVIOUS
<1>8. PICK old : old = ExpireKeys(prev)
  OBVIOUS
<1>9. /\ prev \in Entry
      /\ old \in SUBSET (Times \X Nat)
      /\ old = IF k \in DOMAIN f.data THEN ExpireKeys(f.data[k]) ELSE {}
  BY <1>2, <1>3, <1>4, <1>5, <1>6, <1>7, <1>8, PreviousFacts, Zenon
<1>10. PICK q : q = w.seq + 1
  OBVIOUS
<1>11. q \in Nat
  BY <1>10, LevelParts
<1>12. PICK rec : rec = Normal(q, v)
  OBVIOUS
<1>13. rec \in Entry /\ ~rec.tomb /\ rec.val = v /\ rec.seq = q
  <2>1. v \in Val
    BY <1>2, <1>3 DEF Val
  <2>2. /\ Normal(q, v) \in Entry /\ Normal(q, v).seq = q
        /\ ~Normal(q, v).tomb /\ Normal(q, v).val = v
    BY <1>11, <2>1, MarkedFacts, Zenon
  <2>3. QED
    BY <1>12, <2>2, Zenon
<1>14. PICK w1 : w1 = SetStr(w, k, v)
  OBVIOUS
<1>15. /\ w1 \in LevelType /\ w1.seq = q /\ w1.applied = w.applied
       /\ Fine(w1) /\ Rests(b, w1)
       /\ \A i \in 1 .. Len(b) : b[i].seq < w1.seq
       /\ compacted_get(Append(b, w1), k) = rec
       /\ \A x : x # k => compacted_get(Append(b, w1), x) = compacted_get(s, x)
  <2>1. k \in StrKeys /\ v \in {0} \union Times
    BY <1>2, <1>3
  <2>2. /\ w1 \in LevelType /\ w1.seq = w.seq + 1 /\ w1.applied = w.applied
        /\ Fine(w1) /\ Rests(b, w1)
        /\ \A i \in 1 .. Len(b) : b[i].seq < w1.seq
        /\ compacted_get(Append(b, w1), k) = Normal(w.seq + 1, v)
        /\ \A x : x # k => compacted_get(Append(b, w1), x) = compacted_get(Append(b, w), x)
    BY <2>1, <1>1, <1>14, SetStrFacts
  <2>3. QED
    BY <2>2, <1>4, <1>10, <1>12
<1>16. PICK w2 : w2 = DropExpire(b, w1, prev)
  OBVIOUS
<1>17. /\ w2 \in LevelType /\ w2.seq = q /\ w2.applied = w.applied
       /\ Fine(w2) /\ Rests(b, w2)
       /\ \A x \in old : compacted_get(Append(b, w2), x).tomb
       /\ \A x : x \notin old =>
                    compacted_get(Append(b, w2), x) = compacted_get(Append(b, w1), x)
  <2>1. /\ w2 \in LevelType /\ w2.seq = w1.seq /\ w2.applied = w1.applied
        /\ Fine(w2) /\ Rests(b, w2)
        /\ \A x \in ExpireKeys(prev) : compacted_get(Append(b, w2), x).tomb
        /\ \A x : x \notin ExpireKeys(prev) =>
                     compacted_get(Append(b, w2), x) = compacted_get(Append(b, w1), x)
    BY <1>1, <1>9, <1>15, <1>16, DropExpireFacts
  <2>2. QED
    BY <2>1, <1>8, <1>15
<1>18. n = AddExpire(w2, cmd)
  BY <1>3, <1>4, <1>7, <1>14, <1>16 DEF UpsertPut
<1>19. PICK ek : ek = ExpireKeys(rec)
  OBVIOUS
<1>20. ek \in SUBSET (Times \X Nat)
  <2>1. CASE v = 0
    BY <2>1, <1>13, <1>19, ExpireKeysFacts
  <2>2. CASE v \in Times
    <3>1. v # 0
      BY <2>2, PlainMapAssumption
    <3>2. ek = {<<v, q>>}
      BY <3>1, <1>13, <1>19, ExpireKeysFacts
    <3>3. QED
      BY <2>2, <3>2, <1>11
  <2>3. QED
    BY <2>1, <2>2, <1>2, <1>3
<1>21. /\ n \in LevelType /\ n.seq = q /\ n.applied = w.applied
       /\ Fine(n) /\ Rests(b, n)
       /\ \A x \in ek : compacted_get(Append(b, n), x) = Normal(q, k)
       /\ \A x : x \notin ek =>
                    compacted_get(Append(b, n), x) = compacted_get(Append(b, w2), x)
  <2>1. CASE v = 0
    <3>1. ek = {} /\ n = w2
      BY <2>1, <1>3, <1>13, <1>18, <1>19, ExpireKeysFacts DEF AddExpire
    <3>2. QED
      BY <3>1, <1>17
  <2>2. CASE v # 0
    <3>1. PICK kk : kk = <<v, q>>
      BY Zenon
    <3>2. kk \in Times \X Nat /\ kk[2] = q
      BY <2>2, <3>1, <1>2, <1>3, <1>11
    <3>3. ek = {kk}
      BY <2>2, <3>1, <1>13, <1>19, ExpireKeysFacts
    <3>4. n = SetExpire(w2, kk, k)
      BY <2>2, <3>1, <1>3, <1>17, <1>18 DEF AddExpire
    <3>5. \A i \in 1 .. Len(b) : b[i].seq < w2.seq
      BY <1>15, <1>17
    <3>6. k \in StrKeys
      BY <1>2, <1>3
    <3>7. /\ n \in LevelType /\ n.seq = w2.seq /\ n.applied = w2.applied
          /\ Fine(n) /\ Rests(b, n)
          /\ compacted_get(Append(b, n), kk) = Normal(w2.seq, k)
          /\ \A x : x # kk => compacted_get(Append(b, n), x) = compacted_get(Append(b, w2), x)
      <4> HIDE <3>1
      <4>1. kk[2] = w2.seq
        BY <3>2, <1>17
      <4>2. QED
        BY <4>1, <3>2, <3>4, <3>5, <3>6, <1>1, <1>17, SetExpireFacts
    <3>8. QED
      BY <3>3, <3>7, <1>17
  <2>3. QED
    BY <2>1, <2>2
<1>22. Sound(Append(b, n))
  BY <1>1, <1>21, SoundAppend
<1>23. PICK t : t = Append(b, n)
  BY Zenon
<1>24. t \in Seq(LevelType) /\ t[Len(t)] = n
  BY <1>21, <1>23, AppendProperties
<1>25. /\ f = [seq |-> f.seq, data |-> f.data]
       /\ f.seq = w.seq
       /\ f.data \in PartialMap
       /\ \A x : x \in DOMAIN f.data <=> ~compacted_get(s, x).tomb
       /\ \A x \in DOMAIN f.data : f.data[x] = compacted_get(s, x)
  BY <1>5, <1>6, ViewFacts
<1>26. PICK kept : kept = DOMAIN f.data \ ({k} \union old)
  BY Zenon
<1>27. PICK new : new = {k} \union ek
  BY Zenon
<1>28. PICK m : m = Normal(q, k)
  OBVIOUS
<1>29. m \in Entry /\ ~m.tomb
  <2>1. k \in Val
    BY <1>2, <1>3 DEF Val
  <2>2. Normal(q, k) \in Entry /\ ~Normal(q, k).tomb
    BY <1>11, <2>1, MarkedFacts, Zenon
  <2>3. QED
    BY <1>28, <2>2, Zenon
<1>30. PICK d : d = [x \in kept \union new |-> IF x = k THEN rec ELSE IF x \in new THEN m ELSE f.data[x]]
  BY Zenon
<1>31. FlatApply(f, cmd) = [seq |-> q, data |-> d]
  <2>1. f.seq + 1 = q
    BY <1>10, <1>25
  <2>2. cmd.op # "del"
    OBVIOUS
  <2>3. QED
    BY <2>1, <2>2, <1>3, <1>9, <1>12, <1>19, <1>26, <1>27, <1>28, <1>30, Zenon DEF FlatApply
<1>32. DOMAIN d = kept \union new
  BY <1>30
<1>33. d \in PartialMap
  <2>1. kept \union new \in SUBSET MapKey
    BY <1>2, <1>3, <1>20, <1>25, <1>26, <1>27, MapFacts DEF MapKey
  <2>2. \A x \in kept : f.data[x] \in Entry
    BY <1>25, <1>26, MapFacts
  <2>3. d \in [kept \union new -> Entry]
    BY <2>2, <1>13, <1>29, <1>30
  <2>4. QED
    BY <2>1, <2>3, MapIntro
<1>34. k \notin ek /\ k \notin old
  <2>1. k \notin Times \X Nat
    BY <1>2, <1>3, PlainMapAssumption
  <2>2. QED
    BY <2>1, <1>9, <1>20
<1>35. compacted_get(t, k) = rec
  BY <1>15, <1>17, <1>21, <1>23, <1>34
<1>36. \A x \in ek : compacted_get(t, x) = m
  BY <1>21, <1>23, <1>28
<1>37. \A x \in old : x \notin ek => compacted_get(t, x).tomb
  BY <1>17, <1>21, <1>23
<1>38. \A x : x # k /\ x \notin old /\ x \notin ek => compacted_get(t, x) = compacted_get(s, x)
  BY <1>15, <1>17, <1>21, <1>23
<1>39. \A x : x \in kept \union new <=> ~compacted_get(t, x).tomb
  <2> TAKE x
  <2>1. CASE x = k
    BY <2>1, <1>13, <1>27, <1>35
  <2>2. CASE x \in ek
    BY <2>2, <1>27, <1>29, <1>36
  <2>3. CASE x # k /\ x \notin ek /\ x \in old
    BY <2>3, <1>26, <1>27, <1>37
  <2>4. CASE x # k /\ x \notin ek /\ x \notin old
    BY <2>4, <1>25, <1>26, <1>27, <1>38
  <2>5. QED
    BY <2>1, <2>2, <2>3, <2>4
<1>40. \A x \in kept \union new : d[x] = compacted_get(t, x)
  <2> TAKE x \in kept \union new
  <2>1. CASE x = k
    BY <2>1, <1>30, <1>35
  <2>2. CASE x # k /\ x \in ek
    BY <2>2, <1>27, <1>30, <1>36
  <2>3. CASE x # k /\ x \notin ek
    <3>1. x \in DOMAIN f.data /\ x \notin old /\ x \notin new
      BY <2>3, <1>26, <1>27
    <3>2. d[x] = f.data[x]
      BY <2>3, <3>1, <1>30
    <3>3. QED
      BY <2>3, <3>1, <3>2, <1>25, <1>38
  <2>4. QED
    BY <2>1, <2>2, <2>3
<1>41. q = t[Len(t)].seq
  BY <1>21, <1>24
<1>42. View(t) = [seq |-> q, data |-> d]
  BY <1>24, <1>32, <1>33, <1>39, <1>40, <1>41, ViewIs
<1>43. QED
  BY <1>4, <1>6, <1>21, <1>22, <1>23, <1>31, <1>42

\* Applying a command to the writable level of a sound stack, wherever its key and the
\* previous expire key lie, keeps the stack sound and shows the map that the command
\* produces from the map shown before, with the same seq counter.
THEOREM UpsertIsCommand ==
    ASSUME NEW b \in Seq(LevelType), NEW w \in LevelType, Sound(Append(b, w)),
           NEW cmd \in Cmds, NEW a \in Nat, NEW u, u = Upsert(b, w, cmd),
           NEW n, n = Level(u.seq, a, u.data)
    PROVE  /\ n \in LevelType /\ n.applied = a
           /\ Sound(Append(b, n))
           /\ View(Append(b, n)) = FlatApply(View(Append(b, w)), cmd)
<1>1. cmd.op \in {"put", "del"}
  BY DEF Cmds
<1>2. /\ u \in LevelType
      /\ Sound(Append(b, u))
      /\ View(Append(b, u)) = FlatApply(View(Append(b, w)), cmd)
  <2>1. CASE cmd.op = "put"
    BY <2>1, PutFacts DEF Upsert
  <2>2. CASE cmd.op = "del"
    BY <2>2, DelFacts DEF Upsert
  <2>3. QED
    BY <1>1, <2>1, <2>2
<1>3. u.seq \in Nat /\ u.data \in PartialMap
  BY <1>2, LevelParts
<1>4. n \in LevelType /\ n.seq = u.seq /\ n.applied = a /\ n.data = u.data
  BY <1>3, LevelFacts
<1>5. Sound(b) /\ Fine(n) /\ Rests(b, n)
  <2>1. Sound(b) /\ Fine(u) /\ Rests(b, u)
    BY <1>2, SoundAppend
  <2>2. Fine(n)
    BY <2>1, <1>4 DEF Fine
  <2>3. Rests(b, n)
    BY <2>1, <1>4 DEF Rests
  <2>4. QED
    BY <2>1, <2>2, <2>3
<1>6. Sound(Append(b, n))
  BY <1>4, <1>5, SoundAppend
<1>7. PICK x, y : x = Append(b, n) /\ y = Append(b, u)
  BY Zenon
<1>8. x \in Seq(LevelType) /\ y \in Seq(LevelType) /\ x[Len(x)] = n /\ y[Len(y)] = u
  BY <1>2, <1>4, <1>7, AppendProperties
<1>9. \A k : compacted_get(x, k) = compacted_get(y, k)
  BY <1>2, <1>4, <1>7, GetAppend
<1>10. PICK v : v = View(y)
  OBVIOUS
<1>11. /\ v = [seq |-> v.seq, data |-> v.data]
       /\ v.seq = n.seq
       /\ v.data \in PartialMap
       /\ \A k : k \in DOMAIN v.data <=> ~compacted_get(x, k).tomb
       /\ \A k \in DOMAIN v.data : v.data[k] = compacted_get(x, k)
  BY <1>4, <1>8, <1>9, <1>10, ViewFacts
<1>12. View(x) = [seq |-> v.seq, data |-> v.data]
  <2>1. PICK d : d = v.data
    OBVIOUS
  <2>2. /\ d \in PartialMap
        /\ \A k : k \in DOMAIN d <=> ~compacted_get(x, k).tomb
        /\ \A k \in DOMAIN d : d[k] = compacted_get(x, k)
        /\ v.seq = x[Len(x)].seq
    BY <2>1, <1>8, <1>11
  <2>3. QED
    BY <2>1, <2>2, <1>8, ViewIs, Zenon
<1>13. QED
  BY <1>2, <1>4, <1>6, <1>7, <1>10, <1>11, <1>12

\* The reference: commands lead from plain maps without tombstones to such maps.
LEMMA FlatFacts ==
    /\ Flat(FlatEmpty)
    /\ \A f, cmd : Flat(f) /\ cmd \in Cmds => Flat(FlatApply(f, cmd))
<1>1. Flat(FlatEmpty)
  <2>1. PICK f : f = FlatEmpty
    OBVIOUS
  <2>2. f = [seq |-> 0, data |-> NoData]
    BY <2>1 DEF FlatEmpty
  <2>3. f.seq = 0 /\ f.data = NoData /\ f = [seq |-> f.seq, data |-> f.data]
    BY <2>2
  <2>4. PICK l : l = Level(f.seq, 0, f.data)
    OBVIOUS
  <2>5. l.data = NoData
    BY <2>3, <2>4 DEF Level
  <2>6. Fine(l)
    BY <2>5, NotFoundFacts DEF Fine
  <2>7. QED
    BY <2>1, <2>3, <2>4, <2>6, NotFoundFacts DEF Flat
<1>2. ASSUME NEW f, NEW cmd, Flat(f), cmd \in Cmds
      PROVE  Flat(FlatApply(f, cmd))
  <2>1. PICK w : w = Level(f.seq, 0, f.data)
    OBVIOUS
  <2>2. w \in LevelType /\ Sound(<<w>>) /\ View(<<w>>) = f
    BY <1>2, <2>1, FlatLevel
  <2>3. <<>> \in Seq(LevelType) /\ <<w>> \in Seq(LevelType)
    BY <2>2, EmptySeq, OneIsSound
  <2>4. PICK e : e = <<>>
    OBVIOUS
  <2>5. e \in Seq(LevelType)
    BY <2>3, <2>4
  <2>6. Append(e, w) = <<w>>
    <3>1. Append(e, w) = e \o <<w>>
      BY <2>2, <2>5, AppendIsConcat
    <3>2. e \o <<w>> = <<w>>
      BY <2>3, <2>4, ConcatEmptySeq
    <3>3. QED
      BY <3>1, <3>2
  <2>7. Sound(Append(e, w)) /\ View(Append(e, w)) = f
    BY <2>2, <2>6
  <2>8. PICK u : u = Upsert(e, w, cmd)
    OBVIOUS
  <2>9. PICK n : n = Level(u.seq, 0, u.data)
    OBVIOUS
  <2>10. /\ n \in LevelType
         /\ Sound(Append(e, n))
         /\ View(Append(e, n)) = FlatApply(View(Append(e, w)), cmd)
    BY <1>2, <2>2, <2>5, <2>7, <2>8, <2>9, UpsertIsCommand
  <2>11. Append(e, n) \in Seq(LevelType) /\ Append(e, n) # <<>>
    BY <2>5, <2>10, AppendProperties
  <2>12. Flat(View(Append(e, n)))
    BY <2>10, <2>11, ViewIsFlat, Zenon
  <2>13. QED
    BY <2>7, <2>10, <2>12
<1>3. QED
  BY <1>1, <1>2
=============================================================================

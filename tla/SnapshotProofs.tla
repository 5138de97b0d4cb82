-------------------------- MODULE SnapshotProofs ----------------------------
(***************************************************************************)
(* Proofs about the configuration snapshots, for every number of threads,  *)
(* parts, updates, producers at one address, and attempts of a fetch.      *)
(***************************************************************************)
EXTENDS Snapshot, FiniteSetTheorems, TLAPS

-----------------------------------------------------------------------------
(* The invariant.                                                          *)

Snapshots == [gen : 1..MaxGens, ver : [Parts -> Nat], refs : Nat]

Fetches == [pc : {"idle", "want", "load", "count", "hold", "wild"}, part : Parts \cup {Nil},
            want : Nat, ptr : Nat \cup {Nil}, tries : 0..Tries, floor : Nat, overlap : BOOLEAN,
            res : {"none", "ok", "oom", "stale"}]

Updates == [pc : {"idle", "set", "publish", "release"}, part : Parts \cup {Nil}, left : Int,
            old : Nat \cup {Nil}]

\* The published snapshot is of this producer and not ahead of the versions.
World(v, ss, c, n) ==
    /\ v \in [Parts -> Nat] /\ \A p \in Parts : v[p] > 0
    /\ ss \in Seq(Snapshots) /\ n \in 1..MaxGens
    /\ c \in DOMAIN ss \cup {Nil}
    /\ c # Nil => ss[c].gen = n /\ \A p \in Parts : ss[c].ver[p] <= v[p]

\* A fetch g in the world of the versions v, the snapshots ss, of which c is
\* published, and the producer n.  Until an update overlaps it, the version
\* wanted, the version published and the version of the snapshot read agree.
Fetch(g, v, ss, c, n) ==
    /\ g \in Fetches
    /\ g.pc \in {"want", "load", "count", "hold"} =>
         /\ c # Nil /\ g.part \in Parts /\ g.tries > 0 /\ g.floor <= v[g.part]
         /\ g.overlap \/ ss[c].ver[g.part] = v[g.part]
    /\ g.pc \in {"load", "count", "hold"} =>
         g.floor <= g.want /\ (g.overlap \/ g.want = v[g.part])
    /\ g.pc \in {"count", "hold"} =>
         /\ g.ptr \in DOMAIN ss /\ ss[g.ptr].gen = n
         /\ g.overlap \/ ss[g.ptr].ver[g.part] = v[g.part]
    /\ g.res = "stale" => g.overlap

HoldersOf(gs, i) == {s \in Threads : gs[s].pc = "hold" /\ gs[s].ptr = i}

Refs(i) == (IF cur = i THEN 1 ELSE 0)
         + (IF upd.pc = "release" /\ upd.old = i THEN 1 ELSE 0)
         + Cardinality(HoldersOf(get, i))

SnapTypes ==
    /\ World(ver, snaps, cur, prod.gen)
    /\ seed \in Nat
    /\ prod \in [gen : 1..MaxGens, open : BOOLEAN]
    /\ prod.open => cur # Nil
    /\ upd \in Updates
    /\ upd.pc # "idle" => cur # Nil
    /\ upd.pc = "set" => upd.part \in Parts
    /\ upd.pc = "release" => upd.old \in DOMAIN snaps

SnapFetches ==
    /\ DOMAIN get = Threads
    /\ \A s \in Threads : Fetch(get[s], ver, snaps, cur, prod.gen)

SnapRefs == \A i \in DOMAIN snaps : snaps[i].refs = Refs(i)

SnapInv == SnapTypes /\ SnapFetches /\ SnapRefs

-----------------------------------------------------------------------------
(* The list of snapshots.                                                  *)

\* The same snapshots, apart from their counts.
Like(ss, tt) ==
    /\ DOMAIN tt = DOMAIN ss
    /\ \A i \in DOMAIN ss : tt[i].gen = ss[i].gen /\ tt[i].ver = ss[i].ver

\* A reference is given back.
LEMMA DropSnap ==
  ASSUME NEW ss \in Seq(Snapshots), NEW i \in DOMAIN ss, ss[i].refs > 0
  PROVE  /\ Drop(ss, i) \in Seq(Snapshots) /\ Like(ss, Drop(ss, i))
         /\ Drop(ss, i)[i].refs = ss[i].refs - 1
         /\ \A j \in DOMAIN ss : j # i => Drop(ss, i)[j] = ss[j]
<1> DEFINE d == Drop(ss, i)
<1>0. ss[i] \in Snapshots
  OBVIOUS
<1>1. ss[i].refs \in Nat /\ ss[i].refs - 1 \in Nat
  BY <1>0 DEF Snapshots
<1>2. /\ DOMAIN d = DOMAIN ss /\ d[i] = [ss[i] EXCEPT !.refs = @ - 1]
      /\ \A j \in DOMAIN ss : j # i => d[j] = ss[j]
  BY DEF Drop
<1>3. d[i] \in Snapshots /\ d[i].refs = ss[i].refs - 1 /\ d[i].gen = ss[i].gen /\ d[i].ver = ss[i].ver
  BY <1>0, <1>1, <1>2 DEF Snapshots
<1>4. d \in Seq(Snapshots)
  <2>1. ss \in [1..Len(ss) -> Snapshots] /\ Len(ss) \in Nat /\ DOMAIN ss = 1..Len(ss)
    OBVIOUS
  <2>2. d = [j \in 1..Len(ss) |-> d[j]] /\ \A j \in 1..Len(ss) : d[j] \in Snapshots
    BY <1>2, <1>3, <2>1 DEF Drop
  <2>3. d \in [1..Len(ss) -> Snapshots]
    BY <2>2
  <2> QED
    BY <2>1, <2>3
<1> QED
  BY <1>2, <1>3, <1>4 DEF Like

Counted(ss, i) == [ss EXCEPT ![i].refs = @ + 1]

\* A reference is taken.
LEMMA CountSnap ==
  ASSUME NEW ss \in Seq(Snapshots), NEW i \in DOMAIN ss
  PROVE  /\ Counted(ss, i) \in Seq(Snapshots) /\ Like(ss, Counted(ss, i))
         /\ Counted(ss, i)[i].refs = ss[i].refs + 1
         /\ \A j \in DOMAIN ss : j # i => Counted(ss, i)[j] = ss[j]
<1> DEFINE d == Counted(ss, i)
<1>0. ss[i] \in Snapshots
  OBVIOUS
<1>1. ss[i].refs \in Nat /\ ss[i].refs + 1 \in Nat
  BY <1>0 DEF Snapshots
<1>2. /\ DOMAIN d = DOMAIN ss /\ d[i] = [ss[i] EXCEPT !.refs = @ + 1]
      /\ \A j \in DOMAIN ss : j # i => d[j] = ss[j]
  BY DEF Counted
<1>3. d[i] \in Snapshots /\ d[i].refs = ss[i].refs + 1 /\ d[i].gen = ss[i].gen /\ d[i].ver = ss[i].ver
  BY <1>0, <1>1, <1>2 DEF Snapshots
<1>4. d \in Seq(Snapshots)
  <2>1. ss \in [1..Len(ss) -> Snapshots] /\ Len(ss) \in Nat /\ DOMAIN ss = 1..Len(ss)
    OBVIOUS
  <2>2. d = [j \in 1..Len(ss) |-> d[j]] /\ \A j \in 1..Len(ss) : d[j] \in Snapshots
    BY <1>2, <1>3, <2>1 DEF Counted
  <2>3. d \in [1..Len(ss) -> Snapshots]
    BY <2>2
  <2> QED
    BY <2>1, <2>3
<1> QED
  BY <1>2, <1>3, <1>4 DEF Like

\* A snapshot is added, at an index that nothing refers to yet.
LEMMA AddSnap ==
  ASSUME NEW ss \in Seq(Snapshots), NEW n \in 1..MaxGens, NEW v \in [Parts -> Nat]
  PROVE  LET tt == Append(ss, NewSnapshot(n, v))
             k == Len(ss) + 1
         IN  /\ tt \in Seq(Snapshots) /\ DOMAIN tt = DOMAIN ss \cup {k} /\ k \notin DOMAIN ss
             /\ k \in Nat /\ tt[k].gen = n /\ tt[k].ver = v /\ tt[k].refs = 1
             /\ \A j \in DOMAIN ss : tt[j] = ss[j]
<1> DEFINE x == NewSnapshot(n, v)
<1>1. x \in Snapshots /\ x.gen = n /\ x.ver = v /\ x.refs = 1
  BY DEF NewSnapshot, Snapshots
<1> HIDE DEF x
<1>2. /\ Append(ss, x) \in Seq(Snapshots) /\ DOMAIN ss = 1..Len(ss) /\ Len(ss) \in Nat
      /\ DOMAIN Append(ss, x) = 1..(Len(ss) + 1) /\ Append(ss, x)[Len(ss) + 1] = x
      /\ \A j \in 1..Len(ss) : Append(ss, x)[j] = ss[j]
  BY <1>1
<1> QED
  BY <1>1, <1>2 DEF x

\* The counts are nothing to the world of a fetch, nor to the fetch.
LEMMA LikeWorld ==
  ASSUME NEW v, NEW ss, NEW tt \in Seq(Snapshots), NEW c, NEW n,
         World(v, ss, c, n), Like(ss, tt)
  PROVE  /\ World(v, tt, c, n)
         /\ \A g : Fetch(g, v, ss, c, n) => Fetch(g, v, tt, c, n)
<1>1. World(v, tt, c, n)
  BY DEF World, Like
<1>2. ASSUME NEW g, Fetch(g, v, ss, c, n)
      PROVE  Fetch(g, v, tt, c, n)
  <2>1. c # Nil => c \in DOMAIN ss /\ tt[c].ver = ss[c].ver
    BY DEF World, Like
  <2>2. g.ptr \in DOMAIN ss => g.ptr \in DOMAIN tt /\ tt[g.ptr].gen = ss[g.ptr].gen /\ tt[g.ptr].ver = ss[g.ptr].ver
    BY DEF Like
  <2> QED
    BY <1>2, <2>1, <2>2 DEF Fetch
<1> QED
  BY <1>1, <1>2

\* Nor is it to the fetches in progress that the versions are published.
LEMMA PublishWorld ==
  ASSUME NEW v, NEW ss, NEW c, NEW n, World(v, ss, c, n)
  PROVE  LET tt == Append(ss, NewSnapshot(n, v))
             k == Len(ss) + 1
         IN  /\ World(v, tt, k, n)
             /\ \A g : Fetch(g, v, ss, c, n) => Fetch(g, v, tt, k, n)
<1> DEFINE tt == Append(ss, NewSnapshot(n, v))
           k == Len(ss) + 1
<1>1. /\ tt \in Seq(Snapshots) /\ DOMAIN tt = DOMAIN ss \cup {k}
      /\ k \in Nat /\ tt[k].gen = n /\ tt[k].ver = v
      /\ \A j \in DOMAIN ss : tt[j] = ss[j]
  BY AddSnap DEF World
<1>2. k # Nil
  BY <1>1, SnapshotAssumption
<1> HIDE DEF tt, k
<1>3. World(v, tt, k, n)
  BY <1>1 DEF World
<1>4. ASSUME NEW g, Fetch(g, v, ss, c, n)
      PROVE  Fetch(g, v, tt, k, n)
  <2>1. g.ptr \in DOMAIN ss => g.ptr \in DOMAIN tt /\ tt[g.ptr] = ss[g.ptr]
    BY <1>1
  <2> QED
    BY <1>1, <1>2, <1>4, <2>1 DEF Fetch
<1> QED
  BY <1>3, <1>4 DEF tt, k

\* Two sets of fetches of which the same ones hold the same snapshots.
LEMMA SameHolders ==
  ASSUME NEW gs, NEW hs, NEW i,
         \A s \in Threads : /\ (gs[s].pc = "hold") <=> (hs[s].pc = "hold")
                            /\ gs[s].pc = "hold" => gs[s].ptr = hs[s].ptr
  PROVE  HoldersOf(hs, i) = HoldersOf(gs, i)
BY DEF HoldersOf

\* The number of holders is a number, and changes by the one that comes or goes.
LEMMA HoldersFacts ==
  ASSUME NEW gs, NEW i
  PROVE  /\ IsFiniteSet(HoldersOf(gs, i)) /\ Cardinality(HoldersOf(gs, i)) \in Nat
         /\ \A s : s \notin HoldersOf(gs, i) =>
              Cardinality(HoldersOf(gs, i) \cup {s}) = Cardinality(HoldersOf(gs, i)) + 1
         /\ \A s \in HoldersOf(gs, i) :
              Cardinality(HoldersOf(gs, i) \ {s}) = Cardinality(HoldersOf(gs, i)) - 1
<1>1. IsFiniteSet(HoldersOf(gs, i))
  BY SnapshotAssumption, FS_Subset DEF HoldersOf
<1> QED
  BY <1>1, FS_CardinalityType, FS_AddElement, FS_RemoveElement

-----------------------------------------------------------------------------
(* The invariant holds initially, and every step keeps it.                 *)

\* No fetch is in progress.
LEMMA NoFetch ==
  ASSUME NEW v, NEW ss, NEW c, NEW n
  PROVE  /\ Fetch(NoGet, v, ss, c, n) /\ NoGet.pc = "idle" /\ NoGet.res = "none"
         /\ LET g == [NoGet EXCEPT !.pc = "wild"]
            IN  Fetch(g, v, ss, c, n) /\ g.pc = "wild" /\ g.res = "none"
<1>1. NoGet \in Fetches /\ NoGet.pc = "idle" /\ NoGet.res = "none"
  BY SnapshotAssumption DEF NoGet, Fetches
<1> DEFINE g == [NoGet EXCEPT !.pc = "wild"]
<1>2. g \in Fetches /\ g.pc = "wild" /\ g.res = "none"
  BY <1>1 DEF Fetches
<1> HIDE DEF g
<1> QED
  BY <1>1, <1>2 DEF Fetch, g

\* One snapshot, published, and nobody who holds it.
LEMMA SnapInitInv == SnapshotInit => SnapInv
<1> SUFFICES ASSUME SnapshotInit PROVE SnapInv
  OBVIOUS
<1> DEFINE v == [p \in Parts |-> 2]
           x == NewSnapshot(1, v)
<1>1. x \in Snapshots /\ x.gen = 1 /\ x.ver = v /\ x.refs = 1 /\ v \in [Parts -> Nat]
  BY SnapshotAssumption DEF NewSnapshot, Snapshots
<1>2. snaps = <<x>> /\ cur = 1 /\ ver = v
  BY DEF SnapshotInit
<1> HIDE DEF x
<1>3. snaps \in Seq(Snapshots) /\ DOMAIN snaps = {1} /\ snaps[1] = x
  BY <1>1, <1>2
<1>4. 1 # Nil /\ prod.gen = 1 /\ prod \in [gen : 1..MaxGens, open : BOOLEAN] /\ 1 \in 1..MaxGens
  BY SnapshotAssumption DEF SnapshotInit
<1>5. World(ver, snaps, cur, prod.gen)
  <2>1. \A p \in Parts : v[p] = 2
    OBVIOUS
  <2> HIDE DEF v
  <2> QED
    BY <1>1, <1>2, <1>3, <1>4, <2>1 DEF World
<1>6. upd \in Updates /\ upd.pc = "idle"
  BY DEF SnapshotInit, NoUpdate, Updates
<1>7. SnapTypes
  BY <1>2, <1>4, <1>5, <1>6 DEF SnapTypes, SnapshotInit
<1>8. get = [s \in Threads |-> NoGet] /\ \A s \in Threads : get[s] = NoGet
  BY DEF SnapshotInit
<1>9. SnapFetches
  BY <1>8, NoFetch DEF SnapFetches
<1>10. SnapRefs
  <2>1. HoldersOf(get, 1) = {}
    BY <1>8, NoFetch DEF HoldersOf
  <2> QED
    BY <1>1, <1>2, <1>3, <1>6, <2>1, FS_EmptySet DEF SnapRefs, Refs
<1> QED
  BY <1>7, <1>9, <1>10 DEF SnapInv

\* What the proofs below need of the types, and of the counts.
LEMMA SnapFacts ==
  ASSUME SnapInv
  PROVE  /\ snaps \in Seq(Snapshots) /\ World(ver, snaps, cur, prod.gen)
         /\ \A i \in DOMAIN snaps : i \in Nat /\ i # Nil /\ snaps[i].refs \in Nat /\ snaps[i] \in Snapshots
         /\ \A s \in Threads : get[s] \in Fetches
<1>1. snaps \in Seq(Snapshots) /\ World(ver, snaps, cur, prod.gen)
  BY DEF SnapInv, SnapTypes, World
<1>2. ASSUME NEW i \in DOMAIN snaps
      PROVE  i \in Nat /\ i # Nil /\ snaps[i].refs \in Nat /\ snaps[i] \in Snapshots
  <2>1. i \in Nat /\ snaps[i] \in Snapshots
    BY <1>1, <1>2
  <2> QED
    BY <2>1, SnapshotAssumption DEF Snapshots
<1>3. \A s \in Threads : get[s] \in Fetches
  BY DEF SnapInv, SnapFetches, Fetch
<1> QED
  BY <1>1, <1>2, <1>3

\* A step that changes no reference.
LEMMA RefsSame ==
  ASSUME SnapInv, UNCHANGED <<snaps, cur>>,
         upd'.pc = "release" <=> upd.pc = "release",
         upd.pc = "release" => upd'.old = upd.old,
         \A s \in Threads : /\ (get[s].pc = "hold") <=> (get'[s].pc = "hold")
                            /\ get[s].pc = "hold" => get[s].ptr = get'[s].ptr
  PROVE  SnapRefs'
<1>1. \A i : HoldersOf(get', i) = HoldersOf(get, i)
  BY SameHolders
<1>2. \A i : HoldersOf(get, i)' = HoldersOf(get', i)
  BY DEF HoldersOf
<1> QED
  BY <1>1, <1>2 DEF SnapInv, SnapRefs, Refs

\* One thread goes on with its fetch; at most counts change.
LEMMA FetchStep ==
  ASSUME SnapInv, NEW s \in Threads, NEW g, get' = [get EXCEPT ![s] = g],
         Fetch(g, ver, snaps, cur, prod.gen),
         snaps' \in Seq(Snapshots), Like(snaps, snaps'), UNCHANGED <<ver, cur, prod, upd, seed>>
  PROVE  /\ SnapTypes' /\ SnapFetches'
         /\ get'[s] = g /\ \A u \in Threads : u # s => get'[u] = get[u]
<1>1. World(ver, snaps, cur, prod.gen)
  BY SnapFacts
<1>2. /\ World(ver, snaps', cur, prod.gen)
      /\ \A h : Fetch(h, ver, snaps, cur, prod.gen) => Fetch(h, ver, snaps', cur, prod.gen)
  BY <1>1, LikeWorld
<1>3. /\ DOMAIN get' = Threads
      /\ get'[s] = g /\ \A u \in Threads : u # s => get'[u] = get[u]
  BY DEF SnapInv, SnapFetches
<1>4. \A u \in Threads : Fetch(get'[u], ver', snaps', cur', prod'.gen)
  BY <1>2, <1>3 DEF SnapInv, SnapFetches
<1>5. SnapTypes'
  BY <1>2 DEF SnapInv, SnapTypes, Like
<1> QED
  BY <1>3, <1>4, <1>5 DEF SnapFetches

\* An update begins, sets its fields, or finds no memory to publish them.
LEMMA UpdateInv ==
  ASSUME SnapInv,
         (\E p \in Parts, n \in 1..MaxFields : UpdateBegin(p, n)) \/ PublishFails
  PROVE  SnapInv'
<1>1. UNCHANGED <<ver, snaps, cur, prod, seed, get>>
  BY DEF UpdateBegin, PublishFails
<1>2. /\ upd' \in Updates /\ upd'.pc \in {"idle", "set"} /\ upd.pc # "release"
      /\ upd'.pc = "set" => upd'.part \in Parts /\ prod.open
  <2>1. CASE PublishFails
    BY <2>1 DEF PublishFails, NoUpdate, Updates
  <2>2. CASE \E p \in Parts, n \in 1..MaxFields : UpdateBegin(p, n)
    <3>0. PICK p \in Parts, n \in 1..MaxFields : UpdateBegin(p, n)
      BY <2>2
    <3>1. upd' = [pc |-> "set", part |-> p, left |-> n, old |-> Nil] /\ upd.pc = "idle" /\ prod.open
      BY <3>0 DEF UpdateBegin, NoUpdate
    <3> QED
      BY <3>1 DEF Updates
  <2> QED
    BY <2>1, <2>2
<1>3. SnapTypes'
  BY <1>1, <1>2 DEF SnapInv, SnapTypes
<1>4. SnapFetches'
  BY <1>1 DEF SnapInv, SnapFetches
<1>5. SnapRefs'
  BY <1>1, <1>2, RefsSame
<1> QED
  BY <1>3, <1>4, <1>5 DEF SnapInv

\* One field is set: every fetch of that part is overlapped from now on.
LEMMA SetFieldInv ==
  ASSUME SnapInv, SetField
  PROVE  SnapInv'
<1>1. /\ upd.pc = "set" /\ upd.part \in Parts /\ UNCHANGED <<snaps, cur, prod, seed>> /\ cur # Nil
      /\ World(ver, snaps, cur, prod.gen)
  BY DEF SetField, SnapInv, SnapTypes
<1>2. /\ upd' \in Updates /\ upd'.pc \in {"set", "publish"} /\ upd'.part = upd.part
  <2>1. upd \in Updates /\ upd.left - 1 \in Int
    BY DEF SnapInv, SnapTypes, Updates
  <2>2. upd' = [upd EXCEPT !.left = @ - 1, !.pc = IF upd.left = 1 THEN "publish" ELSE "set"]
    BY DEF SetField
  <2> QED
    BY <2>1, <2>2 DEF Updates
<1>3. /\ ver' \in [Parts -> Nat] /\ ver'[upd.part] = ver[upd.part] + 1
      /\ \A p \in Parts : ver[p] \in Nat /\ ver'[p] >= ver[p] /\ (p # upd.part => ver'[p] = ver[p])
  BY <1>1 DEF SetField, World
<1>4. World(ver', snaps, cur, prod.gen)
  <2>1. \A p \in Parts : snaps[cur].ver[p] \in Nat
    <3>1. snaps[cur] \in Snapshots
      BY <1>1, SnapFacts DEF World
    <3> QED
      BY <3>1 DEF Snapshots
  <2> QED
    BY <1>1, <1>3, <2>1 DEF World
<1>5. SnapTypes'
  BY <1>1, <1>2, <1>4 DEF SnapInv, SnapTypes
<1>6. ASSUME NEW s \in Threads
      PROVE  /\ Fetch(get'[s], ver', snaps, cur, prod.gen)
             /\ get'[s].pc = get[s].pc /\ get'[s].ptr = get[s].ptr
  <2> DEFINE g == get[s]
             o == g.overlap \/ (g.pc # "idle" /\ g.part = upd.part)
  <2>1. g \in Fetches /\ Fetch(g, ver, snaps, cur, prod.gen) /\ o \in BOOLEAN
    BY DEF SnapInv, SnapFetches, Fetch, Fetches
  <2>2. get'[s] = [g EXCEPT !.overlap = o]
    BY DEF SetField
  <2> HIDE DEF o
  <2>3. /\ get'[s] \in Fetches /\ get'[s].overlap = o /\ get'[s].pc = g.pc /\ get'[s].part = g.part
        /\ get'[s].want = g.want /\ get'[s].ptr = g.ptr /\ get'[s].tries = g.tries
        /\ get'[s].floor = g.floor /\ get'[s].res = g.res
    BY <2>1, <2>2 DEF Fetches
  <2>4. /\ g.overlap => o
        /\ g.pc # "idle" /\ g.part = upd.part => o
    BY DEF o
  <2>5. g.part \in Parts /\ g.floor <= ver[g.part] => g.floor <= ver'[g.part]
    BY <1>3, <2>1 DEF Fetches
  <2>6. g.pc # "idle" /\ g.part \in Parts => o \/ ver'[g.part] = ver[g.part]
    BY <1>3, <2>4
  <2> HIDE DEF g
  <2>7. Fetch(get'[s], ver', snaps, cur, prod.gen)
    BY <2>1, <2>3, <2>4, <2>5, <2>6 DEF Fetch
  <2> QED
    BY <2>3, <2>7 DEF g
<1>7. SnapFetches'
  <2>1. DOMAIN get' = Threads
    BY DEF SetField
  <2> QED
    BY <1>1, <1>6, <2>1 DEF SnapFetches
<1>8. SnapRefs'
  BY <1>1, <1>2, <1>6, RefsSame
<1> QED
  BY <1>5, <1>7, <1>8 DEF SnapInv

\* The new snapshot is exchanged for the old one, which the update still counts.
LEMMA PublishInv ==
  ASSUME SnapInv, Publish
  PROVE  SnapInv'
<1>0. PICK k \in Nat : k = Len(snaps) + 1
  BY SnapFacts
<1>1. /\ upd.pc = "publish" /\ cur # Nil /\ cur \in DOMAIN snaps
      /\ UNCHANGED <<ver, prod, seed, get>> /\ cur' = k
      /\ snaps' = Append(snaps, NewSnapshot(prod.gen, ver))
      /\ World(ver, snaps, cur, prod.gen)
  BY <1>0 DEF Publish, SnapInv, SnapTypes, World
<1>2. /\ World(ver, snaps', k, prod.gen)
      /\ \A g : Fetch(g, ver, snaps, cur, prod.gen) => Fetch(g, ver, snaps', k, prod.gen)
  BY <1>0, <1>1, PublishWorld
<1>3. /\ DOMAIN snaps' = DOMAIN snaps \cup {k} /\ k \notin DOMAIN snaps
      /\ k \in Nat /\ k # Nil /\ snaps'[k].refs = 1
      /\ \A j \in DOMAIN snaps : snaps'[j] = snaps[j]
  BY <1>0, <1>1, AddSnap, SnapshotAssumption DEF World
<1>4. upd' \in Updates /\ upd'.pc = "release" /\ upd'.old = cur
  <2>1. upd \in Updates /\ cur \in Nat
    BY <1>1, SnapFacts DEF SnapInv, SnapTypes
  <2>2. upd' = [upd EXCEPT !.pc = "release", !.old = cur]
    BY DEF Publish
  <2> QED
    BY <2>1, <2>2 DEF Updates
<1>5. SnapTypes'
  BY <1>1, <1>2, <1>3, <1>4 DEF SnapInv, SnapTypes
<1>6. SnapFetches'
  BY <1>1, <1>2 DEF SnapInv, SnapFetches
<1>7. SnapRefs'
  <2>1. HoldersOf(get, k) = {}
    BY <1>3 DEF HoldersOf, SnapInv, SnapFetches, Fetch
  <2>2. \A i : HoldersOf(get, i)' = HoldersOf(get, i)
    BY <1>1 DEF HoldersOf
  <2>3. snaps'[k].refs = Refs(k)'
    BY <1>1, <1>3, <1>4, <2>1, <2>2, FS_EmptySet DEF Refs
  <2>4. ASSUME NEW i \in DOMAIN snaps
        PROVE  snaps'[i].refs = Refs(i)'
    <3>1. snaps[i].refs = Refs(i) /\ i # k
      BY <1>3 DEF SnapInv, SnapRefs
    <3>2. Refs(i)' = Refs(i)
      BY <1>1, <1>4, <2>2, <3>1 DEF Refs
    <3> QED
      BY <1>3, <3>1, <3>2
  <2> QED
    BY <1>3, <2>3, <2>4 DEF SnapRefs
<1> QED
  BY <1>5, <1>6, <1>7 DEF SnapInv

\* The update gives back the reference of the snapshot published before.
LEMMA ReleaseOldInv ==
  ASSUME SnapInv, ReleaseOld
  PROVE  SnapInv'
<1> DEFINE o == upd.old
<1>1. /\ upd.pc = "release" /\ o \in DOMAIN snaps /\ snaps' = Drop(snaps, o)
      /\ UNCHANGED <<ver, cur, prod, seed, get>> /\ upd' = NoUpdate
  BY DEF ReleaseOld, SnapInv, SnapTypes
<1>2. \A i : HoldersOf(get, i)' = HoldersOf(get, i) /\ Cardinality(HoldersOf(get, i)) \in Nat
  <2>1. \A i : Cardinality(HoldersOf(get, i)) \in Nat
    BY HoldersFacts
  <2>2. \A i : HoldersOf(get, i)' = HoldersOf(get, i)
    BY <1>1 DEF HoldersOf
  <2> QED
    BY <2>1, <2>2
<1>3. snaps[o].refs = Refs(o) /\ snaps[o].refs > 0
  BY <1>1, <1>2 DEF SnapInv, SnapRefs, Refs
<1>4. /\ snaps' \in Seq(Snapshots) /\ Like(snaps, snaps')
      /\ snaps'[o].refs = snaps[o].refs - 1
      /\ \A j \in DOMAIN snaps : j # o => snaps'[j] = snaps[j]
  BY <1>1, <1>3, DropSnap, SnapFacts
<1>5. /\ World(ver, snaps', cur, prod.gen)
      /\ \A g : Fetch(g, ver, snaps, cur, prod.gen) => Fetch(g, ver, snaps', cur, prod.gen)
  BY <1>4, LikeWorld, SnapFacts
<1>6. upd' \in Updates /\ upd'.pc = "idle"
  BY <1>1 DEF NoUpdate, Updates
<1>7. SnapTypes'
  BY <1>1, <1>5, <1>6 DEF SnapInv, SnapTypes
<1>8. SnapFetches'
  BY <1>1, <1>5 DEF SnapInv, SnapFetches
<1>9. SnapRefs'
  <2>1. ASSUME NEW i \in DOMAIN snaps
        PROVE  snaps'[i].refs = Refs(i)'
    <3>1. snaps[i].refs = Refs(i)
      BY DEF SnapInv, SnapRefs
    <3>2. CASE i = o
      BY <1>1, <1>2, <1>4, <1>6, <3>1, <3>2 DEF Refs
    <3>3. CASE i # o
      BY <1>1, <1>2, <1>4, <1>6, <3>1, <3>3 DEF Refs
    <3> QED
      BY <3>2, <3>3
  <2> QED
    BY <1>4, <2>1 DEF SnapRefs, Like
<1> QED
  BY <1>7, <1>8, <1>9 DEF SnapInv

\* A fetch begins, reads the version it wants, or reads the published pointer.
LEMMA FetchReadInv ==
  ASSUME SnapInv, NEW s \in Threads,
         (\E p \in Parts : GetStart(s, p)) \/ Want(s) \/ LoadPointer(s)
  PROVE  SnapInv'
<1>1. UNCHANGED <<ver, snaps, cur, upd, prod, seed>> /\ get[s].pc \in {"idle", "want", "load"}
  BY DEF GetStart, Want, LoadPointer
<1>2. /\ World(ver, snaps, cur, prod.gen) /\ snaps \in Seq(Snapshots)
      /\ Fetch(get[s], ver, snaps, cur, prod.gen) /\ get[s] \in Fetches
      /\ \A p \in Parts : ver[p] \in Nat
      /\ cur # Nil => cur \in DOMAIN snaps /\ \A p \in Parts : snaps[cur].ver[p] \in Nat
  <2>1. World(ver, snaps, cur, prod.gen) /\ snaps \in Seq(Snapshots) /\ get[s] \in Fetches
    BY SnapFacts
  <2>2. cur # Nil => cur \in DOMAIN snaps /\ snaps[cur] \in Snapshots
    BY <2>1, SnapFacts DEF World
  <2>3. cur # Nil => \A p \in Parts : snaps[cur].ver[p] \in Nat
    BY <2>2 DEF Snapshots
  <2> QED
    BY <2>1, <2>2, <2>3 DEF SnapInv, SnapFetches, World
<1>3. \E g : /\ get' = [get EXCEPT ![s] = g] /\ Fetch(g, ver, snaps, cur, prod.gen) /\ g.pc # "hold"
  <2>1. CASE \E p \in Parts : GetStart(s, p)
    <3>1. PICK p \in Parts : GetStart(s, p)
      BY <2>1
    <3> DEFINE f == snaps[cur].ver[p]
    <3>0. PICK o \in BOOLEAN : o = (ver[p] # f)
      OBVIOUS
    <3>b. PICK b : b = [NoGet EXCEPT !.part = p, !.floor = f, !.overlap = o]
      OBVIOUS
    <3> DEFINE x == Served(b)
               y == [b EXCEPT !.pc = "want", !.tries = Tries]
    <3>2. cur # Nil /\ f \in Nat /\ f <= ver[p] /\ (o \/ f = ver[p])
      BY <1>2, <3>0, <3>1 DEF GetStart, World
    <3>3. get' = [get EXCEPT ![s] = x] \/ get' = [get EXCEPT ![s] = y]
      <4>1. get' = [get EXCEPT ![s] = IF cache[s][p].version = ver[p] THEN x ELSE y]
        BY <3>0, <3>b, <3>1, Zenon DEF GetStart
      <4> HIDE DEF x, y
      <4> QED
        BY <4>1
    <3> HIDE DEF f
    <3>4. /\ b \in Fetches /\ b.part = p /\ b.floor = f /\ b.overlap = o
          /\ b.pc = "idle" /\ b.res = "none"
      <4>1. NoGet \in Fetches /\ NoGet.pc = "idle" /\ NoGet.res = "none"
        BY NoFetch DEF Fetch
      <4>2. p \in Parts /\ f \in Nat /\ o \in BOOLEAN
        BY <3>0, <3>2
      <4> QED
        BY <3>b, <4>1, <4>2 DEF Fetches
    <3>5. Fetch(x, ver, snaps, cur, prod.gen) /\ x.pc # "hold"
      <4>1. x = [NoGet EXCEPT !.res = "ok", !.part = p, !.floor = f]
        BY <3>4, Zenon DEF Served
      <4>2. x = [pc |-> "idle", part |-> p, want |-> 0, ptr |-> Nil, tries |-> 0,
                 floor |-> f, overlap |-> FALSE, res |-> "ok"]
        BY <4>1 DEF NoGet
      <4> HIDE DEF x
      <4>3. x \in Fetches /\ x.pc = "idle" /\ x.res = "ok"
        BY <3>2, <4>2, SnapshotAssumption DEF Fetches
      <4> QED
        BY <4>3 DEF Fetch
    <3>6. Fetch(y, ver, snaps, cur, prod.gen) /\ y.pc # "hold"
      <4>1. /\ y.pc = "want" /\ y.res = b.res /\ y.part = b.part /\ y.tries = Tries
            /\ y.floor = b.floor /\ y.overlap = b.overlap
        BY <3>4 DEF Fetches
      <4>2. /\ y.res = "none" /\ y.part = p /\ y.floor = f /\ (y.overlap \/ f = ver[p])
        BY <3>2, <3>4, <4>1, Zenon
      <4>0. b \in Fetches /\ Tries \in 0..Tries
        BY <3>4, SnapshotAssumption
      <4>3. y \in Fetches
        BY <4>0 DEF Fetches
      <4> HIDE DEF y
      <4>4. f = snaps[cur].ver[p]
        BY DEF f
      <4> QED
        BY <3>2, <4>1, <4>2, <4>3, <4>4, SnapshotAssumption DEF Fetch
    <3> QED
      BY <3>3, <3>5, <3>6
  <2>2. CASE Want(s)
    <3> DEFINE g == get[s]
               x == [g EXCEPT !.pc = "load", !.want = ver[g.part]]
    <3>1. get' = [get EXCEPT ![s] = x] /\ g.pc = "want" /\ g.part \in Parts
      BY <1>2, <2>2 DEF Want, SnapInv, SnapFetches, Fetch
    <3>2. /\ x \in Fetches /\ x.pc = "load" /\ x.want = ver[g.part] /\ x.part = g.part
          /\ x.tries = g.tries /\ x.floor = g.floor /\ x.overlap = g.overlap /\ x.res = g.res
      BY <1>2, <3>1 DEF Fetches
    <3> HIDE DEF x, g
    <3>3. Fetch(x, ver, snaps, cur, prod.gen)
      BY <1>2, <3>1, <3>2 DEF Fetch, g
    <3> QED
      BY <3>1, <3>2, <3>3
  <2>3. CASE LoadPointer(s)
    <3> DEFINE g == get[s]
               x == [g EXCEPT !.pc = "count", !.ptr = cur]
    <3>1. /\ get' = [get EXCEPT ![s] = x] /\ g.pc = "load" /\ cur # Nil
          /\ cur \in DOMAIN snaps /\ cur \in Nat /\ snaps[cur].gen = prod.gen
      BY <1>2, <2>3, SnapFacts DEF LoadPointer, SnapInv, SnapFetches, Fetch, World
    <3>2. /\ x \in Fetches /\ x.pc = "count" /\ x.want = g.want /\ x.part = g.part /\ x.ptr = cur
          /\ x.tries = g.tries /\ x.floor = g.floor /\ x.overlap = g.overlap /\ x.res = g.res
      BY <1>2, <3>1 DEF Fetches
    <3> HIDE DEF x, g
    <3>3. Fetch(x, ver, snaps, cur, prod.gen)
      BY <1>2, <3>1, <3>2 DEF Fetch, g
    <3> QED
      BY <3>1, <3>2, <3>3
  <2> QED
    BY <2>1, <2>2, <2>3
<1>4. PICK g : /\ get' = [get EXCEPT ![s] = g] /\ Fetch(g, ver, snaps, cur, prod.gen) /\ g.pc # "hold"
  BY <1>3
<1>5. snaps' \in Seq(Snapshots) /\ Like(snaps, snaps')
  BY <1>1, <1>2 DEF Like
<1>6. /\ SnapTypes' /\ SnapFetches'
      /\ get'[s] = g /\ \A u \in Threads : u # s => get'[u] = get[u]
  BY <1>1, <1>4, <1>5, FetchStep
<1>7. SnapRefs'
  BY <1>1, <1>4, <1>6, RefsSame
<1> QED
  BY <1>6, <1>7 DEF SnapInv

\* A fetch takes a reference, or finds the snapshot gone.
LEMMA CountInv ==
  ASSUME SnapInv, NEW s \in Threads, Count(s)
  PROVE  SnapInv'
<1> DEFINE g == get[s]
<1>1. /\ g.pc = "count" /\ UNCHANGED <<ver, cur, upd, prod, seed>>
      /\ Fetch(g, ver, snaps, cur, prod.gen) /\ g \in Fetches /\ g.ptr \in DOMAIN snaps
      /\ snaps \in Seq(Snapshots)
  BY SnapFacts DEF Count, SnapInv, SnapFetches, Fetch
<1>2. CASE snaps[g.ptr].refs > 0
  <2> DEFINE x == [g EXCEPT !.pc = "hold"]
  <2>1. snaps' = Counted(snaps, g.ptr) /\ get' = [get EXCEPT ![s] = x]
    BY <1>2 DEF Count, Counted, SnapInv, SnapFetches
  <2>2. /\ x \in Fetches /\ x.pc = "hold" /\ x.want = g.want /\ x.part = g.part /\ x.ptr = g.ptr
        /\ x.tries = g.tries /\ x.floor = g.floor /\ x.overlap = g.overlap /\ x.res = g.res
    BY <1>1 DEF Fetches
  <2> HIDE DEF x, g
  <2>3. Fetch(x, ver, snaps, cur, prod.gen)
    BY <1>1, <2>2 DEF Fetch
  <2>4. /\ snaps' \in Seq(Snapshots) /\ Like(snaps, snaps')
        /\ snaps'[g.ptr].refs = snaps[g.ptr].refs + 1
        /\ \A j \in DOMAIN snaps : j # g.ptr => snaps'[j] = snaps[j]
    BY <1>1, <2>1, CountSnap
  <2>5. /\ SnapTypes' /\ SnapFetches'
        /\ get'[s] = x /\ \A u \in Threads : u # s => get'[u] = get[u]
    BY <1>1, <2>1, <2>3, <2>4, FetchStep
  <2>6. ASSUME NEW i \in DOMAIN snaps
        PROVE  snaps'[i].refs = Refs(i)'
    <3>1. snaps[i].refs = Refs(i) /\ HoldersOf(get, i)' = HoldersOf(get', i)
      BY DEF SnapInv, SnapRefs, HoldersOf
    <3>2. CASE i = g.ptr
      <4>1. HoldersOf(get', i) = HoldersOf(get, i) \cup {s} /\ s \notin HoldersOf(get, i)
        BY <1>1, <2>2, <2>5, <3>2 DEF HoldersOf, g
      <4>2. Cardinality(HoldersOf(get', i)) = Cardinality(HoldersOf(get, i)) + 1
        BY <4>1, HoldersFacts
      <4>3. Cardinality(HoldersOf(get, i)) \in Nat
        BY HoldersFacts
      <4> QED
        BY <1>1, <2>4, <3>1, <3>2, <4>2, <4>3 DEF Refs
    <3>3. CASE i # g.ptr
      <4>1. HoldersOf(get', i) = HoldersOf(get, i)
        BY <1>1, <2>2, <2>5, <3>3 DEF HoldersOf, g
      <4> QED
        BY <1>1, <2>4, <3>1, <3>3, <4>1 DEF Refs
    <3> QED
      BY <3>2, <3>3
  <2> QED
    BY <2>4, <2>5, <2>6 DEF SnapInv, SnapRefs, Like
<1>3. CASE ~(snaps[g.ptr].refs > 0)
  <2>0. snaps' = snaps
    BY <1>3 DEF Count
  <2>1. \E h : get' = [get EXCEPT ![s] = h] /\ Fetch(h, ver, snaps, cur, prod.gen) /\ h.pc # "hold"
    <3> DEFINE x == [g EXCEPT !.pc = "load", !.ptr = Nil]
               y == [NoGet EXCEPT !.pc = "wild"]
    <3>1. get' = [get EXCEPT ![s] = x] \/ get' = [get EXCEPT ![s] = y]
      BY <1>3 DEF Count, SnapInv, SnapFetches
    <3>2. /\ x \in Fetches /\ x.pc = "load" /\ x.want = g.want /\ x.part = g.part
          /\ x.tries = g.tries /\ x.floor = g.floor /\ x.overlap = g.overlap /\ x.res = g.res
      BY <1>1 DEF Fetches
    <3>3. Fetch(y, ver, snaps, cur, prod.gen) /\ y.pc = "wild"
      BY NoFetch
    <3> HIDE DEF x, y, g
    <3>4. Fetch(x, ver, snaps, cur, prod.gen)
      BY <1>1, <3>2 DEF Fetch
    <3> QED
      BY <3>1, <3>2, <3>3, <3>4
  <2>2. PICK h : get' = [get EXCEPT ![s] = h] /\ Fetch(h, ver, snaps, cur, prod.gen) /\ h.pc # "hold"
    BY <2>1
  <2>3. snaps' \in Seq(Snapshots) /\ Like(snaps, snaps')
    BY <1>1, <2>0 DEF Like
  <2>4. /\ SnapTypes' /\ SnapFetches'
        /\ get'[s] = h /\ \A u \in Threads : u # s => get'[u] = get[u]
    BY <1>1, <2>2, <2>3, FetchStep
  <2>5. SnapRefs'
    BY <1>1, <2>0, <2>2, <2>4, RefsSame
  <2> QED
    BY <2>4, <2>5 DEF SnapInv
<1> QED
  BY <1>2, <1>3

\* A fetch ends or tries again: until an update overlaps it, it finds the version
\* it wants, so it does not try again, and does not give up.
LEMMA ReleaseHeldNext ==
  ASSUME SnapInv, NEW s \in Threads, ReleaseHeld(s)
  PROVE  \E h : /\ get' = [get EXCEPT ![s] = h] /\ Fetch(h, ver, snaps, cur, prod.gen)
                /\ h.pc # "hold"
<1> DEFINE g == get[s]
<1>1. /\ g.pc = "hold" /\ UNCHANGED <<ver, cur, upd, prod, seed>>
      /\ Fetch(g, ver, snaps, cur, prod.gen) /\ g \in Fetches /\ g.ptr \in DOMAIN snaps
  BY SnapFacts DEF ReleaseHeld, SnapInv, SnapFetches, Fetch
<1>2. \/ get' = [get EXCEPT ![s] = Served(g)]
      \/ get' = [get EXCEPT ![s] = GivenUp(g, "oom")]
      \/ ~Matches(s, snaps[g.ptr]) /\ get' = [get EXCEPT ![s] = NextTry(g)]
  BY DEF ReleaseHeld
<1>3. NoGet \in Fetches /\ NoGet.pc = "idle" /\ NoGet.res = "none"
  BY NoFetch DEF Fetch
<1>4. CASE get' = [get EXCEPT ![s] = Served(g)]
  <2> DEFINE x == Served(g)
  <2>1. x \in Fetches /\ x.pc = "idle" /\ x.res = "ok"
    BY <1>1, <1>3 DEF Served, Fetches
  <2> HIDE DEF x
  <2> QED
    BY <1>4, <2>1 DEF Fetch, x
<1>5. CASE get' = [get EXCEPT ![s] = GivenUp(g, "oom")]
  <2> DEFINE x == GivenUp(g, "oom")
  <2>1. x \in Fetches /\ x.pc = "idle" /\ x.res = "oom"
    BY <1>1, <1>3 DEF GivenUp, Fetches
  <2> HIDE DEF x
  <2> QED
    BY <1>5, <2>1 DEF Fetch, x
<1>6. CASE ~Matches(s, snaps[g.ptr]) /\ get' = [get EXCEPT ![s] = NextTry(g)]
  <2>0. g.overlap
    BY <1>1, <1>6 DEF Matches, Fetch
  <2>1. CASE g.tries = 1
    <3> DEFINE x == GivenUp(g, "stale")
    <3>1. x \in Fetches /\ x.pc = "idle" /\ x.res = "stale" /\ x.overlap = g.overlap
      BY <1>1, <1>3 DEF GivenUp, Fetches
    <3>2. get' = [get EXCEPT ![s] = x]
      BY <1>6, <2>1 DEF NextTry
    <3> HIDE DEF x
    <3> QED
      BY <2>0, <3>1, <3>2 DEF Fetch
  <2>2. CASE g.tries # 1
    <3> DEFINE x == [g EXCEPT !.pc = "want", !.ptr = Nil, !.tries = @ - 1]
    <3>0. g.tries - 1 \in 0..Tries /\ g.tries - 1 > 0
      BY <1>1, <2>2, SnapshotAssumption DEF Fetch, Fetches
    <3>1. /\ x \in Fetches /\ x.pc = "want" /\ x.part = g.part /\ x.tries = g.tries - 1
          /\ x.floor = g.floor /\ x.overlap = g.overlap /\ x.res = g.res
      BY <1>1, <3>0 DEF Fetches
    <3>2. get' = [get EXCEPT ![s] = x]
      BY <1>6, <2>2 DEF NextTry
    <3> HIDE DEF x, g
    <3>3. Fetch(x, ver, snaps, cur, prod.gen)
      BY <1>1, <2>0, <3>0, <3>1 DEF Fetch
    <3> QED
      BY <3>1, <3>2, <3>3
  <2> QED
    BY <2>1, <2>2
<1> QED
  BY <1>2, <1>4, <1>5, <1>6

\* ... and gives back its reference.
LEMMA ReleaseHeldInv ==
  ASSUME SnapInv, NEW s \in Threads, ReleaseHeld(s)
  PROVE  SnapInv'
<1> DEFINE g == get[s]
<1>1. /\ g.pc = "hold" /\ UNCHANGED <<ver, cur, upd, prod, seed>> /\ g.ptr \in DOMAIN snaps
      /\ snaps \in Seq(Snapshots) /\ snaps' = Drop(snaps, g.ptr)
  BY SnapFacts DEF ReleaseHeld, SnapInv, SnapFetches, Fetch
<1>2. PICK h : /\ get' = [get EXCEPT ![s] = h] /\ Fetch(h, ver, snaps, cur, prod.gen)
               /\ h.pc # "hold"
  BY ReleaseHeldNext
<1>3. s \in HoldersOf(get, g.ptr)
  BY <1>1 DEF HoldersOf
<1>4. snaps[g.ptr].refs > 0
  <2>1. Cardinality(HoldersOf(get, g.ptr)) \in Nat /\ Cardinality(HoldersOf(get, g.ptr) \ {s}) \in Nat
    BY HoldersFacts, FS_RemoveElement, FS_CardinalityType
  <2>2. Cardinality(HoldersOf(get, g.ptr)) > 0
    BY <1>3, <2>1, HoldersFacts
  <2>3. snaps[g.ptr].refs = Refs(g.ptr)
    BY <1>1 DEF SnapInv, SnapRefs
  <2> HIDE DEF g
  <2> QED
    BY <2>1, <2>2, <2>3 DEF Refs
<1>5. /\ snaps' \in Seq(Snapshots) /\ Like(snaps, snaps')
      /\ snaps'[g.ptr].refs = snaps[g.ptr].refs - 1
      /\ \A j \in DOMAIN snaps : j # g.ptr => snaps'[j] = snaps[j]
  BY <1>1, <1>4, DropSnap
<1> HIDE DEF g
<1>6. /\ SnapTypes' /\ SnapFetches'
      /\ get'[s] = h /\ \A u \in Threads : u # s => get'[u] = get[u]
  BY <1>1, <1>2, <1>5, FetchStep
<1>7. ASSUME NEW i \in DOMAIN snaps
      PROVE  snaps'[i].refs = Refs(i)'
  <2>1. snaps[i].refs = Refs(i) /\ HoldersOf(get, i)' = HoldersOf(get', i)
    BY DEF SnapInv, SnapRefs, HoldersOf
  <2>2. CASE i = g.ptr
    <3>1. HoldersOf(get', i) = HoldersOf(get, i) \ {s} /\ s \in HoldersOf(get, i)
      BY <1>2, <1>3, <1>6, <2>2 DEF HoldersOf
    <3>2. Cardinality(HoldersOf(get', i)) = Cardinality(HoldersOf(get, i)) - 1
      BY <3>1, HoldersFacts
    <3>3. Cardinality(HoldersOf(get, i)) \in Nat
      BY HoldersFacts
    <3> QED
      BY <1>1, <1>5, <2>1, <2>2, <3>2, <3>3 DEF Refs
  <2>3. CASE i # g.ptr
    <3>1. HoldersOf(get', i) = HoldersOf(get, i)
      BY <1>1, <1>2, <1>6, <2>3 DEF HoldersOf, g
    <3> QED
      BY <1>1, <1>5, <2>1, <2>3, <3>1 DEF Refs
  <2> QED
    BY <2>2, <2>3
<1> QED
  BY <1>5, <1>6, <1>7 DEF SnapInv, SnapRefs, Like

\* The producer no longer accepts updates; or nothing happens.
LEMMA CloseInv ==
  ASSUME SnapInv, Close \/ UNCHANGED snapVars
  PROVE  SnapInv'
<1>1. /\ UNCHANGED <<ver, snaps, cur, upd, seed, get>> /\ prod'.gen = prod.gen
      /\ prod' \in [gen : 1..MaxGens, open : BOOLEAN] /\ (prod'.open => prod.open)
  BY DEF Close, snapVars, SnapInv, SnapTypes
<1>2. SnapTypes'
  BY <1>1 DEF SnapInv, SnapTypes
<1>3. SnapFetches'
  BY <1>1 DEF SnapInv, SnapFetches
<1>4. SnapRefs'
  BY <1>1, RefsSame
<1> QED
  BY <1>2, <1>3, <1>4 DEF SnapInv

\* The last reference is given back with the publication.
LEMMA ClearInv ==
  ASSUME SnapInv, Clear
  PROVE  SnapInv'
<1>1. /\ ~prod.open /\ cur # Nil /\ cur \in DOMAIN snaps /\ upd.pc = "idle" /\ cur' = Nil
      /\ snaps' = Drop(snaps, cur) /\ UNCHANGED <<ver, upd, prod, seed>>
      /\ \A s \in Threads : get[s].pc \in {"idle", "wild"}
      /\ World(ver, snaps, cur, prod.gen) /\ snaps \in Seq(Snapshots)
  BY SnapFacts DEF Clear, World
<1>2. DOMAIN get' = Threads /\ \A s \in Threads : get'[s] = [NoGet EXCEPT !.pc = get[s].pc]
  BY DEF Clear
<1>3. ASSUME NEW s \in Threads
      PROVE  get'[s] \in Fetches /\ get'[s].pc \in {"idle", "wild"} /\ get'[s].res = "none"
  <2>1. NoGet \in Fetches /\ NoGet.res = "none"
    BY NoFetch DEF Fetch
  <2> QED
    BY <1>1, <1>2, <2>1 DEF Fetches
<1>4. /\ \A i : HoldersOf(get, i) = {} /\ HoldersOf(get, i)' = {}
      /\ Cardinality({}) = 0
  BY <1>1, <1>3, FS_EmptySet DEF HoldersOf
<1>5. snaps[cur].refs > 0 /\ snaps[cur].refs = 1
  BY <1>1, <1>4 DEF SnapInv, SnapRefs, Refs
<1>6. /\ snaps' \in Seq(Snapshots) /\ Like(snaps, snaps')
      /\ snaps'[cur].refs = 0
      /\ \A j \in DOMAIN snaps : j # cur => snaps'[j] = snaps[j]
  BY <1>1, <1>5, DropSnap
<1>7. SnapTypes'
  <2>1. World(ver, snaps', Nil, prod.gen)
    BY <1>1, <1>6 DEF World
  <2> QED
    BY <1>1, <2>1 DEF SnapInv, SnapTypes
<1>8. SnapFetches'
  BY <1>2, <1>3 DEF SnapFetches, Fetch
<1>9. SnapRefs'
  <2>1. ASSUME NEW i \in DOMAIN snaps
        PROVE  snaps'[i].refs = Refs(i)'
    <3>1. snaps[i].refs = Refs(i) /\ i # Nil
      BY SnapFacts DEF SnapInv, SnapRefs
    <3>2. CASE i = cur
      BY <1>1, <1>4, <1>6, <3>1, <3>2 DEF Refs
    <3>3. CASE i # cur
      BY <1>1, <1>4, <1>6, <3>1, <3>3 DEF Refs
    <3> QED
      BY <3>2, <3>3
  <2> QED
    BY <1>6, <2>1 DEF SnapRefs, Like
<1> QED
  BY <1>7, <1>8, <1>9 DEF SnapInv

\* Another producer at the same address publishes its first snapshot.
LEMMA CreateInv ==
  ASSUME SnapInv, Create
  PROVE  SnapInv'
<1>0. PICK k \in Nat : k = Len(snaps) + 1
  BY SnapFacts
<1> DEFINE v == [p \in Parts |-> seed + 1]
           n == prod.gen + 1
<1>1. /\ cur = Nil /\ cur' = k /\ ver' = v /\ prod' = [gen |-> n, open |-> TRUE]
      /\ seed' = seed + 1 /\ upd' = upd
      /\ snaps' = Append(snaps, NewSnapshot(n, v)) /\ snaps \in Seq(Snapshots)
  BY <1>0, SnapFacts DEF Create
<1>2. /\ n \in 1..MaxGens /\ v \in [Parts -> Nat] /\ seed' \in Nat /\ \A p \in Parts : v[p] > 0 /\ v[p] \in Nat
  BY SnapshotAssumption DEF Create, SnapInv, SnapTypes
<1>3. /\ DOMAIN snaps' = DOMAIN snaps \cup {k} /\ k \notin DOMAIN snaps /\ snaps' \in Seq(Snapshots)
      /\ k # Nil /\ snaps'[k].refs = 1 /\ snaps'[k].gen = n /\ snaps'[k].ver = v
      /\ \A j \in DOMAIN snaps : snaps'[j] = snaps[j]
  BY <1>0, <1>1, <1>2, AddSnap, SnapshotAssumption
<1> HIDE DEF v, n
<1>4. prod'.gen = n /\ prod' \in [gen : 1..MaxGens, open : BOOLEAN]
  BY <1>1, <1>2
<1>5. World(ver', snaps', cur', prod'.gen)
  BY <1>1, <1>2, <1>3, <1>4 DEF World
<1>6. upd.pc = "idle" /\ SnapTypes'
  BY <1>1, <1>2, <1>3, <1>4, <1>5 DEF SnapInv, SnapTypes
<1>7. /\ DOMAIN get' = Threads
      /\ \A s \in Threads : get'[s] = get[s] \/ get'[s] = NoGet
  BY DEF Create, SnapInv, SnapFetches
<1>8. ASSUME NEW s \in Threads
      PROVE  /\ Fetch(get'[s], ver', snaps', cur', prod'.gen)
             /\ get[s].pc # "hold" /\ get'[s].pc # "hold"
  <2>1. Fetch(get[s], ver, snaps, cur, prod.gen)
    BY DEF SnapInv, SnapFetches
  <2>2. /\ get[s].pc \notin {"want", "load", "count", "hold"}
        /\ Fetch(get[s], ver', snaps', cur', prod'.gen)
    BY <1>1, <2>1 DEF Fetch
  <2> QED
    BY <1>7, <2>2, NoFetch
<1>9. SnapFetches'
  BY <1>7, <1>8 DEF SnapFetches
<1>10. SnapRefs'
  <2>1. /\ \A i : HoldersOf(get, i) = {} /\ HoldersOf(get, i)' = {}
        /\ Cardinality({}) = 0
    <3>1. \A s \in Threads : get[s].pc # "hold" /\ get'[s].pc # "hold"
      BY <1>8
    <3> QED
      BY <3>1, FS_EmptySet DEF HoldersOf
  <2>2. snaps'[k].refs = Refs(k)'
    <3>1. cur' = k /\ upd'.pc # "release" /\ Cardinality(HoldersOf(get, k)') = 0
      BY <1>1, <1>6, <2>1
    <3> QED
      BY <1>3, <3>1 DEF Refs
  <2>3. ASSUME NEW i \in DOMAIN snaps
        PROVE  snaps'[i].refs = Refs(i)'
    <3>1. snaps[i].refs = Refs(i) /\ i # Nil /\ i # k
      BY <1>3, SnapFacts DEF SnapInv, SnapRefs
    <3> QED
      BY <1>1, <1>3, <1>6, <2>1, <3>1 DEF Refs
  <2> QED
    BY <1>3, <2>2, <2>3 DEF SnapRefs
<1> QED
  BY <1>6, <1>9, <1>10 DEF SnapInv

\* The invariant of the snapshots, whoever the senders belong to.
THEOREM SnapInvariance == SnapshotSpec => []SnapInv
<1>1. SnapInv /\ [SnapshotNext]_snapVars => SnapInv'
  BY UpdateInv, SetFieldInv, PublishInv, ReleaseOldInv, FetchReadInv, CountInv, ReleaseHeldInv,
     CloseInv, ClearInv, CreateInv DEF SnapshotNext
<1> QED
  BY <1>1, SnapInitInv, PTL DEF SnapshotSpec

\* ve_tls_runtime_snapshot_acquire and _release balance: the count of a snapshot is
\* its publication, the fetches that hold it and the release that an update owes.
THEOREM RefsCorrect == SnapshotSpec => []RefsExact
<1>1. SnapInv => RefsExact
  <2> SUFFICES ASSUME SnapInv PROVE RefsExact
    OBVIOUS
  <2>1. \A i \in DOMAIN snaps : snaps[i].refs \in Nat /\ snaps[i].gen \in 1..MaxGens
    BY SnapFacts DEF Snapshots
  <2>2. \A s \in Threads :
          /\ get[s].pc \in {"idle", "want", "load", "count", "hold", "wild"}
          /\ get[s].tries \in 0..Tries
          /\ get[s].res \in {"none", "ok", "oom", "stale"}
          /\ get[s].pc = "hold" => get[s].ptr \in DOMAIN snaps
    BY DEF SnapInv, SnapFetches, Fetch, Fetches
  <2>3. upd.pc \in {"idle", "set", "publish", "release"}
    BY DEF SnapInv, SnapTypes, Updates
  <2>4. SnapshotTypeOK
    BY <2>1, <2>2, <2>3 DEF SnapshotTypeOK, SnapInv, SnapTypes, World
  <2> QED
    BY <2>4 DEF RefsExact, SnapInv, SnapRefs, Refs, HoldersOf
<1> QED
  BY <1>1, SnapInvariance, PTL

\* A fetch gives up its batch only when an update ran, or had failed, during it.
THEOREM FailuresExplained == SnapshotSpec => []FailureExplained
<1>1. SnapInv => FailureExplained
  BY DEF SnapInv, SnapFetches, Fetch, FailureExplained
<1> QED
  BY <1>1, SnapInvariance, PTL

-----------------------------------------------------------------------------
(* What the fetches serve.                                                 *)

\* A cache is empty or holds a version of the producer n.
Cached(e, n) ==
    \/ e = EmptyCache
    \/ \E k \in Nat \ {0} : e = [version |-> k, content |-> <<n, k>>]

\* A fetch that was served found its part in the cache, no older than the floor.
ServedFrom(g, c) ==
    /\ g.res = "ok" =>
         g.part \in Parts /\ c[g.part].version > 0 /\ g.floor <= c[g.part].version
    /\ g.pc \in {"load", "count", "hold"} => g.want > 0

CacheInv ==
    /\ cache \in [Threads -> [Parts -> [version : Nat, content : {Nil} \cup Nat \X Nat]]]
    /\ \A s \in Threads, p \in Parts : Cached(cache[s][p], prod.gen)
    /\ \A s \in Threads : ServedFrom(get[s], cache[s])

\* The caches stay, and no fetch is served.
LEMMA CachesStay ==
  ASSUME CacheInv, cache' = cache, prod'.gen = prod.gen,
         \A s \in Threads :
            /\ get'[s].res = "ok" =>
                 get[s].res = "ok" /\ get'[s].part = get[s].part /\ get'[s].floor = get[s].floor
            /\ get'[s].pc \in {"load", "count", "hold"} => get'[s].want > 0
  PROVE  CacheInv'
<1>1. \A s \in Threads : ServedFrom(get'[s], cache'[s])
  BY DEF CacheInv, ServedFrom
<1> QED
  BY <1>1 DEF CacheInv

\* The steps of updates and of the producer, but for a creation.
LEMMA CacheUpdate ==
  ASSUME SnapInv, CacheInv,
         \/ \E p \in Parts, n \in 1..MaxFields : UpdateBegin(p, n)
         \/ SetField \/ Publish \/ PublishFails \/ ReleaseOld \/ Close \/ Clear \/ UNCHANGED snapVars
  PROVE  CacheInv'
<1>1. cache' = cache
  BY DEF UpdateBegin, SetField, Publish, PublishFails, ReleaseOld, Close, Clear, snapVars
<1>2. prod'.gen = prod.gen
  BY DEF UpdateBegin, SetField, Publish, PublishFails, ReleaseOld, Close, Clear, snapVars,
     SnapInv, SnapTypes
<1>3. CASE get' = get
  BY <1>1, <1>2, <1>3, CachesStay DEF CacheInv, ServedFrom
<1>4. CASE SetField
  <2>1. ASSUME NEW s \in Threads
        PROVE  /\ get'[s].res = get[s].res /\ get'[s].part = get[s].part /\ get'[s].floor = get[s].floor
               /\ get'[s].pc = get[s].pc /\ get'[s].want = get[s].want
    <3> DEFINE o == get[s].overlap \/ (get[s].pc # "idle" /\ get[s].part = upd.part)
    <3>1. get[s] \in Fetches /\ get'[s] = [get[s] EXCEPT !.overlap = o]
      BY <1>4, SnapFacts DEF SetField
    <3> HIDE DEF o
    <3> QED
      BY <3>1 DEF Fetches
  <2> QED
    BY <1>1, <1>2, <2>1, CachesStay DEF CacheInv, ServedFrom
<1>5. CASE Clear
  <2>1. ASSUME NEW s \in Threads
        PROVE  get'[s].res = "none" /\ get'[s].pc = get[s].pc
    <3>1. NoGet \in Fetches /\ NoGet.res = "none" /\ get'[s] = [NoGet EXCEPT !.pc = get[s].pc]
      BY <1>5, NoFetch DEF Fetch, Clear
    <3> QED
      BY <3>1 DEF Fetches
  <2>2. \A s \in Threads : get[s].pc \in {"idle", "wild"}
    BY <1>5 DEF Clear
  <2> QED
    BY <1>1, <1>2, <2>1, <2>2, CachesStay
<1> QED
  BY <1>3, <1>4, <1>5 DEF UpdateBegin, Publish, PublishFails, ReleaseOld, Close, snapVars

\* A thread goes on with its fetch and is not served.
LEMMA CacheRead ==
  ASSUME SnapInv, CacheInv, NEW s \in Threads, Want(s) \/ LoadPointer(s) \/ Count(s)
  PROVE  CacheInv'
<1>1. cache' = cache /\ prod' = prod /\ DOMAIN get = Threads /\ get[s] \in Fetches
  BY SnapFacts DEF Want, LoadPointer, Count, SnapInv, SnapFetches
<1>2. \A u \in Threads : u # s => get'[u] = get[u]
  BY <1>1 DEF Want, LoadPointer, Count
<1>3. /\ get'[s].res = "ok" =>
           get[s].res = "ok" /\ get'[s].part = get[s].part /\ get'[s].floor = get[s].floor
      /\ get'[s].pc \in {"load", "count", "hold"} => get'[s].want > 0
  <2>1. CASE Want(s)
    <3>1. get'[s] = [get[s] EXCEPT !.pc = "load", !.want = ver[get[s].part]] /\ get[s].pc = "want"
      BY <1>1, <2>1 DEF Want
    <3>2. ver[get[s].part] \in Nat /\ ver[get[s].part] > 0
      BY <3>1 DEF SnapInv, SnapFetches, Fetch, SnapTypes, World
    <3>3. /\ get'[s].res = get[s].res /\ get'[s].part = get[s].part /\ get'[s].floor = get[s].floor
          /\ get'[s].want = ver[get[s].part]
      BY <1>1, <3>1 DEF Fetches
    <3> QED
      BY <3>2, <3>3
  <2>2. CASE LoadPointer(s)
    <3>1. get'[s] = [get[s] EXCEPT !.pc = "count", !.ptr = cur] /\ get[s].pc = "load"
      BY <1>1, <2>2 DEF LoadPointer
    <3>2. /\ get'[s].res = get[s].res /\ get'[s].part = get[s].part /\ get'[s].floor = get[s].floor
          /\ get'[s].want = get[s].want
      BY <1>1, <3>1 DEF Fetches
    <3> QED
      BY <3>1, <3>2 DEF CacheInv, ServedFrom
  <2>3. CASE Count(s)
    <3>1. /\ get[s].pc = "count"
          /\ \/ get'[s] = [get[s] EXCEPT !.pc = "hold"]
             \/ get'[s] = [get[s] EXCEPT !.pc = "load", !.ptr = Nil]
             \/ get'[s] = [NoGet EXCEPT !.pc = "wild"]
      BY <1>1, <2>3 DEF Count
    <3>2. CASE get'[s] = [NoGet EXCEPT !.pc = "wild"]
      <4>1. get'[s].pc = "wild" /\ get'[s].res = "none"
        BY <3>2, NoFetch
      <4> QED
        BY <4>1
    <3>3. CASE get'[s] = [get[s] EXCEPT !.pc = "hold"] \/ get'[s] = [get[s] EXCEPT !.pc = "load", !.ptr = Nil]
      <4>1. /\ get'[s].res = get[s].res /\ get'[s].part = get[s].part /\ get'[s].floor = get[s].floor
            /\ get'[s].want = get[s].want
        BY <1>1, <3>3 DEF Fetches
      <4> QED
        BY <3>1, <4>1 DEF CacheInv, ServedFrom
    <3> QED
      BY <3>1, <3>2, <3>3
  <2> QED
    BY <2>1, <2>2, <2>3
<1> QED
  BY <1>1, <1>2, <1>3, CachesStay DEF CacheInv, ServedFrom

\* A fetch is served from the cache, or begins.
LEMMA CacheStart ==
  ASSUME SnapInv, CacheInv, NEW s \in Threads, NEW p \in Parts, GetStart(s, p)
  PROVE  CacheInv'
<1>1. cache' = cache /\ prod' = prod /\ DOMAIN get = Threads /\ cur # Nil
  BY DEF GetStart, SnapInv, SnapFetches
<1>2. PICK f \in Nat : f = snaps[cur].ver[p]
  <2>1. snaps[cur] \in Snapshots
    BY <1>1, SnapFacts DEF World
  <2> QED
    BY <2>1 DEF Snapshots
<1>3. PICK o \in BOOLEAN : o = (ver[p] # f)
  OBVIOUS
<1>4. PICK b : b = [NoGet EXCEPT !.part = p, !.floor = f, !.overlap = o]
  OBVIOUS
<1>5. b \in Fetches /\ b.part = p /\ b.floor = f /\ b.res = "none"
  <2>1. NoGet \in Fetches /\ NoGet.pc = "idle" /\ NoGet.res = "none"
    BY NoFetch DEF Fetch
  <2>2. p \in Parts /\ f \in Nat /\ o \in BOOLEAN
    BY <1>2, <1>3
  <2> QED
    BY <1>4, <2>1, <2>2 DEF Fetches
<1> DEFINE x == Served(b)
           y == [b EXCEPT !.pc = "want", !.tries = Tries]
<1>6. get' = [get EXCEPT ![s] = IF cache[s][p].version = ver[p] THEN x ELSE y]
  BY <1>2, <1>3, <1>4, Zenon DEF GetStart
<1>7. /\ get'[s] = IF cache[s][p].version = ver[p] THEN x ELSE y
      /\ \A u \in Threads : u # s => get'[u] = get[u]
  <2> HIDE DEF x, y
  <2> QED
    BY <1>1, <1>6
<1>8. ServedFrom(get'[s], cache[s])
  <2>1. CASE cache[s][p].version = ver[p]
    <3>1. get'[s] = x
      <4> HIDE DEF x, y
      <4> QED
        BY <1>7, <2>1
    <3>2. x = [NoGet EXCEPT !.res = "ok", !.part = p, !.floor = f]
      BY <1>5, Zenon DEF Served
    <3>3. x.res = "ok" /\ x.part = p /\ x.floor = f /\ x.pc = "idle"
      BY <3>2 DEF NoGet
    <3>4. f <= ver[p] /\ ver[p] > 0
      BY <1>1, <1>2 DEF SnapInv, SnapTypes, World
    <3> HIDE DEF x
    <3> QED
      BY <2>1, <3>1, <3>3, <3>4 DEF ServedFrom
  <2>2. CASE cache[s][p].version # ver[p]
    <3>1. get'[s] = y
      <4> HIDE DEF x, y
      <4> QED
        BY <1>7, <2>2
    <3>2. y.res = "none" /\ y.pc = "want"
      BY <1>5 DEF Fetches
    <3> HIDE DEF y
    <3> QED
      BY <3>1, <3>2 DEF ServedFrom
  <2> QED
    BY <2>1, <2>2
<1> QED
  BY <1>1, <1>7, <1>8 DEF CacheInv

\* A fetch copies the part it wanted from the snapshot that it holds, or ends
\* without.
LEMMA CacheServed ==
  ASSUME SnapInv, CacheInv, NEW s \in Threads, ReleaseHeld(s)
  PROVE  CacheInv'
<1> DEFINE g == get[s]
           held == snaps[g.ptr]
<1>1. /\ prod' = prod /\ DOMAIN get = Threads /\ g \in Fetches /\ g.pc = "hold" /\ g.part \in Parts
      /\ g.ptr \in DOMAIN snaps /\ held.gen = prod.gen /\ g.floor <= g.want /\ g.want \in Nat /\ g.want > 0
  BY SnapFacts DEF ReleaseHeld, SnapInv, SnapFetches, Fetch, Fetches, CacheInv, ServedFrom
<1>2. CASE /\ Matches(s, held)
           /\ cache' = [cache EXCEPT ![s][g.part] =
                  [version |-> g.want, content |-> <<held.gen, held.ver[g.part]>>]]
           /\ get' = [get EXCEPT ![s] = Served(g)]
  <2> DEFINE e == [version |-> g.want, content |-> <<prod.gen, g.want>>]
  <2>1. cache' = [cache EXCEPT ![s][g.part] = e]
    BY <1>1, <1>2 DEF Matches
  <2>2. /\ e \in [version : Nat, content : {Nil} \cup Nat \X Nat] /\ Cached(e, prod.gen)
        /\ e.version = g.want
    <3>1. prod.gen \in Nat
      BY DEF SnapInv, SnapTypes
    <3> QED
      BY <1>1, <3>1 DEF Cached
  <2> HIDE DEF e
  <2>3. /\ cache' \in [Threads -> [Parts -> [version : Nat, content : {Nil} \cup Nat \X Nat]]]
        /\ cache'[s][g.part] = e
        /\ \A p \in Parts : p # g.part => cache'[s][p] = cache[s][p]
        /\ \A u \in Threads : u # s => cache'[u] = cache[u]
    BY <1>1, <2>1, <2>2 DEF CacheInv
  <2>4. \A u \in Threads, p \in Parts : Cached(cache'[u][p], prod.gen)
    BY <2>2, <2>3 DEF CacheInv
  <2>5. /\ get'[s].res = "ok" /\ get'[s].pc = "idle" /\ get'[s].part = g.part /\ get'[s].floor = g.floor
        /\ \A u \in Threads : u # s => get'[u] = get[u]
    <3>1. get'[s] = [NoGet EXCEPT !.res = "ok", !.part = g.part, !.floor = g.floor]
      BY <1>1, <1>2 DEF Served
    <3>2. get'[s].res = "ok" /\ get'[s].pc = "idle" /\ get'[s].part = g.part /\ get'[s].floor = g.floor
      BY <3>1 DEF NoGet
    <3> QED
      BY <1>1, <1>2, <3>2
  <2>6. \A u \in Threads : ServedFrom(get'[u], cache'[u])
    <3>1. cache'[s][get'[s].part].version = g.want
      BY <2>2, <2>3, <2>5
    <3>2. ServedFrom(get'[s], cache'[s])
      BY <1>1, <2>5, <3>1 DEF ServedFrom
    <3>3. \A u \in Threads : u # s => ServedFrom(get'[u], cache'[u])
      BY <2>3, <2>5 DEF CacheInv
    <3> QED
      BY <3>2, <3>3
  <2> QED
    BY <1>1, <2>3, <2>4, <2>6 DEF CacheInv
<1>3. CASE /\ cache' = cache
           /\ get' = [get EXCEPT ![s] = GivenUp(g, "oom")] \/ get' = [get EXCEPT ![s] = NextTry(g)]
  <2>1. \A u \in Threads : u # s => get'[u] = get[u]
    BY <1>1, <1>3
  <2>2. \A r \in {"oom", "stale"} : GivenUp(g, r).res = r /\ GivenUp(g, r).pc = "idle"
    <3>1. NoGet \in Fetches /\ NoGet.pc = "idle"
      BY NoFetch DEF Fetch
    <3> QED
      BY <3>1 DEF GivenUp, Fetches
  <2>3. \/ get'[s].res \in {"oom", "stale"} /\ get'[s].pc = "idle"
        \/ /\ get'[s].res = g.res /\ get'[s].pc = "want" /\ get'[s].part = g.part
           /\ get'[s].floor = g.floor
    <3> DEFINE x == [g EXCEPT !.pc = "want", !.ptr = Nil, !.tries = @ - 1]
    <3>1. x.res = g.res /\ x.pc = "want" /\ x.part = g.part /\ x.floor = g.floor
      BY <1>1 DEF Fetches
    <3>2. get'[s] = GivenUp(g, "oom") \/ get'[s] = GivenUp(g, "stale") \/ get'[s] = x
      BY <1>1, <1>3 DEF NextTry
    <3> HIDE DEF x, g
    <3> QED
      BY <2>2, <3>1, <3>2
  <2> QED
    BY <1>1, <1>3, <2>1, <2>3, CachesStay DEF CacheInv, ServedFrom
<1> QED
  BY <1>2, <1>3 DEF ReleaseHeld

\* A new producer with senders of its own has empty caches.
LEMMA CacheCreate ==
  ASSUME SnapInv, Create, SharedEnv = FALSE
  PROVE  CacheInv'
<1>1. cache' = NoCaches /\ get' = [s \in Threads |-> NoGet]
  BY DEF Create
<1>2. EmptyCache \in [version : Nat, content : {Nil} \cup Nat \X Nat]
  BY DEF EmptyCache
<1>3. /\ cache' \in [Threads -> [Parts -> [version : Nat, content : {Nil} \cup Nat \X Nat]]]
      /\ \A s \in Threads, p \in Parts : cache'[s][p] = EmptyCache
  BY <1>1, <1>2 DEF NoCaches
<1>4. \A s \in Threads : ServedFrom(get'[s], cache'[s])
  BY <1>1, NoFetch DEF ServedFrom
<1> QED
  BY <1>3, <1>4 DEF CacheInv, Cached

\* Where the senders are a producer's own, or no address is used twice, a fetch
\* that succeeds serves the configuration of its producer, at least as new as the
\* last update that had returned when it began.
THEOREM FetchesCurrent ==
  ASSUME SharedEnv = FALSE \/ MaxGens = 1
  PROVE  SnapshotSpec => []FetchCurrent
<1>1. SnapshotInit => CacheInv
  <2> SUFFICES ASSUME SnapshotInit PROVE CacheInv
    OBVIOUS
  <2>1. EmptyCache \in [version : Nat, content : {Nil} \cup Nat \X Nat]
    BY DEF EmptyCache
  <2>2. cache = NoCaches /\ get = [s \in Threads |-> NoGet]
    BY DEF SnapshotInit
  <2>3. /\ cache \in [Threads -> [Parts -> [version : Nat, content : {Nil} \cup Nat \X Nat]]]
        /\ \A s \in Threads, p \in Parts : cache[s][p] = EmptyCache
    BY <2>1, <2>2 DEF NoCaches
  <2>4. \A s \in Threads : ServedFrom(get[s], cache[s])
    BY <2>2, NoFetch DEF ServedFrom
  <2> QED
    BY <2>3, <2>4 DEF CacheInv, Cached
<1>2. SnapInv /\ Create => SharedEnv = FALSE
  BY DEF Create, SnapInv, SnapTypes
<1>3. SnapInv /\ CacheInv /\ [SnapshotNext]_snapVars => CacheInv'
  BY <1>2, CacheUpdate, CacheRead, CacheStart, CacheServed, CacheCreate DEF SnapshotNext
<1>4. SnapInv /\ CacheInv => FetchCurrent
  <2> SUFFICES ASSUME SnapInv, CacheInv, NEW s \in Threads, get[s].res = "ok"
               PROVE  LET c == cache[s][get[s].part].content
                      IN  c # Nil /\ c[1] = prod.gen /\ c[2] >= get[s].floor
    BY DEF FetchCurrent
  <2>1. get[s].part \in Parts /\ cache[s][get[s].part].version > 0 /\ get[s].floor <= cache[s][get[s].part].version
    BY DEF CacheInv, ServedFrom
  <2> DEFINE e == cache[s][get[s].part]
  <2>2. e # EmptyCache /\ Cached(e, prod.gen)
    BY <2>1 DEF CacheInv, EmptyCache
  <2>3. PICK k \in Nat \ {0} : e = [version |-> k, content |-> <<prod.gen, k>>]
    BY <2>2 DEF Cached
  <2>4. prod.gen \in Nat /\ get[s].floor \in Nat
    BY SnapFacts DEF SnapInv, SnapTypes, Fetches
  <2>5. e.version = k /\ e.content = <<prod.gen, k>> /\ e.content \in Nat \X Nat
    BY <2>3, <2>4
  <2> QED
    BY <2>1, <2>4, <2>5, SnapshotAssumption
<1> QED
  BY <1>1, <1>3, <1>4, SnapInvariance, PTL DEF SnapshotSpec
=============================================================================

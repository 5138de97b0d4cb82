------------------------------ MODULE Snapshot ------------------------------
(***************************************************************************)
(* Runtime configuration: ve_tls_snapshot.c and its users.  An update      *)
(* (ve_tls_producer_update_endpoint, ..._update_static_credentials) sets   *)
(* fields under the producer mutex, each with its own version increment,   *)
(* and then publishes a new reference-counted snapshot.  Sender threads    *)
(* never take that mutex: they compare a version with their thread-local   *)
(* cache and, on a difference, take a reference on the published snapshot, *)
(* copy it and give the reference back.                                    *)
(*                                                                         *)
(* The configuration has two parts with a version each: "cred" (the static *)
(* credentials) and "cfg" (endpoint, region, topic, ...).  The contents of *)
(* a part are abstracted to the pair <<producer, version>> that wrote it.  *)
(* A producer may be destroyed and another one created at the same         *)
(* address; gen tells them apart, the code does not.                       *)
(***************************************************************************)
EXTENDS Integers, Sequences, FiniteSets

CONSTANTS Threads,     \* threads that send
          Parts,       \* the versioned parts of the configuration
          MaxUpdates,  \* bound: update calls
          MaxFields,   \* fields one update sets, at most
          MaxGens,     \* bound: producers created at this address
          Tries,       \* attempts of ve_tls_snapshot_acquire_...: 4 in the code
          SharedEnv,   \* TRUE: the senders belong to the global environment
          MayFail,     \* TRUE: allocations may fail
          Nil

ASSUME SnapshotAssumption ==
    /\ IsFiniteSet(Threads)
    /\ MaxUpdates \in Nat /\ MaxFields \in Nat \ {0} /\ MaxGens \in Nat \ {0}
    /\ Tries \in Nat \ {0}
    /\ SharedEnv \in BOOLEAN /\ MayFail \in BOOLEAN
    /\ Nil \notin Nat /\ Nil \notin Nat \X Nat

VARIABLES ver,     \* producer->send_cfg_version, static_cred_version
          snaps,   \* every snapshot allocated: [gen, ver, refs], refs = 0: freed
          cur,     \* producer->runtime_snapshot, an index into snaps, or Nil
          upd,     \* the update call that holds the mutex
          prod,    \* [gen, open]: the producer at this address
          seed,    \* g_send_cfg_version_seed, g_static_cred_version_seed
          get,     \* each sender's progress in fetching one part
          cache,   \* g_send_cfg_cache, g_static_cred_cache
          updates  \* history: number of update calls so far

snapVars == <<ver, snaps, cur, upd, prod, seed, get, cache, updates>>

NoUpdate == [pc |-> "idle", part |-> Nil, left |-> 0, old |-> Nil]

\* floor, overlap and res are history: the published version when the fetch
\* began, whether an update was unpublished during it, and how it ended.
NoGet == [pc |-> "idle", part |-> Nil, want |-> 0, ptr |-> Nil, tries |-> 0,
          floor |-> 0, overlap |-> FALSE, res |-> "none"]

EmptyCache == [version |-> 0, content |-> Nil]

NoCaches == [s \in Threads |-> [p \in Parts |-> EmptyCache]]

NewSnapshot(g, v) == [gen |-> g, ver |-> v, refs |-> 1]

SnapshotInit ==
    /\ seed = 2
    /\ ver = [p \in Parts |-> 2]
    /\ prod = [gen |-> 1, open |-> TRUE]
    /\ snaps = <<NewSnapshot(1, [p \in Parts |-> 2])>>
    /\ cur = 1
    /\ upd = NoUpdate
    /\ get = [s \in Threads |-> NoGet]
    /\ cache = NoCaches
    /\ updates = 0

Drop(ss, i) == [ss EXCEPT ![i].refs = @ - 1]

-----------------------------------------------------------------------------
(* Updates *)

\* The call's arguments are copied and the mutex taken; a closing producer
\* answers VE_TLS_CLOSED and changes nothing.
UpdateBegin(p, n) ==
    /\ upd.pc = "idle" /\ prod.open /\ updates < MaxUpdates
    /\ upd' = [NoUpdate EXCEPT !.pc = "set", !.part = p, !.left = n]
    /\ updates' = updates + 1
    /\ UNCHANGED <<ver, snaps, cur, prod, seed, get, cache>>

\* One field: the new value, then the version.  Fetches of that part in
\* progress now overlap an update.
SetField ==
    /\ upd.pc = "set"
    /\ ver' = [ver EXCEPT ![upd.part] = @ + 1]
    /\ upd' = [upd EXCEPT !.left = @ - 1, !.pc = IF upd.left = 1 THEN "publish" ELSE "set"]
    /\ get' = [s \in Threads |-> [get[s] EXCEPT !.overlap = @ \/ (get[s].pc # "idle" /\ get[s].part = upd.part)]]
    /\ UNCHANGED <<snaps, cur, prod, seed, cache, updates>>

\* ve_tls_runtime_snapshot_refresh_locked: build, exchange, and only then
\* give back the reference of the snapshot that was published before.
Publish ==
    /\ upd.pc = "publish"
    /\ snaps' = Append(snaps, NewSnapshot(prod.gen, ver))
    /\ cur' = Len(snaps) + 1
    /\ upd' = [upd EXCEPT !.pc = "release", !.old = cur]
    /\ UNCHANGED <<ver, prod, seed, get, cache, updates>>

\* No memory for the new snapshot: the fields and versions stay changed,
\* the old snapshot stays published, the call returns VE_TLS_DROP_ERROR.
PublishFails ==
    /\ MayFail /\ upd.pc = "publish"
    /\ upd' = NoUpdate
    /\ UNCHANGED <<ver, snaps, cur, prod, seed, get, cache, updates>>

ReleaseOld ==
    /\ upd.pc = "release"
    /\ snaps' = Drop(snaps, upd.old)
    /\ upd' = NoUpdate
    /\ UNCHANGED <<ver, cur, prod, seed, get, cache, updates>>

-----------------------------------------------------------------------------
(* Fetching a part for a send *)

Served(g) == [NoGet EXCEPT !.res = "ok", !.part = g.part, !.floor = g.floor]

GivenUp(g, r) == [NoGet EXCEPT !.res = r, !.overlap = g.overlap]

\* ve_tls_get_signing_credentials and ve_tls_send_put_logs begin by comparing
\* the version with the cache.  The cache also names its producer, but by
\* address only, and every producer of this model has the same address.
GetStart(s, p) ==
    /\ get[s].pc = "idle" /\ cur # Nil
    /\ LET begun == [NoGet EXCEPT !.part = p, !.floor = snaps[cur].ver[p],
                                  !.overlap = (ver[p] # snaps[cur].ver[p])]
       IN  get' = [get EXCEPT ![s] =
               IF cache[s][p].version = ver[p]
               THEN Served(begun)
               ELSE [begun EXCEPT !.pc = "want", !.tries = Tries]]
    /\ UNCHANGED <<ver, snaps, cur, upd, prod, seed, cache, updates>>

\* One attempt of ve_tls_snapshot_acquire_send_cfg / _static_cred begins by
\* reading the version it wants ...
Want(s) ==
    /\ get[s].pc = "want"
    /\ get' = [get EXCEPT ![s].pc = "load", ![s].want = ver[get[s].part]]
    /\ UNCHANGED <<ver, snaps, cur, upd, prod, seed, cache, updates>>

\* ... then ve_tls_runtime_snapshot_acquire reads the published pointer ...
LoadPointer(s) ==
    /\ get[s].pc = "load"
    /\ get' = [get EXCEPT ![s].pc = "count", ![s].ptr = cur]
    /\ UNCHANGED <<ver, snaps, cur, upd, prod, seed, cache, updates>>

\* Mutant: the reference is used but not counted.
CountNot(s) ==
    /\ get[s].pc = "count"
    /\ get' = [get EXCEPT ![s].pc = IF snaps[get[s].ptr].refs > 0 THEN "hold" ELSE "load"]
    /\ UNCHANGED <<ver, snaps, cur, upd, prod, seed, cache, updates>>

\* ... and takes a reference unless the count is 0: then it reads the pointer
\* again.  The count of a freed snapshot is memory given back: it may still be
\* the zero that ve_tls_runtime_snapshot_free wrote, or belong to somebody
\* else, in which case the sender is "wild" and says nothing more.
Count(s) ==
    /\ get[s].pc = "count"
    /\ IF snaps[get[s].ptr].refs > 0
       THEN /\ snaps' = [snaps EXCEPT ![get[s].ptr].refs = @ + 1]
            /\ get' = [get EXCEPT ![s].pc = "hold"]
       ELSE /\ UNCHANGED snaps
            /\ \/ get' = [get EXCEPT ![s].pc = "load", ![s].ptr = Nil]
               \/ get' = [get EXCEPT ![s] = [NoGet EXCEPT !.pc = "wild"]]
    /\ UNCHANGED <<ver, cur, upd, prod, seed, cache, updates>>

\* Mutant: only a newer snapshot will do.
MatchesNewer(s, snapshot) == snapshot.ver[get[s].part] > get[s].want

Matches(s, snapshot) == snapshot.ver[get[s].part] = get[s].want

\* The next attempt, or the end of the fetch after the last one.
NextTry(g) == IF g.tries = 1 THEN GivenUp(g, "stale")
              ELSE [g EXCEPT !.pc = "want", !.ptr = Nil, !.tries = @ - 1]

\* The reference is given back.  With the wanted version the part has been
\* copied into the cache; copying may run out of memory.
ReleaseHeld(s) ==
    /\ get[s].pc = "hold"
    /\ LET held == snaps[get[s].ptr]
           p == get[s].part
       IN \/ /\ Matches(s, held)
             /\ cache' = [cache EXCEPT ![s][p] =
                    [version |-> get[s].want, content |-> <<held.gen, held.ver[p]>>]]
             /\ get' = [get EXCEPT ![s] = Served(get[s])]
          \/ /\ Matches(s, held) /\ MayFail
             /\ get' = [get EXCEPT ![s] = GivenUp(get[s], "oom")]
             /\ UNCHANGED cache
          \/ /\ ~Matches(s, held)
             /\ get' = [get EXCEPT ![s] = NextTry(get[s])]
             /\ UNCHANGED cache
    /\ snaps' = Drop(snaps, get[s].ptr)
    /\ UNCHANGED <<ver, cur, upd, prod, seed, updates>>

-----------------------------------------------------------------------------
(* The producer's life *)

Close ==
    /\ prod.open /\ upd.pc = "idle"
    /\ prod' = [prod EXCEPT !.open = FALSE]
    /\ UNCHANGED <<ver, snaps, cur, upd, seed, get, cache, updates>>

\* ve_tls_runtime_snapshot_clear, the last user of the snapshot gone.
Clear ==
    /\ ~prod.open /\ cur # Nil /\ upd.pc = "idle"
    /\ \A s \in Threads : get[s].pc \in {"idle", "wild"}
    /\ snaps' = Drop(snaps, cur)
    /\ cur' = Nil
    /\ get' = [s \in Threads |-> [NoGet EXCEPT !.pc = get[s].pc]]
    /\ UNCHANGED <<ver, upd, prod, seed, cache, updates>>

\* Mutant: the threads of the next producer start with the caches of the last.
CreateKeepsCaches ==
    /\ cur = Nil /\ prod.gen < MaxGens
    /\ seed' = seed + 1
    /\ ver' = [p \in Parts |-> seed + 1]
    /\ prod' = [gen |-> prod.gen + 1, open |-> TRUE]
    /\ snaps' = Append(snaps, NewSnapshot(prod.gen + 1, [p \in Parts |-> seed + 1]))
    /\ cur' = Len(snaps) + 1
    /\ UNCHANGED <<cache, get, upd, updates>>

\* ve_tls_producer_create: its versions start from a counter of the process.
\* A producer with senders of its own starts new threads, with empty caches;
\* the environment's senders keep theirs.
Create ==
    /\ cur = Nil /\ prod.gen < MaxGens
    /\ seed' = seed + 1
    /\ ver' = [p \in Parts |-> seed + 1]
    /\ prod' = [gen |-> prod.gen + 1, open |-> TRUE]
    /\ snaps' = Append(snaps, NewSnapshot(prod.gen + 1, [p \in Parts |-> seed + 1]))
    /\ cur' = Len(snaps) + 1
    /\ IF SharedEnv THEN UNCHANGED <<cache, get>>
       ELSE cache' = NoCaches /\ get' = [s \in Threads |-> NoGet]
    /\ UNCHANGED <<upd, updates>>

SnapshotNext ==
    \/ \E p \in Parts, n \in 1..MaxFields : UpdateBegin(p, n)
    \/ SetField \/ Publish \/ PublishFails \/ ReleaseOld
    \/ \E s \in Threads, p \in Parts : GetStart(s, p)
    \/ \E s \in Threads : Want(s) \/ LoadPointer(s) \/ Count(s) \/ ReleaseHeld(s)
    \/ Close \/ Clear \/ Create

SnapshotSpec == SnapshotInit /\ [][SnapshotNext]_snapVars

-----------------------------------------------------------------------------
(* Properties *)

\* The state has the types the code gives it; a fetch holds a snapshot only
\* between the count and the release.
SnapshotTypeOK ==
    /\ ver \in [Parts -> Nat] /\ seed \in Nat
    /\ \A i \in DOMAIN snaps : snaps[i].refs \in Nat /\ snaps[i].gen \in 1..MaxGens
    /\ cur \in DOMAIN snaps \cup {Nil}
    /\ upd.pc \in {"idle", "set", "publish", "release"}
    /\ \A s \in Threads :
        /\ get[s].pc \in {"idle", "want", "load", "count", "hold", "wild"}
        /\ get[s].tries \in 0..Tries
        /\ get[s].res \in {"none", "ok", "oom", "stale"}
        /\ get[s].pc = "hold" => get[s].ptr \in DOMAIN snaps

\* ve_tls_runtime_snapshot_acquire and _release balance: the count of every
\* snapshot is its publication, plus the fetches that hold it, plus the
\* release the update still owes.  So a held or published snapshot is never
\* freed, and one nobody refers to always is, also after the producer ended.
RefsExact ==
    /\ SnapshotTypeOK
    /\ \A i \in DOMAIN snaps :
        snaps[i].refs = (IF cur = i THEN 1 ELSE 0)
                      + (IF upd.pc = "release" /\ upd.old = i THEN 1 ELSE 0)
                      + Cardinality({s \in Threads : get[s].pc = "hold" /\ get[s].ptr = i})

\* A fetch that succeeds serves the configuration of the producer it is for,
\* at least as new as the last update that had returned when it began.
FetchCurrent ==
    \A s \in Threads : get[s].res = "ok" =>
        LET c == cache[s][get[s].part].content
        IN  c # Nil /\ c[1] = prod.gen /\ c[2] >= get[s].floor

\* A fetch gives up (and its batch is dropped as not retryable) only when an
\* update was in progress or had failed to publish while it ran.
FailureExplained ==
    \A s \in Threads : get[s].res = "stale" => get[s].overlap

\* What a send uses is the configuration of its own producer.
OwnConfig ==
    \A s \in Threads : get[s].res = "ok" => cache[s][get[s].part].content[1] = prod.gen
=============================================================================

------------------------------- MODULE ObjPool ------------------------------
(***************************************************************************)
(* The object pool (ve_tls_pool.c): a lock-free list of free objects.  An  *)
(* object in the list holds the pointer to the next one; once handed out,  *)
(* the user's data is in the same place.  A get reads the head, then the   *)
(* head's next pointer, then exchanges the head if it is still the same.   *)
(*                                                                         *)
(* The tasks of the send queue are taken from their pool under the queue's *)
(* mutex and given back without it; the pools of header and compression    *)
(* buffers have a get per sender or worker thread.  OneGetter says that    *)
(* gets exclude each other, as with that mutex or with one thread.         *)
(***************************************************************************)
EXTENDS Integers, FiniteSets

CONSTANTS Users,      \* threads
          Objects,    \* memory blocks of the pool's object size
          MaxCached,  \* pool->max_cached
          OneGetter,  \* TRUE: at most one thread is in a get
          Null

ASSUME ObjPoolAssumption ==
    /\ IsFiniteSet(Users) /\ IsFiniteSet(Objects) /\ Null \notin Objects
    /\ Users \cap {"pool", "heap"} = {}
    /\ MaxCached \in Nat \ {0} /\ OneGetter \in BOOLEAN

VARIABLES top,      \* pool->head
          link,     \* the first word of each object: its next pointer
          cached,   \* pool->cached
          owner,    \* history: who has each object: a user, "pool" or "heap"
          step      \* each user's progress: [at, obj, seen, next]

poolVars == <<top, link, cached, owner, step>>

NoStep == [at |-> "idle", obj |-> Null, seen |-> Null, next |-> Null]

PoolInit ==
    /\ top = Null /\ cached = 0
    /\ link = [o \in Objects |-> Null]
    /\ owner = [o \in Objects |-> "heap"]
    /\ step = [u \in Users |-> NoStep]

Getting(u) == step[u].at \in {"load", "next", "take"}

GetCall(u) ==
    /\ step[u].at = "idle"
    /\ OneGetter => \A v \in Users : ~Getting(v)
    /\ step' = [step EXCEPT ![u].at = "load"]
    /\ UNCHANGED <<top, link, cached, owner>>

\* An empty pool: a new object from the heap.
GetNew(u) ==
    /\ step[u].at = "load" /\ top = Null
    /\ \E o \in Objects :
        /\ owner[o] = "heap"
        /\ owner' = [owner EXCEPT ![o] = u]
        /\ step' = [step EXCEPT ![u] = NoStep]
    /\ UNCHANGED <<top, link, cached>>

GetLoad(u) ==
    /\ step[u].at = "load" /\ top # Null
    /\ step' = [step EXCEPT ![u].at = "next", ![u].seen = top]
    /\ UNCHANGED <<top, link, cached, owner>>

\* The first word of o is a link, and not a user's data, once the put of o
\* has written it.
HasLink(o) == \/ owner[o] = "pool"
              \/ \E u \in Users : step[u].at = "push" /\ step[u].obj = o

\* head->next, of an object that may have been handed out since: then any
\* value may be read.
GetNext(u) ==
    /\ step[u].at = "next"
    /\ \E o \in IF HasLink(step[u].seen) THEN {link[step[u].seen]} ELSE Objects \cup {Null} :
        step' = [step EXCEPT ![u].at = "take", ![u].next = o]
    /\ UNCHANGED <<top, link, cached, owner>>

\* Mutant: the head is stored, not compared and exchanged.
TopIsBlind(o) == TRUE

TopIs(o) == top = o

GetTake(u) ==
    /\ step[u].at = "take"
    /\ IF TopIs(step[u].seen)
       THEN /\ top' = step[u].next
            /\ owner' = [owner EXCEPT ![step[u].seen] = u]
            /\ step' = [step EXCEPT ![u] = [NoStep EXCEPT !.at = "uncount"]]
       ELSE /\ step' = [step EXCEPT ![u] = [NoStep EXCEPT !.at = "load"]]
            /\ UNCHANGED <<top, owner>>
    /\ UNCHANGED <<link, cached>>

GetUncount(u) ==
    /\ step[u].at = "uncount"
    /\ cached' = cached - 1
    /\ step' = [step EXCEPT ![u] = NoStep]
    /\ UNCHANGED <<top, link, owner>>

Full == cached >= MaxCached

\* A put counts the object before it links it; over the limit it is freed.
Put(u, o) ==
    /\ step[u].at = "idle" /\ owner[o] = u
    /\ IF Full
       THEN owner' = [owner EXCEPT ![o] = "heap"] /\ UNCHANGED <<cached, step>>
       ELSE /\ cached' = cached + 1
            /\ step' = [step EXCEPT ![u] = [NoStep EXCEPT !.at = "link", !.obj = o]]
            /\ UNCHANGED owner
    /\ UNCHANGED <<top, link>>

PutLink(u) ==
    /\ step[u].at = "link"
    /\ link' = [link EXCEPT ![step[u].obj] = top]
    /\ step' = [step EXCEPT ![u].at = "push", ![u].seen = top]
    /\ UNCHANGED <<top, cached, owner>>

PutPush(u) ==
    /\ step[u].at = "push"
    /\ IF TopIs(step[u].seen)
       THEN /\ top' = step[u].obj
            /\ owner' = [owner EXCEPT ![step[u].obj] = "pool"]
            /\ step' = [step EXCEPT ![u] = NoStep]
       ELSE /\ step' = [step EXCEPT ![u].at = "link"]
            /\ UNCHANGED <<top, owner>>
    /\ UNCHANGED <<link, cached>>

PoolNext ==
    \E u \in Users :
        \/ GetCall(u) \/ GetNew(u) \/ GetLoad(u) \/ GetNext(u) \/ GetTake(u) \/ GetUncount(u)
        \/ \E o \in Objects : Put(u, o)
        \/ PutLink(u) \/ PutPush(u)

PoolSpec == PoolInit /\ [][PoolNext]_poolVars

-----------------------------------------------------------------------------
(* Properties *)

\* The objects that can be reached from pool->head.
Chained ==
    LET at[i \in 0..Cardinality(Objects)] ==
            IF i = 0 THEN top ELSE IF at[i - 1] = Null THEN Null ELSE link[at[i - 1]]
    IN  {at[i] : i \in 0..Cardinality(Objects)} \ {Null}

\* The list holds exactly the objects that were given back and not taken
\* again: no object that a thread still uses can be handed out to another one,
\* and none is lost, although gets and puts meet between their steps.  And
\* pool->cached counts the objects in the list and those on their way in or
\* out, so it returns to the length of the list and keeps to max_cached.
PoolExact ==
    LET pooled == {o \in Objects : owner[o] = "pool"}
    IN  /\ Chained = pooled
        /\ cached = Cardinality(pooled)
                  + Cardinality({u \in Users : step[u].at \in {"link", "push", "uncount"}})
        /\ cached <= MaxCached
=============================================================================

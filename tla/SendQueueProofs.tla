----------------------------- MODULE SendQueueProofs -----------------------------
(***************************************************************************)
(* Proofs about SendQueue, for every capacity and every finite set of      *)
(* threads: the ring is well formed, no wakeup is lost, and the queue      *)
(* implements the bounded FIFO SendFifo.                                   *)
(***************************************************************************)
EXTENDS SendQueue, FiniteSetTheorems, TLAPS

-----------------------------------------------------------------------------
(* Lemmas about the operators of SendQueue.                                *)

\* An index that ran past the end of the ring is brought back by one lap.
LEMMA WrapFacts ==
  ASSUME NEW i \in 0..(2 * Cap - 1)
  PROVE  i % Cap = IF i < Cap THEN i ELSE i - Cap
  BY SendQueueAssumption

\* The index after i.
LEMMA SuccFacts ==
  ASSUME NEW i \in 0..(Cap - 1)
  PROVE  Succ(i) = (IF i + 1 = Cap THEN 0 ELSE i + 1) /\ Succ(i) \in 0..(Cap - 1)
  BY SendQueueAssumption, WrapFacts DEF Succ

\* A signal changes nothing, or moves one thread from its wait to the test.
LEMMA SignalFacts ==
  ASSUME NEW T, NEW pc \in [T -> Places], NEW pd \in Signal(pc)
  PROVE  /\ pd \in [T -> Places]
         /\ \/ pd = pc /\ Waiting(pc) = {}
            \/ \E t \in T : pc[t] = "wait" /\ pd = [pc EXCEPT ![t] = "enter"]
         /\ \A t \in T : pc[t] # "wait" => pd[t] = pc[t]
  BY DEF Signal, Waiting, Places

\* A broadcast leaves nobody waiting.
LEMMA BroadcastFacts ==
  ASSUME NEW T, NEW pc \in [T -> Places]
  PROVE  /\ Broadcast(pc) \in [T -> Places]
         /\ Waiting(Broadcast(pc)) = {}
         /\ \A t \in T : pc[t] = "idle" <=> Broadcast(pc)[t] = "idle"
  BY DEF Broadcast, Waiting, Places

\* The number of entering threads is a natural number.
LEMMA EnteringNat ==
  ASSUME NEW T, IsFiniteSet(T), NEW pc \in [T -> Places]
  PROVE  IsFiniteSet(Entering(pc)) /\ Cardinality(Entering(pc)) \in Nat
<1>1. Entering(pc) \subseteq T
  BY DEF Entering
<1> QED
  BY <1>1, FS_Subset, FS_CardinalityType

\* It does not fall when no thread stops entering.
LEMMA EnteringMonotone ==
  ASSUME NEW T, IsFiniteSet(T), NEW pc \in [T -> Places], NEW pd \in [T -> Places],
         \A t \in T : pc[t] = "enter" => pd[t] = "enter"
  PROVE  Cardinality(Entering(pc)) \leq Cardinality(Entering(pd))
<1>1. Entering(pc) \subseteq Entering(pd)
  BY DEF Entering
<1>2. IsFiniteSet(Entering(pd))
  BY EnteringNat
<1> QED
  BY <1>1, <1>2, FS_Subset

\* It falls by one when one thread does.
LEMMA EnteringLeave ==
  ASSUME NEW T, IsFiniteSet(T), NEW pc \in [T -> Places], NEW t \in T, NEW place,
         pc[t] = "enter", place # "enter"
  PROVE  Cardinality(Entering([pc EXCEPT ![t] = place])) = Cardinality(Entering(pc)) - 1
<1>1. Entering([pc EXCEPT ![t] = place]) = Entering(pc) \ {t} /\ t \in Entering(pc)
  BY DEF Entering
<1>2. IsFiniteSet(Entering(pc))
  BY EnteringNat
<1> QED
  BY <1>1, <1>2, FS_RemoveElement

\* A signal that leaves somebody waiting has woken somebody else.
LEMMA SignalWakes ==
  ASSUME NEW T, IsFiniteSet(T), NEW pc \in [T -> Places], NEW pd \in Signal(pc),
         Waiting(pd) # {}
  PROVE  /\ Waiting(pc) # {}
         /\ Cardinality(Entering(pd)) = Cardinality(Entering(pc)) + 1
<1>1. Waiting(pc) # {}
  BY SignalFacts DEF Waiting
<1>2. PICK t \in T : pc[t] = "wait" /\ pd = [pc EXCEPT ![t] = "enter"]
  BY <1>1, SignalFacts
<1>3. Entering(pd) = Entering(pc) \cup {t} /\ t \notin Entering(pc)
  BY <1>2 DEF Entering
<1>4. IsFiniteSet(Entering(pc))
  BY EnteringNat
<1> QED
  BY <1>1, <1>3, <1>4, FS_AddElement

-----------------------------------------------------------------------------
(* The ring.                                                               *)

\* The inductive invariant: the types and the shape of the ring.
RingInv == QueueTypeOK /\ RingOK

\* The actions that leave the ring alone.
RingQuiet ==
  \/ \E p \in Pushers, x \in Items, w \in PushWaits : PushCall(p, x, w)
  \/ \E p \in Pushers : PushFail(p) \/ PushWait(p) \/ PushTimeout(p) \/ PushSpurious(p)
  \/ \E c \in Poppers, w \in PopWaits : PopCall(c, w)
  \/ \E c \in Poppers : PopFail(c) \/ PopWait(c) \/ PopTimeout(c) \/ PopSpurious(c)
  \/ StopQueue

\* The next-state relation, with the two actions on the ring apart.
LEMMA QueueNextCases ==
  ASSUME QueueNext
  PROVE  \/ RingQuiet
         \/ \E p \in Pushers : PushStore(p)
         \/ \E c \in Poppers : PopTake(c)
  BY DEF QueueNext, RingQuiet, PushStep, PopStep

\* The ring is well formed at the start.
LEMMA RingInit ==
  ASSUME QueueInit
  PROVE  RingInv
<1>1. Cap \in Nat /\ Cap > 0
  BY SendQueueAssumption
<1>2. QueueTypeOK
  <2>1. /\ buf \in [0..(Cap - 1) -> Items \cup {None}]
        /\ head \in 0..(Cap - 1) /\ tail \in 0..(Cap - 1) /\ count \in 0..Cap
    BY <1>1 DEF QueueInit
  <2>2. /\ ppc \in [Pushers -> Places] /\ cpc \in [Poppers -> Places]
        /\ pwait \in [Pushers -> Waits] /\ cwait \in [Poppers -> Waits]
        /\ item \in [Pushers -> Items \cup {None}]
        /\ \A p \in Pushers : ppc[p] # "idle" => item[p] \in Items
    BY DEF QueueInit, Places, Waits
  <2>3. stop \in BOOLEAN
    BY DEF QueueInit
  <2>4. taken \in Seq(Items)
    BY DEF QueueInit
  <2> QED
    BY <2>1, <2>2, <2>3, <2>4 DEF QueueTypeOK
<1>3. RingOK
  BY <1>1 DEF QueueInit, RingOK, InRing
<1> QED
  BY <1>2, <1>3 DEF RingInv

\* A thread that enters, waits, wakes up or gives up keeps it well formed.
LEMMA RingQuietInv ==
  ASSUME RingInv, RingQuiet
  PROVE  RingInv'
<1>1. buf' = buf /\ head' = head /\ tail' = tail /\ count' = count /\ taken' = taken
  BY DEF RingQuiet, PushCall, PushFail, PushWait, PushTimeout, PushSpurious,
         PopCall, PopFail, PopWait, PopTimeout, PopSpurious, StopQueue, ringVars
<1>2. RingOK'
  BY <1>1 DEF RingInv, RingOK, InRing
<1>3. QueueTypeOK'
  <2> USE DEF RingInv, QueueTypeOK
  <2>1. CASE \E p \in Pushers, x \in Items, w \in PushWaits : PushCall(p, x, w)
    BY <1>1, <2>1, SendQueueAssumption DEF PushCall, popVars, Places
  <2>2. CASE \E p \in Pushers :
               PushFail(p) \/ PushWait(p) \/ PushTimeout(p) \/ PushSpurious(p)
    BY <1>1, <2>2
    DEF PushFail, PushWait, PushTimeout, PushSpurious, popVars, Places, Waits
  <2>3. CASE \E c \in Poppers, w \in PopWaits : PopCall(c, w)
    BY <1>1, <2>3, SendQueueAssumption DEF PopCall, pushVars, Places
  <2>4. CASE \E c \in Poppers :
               PopFail(c) \/ PopWait(c) \/ PopTimeout(c) \/ PopSpurious(c)
    BY <1>1, <2>4
    DEF PopFail, PopWait, PopTimeout, PopSpurious, pushVars, Places, Waits
  <2>5. CASE StopQueue
    BY <1>1, <2>5, BroadcastFacts DEF StopQueue
  <2> QED
    BY <2>1, <2>2, <2>3, <2>4, <2>5 DEF RingQuiet
<1> QED
  BY <1>2, <1>3 DEF RingInv

\* A push fills the slot at tail, which is free.
LEMMA PushStoreInv ==
  ASSUME RingInv, NEW p \in Pushers, PushStore(p)
  PROVE  RingInv' /\ ~InRing(tail) /\ count < Cap
<1>1. /\ count < Cap /\ count' = count + 1 /\ head' = head
      /\ item[p] \in Items
      /\ buf' = [buf EXCEPT ![tail] = item[p]]
  <2>1. count < Cap
    BY SendQueueAssumption DEF PushStore, PushBlocked, RingInv, QueueTypeOK
  <2> QED
    BY <2>1 DEF PushStore, RingInv, QueueTypeOK
<1>2. tail' = (IF tail + 1 = Cap THEN 0 ELSE tail + 1) /\ tail' \in 0..(Cap - 1)
  BY SuccFacts DEF PushStore, RingInv, QueueTypeOK
<1>3. ~InRing(tail)
  BY <1>1, SendQueueAssumption DEF RingInv, QueueTypeOK, RingOK, InRing
<1>4. RingOK'
  <2>1. tail' = IF head' + count' < Cap THEN head' + count' ELSE head' + count' - Cap
    BY <1>1, <1>2, SendQueueAssumption DEF RingInv, QueueTypeOK, RingOK
  <2>2. ASSUME NEW i \in 0..(Cap - 1)
        PROVE  InRing(i)' <=> InRing(i) \/ i = tail
    BY <1>1, SendQueueAssumption DEF RingInv, QueueTypeOK, RingOK, InRing
  <2>3. ASSUME NEW i \in 0..(Cap - 1)
        PROVE  buf'[i] # None <=> InRing(i)'
    BY <1>1, <2>2, SendQueueAssumption DEF RingInv, QueueTypeOK, RingOK
  <2> QED
    BY <1>1, <2>1, <2>3, SendQueueAssumption DEF RingOK, RingInv, QueueTypeOK
<1>5. cpc' \in [Poppers -> Places]
  BY SignalFacts DEF PushStore, WakePopper, RingInv, QueueTypeOK
<1>6. QueueTypeOK'
  BY <1>1, <1>2, <1>5, SendQueueAssumption DEF PushStore, RingInv, QueueTypeOK, Places
<1> QED
  BY <1>1, <1>3, <1>4, <1>6 DEF RingInv

\* A pop empties the slot at head, which holds a task.
LEMMA PopTakeInv ==
  ASSUME RingInv, NEW c \in Poppers, PopTake(c)
  PROVE  RingInv' /\ buf[head] \in Items
<1>1. /\ count > 0 /\ count' = count - 1 /\ tail' = tail
      /\ buf' = [buf EXCEPT ![head] = None]
  BY DEF PopTake, RingInv, QueueTypeOK
<1>2. head' = (IF head + 1 = Cap THEN 0 ELSE head + 1) /\ head' \in 0..(Cap - 1)
  BY SuccFacts DEF PopTake, RingInv, QueueTypeOK
<1>3. InRing(head)
  BY <1>1, SendQueueAssumption DEF RingInv, QueueTypeOK, RingOK, InRing
<1>4. buf[head] \in Items
  BY <1>3 DEF RingInv, QueueTypeOK, RingOK
<1>5. RingOK'
  <2>1. tail' = IF head' + count' < Cap THEN head' + count' ELSE head' + count' - Cap
    BY <1>1, <1>2, SendQueueAssumption DEF RingInv, QueueTypeOK, RingOK
  <2>2. ASSUME NEW i \in 0..(Cap - 1)
        PROVE  InRing(i)' <=> InRing(i) /\ i # head
    BY <1>1, <1>2, SendQueueAssumption DEF RingInv, QueueTypeOK, RingOK, InRing
  <2>3. ASSUME NEW i \in 0..(Cap - 1)
        PROVE  buf'[i] # None <=> InRing(i)'
    BY <1>1, <2>2 DEF RingInv, QueueTypeOK, RingOK
  <2>4. count' \leq Cap
    BY <1>1, SendQueueAssumption DEF RingInv, QueueTypeOK
  <2> QED
    BY <2>1, <2>3, <2>4 DEF RingOK
<1>6. ppc' \in [Pushers -> Places] /\ \A p \in Pushers : ppc'[p] # "idle" => ppc[p] # "idle"
  <2>1. ppc \in [Pushers -> Places] /\ ppc' \in Signal(ppc)
    BY DEF PopTake, WakePusher, RingInv, QueueTypeOK
  <2> QED
    BY <2>1, SignalFacts
<1>7. taken' \in Seq(Items)
  BY <1>4 DEF PopTake, RingInv, QueueTypeOK
<1>8. QueueTypeOK'
  BY <1>1, <1>2, <1>6, <1>7, SendQueueAssumption DEF PopTake, RingInv, QueueTypeOK, Places
<1> QED
  BY <1>4, <1>5, <1>8 DEF RingInv

\* Every step keeps the ring well formed.
LEMMA RingNext ==
  ASSUME RingInv, [QueueNext]_queueVars
  PROVE  RingInv'
<1>1. CASE QueueNext
  BY <1>1, QueueNextCases, RingQuietInv, PushStoreInv, PopTakeInv
<1>2. CASE UNCHANGED queueVars
  BY <1>2 DEF queueVars, ringVars, pushVars, popVars, RingInv, QueueTypeOK, RingOK, InRing
<1> QED
  BY <1>1, <1>2

\* The ring of ve_tls_send_queue is well formed: head, tail and count agree,
\* the slots between head and tail hold tasks and the others are NULL.
THEOREM RingCorrect == QueueSpec => [](QueueTypeOK /\ RingOK)
<1>1. QueueSpec => []RingInv
  BY RingInit, RingNext, PTL DEF QueueSpec
<1> QED
  BY <1>1, PTL DEF RingInv

-----------------------------------------------------------------------------
(* The wakeups.                                                            *)

\* No step loses the wakeup of a popper.
LEMMA PopperWakeupNext ==
  ASSUME RingInv, PopperWakeup, [QueueNext]_queueVars
  PROVE  PopperWakeup'
<1>1. /\ cpc \in [Poppers -> Places] /\ cpc' \in [Poppers -> Places]
      /\ count \in Nat /\ count' \in Nat /\ IsFiniteSet(Poppers)
  <2>1. RingInv'
    BY RingNext
  <2> QED
    BY <2>1, SendQueueAssumption DEF RingInv, QueueTypeOK
<1>2. Cardinality(Entering(cpc)) \in Nat /\ Cardinality(Entering(cpc')) \in Nat
  BY <1>1, EnteringNat
<1>3. SUFFICES ASSUME Waiting(cpc') # {}
               PROVE  ~stop' /\ count' \leq Cardinality(Entering(cpc'))
  BY DEF PopperWakeup
<1>4. CASE \E p \in Pushers : PushStore(p)
  <2>1. cpc' \in Signal(cpc) /\ stop' = stop /\ count' = count + 1
    BY <1>4 DEF PushStore, WakePopper
  <2>2. Waiting(cpc) # {} /\ Cardinality(Entering(cpc')) = Cardinality(Entering(cpc)) + 1
    BY <1>1, <1>3, <2>1, SignalWakes
  <2> QED
    BY <1>1, <1>2, <2>1, <2>2 DEF PopperWakeup
<1>5. CASE \E c \in Poppers : PopTake(c)
  <2>1. PICK c \in Poppers : PopTake(c)
    BY <1>5
  <2>2. /\ cpc[c] = "enter" /\ cpc' = [cpc EXCEPT ![c] = "idle"]
        /\ stop' = stop /\ count' = count - 1
    BY <2>1 DEF PopTake
  <2>3. Cardinality(Entering(cpc')) = Cardinality(Entering(cpc)) - 1
    BY <1>1, <2>2, EnteringLeave
  <2>4. Waiting(cpc) # {}
    BY <1>1, <1>3, <2>2 DEF Waiting
  <2> QED
    BY <1>1, <1>2, <2>2, <2>3, <2>4 DEF PopperWakeup
<1>6. CASE \E c \in Poppers : PopFail(c) \/ PopWait(c)
  <2>1. count = 0 /\ count' = 0 /\ stop' = stop
    BY <1>6 DEF PopFail, PopWait, ringVars
  <2>2. CASE \E c \in Poppers : PopWait(c)
    BY <1>2, <2>1, <2>2 DEF PopWait
  <2>3. CASE \E c \in Poppers : PopFail(c)
    <3>1. Waiting(cpc) # {}
      BY <1>1, <1>3, <2>3 DEF PopFail, Waiting
    <3> QED
      BY <1>2, <2>1, <3>1 DEF PopperWakeup
  <2> QED
    BY <1>6, <2>2, <2>3
<1>7. CASE \/ UNCHANGED <<cpc, stop, count>>
           \/ \E c \in Poppers, w \in PopWaits : PopCall(c, w)
           \/ \E c \in Poppers : PopTimeout(c) \/ PopSpurious(c)
  <2>1. /\ stop' = stop /\ count' = count
        /\ \A t \in Poppers : cpc[t] = "enter" => cpc'[t] = "enter"
        /\ \A t \in Poppers : cpc'[t] = "wait" => cpc[t] = "wait"
    BY <1>1, <1>7 DEF PopCall, PopTimeout, PopSpurious, ringVars
  <2>2. Waiting(cpc) # {}
    BY <1>1, <1>3, <2>1 DEF Waiting
  <2>3. Cardinality(Entering(cpc)) \leq Cardinality(Entering(cpc'))
    BY <1>1, <2>1, EnteringMonotone
  <2> QED
    BY <1>1, <1>2, <2>1, <2>2, <2>3 DEF PopperWakeup
<1>8. CASE StopQueue
  BY <1>1, <1>3, <1>8, BroadcastFacts DEF StopQueue
<1>9. CASE \/ UNCHANGED queueVars
           \/ \E p \in Pushers, x \in Items, w \in PushWaits : PushCall(p, x, w)
           \/ \E p \in Pushers :
                PushFail(p) \/ PushWait(p) \/ PushTimeout(p) \/ PushSpurious(p)
  <2>1. UNCHANGED <<cpc, stop, count>>
    BY <1>9 DEF queueVars, ringVars, popVars, PushCall, PushFail, PushWait,
                PushTimeout, PushSpurious
  <2> QED
    BY <1>7, <2>1
<1> QED
  BY <1>4, <1>5, <1>6, <1>7, <1>8, <1>9, QueueNextCases DEF RingQuiet

\* A sender that waits for a task is not forgotten: the signals of
\* ve_tls_send_queue_push and the broadcast of ve_tls_send_queue_stop are
\* enough to wake a popper for every task, and everybody at the stop.
THEOREM PopperAwake == QueueSpec => []PopperWakeup
<1>1. QueueInit => PopperWakeup
  BY DEF QueueInit, PopperWakeup, Waiting
<1> QED
  BY <1>1, RingInit, RingNext, PopperWakeupNext, PTL DEF QueueSpec

\* No step loses the wakeup of a pusher, unless an allocation fails.
LEMMA PusherWakeupNext ==
  ASSUME RingInv, PusherWakeup, [QueueNext]_queueVars
  PROVE  PusherWakeup'
<1>1. /\ ppc \in [Pushers -> Places] /\ ppc' \in [Pushers -> Places]
      /\ count \in Nat /\ count' \in Nat /\ Cap \in Nat /\ IsFiniteSet(Pushers)
  <2>1. RingInv'
    BY RingNext
  <2> QED
    BY <2>1, SendQueueAssumption DEF RingInv, QueueTypeOK
<1>2. Cardinality(Entering(ppc)) \in Nat /\ Cardinality(Entering(ppc')) \in Nat
  BY <1>1, EnteringNat
<1>3. SUFFICES ASSUME Waiting(ppc') # {}
               PROVE  ~stop' /\ (AllocMayFail \/ Cap - count' \leq Cardinality(Entering(ppc')))
  BY DEF PusherWakeup
<1>4. CASE \E c \in Poppers : PopTake(c)
  <2>1. ppc' \in Signal(ppc) /\ stop' = stop /\ count' = count - 1
    BY <1>4 DEF PopTake, WakePusher
  <2>2. Waiting(ppc) # {} /\ Cardinality(Entering(ppc')) = Cardinality(Entering(ppc)) + 1
    BY <1>1, <1>3, <2>1, SignalWakes
  <2> QED
    BY <1>1, <1>2, <2>1, <2>2 DEF PusherWakeup
<1>5. CASE \E p \in Pushers : PushStore(p)
  <2>1. PICK p \in Pushers : PushStore(p)
    BY <1>5
  <2>2. /\ ppc[p] = "enter" /\ ppc' = [ppc EXCEPT ![p] = "idle"]
        /\ stop' = stop /\ count' = count + 1
    BY <2>1 DEF PushStore
  <2>3. Cardinality(Entering(ppc')) = Cardinality(Entering(ppc)) - 1
    BY <1>1, <2>2, EnteringLeave
  <2>4. Waiting(ppc) # {}
    BY <1>1, <1>3, <2>2 DEF Waiting
  <2> QED
    BY <1>1, <1>2, <2>2, <2>3, <2>4 DEF PusherWakeup
<1>6. CASE \E p \in Pushers : PushFail(p)
  <2>1. count' = count /\ stop' = stop
    BY <1>6 DEF PushFail, ringVars
  <2>2. Waiting(ppc) # {}
    BY <1>1, <1>3, <1>6 DEF PushFail, Waiting
  <2>3. ~stop
    BY <2>2 DEF PusherWakeup
  <2>4. AllocMayFail \/ count >= Cap
    BY <1>6, <2>3 DEF PushFail, PushBlocked
  <2> QED
    BY <1>1, <1>2, <2>1, <2>3, <2>4
<1>7. CASE \E p \in Pushers : PushWait(p)
  <2>1. count' = count /\ stop' = stop /\ ~stop /\ count >= Cap
    BY <1>7 DEF PushWait, PushBlocked, ringVars
  <2> QED
    BY <1>1, <1>2, <2>1
<1>8. CASE \/ UNCHANGED <<ppc, stop, count>>
           \/ \E p \in Pushers, x \in Items, w \in PushWaits : PushCall(p, x, w)
           \/ \E p \in Pushers : PushTimeout(p) \/ PushSpurious(p)
  <2>1. /\ stop' = stop /\ count' = count
        /\ \A t \in Pushers : ppc[t] = "enter" => ppc'[t] = "enter"
        /\ \A t \in Pushers : ppc'[t] = "wait" => ppc[t] = "wait"
    BY <1>1, <1>8 DEF PushCall, PushTimeout, PushSpurious, ringVars
  <2>2. Waiting(ppc) # {}
    BY <1>1, <1>3, <2>1 DEF Waiting
  <2>3. Cardinality(Entering(ppc)) \leq Cardinality(Entering(ppc'))
    BY <1>1, <2>1, EnteringMonotone
  <2> QED
    BY <1>1, <1>2, <2>1, <2>2, <2>3 DEF PusherWakeup
<1>9. CASE StopQueue
  BY <1>1, <1>3, <1>9, BroadcastFacts DEF StopQueue
<1>10. CASE \/ UNCHANGED queueVars
            \/ \E c \in Poppers, w \in PopWaits : PopCall(c, w)
            \/ \E c \in Poppers :
                 PopFail(c) \/ PopWait(c) \/ PopTimeout(c) \/ PopSpurious(c)
  <2>1. UNCHANGED <<ppc, stop, count>>
    BY <1>10 DEF queueVars, ringVars, pushVars, PopCall, PopFail, PopWait,
                 PopTimeout, PopSpurious
  <2> QED
    BY <1>8, <2>1
<1> QED
  BY <1>4, <1>5, <1>6, <1>7, <1>8, <1>9, <1>10, QueueNextCases DEF RingQuiet

\* A worker that waits for room is not forgotten either: every slot that a
\* ve_tls_send_queue_pop frees has a pusher on its way to it.
THEOREM PusherAwake == QueueSpec => []PusherWakeup
<1>1. QueueInit => PusherWakeup
  BY DEF QueueInit, PusherWakeup, Waiting
<1> QED
  BY <1>1, RingInit, RingNext, PusherWakeupNext, PTL DEF QueueSpec

-----------------------------------------------------------------------------
(* The refinement.                                                         *)

\* The slot of the i-th task from head h on.
At(h, i) == IF h + i - 1 < Cap THEN h + i - 1 ELSE h + i - 1 - Cap

\* The i-th slot of a ring of n tasks is one of its slots.
LEMMA SlotFacts ==
  ASSUME NEW h \in 0..(Cap - 1), NEW n \in 0..Cap, NEW i \in 1..n
  PROVE  /\ At(h, i) \in 0..(Cap - 1)
         /\ IF h + n \leq Cap THEN h \leq At(h, i) /\ At(h, i) < h + n
            ELSE h \leq At(h, i) \/ At(h, i) < h + n - Cap
  BY SendQueueAssumption DEF At

\* The slots from a head on that hold tasks are a sequence of tasks.
LEMMA RingSequence ==
  ASSUME NEW b \in [0..(Cap - 1) -> Items \cup {None}],
         NEW h \in 0..(Cap - 1), NEW n \in 0..Cap, NEW s,
         s = [i \in 1..n |-> b[(h + i - 1) % Cap]],
         \A i \in 1..n : b[At(h, i)] # None
  PROVE  s \in Seq(Items) /\ Len(s) = n /\ \A i \in 1..n : s[i] = b[At(h, i)]
<1>1. Cap \in Nat /\ Cap > 0
  BY SendQueueAssumption
<1>2. ASSUME NEW i \in 1..n
      PROVE  s[i] = b[At(h, i)] /\ s[i] \in Items
  <2>1. (h + i - 1) % Cap = At(h, i)
    <3>1. PICK x \in 0..(2 * Cap - 1) : x = h + i - 1
      BY <1>1
    <3>2. x % Cap = IF x < Cap THEN x ELSE x - Cap
      BY WrapFacts
    <3> QED
      BY <1>1, <3>1, <3>2 DEF At
  <2>2. At(h, i) \in 0..(Cap - 1)
    BY <1>1 DEF At
  <2>3. s[i] = b[At(h, i)]
    BY <2>1
  <2> QED
    BY <2>2, <2>3
<1>3. s \in [1..n -> Items]
  BY <1>2
<1> QED
  BY <1>1, <1>2, <1>3

\* The contents of the ring are a sequence of tasks.
LEMMA ContentsFacts ==
  ASSUME RingInv
  PROVE  /\ Contents \in Seq(Items) /\ Len(Contents) = count
         /\ \A i \in 1..count : Contents[i] = buf[At(head, i)]
<1>1. /\ Cap \in Nat /\ Cap > 0 /\ count \in 0..Cap /\ head \in 0..(Cap - 1)
      /\ buf \in [0..(Cap - 1) -> Items \cup {None}]
  BY SendQueueAssumption DEF RingInv, QueueTypeOK
<1>2. ASSUME NEW i \in 1..count PROVE buf[At(head, i)] # None
  <2>1. At(head, i) \in 0..(Cap - 1) /\ InRing(At(head, i))
    BY <1>1 DEF At, InRing
  <2> QED
    BY <2>1 DEF RingInv, RingOK
<1> QED
  BY <1>1, <1>2, RingSequence DEF Contents

\* ... after a step too.
LEMMA ContentsNext ==
  ASSUME RingInv'
  PROVE  /\ Contents' \in Seq(Items) /\ Len(Contents') = count'
         /\ \A i \in 1..count' : Contents'[i] = buf'[At(head', i)]
<1>1. /\ Cap \in Nat /\ Cap > 0 /\ count' \in 0..Cap /\ head' \in 0..(Cap - 1)
      /\ buf' \in [0..(Cap - 1) -> Items \cup {None}]
  BY SendQueueAssumption DEF RingInv, QueueTypeOK
<1>2. ASSUME NEW i \in 1..count' PROVE buf'[At(head', i)] # None
  <2>1. /\ At(head', i) \in 0..(Cap - 1)
        /\ IF head' + count' \leq Cap
           THEN head' \leq At(head', i) /\ At(head', i) < head' + count'
           ELSE head' \leq At(head', i) \/ At(head', i) < head' + count' - Cap
    BY <1>1, SlotFacts
  <2> QED
    BY <2>1 DEF RingInv, RingOK, InRing
<1> QED
  BY <1>1, <1>2, RingSequence DEF Contents

\* A step that leaves the ring, the stop flag and what was taken alone is a
\* stutter of the FIFO.
LEMMA FifoStutter ==
  ASSUME UNCHANGED <<buf, head, count, stop, taken>>
  PROVE  UNCHANGED Fifo!fifoVars
  BY DEF Fifo!fifoVars, Contents

\* A push that stores its task is a Put.
LEMMA FifoPut ==
  ASSUME RingInv, NEW p \in Pushers, PushStore(p)
  PROVE  Fifo!Put(item[p]) /\ item[p] \in Items
<1>1. RingInv' /\ ~InRing(tail) /\ count < Cap
  BY PushStoreInv
<1>2. /\ Cap \in Nat /\ Cap > 0 /\ count \in 0..Cap /\ head \in 0..(Cap - 1)
      /\ buf \in [0..(Cap - 1) -> Items \cup {None}] /\ tail \in 0..(Cap - 1)
      /\ tail = IF head + count < Cap THEN head + count ELSE head + count - Cap
  BY SendQueueAssumption DEF RingInv, QueueTypeOK, RingOK
<1>3. /\ ~stop /\ stop' = stop /\ taken' = taken /\ item[p] \in Items
      /\ count' = count + 1 /\ head' = head
      /\ buf' = [buf EXCEPT ![tail] = item[p]]
  BY DEF PushStore, RingInv, QueueTypeOK
<1>4. /\ Contents \in Seq(Items) /\ Len(Contents) = count
      /\ Contents' \in Seq(Items) /\ Len(Contents') = count + 1
  <2>1. Len(Contents') = count'
    BY <1>1, ContentsNext
  <2> QED
    BY <1>1, <1>3, <2>1, ContentsFacts, ContentsNext
<1>5. ASSUME NEW i \in 1..count PROVE Contents'[i] = Contents[i]
  <2>1. Contents'[i] = buf'[At(head', i)]
    BY <1>1, <1>2, <1>3, ContentsNext
  <2>2. Contents[i] = buf[At(head, i)]
    BY ContentsFacts
  <2> QED
    BY <1>1, <1>2, <1>3, <2>1, <2>2 DEF At
<1>6. Contents'[count + 1] = item[p]
  <2>1. Contents'[count + 1] = buf'[At(head', count + 1)]
    BY <1>1, <1>2, <1>3, ContentsNext
  <2> QED
    BY <1>2, <1>3, <2>1 DEF At
<1>7. Contents' = Append(Contents, item[p])
  BY <1>2, <1>3, <1>4, <1>5, <1>6
<1> QED
  BY <1>1, <1>3, <1>4, <1>7 DEF Fifo!Put

\* A pop that takes a task is a Get.
LEMMA FifoGet ==
  ASSUME RingInv, NEW c \in Poppers, PopTake(c)
  PROVE  Fifo!Get
<1>1. RingInv' /\ buf[head] \in Items
  BY PopTakeInv
<1>2. /\ Cap \in Nat /\ Cap > 0 /\ count \in 0..Cap /\ head \in 0..(Cap - 1)
      /\ buf \in [0..(Cap - 1) -> Items \cup {None}]
  BY SendQueueAssumption DEF RingInv, QueueTypeOK
<1>3. /\ count > 0 /\ count' = count - 1 /\ stop' = stop
      /\ head' = Succ(head) /\ taken' = Append(taken, buf[head])
      /\ buf' = [buf EXCEPT ![head] = None]
  BY DEF PopTake
<1>4. head' = IF head + 1 = Cap THEN 0 ELSE head + 1
  BY <1>2, <1>3, SuccFacts
<1>5. /\ Contents \in Seq(Items) /\ Len(Contents) = count
      /\ Contents' \in Seq(Items) /\ Len(Contents') = count - 1
  <2>1. Len(Contents') = count'
    BY <1>1, ContentsNext
  <2> QED
    BY <1>1, <1>3, <2>1, ContentsFacts, ContentsNext
<1>6. ASSUME NEW i \in 1..(count - 1) PROVE Contents'[i] = Contents[i + 1]
  <2>1. Contents'[i] = buf'[At(head', i)]
    BY <1>1, <1>2, <1>3, ContentsNext
  <2>2. Contents[i + 1] = buf[At(head, i + 1)]
    BY <1>2, ContentsFacts
  <2>3. /\ At(head', i) = At(head, i + 1) /\ At(head, i + 1) # head
        /\ At(head, i + 1) \in 0..(Cap - 1)
    BY <1>2, <1>4 DEF At
  <2> QED
    BY <1>2, <1>3, <2>1, <2>2, <2>3
<1>7. Head(Contents) = buf[head]
  <2>1. Contents[1] = buf[At(head, 1)]
    BY <1>2, <1>3, ContentsFacts
  <2> QED
    BY <1>2, <1>3, <1>5, <2>1 DEF At
<1>8. Contents' = Tail(Contents)
  BY <1>2, <1>3, <1>5, <1>6
<1> QED
  BY <1>2, <1>3, <1>5, <1>7, <1>8 DEF Fifo!Get

\* The send queue, a ring buffer with a mutex and two condition variables,
\* implements the bounded FIFO that can be closed: tasks leave in the order
\* in which they were pushed, none twice and none from nowhere.
THEOREM SendQueueImplementsFifo == QueueSpec => ImplementsFifo
<1>1. QueueInit => Fifo!FifoInit
  BY DEF QueueInit, Fifo!FifoInit, Contents
<1>2. ASSUME RingInv, [QueueNext]_queueVars
      PROVE  [Fifo!FifoNext]_Fifo!fifoVars
  <2>1. CASE \E p \in Pushers : PushStore(p)
    BY <1>2, <2>1, FifoPut DEF Fifo!FifoNext
  <2>2. CASE \E c \in Poppers : PopTake(c)
    BY <1>2, <2>2, FifoGet DEF Fifo!FifoNext
  <2>3. CASE StopQueue
    BY <2>3 DEF StopQueue, ringVars, Fifo!FifoNext, Fifo!CloseFifo, Contents
  <2>4. CASE RingQuiet /\ ~StopQueue
    <3>1. UNCHANGED <<buf, head, count, stop, taken>>
      BY <2>4 DEF RingQuiet, PushCall, PushFail, PushWait, PushTimeout,
             PushSpurious, PopCall, PopFail, PopWait, PopTimeout, PopSpurious, ringVars
    <3> QED
      BY <3>1, FifoStutter
  <2>5. CASE UNCHANGED queueVars
    BY <2>5, FifoStutter DEF queueVars, ringVars
  <2> QED
    BY <1>2, <2>1, <2>2, <2>3, <2>4, <2>5, QueueNextCases
<1>3. QueueSpec => []RingInv
  BY RingInit, RingNext, PTL DEF QueueSpec
<1> QED
  BY <1>1, <1>2, <1>3, PTL DEF QueueSpec, ImplementsFifo, Fifo!FifoSpec
=============================================================================

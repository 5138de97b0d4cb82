-------------------------------- MODULE SendQueue --------------------------------
(***************************************************************************)
(* The send queue (ve_tls_send_queue, ve_tls_producer_queue.c): a ring     *)
(* buffer of cap slots with a mutex of its own and two condition           *)
(* variables, between the workers, which push, and the senders, which pop. *)
(*                                                                         *)
(* A thread inside push or pop is about to test the loop condition with    *)
(* the mutex held ("enter"), or is in the wait on its condition variable   *)
(* ("wait"), which it leaves by a signal, a broadcast, a timeout or for no *)
(* reason at all.  What happens between taking and giving up the mutex is  *)
(* one action.                                                             *)
(***************************************************************************)
EXTENDS Naturals, Sequences, FiniteSets

CONSTANTS
  Pushers,        \* threads that push: the workers
  Poppers,        \* threads that pop: the senders
  Items,          \* send tasks
  None,           \* NULL
  Cap,            \* send_queue_capacity
  PushWaits,      \* the values of push's wait_ms that are used, as Waits
  PopWaits,       \* the values of pop's wait_ms that are used
  AllocMayFail    \* whether ve_tls_send_queue_task_alloc may return NULL

\* wait_ms = 0, wait_ms < 0, wait_ms > 0, and the last with its time over.
Waits == {"none", "forever", "timed", "late"}

ASSUME SendQueueAssumption ==
  /\ Cap \in Nat \ {0}
  /\ None \notin Items
  /\ IsFiniteSet(Pushers) /\ IsFiniteSet(Poppers)
  /\ PushWaits \subseteq Waits /\ PopWaits \subseteq Waits
  /\ AllocMayFail \in BOOLEAN

VARIABLES
  buf,    \* q->buf
  head,   \* q->head
  tail,   \* q->tail
  count,  \* q->count
  stop,   \* q->stop
  ppc,    \* where each pusher is
  pwait,  \* the wait_ms of its call
  item,   \* the task it pushes
  cpc,    \* where each popper is
  cwait,  \* the wait_ms of its call
  taken   \* history: the tasks that were popped, in order

ringVars == <<buf, head, tail, count>>
pushVars == <<ppc, pwait, item>>
popVars == <<cpc, cwait>>
queueVars == <<ringVars, stop, pushVars, popVars, taken>>

QueueInit ==
  /\ buf = [i \in 0..(Cap - 1) |-> None]
  /\ head = 0 /\ tail = 0 /\ count = 0
  /\ stop = FALSE
  /\ ppc = [p \in Pushers |-> "idle"]
  /\ pwait = [p \in Pushers |-> "none"]
  /\ item = [p \in Pushers |-> None]
  /\ cpc = [c \in Poppers |-> "idle"]
  /\ cwait = [c \in Poppers |-> "none"]
  /\ taken = <<>>

\* Mutant of Succ: off by one in the modulus.
SuccShort(i) == (i + 1) % (Cap - 1)

\* The index after i in the ring.
Succ(i) == (i + 1) % Cap

\* cond_signal: one of the waiting threads of pc, if there is one, goes back to
\* the test of its loop.
Signal(pc) ==
  LET W == {t \in DOMAIN pc : pc[t] = "wait"} IN
  IF W = {} THEN {pc} ELSE {[pc EXCEPT ![t] = "enter"] : t \in W}

\* cond_broadcast: all of them do.
Broadcast(pc) == [t \in DOMAIN pc |-> IF pc[t] = "wait" THEN "enter" ELSE pc[t]]

-----------------------------------------------------------------------------
(* ve_tls_send_queue_push.                                                 *)

\* A task is pushed once.
Unused(x) ==
  /\ \A p \in Pushers : item[p] # x
  /\ \A i \in DOMAIN buf : buf[i] # x
  /\ \A i \in DOMAIN taken : taken[i] # x

PushCall(p, x, w) ==
  /\ ppc[p] = "idle" /\ Unused(x)
  /\ ppc' = [ppc EXCEPT ![p] = "enter"]
  /\ pwait' = [pwait EXCEPT ![p] = w]
  /\ item' = [item EXCEPT ![p] = x]
  /\ UNCHANGED <<ringVars, stop, popVars, taken>>

PushBlocked == ~stop /\ count >= Cap

\* Mutant of WakePopper: push does not signal not_empty.
WakeNoPopper == {cpc}

\* push signals not_empty.
WakePopper == Signal(cpc)

\* The loop is left with room in the ring: the task is stored and a popper
\* is signalled.
PushStore(p) ==
  /\ ppc[p] = "enter" /\ ~stop /\ ~PushBlocked
  /\ buf' = [buf EXCEPT ![tail] = item[p]]
  /\ tail' = Succ(tail)
  /\ count' = count + 1
  /\ cpc' \in WakePopper
  /\ ppc' = [ppc EXCEPT ![p] = "idle"]
  /\ item' = [item EXCEPT ![p] = None]
  /\ UNCHANGED <<head, stop, pwait, cwait, taken>>

\* push gives up: the queue is stopped, it is full and there is no time to
\* wait, or there is no memory for the task.  The caller drops the task.
PushFail(p) ==
  /\ ppc[p] = "enter"
  /\ \/ stop
     \/ PushBlocked /\ pwait[p] \in {"none", "late"}
     \/ ~PushBlocked /\ AllocMayFail
  /\ ppc' = [ppc EXCEPT ![p] = "idle"]
  /\ item' = [item EXCEPT ![p] = None]
  /\ UNCHANGED <<ringVars, stop, pwait, popVars, taken>>

PushWait(p) ==
  /\ ppc[p] = "enter" /\ PushBlocked
  /\ pwait[p] \in {"forever", "timed"}
  /\ ppc' = [ppc EXCEPT ![p] = "wait"]
  /\ UNCHANGED <<ringVars, stop, pwait, item, popVars, taken>>

-----------------------------------------------------------------------------
(* ve_tls_send_queue_pop.                                                  *)

PopCall(c, w) ==
  /\ cpc[c] = "idle"
  /\ cpc' = [cpc EXCEPT ![c] = "enter"]
  /\ cwait' = [cwait EXCEPT ![c] = w]
  /\ UNCHANGED <<ringVars, stop, pushVars, taken>>

\* Mutant of WakePusher: pop does not signal not_full.
WakeNoPusher == {ppc}

\* pop signals not_full.
WakePusher == Signal(ppc)

\* A task is taken, after a stop too, and a pusher is signalled.
PopTake(c) ==
  /\ cpc[c] = "enter" /\ count > 0
  /\ taken' = Append(taken, buf[head])
  /\ buf' = [buf EXCEPT ![head] = None]
  /\ head' = Succ(head)
  /\ count' = count - 1
  /\ ppc' \in WakePusher
  /\ cpc' = [cpc EXCEPT ![c] = "idle"]
  /\ UNCHANGED <<tail, stop, pwait, item, cwait>>

\* pop gives up: there is nothing in the queue and no time to wait, or the
\* queue is stopped.
PopFail(c) ==
  /\ cpc[c] = "enter" /\ count = 0
  /\ stop \/ cwait[c] \in {"none", "late"}
  /\ cpc' = [cpc EXCEPT ![c] = "idle"]
  /\ UNCHANGED <<ringVars, stop, pushVars, cwait, taken>>

PopWait(c) ==
  /\ cpc[c] = "enter" /\ count = 0 /\ ~stop
  /\ cwait[c] \in {"forever", "timed"}
  /\ cpc' = [cpc EXCEPT ![c] = "wait"]
  /\ UNCHANGED <<ringVars, stop, pushVars, cwait, taken>>

-----------------------------------------------------------------------------

\* The time of a timed call is over.
PushTimeout(p) ==
  /\ ppc[p] \in {"enter", "wait"} /\ pwait[p] = "timed"
  /\ ppc' = [ppc EXCEPT ![p] = "enter"]
  /\ pwait' = [pwait EXCEPT ![p] = "late"]
  /\ UNCHANGED <<ringVars, stop, item, popVars, taken>>

PopTimeout(c) ==
  /\ cpc[c] \in {"enter", "wait"} /\ cwait[c] = "timed"
  /\ cpc' = [cpc EXCEPT ![c] = "enter"]
  /\ cwait' = [cwait EXCEPT ![c] = "late"]
  /\ UNCHANGED <<ringVars, stop, pushVars, taken>>

\* A wait may end without a reason.
PushSpurious(p) ==
  /\ ppc[p] = "wait"
  /\ ppc' = [ppc EXCEPT ![p] = "enter"]
  /\ UNCHANGED <<ringVars, stop, pwait, item, popVars, taken>>

PopSpurious(c) ==
  /\ cpc[c] = "wait"
  /\ cpc' = [cpc EXCEPT ![c] = "enter"]
  /\ UNCHANGED <<ringVars, stop, pushVars, cwait, taken>>

\* ve_tls_send_queue_stop.
StopQueue ==
  /\ ~stop
  /\ stop' = TRUE
  /\ cpc' = Broadcast(cpc)
  /\ ppc' = Broadcast(ppc)
  /\ UNCHANGED <<ringVars, pwait, item, cwait, taken>>

PushStep(p) == PushStore(p) \/ PushFail(p) \/ PushWait(p) \/ PushTimeout(p)

\* A sender that has come back from pop calls it again.
PopStep(c) ==
  \/ \E w \in PopWaits : PopCall(c, w)
  \/ PopTake(c) \/ PopFail(c) \/ PopWait(c) \/ PopTimeout(c)

QueueNext ==
  \/ \E p \in Pushers, x \in Items, w \in PushWaits : PushCall(p, x, w)
  \/ \E p \in Pushers : PushStep(p) \/ PushSpurious(p)
  \/ \E c \in Poppers : PopStep(c) \/ PopSpurious(c)
  \/ StopQueue

QueueSpec == QueueInit /\ [][QueueNext]_queueVars

\* Every thread inside push or pop runs on, time passes, and the senders keep
\* on calling pop.  Nothing relies on a spurious wakeup.
QueueFairSpec ==
  /\ QueueSpec
  /\ \A p \in Pushers : WF_queueVars(PushStep(p))
  /\ \A c \in Poppers : WF_queueVars(PopStep(c))

-----------------------------------------------------------------------------
(* Properties.                                                             *)

Places == {"idle", "enter", "wait"}

\* The types of the variables.
QueueTypeOK ==
  /\ buf \in [0..(Cap - 1) -> Items \cup {None}]
  /\ head \in 0..(Cap - 1) /\ tail \in 0..(Cap - 1) /\ count \in 0..Cap
  /\ stop \in BOOLEAN
  /\ ppc \in [Pushers -> Places] /\ cpc \in [Poppers -> Places]
  /\ pwait \in [Pushers -> Waits] /\ cwait \in [Poppers -> Waits]
  /\ item \in [Pushers -> Items \cup {None}]
  /\ \A p \in Pushers : ppc[p] # "idle" => item[p] \in Items
  /\ taken \in Seq(Items)

\* The ring is the count slots from head on, up to tail: they hold tasks, and
\* no other slot does.  The NULL test of pop is never met, and destroy frees
\* every task that is left once.
InRing(i) == IF head + count \leq Cap THEN head \leq i /\ i < head + count
             ELSE head \leq i \/ i < head + count - Cap

RingOK ==
  /\ count \leq Cap
  /\ tail = IF head + count < Cap THEN head + count ELSE head + count - Cap
  /\ \A i \in 0..(Cap - 1) : buf[i] # None <=> InRing(i)

\* No wakeup is lost although one signal wakes one thread: while a popper
\* waits there are at least as many poppers on their way to the ring as there
\* are tasks in it, and after a stop nobody waits.
Entering(pc) == {t \in DOMAIN pc : pc[t] = "enter"}
Waiting(pc) == {t \in DOMAIN pc : pc[t] = "wait"}

PopperWakeup ==
  Waiting(cpc) # {} => ~stop /\ count \leq Cardinality(Entering(cpc))

\* The same of the pushers and the free slots, as long as no allocation fails
\* under the mutex (a pusher that finds no memory leaves its slot unused and
\* tells nobody).
PusherWakeup ==
  Waiting(ppc) # {} =>
    ~stop /\ (AllocMayFail \/ Cap - count \leq Cardinality(Entering(ppc)))

\* The queue implements the bounded FIFO.
Contents == [i \in 1..count |-> buf[(head + i - 1) % Cap]]
Fifo == INSTANCE SendFifo WITH queue <- Contents, closed <- stop
ImplementsFifo == Fifo!FifoSpec

\* Every push that may wait for ever returns: what is in the queue is taken
\* and the pusher told of the room.
PushReturns == \A p \in Pushers : (ppc[p] # "idle") ~> (ppc[p] = "idle")
=============================================================================
